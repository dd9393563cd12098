----------------------------- MODULE SweepProofs -----------------------------
(***************************************************************************)
(* Theorems about what a sweep does at its two ends.                       *)
(*                                                                         *)
(* Before the scans it reconciles the projects (Discovery).  For any tree  *)
(* of directories, whatever they hold: a scan that reads its project again *)
(* finds what the pass would, and no project or manifest that is on disk   *)
(* leaves the database, in calm weather.                                   *)
(*                                                                         *)
(* After them it claims the baseline (CapabilityBaseline).  For any        *)
(* findings, projects, targets and sweeps, however the sweeps overlap and  *)
(* whatever the cache does: a finding that existed before the upgrade is   *)
(* never notified by itself, but for those whose scan broke or whose cache *)
(* could not be downloaded; and whatever becomes of a target and of the    *)
(* dispatches, it gets one summary.                                        *)
(***************************************************************************)
EXTENDS Discovery, CapabilityBaseline, FiniteSetTheorems, SequenceTheorems, TLAPS

-----------------------------------------------------------------------------
(* Discovery: the tree of directories. *)

\* What every directory has when its parent does, all directories have.
LEMMA TreeInduction ==
  ASSUME NEW S,
         \A d \in Dirs : (Parent[d] # None => Parent[d] \in S) => d \in S
  PROVE  Dirs \subseteq S
<1> SUFFICES ASSUME Dirs \ S # {} PROVE FALSE
  OBVIOUS
<1>1. PICK d \in Dirs \ S : Parent[d] \notin Dirs \ S
  BY TreeAssumption
<1> QED
  BY <1>1, ParentAssumption

\* A table is the function it holds.
LEMMA TableIs == \A f : Table(f) = f
BY DEF Table

\* The sets closed under parents: what lies in all that hold d lies above d.
Closed(S) == \A x \in S : Parent[x] # None => Parent[x] \in S
Ancestors(d) == {a \in Dirs : \A S \in SUBSET Dirs : d \in S /\ Closed(S) => a \in S}

\* They hold the directory itself, and the parents of theirs.
LEMMA AncestorsClosed ==
  ASSUME NEW d \in Dirs
  PROVE  d \in Ancestors(d) /\ Closed(Ancestors(d)) /\ Ancestors(d) \in SUBSET Dirs
BY ParentAssumption DEF Ancestors, Closed

\* They are the directory and those of its parent.
LEMMA AncestorsStep ==
  ASSUME NEW d \in Dirs
  PROVE  Ancestors(d) = {d} \cup IF Parent[d] = None THEN {} ELSE Ancestors(Parent[d])
<1>1. CASE Parent[d] = None
  <2>1. {d} \in SUBSET Dirs /\ Closed({d})
    BY <1>1 DEF Closed
  <2>2. Ancestors(d) \subseteq {d}
    BY <2>1 DEF Ancestors
  <2> QED
    BY <1>1, <2>2, AncestorsClosed
<1>2. CASE Parent[d] # None
  <2>1. Parent[d] \in Dirs
    BY <1>2, ParentAssumption
  <2>2. Ancestors(Parent[d]) \subseteq Ancestors(d)
    <3>1. Parent[d] \in Ancestors(d)
      BY <1>2, AncestorsClosed DEF Closed
    <3> QED
      BY <3>1, AncestorsClosed DEF Ancestors
  <2>3. Ancestors(d) \subseteq {d} \cup Ancestors(Parent[d])
    <3> DEFINE S == {d} \cup Ancestors(Parent[d])
    <3>1. S \in SUBSET Dirs /\ d \in S /\ Closed(S)
      BY <2>1, AncestorsClosed DEF Closed
    <3> HIDE DEF S
    <3>2. Ancestors(d) \subseteq S
      BY <3>1 DEF Ancestors
    <3> QED
      BY <3>2 DEF S
  <2> QED
    BY <1>2, <2>2, <2>3, AncestorsClosed
<1> QED
  BY <1>1, <1>2

\* Above is well defined: a directory, and what is above its parent.
LEMMA AboveIs ==
  /\ Above = [d \in Dirs |-> Above[d]]
  /\ \A d \in Dirs : Above[d] = {d} \cup IF Parent[d] = None THEN {} ELSE Above[Parent[d]]
  /\ \A d \in Dirs : Above[d] \subseteq Dirs
<1> DEFINE Good(f) == f = [d \in Dirs |-> {d} \cup IF Parent[d] = None THEN {} ELSE f[Parent[d]]]
           up == CHOOSE f : Good(f)
           anc == [d \in Dirs |-> Ancestors(d)]
<1>1. Good(anc)
  <2>1. \A d \in Dirs : Parent[d] # None => Parent[d] \in Dirs
    BY ParentAssumption
  <2> QED
    BY <2>1, AncestorsStep
<1>2. Good(up)
  <2> HIDE DEF Good, anc
  <2> QED
    BY <1>1
<1>3. Above = Table(up)
  BY DEF Above
<1> HIDE DEF up
<1>4. up = [d \in Dirs |-> up[d]]
  BY <1>2
<1>5. Above = up
  BY <1>3, TableIs
<1>6. \A d \in Dirs : up[d] = {d} \cup IF Parent[d] = None THEN {} ELSE up[Parent[d]]
  BY <1>2
<1>7. \A d \in Dirs : up[d] \subseteq Dirs
  <2> DEFINE S == {d \in Dirs : up[d] \subseteq Dirs}
  <2>1. ASSUME NEW d \in Dirs, Parent[d] # None => Parent[d] \in S
        PROVE  d \in S
    BY <1>6, <2>1
  <2> HIDE DEF S
  <2>2. Dirs \subseteq S
    BY <2>1, TreeInduction
  <2> QED
    BY <2>2 DEF S
<1> QED
  BY <1>4, <1>5, <1>6, <1>7

\* What lies above a directory is it, or lies above its parent.
LEMMA AboveParent ==
  ASSUME NEW d \in Dirs, NEW a
  PROVE  /\ d \in Above[d]
         /\ a \in Above[d] => a = d \/ (Parent[d] \in Dirs /\ a \in Above[Parent[d]])
         /\ Parent[d] \in Dirs /\ a \in Above[Parent[d]] => a \in Above[d]
         /\ Parent[d] \in Dirs => Parent[d] \in Above[d]
<1>1. Parent[d] \in Dirs \/ Parent[d] = None
  BY ParentAssumption
<1>2. CASE Parent[d] = None
  <2>1. Above[d] = {d}
    BY <1>2, AboveIs
  <2> QED
    BY <1>2, <2>1, ParentAssumption
<1>3. CASE Parent[d] \in Dirs
  <2>1. Above[d] = {d} \cup Above[Parent[d]]
    BY <1>3, AboveIs, ParentAssumption
  <2>2. Parent[d] \in Above[Parent[d]]
    BY <1>3, AboveIs
  <2> QED
    BY <1>3, <2>1, <2>2
<1> QED
  BY <1>1, <1>2, <1>3

\* Above is an order ...
LEMMA AboveTransitive ==
  ASSUME NEW a \in Dirs, NEW b \in Dirs, NEW c \in Dirs, a \in Above[b], b \in Above[c]
  PROVE  a \in Above[c]
<1> DEFINE S == {x \in Dirs : b \in Above[x] => a \in Above[x]}
<1>1. ASSUME NEW x \in Dirs, Parent[x] # None => Parent[x] \in S
      PROVE  x \in S
  BY <1>1, AboveParent, ParentAssumption
<1> HIDE DEF S
<1>2. Dirs \subseteq S
  BY <1>1, TreeInduction
<1> QED
  BY <1>2 DEF S

\* ... in which no directory lies above its parent ...
LEMMA AboveParentNot ==
  ASSUME NEW d \in Dirs, Parent[d] \in Dirs
  PROVE  d \notin Above[Parent[d]]
<1> DEFINE S == {x \in Dirs : Parent[x] \in Dirs => x \notin Above[Parent[x]]}
<1>1. ASSUME NEW x \in Dirs, Parent[x] # None => Parent[x] \in S
      PROVE  x \in S
  <2> SUFFICES ASSUME Parent[x] \in Dirs, x \in Above[Parent[x]]
               PROVE  FALSE
    OBVIOUS
  <2>1. Parent[x] \in S
    BY <1>1, ParentAssumption
  <2>2. CASE x = Parent[x]
    <3>1. {x} \in (SUBSET Dirs) \ {{}}
      OBVIOUS
    <3> QED
      BY <2>2, <3>1, TreeAssumption
  <2>3. CASE Parent[Parent[x]] \in Dirs /\ x \in Above[Parent[Parent[x]]]
    <3>1. Parent[x] \in Above[x]
      BY AboveParent
    <3>2. Parent[x] \in Above[Parent[Parent[x]]]
      BY <2>3, <3>1, AboveTransitive
    <3> QED
      BY <2>1, <2>3, <3>2
  <2> QED
    BY <2>2, <2>3, AboveParent
<1> HIDE DEF S
<1>2. Dirs \subseteq S
  BY <1>1, TreeInduction
<1> QED
  BY <1>2 DEF S

\* ... nor two above each other ...
LEMMA AboveAntisymmetric ==
  ASSUME NEW a \in Dirs, NEW b \in Dirs, a \in Above[b], b \in Above[a]
  PROVE  a = b
<1> SUFFICES ASSUME a # b PROVE FALSE
  OBVIOUS
<1>1. Parent[b] \in Dirs /\ a \in Above[Parent[b]]
  BY AboveParent
<1>2. b \in Above[Parent[b]]
  BY <1>1, AboveTransitive
<1> QED
  BY <1>1, <1>2, AboveParentNot

\* ... and what lies above one directory lies in a line.
LEMMA AboveChain ==
  ASSUME NEW c \in Dirs, NEW a \in Above[c], NEW b \in Above[c]
  PROVE  a \in Above[b] \/ b \in Above[a]
<1> DEFINE S == {x \in Dirs : \A y, z \in Above[x] : y \in Above[z] \/ z \in Above[y]}
<1>1. ASSUME NEW x \in Dirs, Parent[x] # None => Parent[x] \in S
      PROVE  x \in S
  BY <1>1, AboveParent, ParentAssumption
<1> HIDE DEF S
<1>2. Dirs \subseteq S
  BY <1>1, TreeInduction
<1> QED
  BY <1>2 DEF S

\* The directories below r: r, and those whose parent is one of them.
LEMMA BelowIs ==
  ASSUME NEW r \in Dirs
  PROVE  /\ Below(r) \subseteq Dirs /\ r \in Below(r)
         /\ \A d \in Below(r) : d # r => Parent[d] \in Below(r)
         /\ \A d \in Dirs : d \in Below(r) <=> r \in Above[d]
         /\ \A d \in Below(r) : Below(d) \subseteq Below(r)
         /\ \A d \in Below(r) : d # r => Parent[d] \in Dirs
BY AboveParent, AboveTransitive DEF Below

-----------------------------------------------------------------------------
(* What a walk brings down to each directory. *)

\* What a directory is found to be, given what its parent is.
Found(v, root, start, d, up) ==
    IF d = start THEN claimDirectory(v, d, Unclaimed) ELSE walkDirectory(v, root, d, up)

\* The directories between start and d.
Path(start, d) == Above[d] \cap Below(start)

\* g is what a walk makes of them.
Follows(g, v, root, start, d) ==
    g = [x \in Path(start, d) |-> Found(v, root, start, x, g[Parent[x]])]

\* A path is that of its end's parent and its end.
LEMMA PathIs ==
  ASSUME NEW start \in Dirs, NEW d \in Below(start)
  PROVE  /\ d \in Path(start, d) /\ Path(start, d) \subseteq Below(start)
         /\ d = start => Path(start, d) = {d}
         /\ d # start => /\ Parent[d] \in Below(start) /\ d \notin Path(start, Parent[d])
                         /\ Path(start, d) = {d} \cup Path(start, Parent[d])
         /\ \A x \in Path(start, d) : x # start => Parent[x] \in Path(start, d)
<1>1. d \in Dirs /\ start \in Above[d] /\ d \in Above[d]
  BY BelowIs
<1>2. ASSUME d = start
      PROVE  Path(start, d) = {d}
  <2>1. \A x \in Above[start] : x \in Dirs
    BY AboveIs
  <2>2. \A x \in Above[start] : start \in Above[x] => x = start
    BY <2>1, AboveAntisymmetric
  <2> QED
    BY <1>1, <1>2, <2>2 DEF Path, Below
<1>3. ASSUME d # start
      PROVE  /\ Parent[d] \in Below(start) /\ d \notin Path(start, Parent[d])
             /\ Path(start, d) = {d} \cup Path(start, Parent[d])
  <2>1. Parent[d] \in Below(start) /\ Parent[d] \in Dirs
    BY <1>3, BelowIs
  <2>2. Above[d] = {d} \cup Above[Parent[d]]
    BY <1>1, <2>1, AboveIs, ParentAssumption
  <2>3. d \notin Above[Parent[d]]
    BY <1>1, <2>1, AboveParentNot
  <2> QED
    BY <2>1, <2>2, <2>3 DEF Path
<1>4. ASSUME NEW x \in Path(start, d), x # start
      PROVE  Parent[x] \in Path(start, d)
  <2>1. x \in Below(start) /\ x \in Dirs /\ x \in Above[d]
    BY BelowIs DEF Path
  <2>2. Parent[x] \in Below(start) /\ Parent[x] \in Dirs
    BY <1>4, <2>1, BelowIs
  <2>3. Parent[x] \in Above[x]
    BY <2>1, <2>2, AboveParent
  <2>4. Parent[x] \in Above[d]
    BY <1>1, <2>1, <2>2, <2>3, AboveTransitive
  <2> QED
    BY <2>2, <2>4 DEF Path
<1> QED
  BY <1>1, <1>2, <1>3, <1>4 DEF Path

\* There is at most one such function to each directory, and they agree.
LEMMA FollowsOnce ==
  ASSUME NEW v, NEW root, NEW start \in Dirs, NEW c \in Below(start), NEW d \in Below(start),
         NEW g, NEW h, Follows(g, v, root, start, c), Follows(h, v, root, start, d)
  PROVE  \A x \in Path(start, c) \cap Path(start, d) : g[x] = h[x]
<1> DEFINE Both == Path(start, c) \cap Path(start, d)
           S == {x \in Dirs : x \in Both => g[x] = h[x]}
<1>1. Both \subseteq Dirs
  BY BelowIs DEF Path
<1>2. ASSUME NEW x \in Dirs, Parent[x] # None => Parent[x] \in S
      PROVE  x \in S
  <2> SUFFICES ASSUME x \in Both PROVE g[x] = h[x]
    OBVIOUS
  <2>1. g[x] = Found(v, root, start, x, g[Parent[x]]) /\ h[x] = Found(v, root, start, x, h[Parent[x]])
    BY DEF Follows
  <2>2. CASE x = start
    BY <2>1, <2>2 DEF Found
  <2>3. CASE x # start
    <3>1. Parent[x] \in Both
      BY <2>3, PathIs
    <3>2. Parent[x] # None
      BY <1>1, <3>1, ParentAssumption
    <3>3. g[Parent[x]] = h[Parent[x]]
      BY <1>2, <3>1, <3>2
    <3> QED
      BY <2>1, <3>3
  <2> QED
    BY <2>2, <2>3
<1> HIDE DEF S
<1>3. Dirs \subseteq S
  BY <1>2, TreeInduction
<1> QED
  BY <1>1, <1>3 DEF S

\* There is one.
LEMMA FollowsExists ==
  ASSUME NEW v, NEW root, NEW start \in Dirs
  PROVE  \A d \in Below(start) : \E g : Follows(g, v, root, start, d)
<1> DEFINE S == {d \in Dirs : d \in Below(start) => \E g : Follows(g, v, root, start, d)}
<1>1. ASSUME NEW d \in Dirs, Parent[d] # None => Parent[d] \in S
      PROVE  d \in S
  <2> SUFFICES ASSUME d \in Below(start) PROVE \E g : Follows(g, v, root, start, d)
    OBVIOUS
  <2>1. CASE d = start
    <3> DEFINE g == [x \in Path(start, d) |-> Found(v, root, start, x, None)]
    <3>1. Path(start, d) = {start}
      BY <2>1, PathIs
    <3>2. \A y, z : Found(v, root, start, start, y) = Found(v, root, start, start, z)
      BY DEF Found
    <3>3. g = [x \in Path(start, d) |-> Found(v, root, start, x, g[Parent[x]])]
      BY <3>1, <3>2
    <3> QED
      BY <3>3 DEF Follows
  <2>2. CASE d # start
    <3>1. /\ Parent[d] \in Below(start) /\ Parent[d] # None /\ d \notin Path(start, Parent[d])
          /\ Path(start, d) = {d} \cup Path(start, Parent[d]) /\ Parent[d] \in Path(start, Parent[d])
      BY <2>2, PathIs, BelowIs, ParentAssumption
    <3>2. PICK h : Follows(h, v, root, start, Parent[d])
      BY <1>1, <3>1
    <3> DEFINE g == [x \in Path(start, d) |->
                       IF x = d THEN Found(v, root, start, d, h[Parent[d]]) ELSE h[x]]
    <3>3. \A x \in Path(start, Parent[d]) : g[x] = h[x]
      BY <3>1
    <3>4. ASSUME NEW x \in Path(start, d)
          PROVE  g[x] = Found(v, root, start, x, g[Parent[x]])
      <4>1. CASE x = d
        BY <3>1, <3>3, <4>1
      <4>2. CASE x # d
        <5>1. x \in Path(start, Parent[d])
          BY <3>1, <4>2
        <5>2. h[x] = Found(v, root, start, x, h[Parent[x]])
          BY <3>2, <5>1 DEF Follows
        <5>3. CASE x = start
          BY <3>3, <5>1, <5>2, <5>3 DEF Found
        <5>4. CASE x # start
          <6>1. Parent[x] \in Path(start, Parent[d])
            BY <3>1, <5>1, <5>4, PathIs
          <6> QED
            BY <3>3, <5>1, <5>2, <6>1
        <5> QED
          BY <5>3, <5>4
      <4> QED
        BY <4>1, <4>2
    <3>5. g = [x \in Path(start, d) |-> g[x]]
      OBVIOUS
    <3> HIDE DEF g
    <3>6. g = [x \in Path(start, d) |-> Found(v, root, start, x, g[Parent[x]])]
      BY <3>4, <3>5
    <3> QED
      BY <3>6 DEF Follows
  <2> QED
    BY <2>1, <2>2
<1> HIDE DEF S
<1>2. Dirs \subseteq S
  BY <1>1, TreeInduction
<1> QED
  BY <1>2, BelowIs DEF S

\* A walk is well defined: its start begins it, each other directory follows from its parent.
LEMMA ClaimsIs ==
  ASSUME NEW v, NEW root, NEW start \in Dirs
  PROVE  /\ Claims(v, root, start) = [d \in Below(start) |-> Claims(v, root, start)[d]]
         /\ Claims(v, root, start)[start] = claimDirectory(v, start, Unclaimed)
         /\ \A d \in Below(start) : d # start =>
              Claims(v, root, start)[d] = walkDirectory(v, root, d, Claims(v, root, start)[Parent[d]])
<1> DEFINE Good(f) == f = [d \in Below(start) |-> Found(v, root, start, d, f[Parent[d]])]
           Good2(f) == f = [d \in Below(start) |-> IF d = start THEN claimDirectory(v, d, Unclaimed)
                                                  ELSE walkDirectory(v, root, d, f[Parent[d]])]
           at == CHOOSE f : Good2(f)
           Way(d) == CHOOSE g : Follows(g, v, root, start, d)
           all == [d \in Below(start) |-> Way(d)[d]]
<1>1. \A d \in Below(start) : Follows(Way(d), v, root, start, d)
  BY FollowsExists
<1>2. ASSUME NEW d \in Below(start)
      PROVE  all[d] = Found(v, root, start, d, all[Parent[d]])
  <2> HIDE DEF Way
  <2>1. Way(d)[d] = Found(v, root, start, d, Way(d)[Parent[d]])
    BY <1>1, PathIs DEF Follows
  <2>2. CASE d = start
    BY <2>1, <2>2 DEF Found
  <2>3. CASE d # start
    <3>1. Parent[d] \in Below(start) /\ Parent[d] \in Path(start, d) /\ Parent[d] \in Path(start, Parent[d])
      BY <2>3, PathIs
    <3>2. Way(d)[Parent[d]] = Way(Parent[d])[Parent[d]]
      BY <1>1, <3>1, FollowsOnce
    <3> QED
      BY <2>1, <3>1, <3>2
  <2> QED
    BY <2>2, <2>3
<1>3. Good(all)
  <2>1. all = [d \in Below(start) |-> all[d]]
    OBVIOUS
  <2> HIDE DEF all
  <2> QED
    BY <1>2, <2>1
<1> HIDE DEF Way, all
<1>4. Good2(all)
  BY <1>3 DEF Found
<1>5. Good2(at)
  <2> HIDE DEF Good2
  <2> QED
    BY <1>4
<1>6. Claims(v, root, start) = Table(at)
  BY DEF Claims
<1> HIDE DEF at
<1>7. Claims(v, root, start) = at
  BY <1>6, TableIs
<1>8. start \in Below(start)
  BY BelowIs
<1> QED
  BY <1>5, <1>7, <1>8

\* A directory claimed takes what its parent is, or begins a project, of npm or not.
LEMMA ClaimIs ==
  ASSUME NEW v, NEW d \in Dirs, NEW s \in Claimed
  PROVE  /\ claimDirectory(v, d, s) \in Claimed
         /\ \/ claimDirectory(v, d, s) = s
            \/ /\ claimDirectory(v, d, s) = [owner |-> d, npm |-> TRUE, off |-> FALSE]
               /\ ~s.npm /\ d \in v.looks
            \/ /\ claimDirectory(v, d, s) = [owner |-> d, npm |-> FALSE, off |-> FALSE]
               /\ s.owner = None /\ d \in v.looks
<1>1. detectManifestsInSync(v, d, d, SubEcosystems) # {} => d \in v.looks
  BY DEF detectManifestsInSync, fileExists
<1>2. fileExists(v, d, PackageJson) => d \in v.looks
  BY DEF fileExists
<1>3. /\ [owner |-> d, npm |-> TRUE, off |-> FALSE] \in Claimed
      /\ [owner |-> d, npm |-> FALSE, off |-> FALSE] \in Claimed
  BY DEF Claimed
<1> QED
  BY <1>1, <1>2, <1>3 DEF claimDirectory

\* A walk starts with nothing claimed.
LEMMA UnclaimedIs == Unclaimed \in Claimed /\ Unclaimed.owner = None /\ ~Unclaimed.npm /\ ~Unclaimed.off
BY DEF Unclaimed, Claimed

\* What the walk brings down from a parent.
LEMMA BroughtDown ==
  ASSUME NEW up \in Claimed, NEW off \in BOOLEAN
  PROVE  /\ [up EXCEPT !.off = off] \in Claimed
         /\ [up EXCEPT !.off = off].owner = up.owner
         /\ [up EXCEPT !.off = off].npm = up.npm
         /\ [up EXCEPT !.off = off].off = off
BY DEF Claimed

\* What a walk makes of a directory below its start that it comes to.
LEMMA CameFrom ==
  ASSUME NEW v, NEW root, NEW start \in Dirs, NEW d \in Below(start), d # start,
         Claims(v, root, start)[d] # None,
         Claims(v, root, start)[Parent[d]] \in Claimed \cup {None}
  PROVE  LET up == Claims(v, root, start)[Parent[d]]
             off == up.off \/ d \in SkipDirs
         IN  /\ up \in Claimed /\ Parent[d] \in v.lists /\ d \in v.entries
             /\ ~(up.npm /\ off) /\ ~classifySkip(v, root, d)
             /\ off \in BOOLEAN
             /\ Claims(v, root, start)[d] = claimDirectory(v, d, [up EXCEPT !.off = off])
<1> DEFINE up == Claims(v, root, start)[Parent[d]]
           off == up.off \/ d \in SkipDirs
<1>1. Claims(v, root, start)[d] = walkDirectory(v, root, d, up)
  BY ClaimsIs
<1>2. up # None
  BY <1>1 DEF walkDirectory
<1>3. up \in Claimed
  BY <1>2
<1>4. off \in BOOLEAN
  BY <1>3 DEF Claimed
<1> HIDE DEF up
<1>5. /\ Parent[d] \in v.lists /\ d \in v.entries
      /\ ~(up.npm /\ off) /\ ~classifySkip(v, root, d)
      /\ Claims(v, root, start)[d] = claimDirectory(v, d, [up EXCEPT !.off = off])
  BY <1>1 DEF walkDirectory
<1> QED
  BY <1>3, <1>4, <1>5 DEF up

\* A directory a walk comes to is claimed, and it came to its parent.
LEMMA ClaimsType ==
  ASSUME NEW v, NEW root, NEW start \in Dirs
  PROVE  \A d \in Below(start) : Claims(v, root, start)[d] \in Claimed \cup {None}
<1> DEFINE at == Claims(v, root, start)
           S == {d \in Dirs : d \in Below(start) => at[d] \in Claimed \cup {None}}
<1>1. ASSUME NEW d \in Dirs, Parent[d] # None => Parent[d] \in S
      PROVE  d \in S
  <2> SUFFICES ASSUME d \in Below(start), at[d] # None PROVE at[d] \in Claimed
    OBVIOUS
  <2>1. CASE d = start
    <3>1. at[d] = claimDirectory(v, d, Unclaimed)
      BY <2>1, ClaimsIs
    <3> HIDE DEF at
    <3> QED
      BY <3>1, ClaimIs, UnclaimedIs
  <2>2. CASE d # start
    <3>1. Parent[d] \in Below(start) /\ Parent[d] # None
      BY <2>2, BelowIs, ParentAssumption
    <3>2. at[Parent[d]] \in Claimed \cup {None}
      BY <1>1, <3>1
    <3> DEFINE up == at[Parent[d]]
               off == up.off \/ d \in SkipDirs
    <3>3. up \in Claimed /\ off \in BOOLEAN /\ at[d] = claimDirectory(v, d, [up EXCEPT !.off = off])
      BY <2>2, <3>2, CameFrom
    <3> HIDE DEF at, up, off
    <3> DEFINE s == [up EXCEPT !.off = off]
    <3>4. s \in Claimed
      BY <3>3, BroughtDown
    <3>5. at[d] = claimDirectory(v, d, s)
      BY <3>3
    <3> HIDE DEF s
    <3> QED
      BY <3>4, <3>5, ClaimIs
  <2> QED
    BY <2>1, <2>2
<1> HIDE DEF S
<1>2. Dirs \subseteq S
  BY <1>1, TreeInduction
<1> QED
  BY <1>2, BelowIs DEF S

\* A project's owner is above what it owns, on the walk's way there, and owns itself.
LEMMA OwnerIs ==
  ASSUME NEW v, NEW root, NEW start \in Dirs
  PROVE  \A d \in Below(start) :
           LET at == Claims(v, root, start)
           IN  at[d] # None =>
                 /\ at[d].npm => at[d].owner # None
                 /\ at[d].owner # None =>
                      /\ at[d].owner \in Path(start, d)
                      /\ at[at[d].owner] # None
                      /\ at[at[d].owner].owner = at[d].owner
                      /\ at[at[d].owner].npm = at[d].npm
                      /\ at[d].owner \in v.looks
<1> DEFINE at == Claims(v, root, start)
           Ok(d) == at[d] # None =>
                      /\ at[d].npm => at[d].owner # None
                      /\ at[d].owner # None =>
                           /\ at[d].owner \in Path(start, d)
                           /\ at[at[d].owner] # None
                           /\ at[at[d].owner].owner = at[d].owner
                           /\ at[at[d].owner].npm = at[d].npm
                           /\ at[d].owner \in v.looks
           S == {d \in Dirs : d \in Below(start) => Ok(d)}
<1>1. ASSUME NEW d \in Dirs, Parent[d] # None => Parent[d] \in S
      PROVE  d \in S
  <2> SUFFICES ASSUME d \in Below(start), at[d] # None PROVE Ok(d)
    BY Zenon
  <2>1. CASE d = start
    <3>1. at[d] = claimDirectory(v, d, Unclaimed)
      BY <2>1, ClaimsIs
    <3> HIDE DEF at
    <3>2. at[d] \in Claimed
      BY <3>1, ClaimIs, UnclaimedIs
    <3>4. \/ at[d] = Unclaimed
          \/ at[d].owner = d /\ d \in v.looks
      BY <3>1, ClaimIs, UnclaimedIs
    <3>3. d \in Path(start, d)
      BY PathIs
    <3> QED
      BY <3>2, <3>4, <3>3, UnclaimedIs, ParentAssumption
  <2>2. CASE d # start
    <3>1. /\ Parent[d] \in Below(start) /\ Parent[d] # None
          /\ Path(start, Parent[d]) \subseteq Path(start, d) /\ d \in Path(start, d)
      BY <2>2, PathIs, BelowIs, ParentAssumption
    <3> DEFINE up == at[Parent[d]]
               off == up.off \/ d \in SkipDirs
    <3>2. up \in Claimed /\ off \in BOOLEAN /\ at[d] = claimDirectory(v, d, [up EXCEPT !.off = off])
      BY <2>2, <3>1, CameFrom, ClaimsType
    <3>3. up # None
      BY <3>2, NamesAssumption
    <3>4. Ok(Parent[d])
      BY <1>1, <3>1, Zenon
    <3>5. /\ up.npm => up.owner # None
          /\ up.owner # None => /\ up.owner \in Path(start, d) /\ at[up.owner] # None
                                /\ at[up.owner].owner = up.owner /\ at[up.owner].npm = up.npm
                                /\ up.owner \in v.looks
      BY <3>1, <3>3, <3>4
    <3> HIDE DEF at, up, off
    <3> DEFINE s == [up EXCEPT !.off = off]
    <3>6. s \in Claimed /\ s.owner = up.owner /\ s.npm = up.npm
      BY <3>2, BroughtDown
    <3> HIDE DEF s
    <3>7. at[d] = claimDirectory(v, d, s)
      BY <3>2 DEF s
    <3>8. \/ at[d] = s
          \/ at[d].owner = d /\ d \in v.looks
      BY <3>6, <3>7, ClaimIs
    <3> QED
      BY <2>2, <3>1, <3>5, <3>6, <3>8, ParentAssumption
  <2> QED
    BY <2>1, <2>2
<1> HIDE DEF S
<1>2. Dirs \subseteq S
  BY <1>1, TreeInduction
<1>3. \A d \in Below(start) : Ok(d)
  BY <1>2, BelowIs DEF S
<1> QED
  BY <1>3

\* A walk that begins where another found a project makes of it what the other did.
LEMMA SubWalk ==
  ASSUME NEW v, NEW root, NEW start \in Dirs, NEW p \in Below(start),
         Claims(v, root, start)[p] # None, Claims(v, root, start)[p].owner = p
  PROVE  \A d \in Below(p) : Claims(v, root, p)[d] = Claims(v, root, start)[d]
<1> DEFINE at == Claims(v, root, start)
           sub == Claims(v, root, p)
           S == {d \in Dirs : d \in Below(p) => sub[d] = at[d]}
<1>0. p \in Dirs
  BY BelowIs
<1>1. sub[p] = at[p]
  <2>1. sub[p] = claimDirectory(v, p, Unclaimed)
    BY <1>0, ClaimsIs
  <2>2. CASE p = start
    BY <2>1, <2>2, ClaimsIs
  <2>3. CASE p # start
    <3>1. Parent[p] \in Below(start) /\ Parent[p] \in Dirs /\ p \notin Path(start, Parent[p])
      BY <2>3, PathIs, BelowIs
    <3> DEFINE up == at[Parent[p]]
               off == up.off \/ p \in SkipDirs
    <3>2. up \in Claimed /\ off \in BOOLEAN /\ at[p] = claimDirectory(v, p, [up EXCEPT !.off = off])
      BY <2>3, <3>1, CameFrom, ClaimsType
    <3>3. up # None
      BY <3>2, NamesAssumption
    <3>4. (up.npm => up.owner # None) /\ (up.owner # None => up.owner \in Path(start, Parent[p]))
      BY <3>1, <3>3, OwnerIs
    <3> HIDE DEF at, sub, up, off
    <3> DEFINE s == [up EXCEPT !.off = off]
    <3>5. s \in Claimed /\ s.owner # p /\ (s.npm => s.owner # None)
      BY <1>0, <3>1, <3>2, <3>4, BroughtDown, ParentAssumption
    <3>6. at[p] = claimDirectory(v, p, s) /\ at[p].owner = p
      BY <3>2 DEF at
    <3> HIDE DEF s
    <3>7. \/ ~s.npm /\ fileExists(v, p, PackageJson)
          \/ /\ ~(~s.npm /\ fileExists(v, p, PackageJson))
             /\ s.owner = None /\ ~s.off /\ detectManifestsInSync(v, p, p, SubEcosystems) # {}
      BY <3>5, <3>6 DEF claimDirectory
    <3>8. claimDirectory(v, p, Unclaimed) = claimDirectory(v, p, s)
      <4> HIDE DEF Unclaimed
      <4> QED
        BY <3>5, <3>7, UnclaimedIs DEF claimDirectory
    <3> QED
      BY <2>1, <3>6, <3>8
  <2> QED
    BY <2>2, <2>3
<1>2. ASSUME NEW d \in Dirs, Parent[d] # None => Parent[d] \in S
      PROVE  d \in S
  <2> SUFFICES ASSUME d \in Below(p), d # p PROVE sub[d] = at[d]
    BY <1>1
  <2>1. d \in Below(start) /\ Parent[d] \in Below(p) /\ Parent[d] # None /\ p \in Path(start, p)
    BY <1>0, BelowIs, ParentAssumption, PathIs
  <2>2. d # start
    BY <1>0, <2>1, BelowIs, AboveAntisymmetric
  <2>3. sub[d] = walkDirectory(v, root, d, sub[Parent[d]]) /\ at[d] = walkDirectory(v, root, d, at[Parent[d]])
    BY <1>0, <2>1, <2>2, ClaimsIs
  <2>4. sub[Parent[d]] = at[Parent[d]]
    BY <1>2, <2>1
  <2> QED
    BY <2>3, <2>4
<1> HIDE DEF S
<1>3. Dirs \subseteq S
  BY <1>2, TreeInduction
<1> QED
  BY <1>0, <1>3, BelowIs DEF S

-----------------------------------------------------------------------------
(* What a walk finds. *)

\* The directories a walk comes to, and the projects it begins there.
Came(v, root, start) == {d \in Below(start) : Claims(v, root, start)[d] # None}
Begun(v, root, start) == {d \in Came(v, root, start) : Claims(v, root, start)[d].owner = d}
\* The directories whose manifests are the project's.
Territory(v, root, start, p) ==
    {d \in Came(v, root, start) : Claims(v, root, start)[d].owner = p /\ ~Claims(v, root, start)[d].off}
\* What a project takes from one of them.
ManifestsOf(v, root, start, p, d) ==
    detectManifestsInSync(v, d, p, IF d = p /\ Claims(v, root, start)[p].npm THEN Ecosystems ELSE SubEcosystems)

\* What a walk finds and where it fails, in these words.
LEMMA WalkIs ==
  ASSUME NEW v, NEW root, NEW start \in Dirs
  PROVE  /\ DOMAIN walk(v, root, start).found = Begun(v, root, start)
         /\ \A p \in Begun(v, root, start) :
              walk(v, root, start).found[p] =
                UNION {ManifestsOf(v, root, start, p, d) : d \in Territory(v, root, start, p)}
         /\ walk(v, root, start).errors = Came(v, root, start) \ v.lists
         /\ \E f : walk(v, root, start).found = [p \in Begun(v, root, start) |-> f[p]]
<1> DEFINE f == [p \in Begun(v, root, start) |->
                    UNION {ManifestsOf(v, root, start, p, d) : d \in Territory(v, root, start, p)}]
<1>1. walk(v, root, start) = [found |-> f, errors |-> Came(v, root, start) \ v.lists]
  BY DEF walk, Came, Begun, Territory, ManifestsOf
<1>2. walk(v, root, start).found = f /\ walk(v, root, start).errors = Came(v, root, start) \ v.lists
  BY <1>1
<1> QED
  BY <1>2

\* What a walk that begins at a project finds of it is what the walk that found it does.
LEMMA WalkAgrees ==
  ASSUME NEW v, NEW root, NEW start \in Dirs, NEW p \in Begun(v, root, start)
  PROVE  /\ p \in Begun(v, root, p)
         /\ walk(v, root, p).found[p] = walk(v, root, start).found[p]
         /\ walk(v, root, p).errors = walk(v, root, start).errors \cap Below(p)
<1>1. /\ p \in Below(start) /\ Claims(v, root, start)[p] # None
      /\ Claims(v, root, start)[p].owner = p
  BY DEF Begun, Came
<1>2. p \in Dirs /\ p \in Below(p) /\ Below(p) \subseteq Below(start)
  BY <1>1, BelowIs
<1>3. \A d \in Below(p) : Claims(v, root, p)[d] = Claims(v, root, start)[d]
  BY <1>1, SubWalk
<1>4. Came(v, root, p) = Came(v, root, start) \cap Below(p)
  BY <1>2, <1>3 DEF Came
<1>5. p \in Begun(v, root, p)
  BY <1>1, <1>2, <1>3 DEF Begun, Came
<1>6. Territory(v, root, p, p) = Territory(v, root, start, p)
  <2>1. \A d \in Territory(v, root, start, p) : d \in Below(p)
    <3> SUFFICES ASSUME NEW d \in Territory(v, root, start, p) PROVE d \in Below(p)
      OBVIOUS
    <3>1. d \in Below(start) /\ Claims(v, root, start)[d] # None /\ Claims(v, root, start)[d].owner = p
      BY DEF Territory, Came
    <3>2. p \in Path(start, d)
      BY <1>2, <3>1, OwnerIs, ParentAssumption
    <3> QED
      BY <1>2, <3>1, <3>2, BelowIs DEF Path
  <2>2. \A d \in Below(p) : d \in Territory(v, root, p, p) <=> d \in Territory(v, root, start, p)
    BY <1>2, <1>3 DEF Territory, Came
  <2>3. Territory(v, root, p, p) \subseteq Below(p)
    BY DEF Territory, Came
  <2> QED
    BY <2>1, <2>2, <2>3
<1>7. \A d : ManifestsOf(v, root, p, p, d) = ManifestsOf(v, root, start, p, d)
  BY <1>2, <1>3 DEF ManifestsOf
<1>8. walk(v, root, p).found[p] = walk(v, root, start).found[p]
  <2>1. walk(v, root, p).found[p] = UNION {ManifestsOf(v, root, p, p, d) : d \in Territory(v, root, p, p)}
    BY <1>2, <1>5, WalkIs
  <2>2. walk(v, root, start).found[p] = UNION {ManifestsOf(v, root, start, p, d) : d \in Territory(v, root, start, p)}
    BY WalkIs
  <2>3. {ManifestsOf(v, root, p, p, d) : d \in Territory(v, root, p, p)}
          = {ManifestsOf(v, root, start, p, d) : d \in Territory(v, root, start, p)}
    BY <1>6, <1>7
  <2> QED
    BY <2>1, <2>2, <2>3
<1>9. walk(v, root, p).errors = walk(v, root, start).errors \cap Below(p)
  BY <1>2, <1>4, WalkIs
<1> QED
  BY <1>5, <1>8, <1>9

\* A scan that reads its project again finds what a pass over the root would have found
\* (rediscoverProject walks from the project with the root's ignore files), for any tree.
THEOREM RefreshAlwaysAgrees == DiscoverySpec => []RefreshAgrees
<1>1. RefreshAgrees
  <2> SUFFICES ASSUME NEW r \in RootDirs, NEW p \in DOMAIN discoverProjectsInTree(Seen, r).found
               PROVE  LET tree == discoverProjectsInTree(Seen, r)
                          again == rediscoverProject(Seen, r, p)
                      IN  /\ p \in DOMAIN again.found
                          /\ again.found[p] = tree.found[p]
                          /\ again.errors = tree.errors \cap Below(p)
    BY DEF RefreshAgrees
  <2>1. r \in Dirs
    BY RootAssumption
  <2>2. r \in Seen.exists /\ discoverProjectsInTree(Seen, r) = walk(Seen, r, r)
    BY DEF discoverProjectsInTree, Nothing
  <2>3. p \in Begun(Seen, r, r)
    BY <2>1, <2>2, WalkIs
  <2>4. p \in Dirs /\ p \in Seen.looks
    <3>1. p \in Below(r) /\ Claims(Seen, r, r)[p] # None /\ Claims(Seen, r, r)[p].owner = p
      BY <2>3 DEF Begun, Came
    <3>2. p \in Dirs
      BY <2>1, <3>1, BelowIs
    <3> QED
      BY <2>1, <3>1, <3>2, OwnerIs, ParentAssumption
  <2>5. p \in Seen.exists
    BY <2>4 DEF Seen
  <2>6. rediscoverProject(Seen, r, p) = walk(Seen, r, p)
    BY <2>5 DEF rediscoverProject
  <2> QED
    BY <2>1, <2>2, <2>3, <2>4, <2>6, WalkAgrees, WalkIs
<1> QED
  BY <1>1, PTL

-----------------------------------------------------------------------------
(* What the worker can see, against what is there. *)

\* The two views, field by field.
LEMMA ViewsAre ==
  /\ Whole.entries = Dirs /\ Whole.lists = Dirs /\ Whole.looks = Dirs
  /\ \A d : d \in Seen.entries <=> d \in Dirs /\ Present(d)
  /\ \A d : d \in Seen.lists <=> d \in Dirs /\ Reached(d) /\ "read" \in mode[d]
  /\ \A d : d \in Seen.looks <=> d \in Dirs /\ Reached(d) /\ "search" \in mode[d] /\ ~Bare(d)
BY DEF Seen, Whole

\* Whoever sees the files of a directory sees those of the directories above it.
LEMMA LooksUp ==
  ASSUME NEW d \in Seen.looks, NEW a \in Above[d]
  PROVE  a \in Seen.looks
<1>1. d \in Dirs /\ a \in Dirs /\ Reached(d)
  BY ViewsAre, AboveIs
<1> SUFFICES ASSUME a # d PROVE a \in Seen.looks
  OBVIOUS
<1>2. \A m \in Above[a] : m \in Above[d] /\ m # d
  BY <1>1, AboveIs, AboveTransitive, AboveAntisymmetric
<1>3. Present(d) /\ \A b \in Above[d] \ {d} : "search" \in mode[b]
  BY <1>1 DEF Reached
<1>4. \A m \in Above[a] \cap Mounts : mount[m] = "up"
  BY <1>2, <1>3 DEF Present
<1>5. a \in Above[a]
  BY <1>1, AboveParent
<1>6. Reached(a) /\ ~Bare(a)
  BY <1>2, <1>3, <1>4, <1>5 DEF Reached, Present, Bare
<1> QED
  BY <1>1, <1>3, <1>6, ViewsAre

\* There it finds the manifests that are there, and claims them.
LEMMA SameManifests ==
  ASSUME NEW d \in Seen.looks
  PROVE  /\ \A p, es : detectManifestsInSync(Seen, d, p, es) = detectManifestsInSync(Whole, d, p, es)
         /\ \A s : claimDirectory(Seen, d, s) = claimDirectory(Whole, d, s)
<1>1. \A a \in Above[d] : \A f : fileExists(Seen, a, f) <=> fileExists(Whole, a, f)
  BY LooksUp, ViewsAre DEF fileExists
<1>2. d \in Above[d]
  BY ViewsAre, AboveParent
<1>3. \A f : fileExists(Seen, d, f) <=> fileExists(Whole, d, f)
  BY <1>1, <1>2
<1>4. \A p, e : coveredByLock(Seen, d, p, e) <=> coveredByLock(Whole, d, p, e)
  BY <1>1 DEF coveredByLock
<1>5. \A p, es : detectManifestsInSync(Seen, d, p, es) = detectManifestsInSync(Whole, d, p, es)
  BY <1>3, <1>4 DEF detectManifestsInSync
<1> QED
  BY <1>3, <1>5 DEF claimDirectory

\* Below a directory whose files it sees it heeds the ignore files that are there.
LEMMA SameSkips ==
  ASSUME NEW d \in Dirs, Parent[d] \in Seen.looks, NEW root
  PROVE  classifySkip(Seen, root, d) <=> classifySkip(Whole, root, d)
<1>1. \A a \in Above[d] \ {d} : a \in Above[Parent[d]]
  BY AboveParent
<1>2. \A a \in Above[d] \ {d} : a \in Seen.looks /\ a \in Whole.looks
  BY <1>1, LooksUp, ViewsAre
<1> QED
  BY <1>2 DEF classifySkip

\* Where a walk can see it makes of a directory what is to be made of it.
LEMMA SameClaims ==
  ASSUME NEW root, NEW start \in Dirs
  PROVE  \A d \in Below(start) :
           d \in Seen.looks /\ Claims(Seen, root, start)[d] # None =>
             Claims(Whole, root, start)[d] = Claims(Seen, root, start)[d]
<1> DEFINE seen == Claims(Seen, root, start)
           whole == Claims(Whole, root, start)
           S == {d \in Dirs : d \in Below(start) /\ d \in Seen.looks /\ seen[d] # None => whole[d] = seen[d]}
<1>1. ASSUME NEW d \in Dirs, Parent[d] # None => Parent[d] \in S
      PROVE  d \in S
  <2> SUFFICES ASSUME d \in Below(start), d \in Seen.looks, seen[d] # None PROVE whole[d] = seen[d]
    OBVIOUS
  <2>1. CASE d = start
    BY <2>1, ClaimsIs, SameManifests
  <2>2. CASE d # start
    <3>1. Parent[d] \in Below(start) /\ Parent[d] \in Dirs /\ Parent[d] # None
      BY <2>2, BelowIs, ParentAssumption
    <3>2. Parent[d] \in Seen.looks
      BY <3>1, LooksUp, AboveParent
    <3> DEFINE up == seen[Parent[d]]
               off == up.off \/ d \in SkipDirs
    <3>3. /\ up \in Claimed /\ ~(up.npm /\ off) /\ ~classifySkip(Seen, root, d) /\ off \in BOOLEAN
          /\ seen[d] = claimDirectory(Seen, d, [up EXCEPT !.off = off])
      BY <2>2, <3>1, CameFrom, ClaimsType
    <3>4. up # None
      BY <3>3, NamesAssumption
    <3>5. whole[Parent[d]] = up
      BY <1>1, <3>1, <3>2, <3>4
    <3>6. whole[d] = walkDirectory(Whole, root, d, up)
      BY <2>2, <3>5, ClaimsIs
    <3>7. ~classifySkip(Whole, root, d)
      BY <3>2, <3>3, SameSkips
    <3> HIDE DEF up, seen, whole
    <3>8. whole[d] = claimDirectory(Whole, d, [up EXCEPT !.off = off])
      BY <3>1, <3>3, <3>4, <3>6, <3>7, ViewsAre DEF walkDirectory
    <3> HIDE DEF off
    <3> QED
      BY <3>3, <3>8, SameManifests
  <2> QED
    BY <2>1, <2>2
<1> HIDE DEF S
<1>2. Dirs \subseteq S
  BY <1>1, TreeInduction
<1> QED
  BY <1>2, BelowIs DEF S

\* What a walk finds is a project on disk.
LEMMA SeenProjects ==
  ASSUME NEW root, NEW start \in Dirs
  PROVE  Begun(Seen, root, start) \subseteq Begun(Whole, root, start)
<1> SUFFICES ASSUME NEW p \in Begun(Seen, root, start) PROVE p \in Begun(Whole, root, start)
  OBVIOUS
<1>1. p \in Below(start) /\ Claims(Seen, root, start)[p] # None /\ Claims(Seen, root, start)[p].owner = p
  BY DEF Begun, Came
<1>2. p \in Dirs /\ p # None
  BY <1>1, BelowIs, ParentAssumption
<1>3. p \in Seen.looks
  BY <1>1, <1>2, OwnerIs
<1>4. Claims(Whole, root, start)[p] = Claims(Seen, root, start)[p]
  BY <1>1, <1>3, SameClaims
<1> QED
  BY <1>1, <1>4 DEF Begun, Came

-----------------------------------------------------------------------------
(* The reconciliation. *)

\* The disk allows what Calm says of it.
DiskOk ==
    /\ DOMAIN mode = Dirs /\ \A d \in Dirs : "read" \in mode[d] => "search" \in mode[d]
    /\ DOMAIN mount = Mounts /\ \A m \in Mounts : mount[m] # "bare"

\* The table of projects.
RowsType(rs) == rs \in [Keys -> Rows \cup {None}]

\* The sequences of roots without repetition.
Listed(s) == s \in Seq(RootDirs) /\ \A i, j \in 1..Len(s) : s[i] = s[j] => i = j

\* The pass: idle or under way, over roots that are yet to be walked.
PassType ==
    /\ DOMAIN pass = {"on", "only", "todo", "checked", "recorded", "walked", "incomplete", "found", "done", "onDisk"}
    /\ pass.on \in BOOLEAN /\ (~pass.on => pass = Idle)
    /\ Listed(pass.todo)
    /\ pass.walked \subseteq RootDirs /\ \A i \in 1..Len(pass.todo) : pass.todo[i] \notin pass.walked
    /\ pass.on => RowsType(pass.recorded)

\* The types of the whole.
TypesOk == DiskOk /\ Listed(roots) /\ RowsType(row) /\ PassType

\* A root that is checked is there; nothing is written before all roots are walked.
WalkingOk ==
    /\ pass.checked => pass.todo # <<>> /\ Reached(Head(pass.todo))
    /\ pass.todo # <<>> => pass.done = {}

\* What was recorded of a project, and is still there, is found.
FoundOk(p) ==
    LET k == <<pass.found[p].root, p>>
    IN  /\ k[1] \in pass.walked /\ k \in Keys
        /\ pass.found[p].manifests \subseteq Manifests
        /\ p \in DOMAIN pass.onDisk[k[1]]
        /\ pass.recorded[k] # None =>
             pass.recorded[k].manifests \cap pass.onDisk[k[1]][p] \subseteq pass.found[p].manifests

\* A root walked to its end has no project on disk that was not found.
AllFound ==
    /\ DOMAIN pass.onDisk = pass.walked
    /\ \A r \in pass.walked \ pass.incomplete : DOMAIN pass.onDisk[r] \subseteq DOMAIN pass.found

\* A pass under way rewrites only what it wrote itself: the rest is as it was, or gone.
RowsAsRecorded ==
    pass.on => \A k \in Keys :
        \/ row[k] = None
        \/ row[k] = pass.recorded[k]
        \/ k[2] \in pass.done /\ k[2] \in DOMAIN pass.found /\ pass.found[k[2]].root = k[1]

\* A batch's copies are what the rows still say.
CopiesHold ==
    /\ pass.on => batch = {}
    /\ \A e \in batch : /\ e = <<e[1], e[2]>> /\ e[1] \in Keys /\ e[2] \subseteq Manifests
                        /\ row[e[1]] = None \/ row[e[1]].manifests = e[2]

\* The inductive invariant.
KeptInv ==
    /\ TypesOk /\ WalkingOk
    /\ \A p \in DOMAIN pass.found : FoundOk(p)
    /\ AllFound /\ RowsAsRecorded /\ CopiesHold

\* With no error on the way, the walk comes to what is there, and sees it.
LEMMA SeesDown ==
  ASSUME Calm, DiskOk, NEW root \in RootDirs, NEW start \in Below(root)
  PROVE  \A d \in Below(start) :
           /\ Claims(Whole, root, start)[d] # None
           /\ Path(start, d) \cap walk(Seen, root, start).errors = {}
           => Claims(Seen, root, start)[d] # None /\ d \in Seen.looks
<1> DEFINE seen == Claims(Seen, root, start)
           whole == Claims(Whole, root, start)
           errors == walk(Seen, root, start).errors
           S == {d \in Dirs : d \in Below(start) /\ whole[d] # None /\ Path(start, d) \cap errors = {}
                              => seen[d] # None /\ d \in Seen.looks /\ d \in Seen.lists}
<1>0. root \in Dirs /\ start \in Dirs
  BY RootAssumption, BelowIs
<1>1. \A d \in Below(start) : seen[d] # None /\ d \notin errors => d \in Seen.lists
  BY <1>0, WalkIs DEF Came
<1>2. \A d \in Seen.lists : d \in Seen.looks
  BY ViewsAre DEF DiskOk, Bare
<1>3. ASSUME NEW d \in Dirs, Parent[d] # None => Parent[d] \in S
      PROVE  d \in S
  <2> SUFFICES ASSUME d \in Below(start), whole[d] # None, Path(start, d) \cap errors = {}
               PROVE  seen[d] # None /\ d \in Seen.looks /\ d \in Seen.lists
    OBVIOUS
  <2>1. d \notin errors
    BY <1>0, PathIs
  <2> SUFFICES seen[d] # None
    BY <1>1, <1>2, <2>1
  <2>2. CASE d = start
    <3>1. seen[d] = claimDirectory(Seen, d, Unclaimed)
      BY <1>0, <2>2, ClaimsIs
    <3>2. seen[d] \in Claimed
      <4> HIDE DEF seen
      <4> QED
        BY <3>1, ClaimIs, UnclaimedIs
    <3> QED
      BY <3>2, NamesAssumption
  <2>3. CASE d # start
    <3>1. /\ Parent[d] \in Below(start) /\ Parent[d] \in Dirs /\ Parent[d] # None
          /\ Path(start, Parent[d]) \subseteq Path(start, d)
      BY <1>0, <2>3, BelowIs, PathIs, ParentAssumption
    <3> DEFINE up == whole[Parent[d]]
               off == up.off \/ d \in SkipDirs
    <3>2. up \in Claimed /\ ~(up.npm /\ off) /\ ~classifySkip(Whole, root, d) /\ off \in BOOLEAN
      BY <1>0, <2>3, <3>1, CameFrom, ClaimsType
    <3>3. up # None
      BY <3>2, NamesAssumption
    <3>4. seen[Parent[d]] # None /\ Parent[d] \in Seen.looks /\ Parent[d] \in Seen.lists
      BY <1>3, <3>1, <3>3
    <3>5. seen[Parent[d]] = up
      BY <1>0, <3>1, <3>4, SameClaims
    <3>6. ~classifySkip(Seen, root, d)
      BY <3>2, <3>4, SameSkips
    <3>7. d \in Seen.entries
      <4>1. d \in Below(root) /\ d # root
        BY <1>0, <2>3, BelowIs, AboveAntisymmetric
      <4>2. d \notin Mounts
        BY <4>1 DEF Calm
      <4>3. Present(Parent[d])
        BY <3>4, ViewsAre DEF Reached
      <4>4. \A m \in Above[d] \cap Mounts : m \in Above[Parent[d]] /\ m \in Mounts
        BY <4>2, AboveParent
      <4> QED
        BY <4>3, <4>4, ViewsAre DEF Present, DiskOk
    <3>8. seen[d] = walkDirectory(Seen, root, d, up)
      BY <1>0, <2>3, <3>5, ClaimsIs
    <3> HIDE DEF up, seen, whole, errors
    <3> DEFINE s == [up EXCEPT !.off = off]
    <3>9. seen[d] = claimDirectory(Seen, d, s)
      BY <3>2, <3>3, <3>4, <3>6, <3>7, <3>8 DEF walkDirectory
    <3>10. s \in Claimed
      BY <3>2, BroughtDown
    <3> HIDE DEF s
    <3>11. seen[d] \in Claimed
      BY <3>9, <3>10, ClaimIs
    <3> QED
      BY <3>11, NamesAssumption
  <2> QED
    BY <2>2, <2>3
<1> HIDE DEF S
<1>4. Dirs \subseteq S
  BY <1>3, TreeInduction
<1> QED
  BY <1>0, <1>4, BelowIs DEF S

\* What a directory is found to hold is its own, one kind of each ecosystem.
LEMMA DetectedIs ==
  ASSUME NEW v, NEW d \in Dirs, NEW p, NEW es \in SUBSET Ecosystems
  PROVE  /\ detectManifestsInSync(v, d, p, es) \subseteq Manifests
         /\ \A m \in detectManifestsInSync(v, d, p, es) : m[1] = d /\ d \in v.looks
         /\ \A m, n \in detectManifestsInSync(v, d, p, es) : m[2] = n[2] => m = n
<1> DEFINE ms == detectManifestsInSync(v, d, p, es)
           Lock(e) == fileExists(v, d, <<e, "lock">>)
<1>1. ASSUME NEW m \in ms
      PROVE  \E e \in es : \/ m = <<d, e, "lock">> /\ Lock(e)
                           \/ m = <<d, e, "loose">> /\ ~Lock(e) /\ d \in v.looks
  <2>1. \A f : fileExists(v, d, f) => d \in v.looks
    BY DEF fileExists
  <2> DEFINE locked == {e \in es : Lock(e)}
             loose == {e \in es \ locked : fileExists(v, d, <<e, "loose">>) /\ ~coveredByLock(v, d, p, e)}
  <2>2. ms = {<<d, e, "lock">> : e \in locked} \cup {<<d, e, "loose">> : e \in loose}
    BY DEF detectManifestsInSync
  <2> HIDE DEF ms, Lock
  <2>3. CASE \E e \in locked : m = <<d, e, "lock">>
    BY <2>3
  <2>4. CASE \E e \in loose : m = <<d, e, "loose">>
    BY <2>1, <2>4
  <2> QED
    BY <1>1, <2>2, <2>3, <2>4
<1>2. \A e : Lock(e) => d \in v.looks
  BY DEF fileExists
<1> HIDE DEF ms, Lock
<1>3. \A m \in ms : m[1] = d /\ d \in v.looks /\ m \in Manifests
  BY <1>1, <1>2 DEF Manifests
<1>4. \A m \in ms : \/ m = <<d, m[2], "lock">> /\ Lock(m[2])
                    \/ m = <<d, m[2], "loose">> /\ ~Lock(m[2])
  BY <1>1
<1>5. \A m, n \in ms : m[2] = n[2] => m = n
  BY <1>4
<1> QED
  BY <1>3, <1>5 DEF ms

\* The same of what a project takes from a directory.
LEMMA ManifestsIs ==
  ASSUME NEW v, NEW root, NEW start \in Dirs, NEW p, NEW d \in Territory(v, root, start, p)
  PROVE  /\ ManifestsOf(v, root, start, p, d) \subseteq Manifests
         /\ \A m \in ManifestsOf(v, root, start, p, d) : m[1] = d /\ d \in v.looks
         /\ \A m, n \in ManifestsOf(v, root, start, p, d) : m[2] = n[2] => m = n
<1>1. d \in Dirs
  BY BelowIs DEF Territory, Came
<1>2. Ecosystems \in SUBSET Ecosystems /\ SubEcosystems \in SUBSET Ecosystems
  BY DEF SubEcosystems
<1>3. ManifestsOf(v, root, start, p, d) = detectManifestsInSync(v, d, p, Ecosystems)
      \/ ManifestsOf(v, root, start, p, d) = detectManifestsInSync(v, d, p, SubEcosystems)
  BY DEF ManifestsOf
<1> QED
  BY <1>1, <1>2, <1>3, DetectedIs

\* What a walk finds are manifests of directories below its start.
LEMMA FoundType ==
  ASSUME NEW v, NEW root, NEW start \in Dirs, NEW p \in Begun(v, root, start)
  PROVE  p \in Below(start) /\ walk(v, root, start).found[p] \subseteq Manifests
BY WalkIs, ManifestsIs DEF Begun, Came

\* A manifest that was recorded and is there is found, or kept for the error that hides it.
LEMMA KeepsWhatIsThere ==
  ASSUME Calm, DiskOk, NEW root \in RootDirs, NEW start \in Below(root),
         NEW p \in Begun(Seen, root, start), NEW recorded, NEW m \in recorded,
         m \in walk(Whole, root, start).found[p]
  PROVE  m \in withUnreadManifests(walk(Seen, root, start).found[p], recorded, walk(Seen, root, start).errors)
<1> DEFINE now == walk(Seen, root, start).found[p]
           errors == walk(Seen, root, start).errors
<1> SUFFICES ASSUME m \notin now
             PROVE  /\ \A n \in now : <<n[1], n[2]>> # <<m[1], m[2]>>
                    /\ Above[m[1]] \cap errors # {}
  BY DEF withUnreadManifests
<1>0. root \in Dirs /\ start \in Dirs
  BY RootAssumption, BelowIs
<1>1. /\ p \in Below(start) /\ p \in Dirs /\ p # None
      /\ Claims(Seen, root, start)[p] # None /\ Claims(Seen, root, start)[p].owner = p
  BY <1>0, BelowIs, ParentAssumption DEF Begun, Came
<1>2. p \in Begun(Whole, root, start)
  BY <1>0, SeenProjects
<1>3. p \in Seen.looks
  BY <1>0, <1>1, OwnerIs
<1>4. Claims(Whole, root, start)[p] = Claims(Seen, root, start)[p]
  BY <1>0, <1>1, <1>3, SameClaims
<1>5. PICK d \in Territory(Whole, root, start, p) : m \in ManifestsOf(Whole, root, start, p, d)
  BY <1>0, <1>2, WalkIs
<1>6. m[1] = d /\ d \in Dirs /\ d \in Below(start)
  BY <1>0, <1>5, ManifestsIs, BelowIs DEF Territory, Came
<1>7. \A x \in Seen.looks : ManifestsOf(Seen, root, start, p, x) = ManifestsOf(Whole, root, start, p, x)
  BY <1>4, SameManifests DEF ManifestsOf
<1>8. ASSUME NEW n \in now, n[1] = m[1], n[2] = m[2]
      PROVE  FALSE
  <2>1. PICK x \in Territory(Seen, root, start, p) : n \in ManifestsOf(Seen, root, start, p, x)
    BY <1>0, <1>8, WalkIs
  <2>2. x = d /\ d \in Seen.looks
    BY <1>0, <1>6, <1>8, <2>1, ManifestsIs
  <2>3. n \in ManifestsOf(Whole, root, start, p, d)
    BY <1>7, <2>1, <2>2
  <2>4. m = n
    BY <1>0, <1>5, <1>8, <2>3, ManifestsIs
  <2> QED
    BY <1>8, <2>4
<1>9. ASSUME Above[d] \cap errors = {}
      PROVE  FALSE
  <2>1. Claims(Whole, root, start)[d] # None /\ Path(start, d) \cap errors = {}
    BY <1>5, <1>9 DEF Territory, Came, Path
  <2>2. Claims(Seen, root, start)[d] # None /\ d \in Seen.looks
    BY <1>6, <2>1, SeesDown
  <2>3. Claims(Whole, root, start)[d] = Claims(Seen, root, start)[d]
    BY <1>0, <1>6, <2>2, SameClaims
  <2>4. d \in Territory(Seen, root, start, p)
    BY <1>5, <1>6, <2>2, <2>3 DEF Territory, Came
  <2>5. m \in ManifestsOf(Seen, root, start, p, d)
    BY <1>5, <1>7, <2>2
  <2> QED
    BY <1>0, <2>4, <2>5, WalkIs
<1> QED
  BY <1>6, <1>8, <1>9

\* A root walked without an error has no project that was not found.
LEMMA FindsAll ==
  ASSUME Calm, DiskOk, NEW root \in RootDirs, walk(Seen, root, root).errors = {}
  PROVE  Begun(Whole, root, root) \subseteq Begun(Seen, root, root)
<1> SUFFICES ASSUME NEW p \in Begun(Whole, root, root) PROVE p \in Begun(Seen, root, root)
  OBVIOUS
<1>0. root \in Dirs /\ root \in Below(root)
  BY RootAssumption, BelowIs
<1>1. p \in Below(root) /\ Claims(Whole, root, root)[p] # None /\ Claims(Whole, root, root)[p].owner = p
  BY DEF Begun, Came
<1>2. Claims(Seen, root, root)[p] # None /\ p \in Seen.looks
  BY <1>0, <1>1, SeesDown
<1>3. Claims(Whole, root, root)[p] = Claims(Seen, root, root)[p]
  BY <1>0, <1>1, <1>2, SameClaims
<1> QED
  BY <1>1, <1>2, <1>3 DEF Begun, Came

-----------------------------------------------------------------------------
(* Every step keeps the invariant and what is on disk. *)

\* What no step may break: the body of OnDiskIsKept.
Kept ==
    \A k \in Keys : row[k] # None /\ row'[k] # row[k] =>
        IF row'[k] = None THEN MayGo(k)
        ELSE /\ \A m \in row[k].manifests \ row'[k].manifests :
                    k[2] \in DOMAIN OnDisk(k[1]) => m \notin OnDisk(k[1])[k[2]]
             /\ row'[k].tagged # row[k].tagged => UNCHANGED <<pass, batch>>

\* A key is a root and a directory below it.
LEMMA KeyIs ==
  /\ \A k \in Keys : k = <<k[1], k[2]>> /\ k[1] \in RootDirs /\ k[2] \in Below(k[1]) /\ k[2] \in Dirs
  /\ \A r \in RootDirs : \A p \in Below(r) : <<r, p>> \in Keys
BY RootAssumption, BelowIs DEF Keys

\* Field by field, the pass that is not under way.
LEMMA IdleIs ==
  /\ DOMAIN Idle = {"on", "only", "todo", "checked", "recorded", "walked", "incomplete", "found", "done", "onDisk"}
  /\ Idle.on = FALSE /\ Idle.todo = <<>> /\ Idle.checked = FALSE /\ Idle.walked = {} /\ Idle.incomplete = {}
  /\ DOMAIN Idle.found = {} /\ Idle.done = {} /\ DOMAIN Idle.onDisk = {}
BY DEF Idle, Nothing

\* A row that is there is a record.
LEMMA RowIs ==
  ASSUME NEW rs, RowsType(rs), NEW k \in Keys, rs[k] # None
  PROVE  rs[k] \in Rows /\ rs[k].manifests \subseteq Manifests /\ rs[k].tagged \in BOOLEAN
BY DEF RowsType, Rows

\* Without a pass, little is left to be true.
LEMMA AtRest ==
  ASSUME DiskOk', Listed(roots'), RowsType(row'), pass' = Idle, CopiesHold'
  PROVE  KeptInv'
<1>1. Listed(<<>>)
  BY DEF Listed
<1>2. PassType'
  BY <1>1, IdleIs DEF PassType
<1>3. WalkingOk' /\ (\A p \in DOMAIN pass.found : FoundOk(p))' /\ AllFound' /\ RowsAsRecorded'
  BY IdleIs DEF WalkingOk, AllFound, RowsAsRecorded
<1> QED
  BY <1>2, <1>3 DEF KeptInv, TypesOk

\* What the pass knows stays true while it stands still.
LEMMA PassStands ==
  ASSUME KeptInv, pass' = pass, DiskOk', Listed(roots'), RowsType(row'), WalkingOk', RowsAsRecorded', CopiesHold'
  PROVE  KeptInv'
<1>1. PassType' /\ AllFound'
  BY DEF KeptInv, TypesOk, PassType, AllFound
<1>2. (\A p \in DOMAIN pass.found : FoundOk(p))'
  BY DEF KeptInv, FoundOk
<1> QED
  BY <1>1, <1>2 DEF KeptInv, TypesOk

\* An order of some roots lists them without repetition.
LEMMA RelistedIs ==
  ASSUME NEW rs \in SUBSET RootDirs, NEW new, NEW s \in Relisted(rs, new)
  PROVE  Listed(s) /\ Elements(s) \subseteq rs
<1>1. IsFiniteSet(rs)
  BY RootAssumption, FS_Subset
<1>2. Cardinality(rs) \in Nat
  BY <1>1, FS_CardinalityType
<1>3. /\ s \in [1..Cardinality(rs) -> rs]
      /\ \A i, j \in 1..Cardinality(rs) : s[i] = s[j] => i = j
  BY DEF Relisted, Injection, IsInjective
<1>4. s \in Seq(rs) /\ Len(s) = Cardinality(rs)
  BY <1>2, <1>3
<1> QED
  BY <1>3, <1>4 DEF Listed, Elements

\* Only roots are registered.
LEMMA RegisteredIs ==
  ASSUME Listed(roots)
  PROVE  Registered \subseteq RootDirs
BY DEF Registered, Elements, Listed

\* The invariant holds at first.
LEMMA KeptStart ==
  ASSUME Calm, DiscoveryInit
  PROVE  KeptInv
<1>1. DiskOk
  BY DEF DiscoveryInit, DiskOk
<1>2. Listed(roots)
  BY ListsAssumption DEF DiscoveryInit, Listed, Injection, IsInjective
<1>3. RowsType(row)
  BY DEF DiscoveryInit, RowsType
<1>4. Listed(<<>>)
  BY DEF Listed
<1>5. PassType
  BY <1>4, IdleIs DEF DiscoveryInit, PassType
<1>6. WalkingOk /\ (\A p \in DOMAIN pass.found : FoundOk(p)) /\ AllFound /\ RowsAsRecorded
  BY IdleIs DEF DiscoveryInit, WalkingOk, AllFound, RowsAsRecorded
<1>7. CopiesHold
  BY DEF DiscoveryInit, CopiesHold
<1> QED
  BY <1>1, <1>2, <1>3, <1>5, <1>6, <1>7 DEF KeptInv, TypesOk

\* A pass begins from what is recorded, with nothing waiting to be scanned.
LEMMA DiscoverKeeps ==
  ASSUME Calm, KeptInv, NEW rs, Listed(rs), NEW only, Discover(rs, only)
  PROVE  KeptInv' /\ Kept
<1> USE DEF KeptInv, TypesOk
<1>1. pass' = [Idle EXCEPT !.on = TRUE, !.only = only, !.todo = rs, !.recorded = row] /\ batch = {}
  BY DEF Discover, MayStart, Calm
<1>2. disk' = disk /\ roots' = roots /\ row' = row /\ batch' = batch
  BY DEF Discover
<1>3. /\ pass'.on = TRUE /\ pass'.todo = rs /\ pass'.recorded = row /\ pass'.checked = FALSE
      /\ pass'.walked = {} /\ DOMAIN pass'.found = {} /\ pass'.done = {} /\ DOMAIN pass'.onDisk = {}
      /\ DOMAIN pass' = DOMAIN Idle
  BY <1>1, IdleIs
<1>4. DiskOk' /\ Listed(roots)' /\ RowsType(row)'
  BY <1>2 DEF DiskOk, disk, Listed, RowsType
<1>5. PassType'
  BY <1>2, <1>3, IdleIs DEF PassType
<1>6. WalkingOk' /\ (\A p \in DOMAIN pass.found : FoundOk(p))' /\ AllFound' /\ RowsAsRecorded'
  BY <1>2, <1>3 DEF WalkingOk, AllFound, RowsAsRecorded
<1>7. CopiesHold'
  BY <1>1, <1>2 DEF CopiesHold
<1>8. Kept
  BY <1>2 DEF Kept
<1> QED
  BY <1>4, <1>5, <1>6, <1>7, <1>8

\* A batch begins with copies of rows.
LEMMA CopiesAre ==
  ASSUME RowsType(row), NEW ks \in SUBSET Keys, NEW e \in Copies(ks)
  PROVE  e = <<e[1], e[2]>> /\ e[1] \in Keys /\ e[2] \subseteq Manifests /\ row[e[1]].manifests = e[2]
BY RowIs DEF Copies

\* A batch of one project begins, with nothing else under way.
LEMMA SingleKeeps ==
  ASSUME Calm, KeptInv, NEW k \in Keys, runSingleProject(k)
  PROVE  KeptInv' /\ Kept
<1> USE DEF KeptInv, TypesOk
<1>1. ~pass.on /\ batch = {} /\ batch' = Copies({k})
  BY DEF runSingleProject, MayStart, Calm
<1>2. disk' = disk /\ roots' = roots /\ row' = row /\ pass' = pass
  BY DEF runSingleProject
<1>3. DiskOk' /\ Listed(roots') /\ RowsType(row')
  BY <1>2 DEF DiskOk, disk
<1>4. CopiesHold'
  BY <1>1, <1>2, CopiesAre DEF CopiesHold
<1>5. pass' = Idle
  BY <1>1, <1>2 DEF PassType
<1>6. Kept
  BY <1>2 DEF Kept
<1> QED
  BY <1>3, <1>4, <1>5, <1>6, AtRest

\* A root is checked, and walked next or left out.
LEMMA CheckKeeps ==
  ASSUME Calm, KeptInv, CheckRoot
  PROVE  KeptInv' /\ Kept
<1> USE DEF KeptInv, TypesOk
<1>1. /\ pass.on /\ pass.todo # <<>> /\ disk' = disk /\ roots' = roots /\ row' = row /\ batch' = batch
      /\ pass' = IF Head(pass.todo) \in Seen.exists THEN [pass EXCEPT !.checked = TRUE]
                 ELSE [pass EXCEPT !.todo = Tail(pass.todo)]
      /\ ~pass.checked
  BY DEF CheckRoot
<1>2. /\ pass'.on = pass.on /\ pass'.recorded = pass.recorded /\ pass'.walked = pass.walked
      /\ pass'.incomplete = pass.incomplete /\ pass'.found = pass.found /\ pass'.done = pass.done
      /\ pass'.onDisk = pass.onDisk /\ DOMAIN pass' = DOMAIN pass
  BY <1>1 DEF PassType
<1>3. /\ pass'.todo = IF Head(pass.todo) \in Seen.exists THEN pass.todo ELSE Tail(pass.todo)
      /\ pass'.checked => Head(pass.todo) \in Seen.exists
  BY <1>1 DEF PassType
<1>4. Listed(pass'.todo) /\ \A i \in 1..Len(pass'.todo) : pass'.todo[i] \notin pass.walked
  <2>1. CASE Head(pass.todo) \in Seen.exists
    BY <1>3, <2>1 DEF PassType
  <2>2. CASE Head(pass.todo) \notin Seen.exists
    <3>1. pass.todo \in Seq(RootDirs) /\ pass.todo # <<>>
      BY <1>1 DEF PassType, Listed
    <3>2. /\ Tail(pass.todo) \in Seq(RootDirs) /\ Len(Tail(pass.todo)) = Len(pass.todo) - 1
          /\ \A i \in 1..Len(Tail(pass.todo)) : Tail(pass.todo)[i] = pass.todo[i + 1] /\ i + 1 \in 1..Len(pass.todo)
          /\ Len(pass.todo) \in Nat
      BY <3>1
    <3>3. /\ \A i, j \in 1..Len(pass.todo) : pass.todo[i] = pass.todo[j] => i = j
          /\ \A i \in 1..Len(pass.todo) : pass.todo[i] \notin pass.walked
      BY DEF PassType, Listed
    <3>4. \A i, j \in 1..Len(Tail(pass.todo)) : Tail(pass.todo)[i] = Tail(pass.todo)[j] => i = j
      BY <3>2, <3>3
    <3>5. pass'.todo = Tail(pass.todo)
      BY <1>3, <2>2
    <3>6. \A i \in 1..Len(Tail(pass.todo)) : Tail(pass.todo)[i] \notin pass.walked
      BY <3>2, <3>3
    <3> QED
      BY <3>2, <3>4, <3>5, <3>6 DEF Listed
  <2> QED
    BY <2>1, <2>2
<1>5. DiskOk' /\ Listed(roots)' /\ RowsType(row)'
  BY <1>1 DEF DiskOk, disk, Listed, RowsType
<1>6. PassType'
  BY <1>1, <1>2, <1>4 DEF PassType
<1>7. WalkingOk'
  <2>1. \A r : Reached(r)' <=> Reached(r)
    BY <1>1 DEF Reached, Present, disk
  <2>2. pass'.checked => pass'.todo = pass.todo /\ Reached(Head(pass.todo))
    BY <1>3 DEF Seen
  <2> QED
    BY <1>1, <1>2, <2>1, <2>2 DEF WalkingOk
<1>8. (\A p \in DOMAIN pass.found : FoundOk(p))' /\ AllFound' /\ RowsAsRecorded' /\ CopiesHold'
  BY <1>1, <1>2 DEF FoundOk, AllFound, RowsAsRecorded, CopiesHold
<1>9. Kept
  BY <1>1 DEF Kept
<1> QED
  BY <1>5, <1>6, <1>7, <1>8, <1>9

\* What is kept of a project's manifests was found or recorded.
LEMMA UnreadType ==
  ASSUME NEW now \in SUBSET Manifests, NEW recorded \in SUBSET Manifests, NEW errors
  PROVE  withUnreadManifests(now, recorded, errors) \subseteq Manifests
BY DEF withUnreadManifests

\* A root is walked: what is recorded and there is found, or kept.
LEMMA WalkKeeps ==
  ASSUME Calm, KeptInv, WalkRoot
  PROVE  KeptInv' /\ Kept
<1> USE DEF KeptInv, TypesOk
<1> DEFINE r == Head(pass.todo)
           tree == walk(Seen, r, r)
           Had(p) == IF pass.recorded[r, p] = None THEN {} ELSE pass.recorded[r, p].manifests
           fresh == [p \in DOMAIN tree.found |->
                       [root |-> r, manifests |-> withUnreadManifests(tree.found[p], Had(p), tree.errors)]]
           there == [x \in {r} |-> walk(Whole, x, x).found]
<1>1. pass.checked /\ pass.todo # <<>> /\ Reached(r) /\ pass.on
  BY IdleIs DEF WalkRoot, WalkingOk, PassType
<1>2. pass.todo \in Seq(RootDirs) /\ r = pass.todo[1] /\ r \in RootDirs /\ r \in Dirs /\ 1 \in 1..Len(pass.todo)
  BY <1>1, RootAssumption DEF PassType, Listed
<1>3. discoverProjectsInTree(Seen, r) = tree
  BY <1>1, <1>2 DEF discoverProjectsInTree, Seen
<1>4. /\ pass' = [pass EXCEPT !.checked = FALSE, !.todo = Tail(pass.todo), !.walked = pass.walked \cup {r},
                   !.incomplete = IF tree.errors = {} THEN pass.incomplete ELSE pass.incomplete \cup {r},
                   !.found = Over(fresh, pass.found), !.onDisk = Over(there, pass.onDisk)]
      /\ disk' = disk /\ roots' = roots /\ row' = row /\ batch' = batch
  BY <1>3 DEF WalkRoot
<1>5. /\ pass'.on = pass.on /\ pass'.recorded = pass.recorded /\ pass'.done = pass.done
      /\ pass'.walked = pass.walked \cup {r} /\ pass'.checked = FALSE /\ pass'.todo = Tail(pass.todo)
      /\ pass'.incomplete = IF tree.errors = {} THEN pass.incomplete ELSE pass.incomplete \cup {r}
      /\ pass'.found = Over(fresh, pass.found) /\ pass'.onDisk = Over(there, pass.onDisk)
      /\ DOMAIN pass' = DOMAIN pass
  <2> HIDE DEF r, tree, fresh, there
  <2> QED
    BY <1>4 DEF PassType
<1>6. r \notin pass.walked
  BY <1>2 DEF PassType
<1>7. DOMAIN fresh = Begun(Seen, r, r) /\ \A p \in Begun(Seen, r, r) :
        fresh[p] = [root |-> r, manifests |-> withUnreadManifests(tree.found[p], Had(p), tree.errors)]
  <2>1. DOMAIN tree.found = Begun(Seen, r, r)
    BY <1>2, WalkIs
  <2> HIDE DEF tree, Had, r
  <2> QED
    BY <2>1
<1>8. /\ DOMAIN pass'.found = Begun(Seen, r, r) \cup DOMAIN pass.found
      /\ \A p \in Begun(Seen, r, r) :
           pass'.found[p] = [root |-> r, manifests |-> withUnreadManifests(tree.found[p], Had(p), tree.errors)]
      /\ \A p \in DOMAIN pass.found \ Begun(Seen, r, r) : pass'.found[p] = pass.found[p]
  <2> HIDE DEF fresh, tree, there
  <2> QED
    BY <1>5, <1>7 DEF Over
<1>9. /\ DOMAIN pass'.onDisk = pass'.walked
      /\ pass'.onDisk[r] = walk(Whole, r, r).found
      /\ \A s \in pass.walked : pass'.onDisk[s] = pass.onDisk[s]
  <2>1. DOMAIN there = {r} /\ there[r] = walk(Whole, r, r).found
    OBVIOUS
  <2>2. DOMAIN pass.onDisk = pass.walked
    BY DEF AllFound
  <2> HIDE DEF there
  <2> QED
    BY <1>5, <1>6, <2>1, <2>2 DEF Over
<1>10. DOMAIN pass'.onDisk[r] = Begun(Whole, r, r)
  BY <1>2, <1>9, WalkIs
<1>11. RowsType(pass.recorded)
  BY <1>1 DEF PassType
<1>12. ASSUME NEW p \in DOMAIN pass'.found
       PROVE  FoundOk(p)'
  <2>1. CASE p \in Begun(Seen, r, r)
    <3>1. p \in Below(r) /\ tree.found[p] \subseteq Manifests
      BY <1>2, <2>1, FoundType
    <3>2. <<r, p>> \in Keys
      BY <1>2, <3>1, KeyIs
    <3>3. Had(p) \subseteq Manifests
      BY <1>11, <3>2, RowIs
    <3>4. pass'.found[p].root = r /\ pass'.found[p].manifests = withUnreadManifests(tree.found[p], Had(p), tree.errors)
      <4> DEFINE kept == withUnreadManifests(tree.found[p], Had(p), tree.errors)
      <4>1. pass'.found[p] = [root |-> r, manifests |-> kept]
        BY <1>8, <2>1
      <4> HIDE DEF r, kept
      <4>2. pass'.found[p].root = r /\ pass'.found[p].manifests = kept
        BY <4>1
      <4> QED
        BY <4>2 DEF kept
    <3>5. pass'.found[p].manifests \subseteq Manifests
      <4> HIDE DEF r, tree, Had
      <4> QED
        BY <3>1, <3>3, <3>4, UnreadType
    <3>6. p \in DOMAIN pass'.onDisk[r]
      BY <1>2, <1>10, <2>1, SeenProjects
    <3>7. ASSUME pass.recorded[<<r, p>>] # None, NEW m \in pass.recorded[<<r, p>>].manifests,
                 m \in pass'.onDisk[r][p]
          PROVE  m \in pass'.found[p].manifests
      <4>1. m \in Had(p) /\ m \in walk(Whole, r, r).found[p]
        BY <1>9, <3>7
      <4>2. r \in Below(r)
        BY <1>2, BelowIs
      <4> HIDE DEF Had
      <4>3. m \in withUnreadManifests(walk(Seen, r, r).found[p], Had(p), walk(Seen, r, r).errors)
        BY <1>2, <2>1, <4>1, <4>2, KeepsWhatIsThere
      <4> QED
        BY <3>4, <4>3
    <3> HIDE DEF r, tree, Had
    <3> QED
      BY <1>5, <3>2, <3>4, <3>5, <3>6, <3>7 DEF FoundOk
  <2>2. CASE p \notin Begun(Seen, r, r)
    <3>1. p \in DOMAIN pass.found /\ pass'.found[p] = pass.found[p]
      <4> HIDE DEF r, tree
      <4> QED
        BY <1>8, <2>2
    <3>2. FoundOk(p)
      BY <3>1
    <3>3. pass'.onDisk[pass.found[p].root] = pass.onDisk[pass.found[p].root]
      BY <1>9, <3>2 DEF FoundOk
    <3> HIDE DEF r, tree, fresh, there
    <3> QED
      BY <1>5, <3>1, <3>2, <3>3 DEF FoundOk
  <2> QED
    BY <2>1, <2>2
<1>13. AllFound'
  <2> SUFFICES ASSUME NEW s \in pass'.walked \ pass'.incomplete, NEW p \in DOMAIN pass'.onDisk[s]
               PROVE  p \in DOMAIN pass'.found
    BY <1>9 DEF AllFound
  <2>1. CASE s = r
    <3>1. tree.errors = {}
      <4> HIDE DEF r, tree, fresh, there
      <4> QED
        BY <1>5, <2>1
    <3> QED
      BY <1>2, <1>8, <1>10, <2>1, <3>1, FindsAll
  <2>2. CASE s # r
    <3>1. s \in pass.walked \ pass.incomplete
      <4> HIDE DEF r, tree, fresh, there
      <4> QED
        BY <1>5, <2>2
    <3>2. p \in DOMAIN pass.onDisk[s]
      BY <1>9, <3>1
    <3>3. p \in DOMAIN pass.found
      BY <3>1, <3>2 DEF AllFound
    <3> QED
      BY <1>8, <3>3
  <2> QED
    BY <2>1, <2>2
<1> HIDE DEF tree, fresh, there
<1>14. PassType'
  <2>1. /\ Tail(pass.todo) \in Seq(RootDirs) /\ Len(Tail(pass.todo)) = Len(pass.todo) - 1 /\ Len(pass.todo) \in Nat
        /\ \A i \in 1..Len(Tail(pass.todo)) : Tail(pass.todo)[i] = pass.todo[i + 1] /\ i + 1 \in 1..Len(pass.todo)
    BY <1>1, <1>2
  <2>2. /\ \A i, j \in 1..Len(pass.todo) : pass.todo[i] = pass.todo[j] => i = j
        /\ \A i \in 1..Len(pass.todo) : pass.todo[i] \notin pass.walked
    BY DEF PassType, Listed
  <2>3. \A i, j \in 1..Len(Tail(pass.todo)) : Tail(pass.todo)[i] = Tail(pass.todo)[j] => i = j
    BY <2>1, <2>2
  <2>4. \A i \in 1..Len(Tail(pass.todo)) : Tail(pass.todo)[i] \notin pass.walked \cup {r}
    <3> SUFFICES ASSUME NEW i \in 1..Len(Tail(pass.todo)) PROVE Tail(pass.todo)[i] \notin pass.walked \cup {r}
      OBVIOUS
    <3>1. i + 1 \in 1..Len(pass.todo) /\ i + 1 # 1 /\ Tail(pass.todo)[i] = pass.todo[i + 1]
      BY <2>1
    <3> QED
      BY <1>2, <2>2, <3>1
  <2>5. Listed(Tail(pass.todo))
    BY <2>1, <2>3 DEF Listed
  <2>6. RowsType(pass.recorded)' /\ pass'.on /\ pass'.walked \subseteq RootDirs
    BY <1>1, <1>2, <1>5 DEF PassType, RowsType
  <2> HIDE DEF r
  <2> QED
    BY <1>5, <2>4, <2>5, <2>6 DEF PassType, Listed
<1>15. DiskOk' /\ Listed(roots)' /\ RowsType(row)'
  BY <1>4 DEF DiskOk, disk, Listed, RowsType
<1>16. WalkingOk'
  BY <1>1, <1>5 DEF WalkingOk
<1>17. RowsAsRecorded'
  BY <1>1, <1>4, <1>5 DEF RowsAsRecorded, WalkingOk
<1>18. CopiesHold'
  BY <1>4, <1>5 DEF CopiesHold
<1>19. Kept
  BY <1>4 DEF Kept
<1> QED
  BY <1>12, <1>13, <1>14, <1>15, <1>16, <1>17, <1>18, <1>19

\* What is written of a project holds what is there of what was recorded.
LEMMA UpsertKeeps ==
  ASSUME Calm, KeptInv, NEW p \in Dirs, upsertProject(p)
  PROVE  KeptInv' /\ Kept
<1> USE DEF KeptInv, TypesOk
<1> DEFINE k == <<pass.found[p].root, p>>
           prior == pass.recorded[k]
           new == [manifests |-> pass.found[p].manifests, tagged |-> prior # None /\ prior.tagged]
<1>1. /\ pass.on /\ pass.todo = <<>> /\ p \in DOMAIN pass.found /\ p \notin pass.done
      /\ disk' = disk /\ roots' = roots /\ batch' = batch
  BY DEF upsertProject, Walked, Unwritten
<1>2. batch = {} /\ RowsType(pass.recorded)
  BY <1>1 DEF CopiesHold, PassType
<1>3. FoundOk(p)
  BY <1>1
<1>4. k \in Keys /\ k[1] \in pass.walked /\ k[2] = p /\ new \in Rows /\ new # None
  <2>1. k \in Keys /\ k[1] \in pass.walked /\ pass.found[p].manifests \subseteq Manifests
    BY <1>3 DEF FoundOk
  <2>2. (prior # None /\ prior.tagged) \in BOOLEAN
    BY <1>2, <2>1, RowIs
  <2>3. new \in Rows
    <3> HIDE DEF prior, k
    <3> QED
      BY <2>1, <2>2 DEF Rows
  <2> QED
    BY <2>1, <2>3, NamesAssumption
<1>5. CASE k[1] \notin Registered
  <2>1. pass' = Idle /\ row' = row
    BY <1>5 DEF upsertProject
  <2>2. DiskOk' /\ Listed(roots') /\ RowsType(row') /\ CopiesHold' /\ Kept
    BY <1>1, <1>2, <2>1 DEF DiskOk, disk, CopiesHold, Kept
  <2> QED
    BY <2>1, <2>2, AtRest
<1>6. CASE k[1] \in Registered
  <2>1. row' = [row EXCEPT ![k] = new] /\ pass' = [pass EXCEPT !.done = pass.done \cup {p}]
    BY <1>6 DEF upsertProject
  <2> HIDE DEF new
  <2>2. /\ DOMAIN row' = Keys /\ row'[k] = new /\ \A x \in Keys : x # k => row'[x] = row[x]
        /\ row' \in [Keys -> Rows \cup {None}]
    BY <1>4, <2>1 DEF RowsType
  <2>3. /\ pass'.on = pass.on /\ pass'.recorded = pass.recorded /\ pass'.walked = pass.walked
        /\ pass'.incomplete = pass.incomplete /\ pass'.found = pass.found /\ pass'.done = pass.done \cup {p}
        /\ pass'.onDisk = pass.onDisk /\ DOMAIN pass' = DOMAIN pass
        /\ pass'.todo = pass.todo /\ pass'.checked = pass.checked
    BY <2>1 DEF PassType
  <2>4. DiskOk' /\ Listed(roots)' /\ RowsType(row)'
    BY <1>1, <2>2 DEF DiskOk, disk, Listed, RowsType
  <2>5. PassType' /\ WalkingOk'
    BY <1>1, <2>3 DEF PassType, WalkingOk
  <2>6. (\A x \in DOMAIN pass.found : FoundOk(x))' /\ AllFound'
    BY <2>3 DEF FoundOk, AllFound
  <2>7. RowsAsRecorded'
    <3> SUFFICES ASSUME NEW x \in Keys
                 PROVE  \/ row'[x] = None
                        \/ row'[x] = pass.recorded[x]
                        \/ x[2] \in pass.done \cup {p} /\ x[2] \in DOMAIN pass.found /\ pass.found[x[2]].root = x[1]
      BY <2>3 DEF RowsAsRecorded
    <3>1. CASE x = k
      BY <1>1, <3>1
    <3>2. CASE x # k
      BY <1>1, <2>2, <3>2 DEF RowsAsRecorded
    <3> QED
      BY <3>1, <3>2
  <2>8. CopiesHold'
    BY <1>1, <1>2 DEF CopiesHold
  <2>9. Kept
    <3> SUFFICES ASSUME NEW x \in Keys, row[x] # None, row'[x] # row[x]
                 PROVE  /\ row'[x] # None
                        /\ \A m \in row[x].manifests \ row'[x].manifests :
                              x[2] \in DOMAIN OnDisk(x[1]) => m \notin OnDisk(x[1])[x[2]]
                        /\ row'[x].tagged = row[x].tagged
      BY DEF Kept
    <3>1. x = k /\ row'[x] = new
      BY <2>2
    <3>2. row[k] = prior /\ prior # None
      BY <1>1, <1>4, <3>1 DEF RowsAsRecorded
    <3>3. OnDisk(k[1]) = pass.onDisk[k[1]]
      BY <1>4 DEF OnDisk, AllFound
    <3>4. prior.manifests \cap pass.onDisk[k[1]][p] \subseteq pass.found[p].manifests
      BY <1>3, <3>2 DEF FoundOk
    <3>5. new.manifests = pass.found[p].manifests /\ new.tagged = prior.tagged
      <4>1. prior.tagged \in BOOLEAN
        BY <1>2, <1>4, <3>2, RowIs
      <4> QED
        BY <3>2, <4>1 DEF new
    <3> HIDE DEF prior, k
    <3> QED
      BY <1>4, <3>1, <3>2, <3>3, <3>4, <3>5
  <2> QED
    BY <2>4, <2>5, <2>6, <2>7, <2>8, <2>9
<1> QED
  BY <1>5, <1>6

\* What is deleted was not there, or is another root's.
LEMMA DeleteKeeps ==
  ASSUME Calm, KeptInv, NEW k \in Keys, deleteProject(k)
  PROVE  KeptInv' /\ Kept
<1> USE DEF KeptInv, TypesOk
<1>1. /\ pass.on /\ pass.todo = <<>> /\ k \in Missing
      /\ disk' = disk /\ roots' = roots /\ batch' = batch
      /\ row' = [row EXCEPT ![k] = None] /\ pass' = [pass EXCEPT !.done = pass.done \cup {k}]
  BY DEF deleteProject, Walked
<1>2. /\ DOMAIN row' = Keys /\ row'[k] = None /\ \A x \in Keys : x # k => row'[x] = row[x]
      /\ row' \in [Keys -> Rows \cup {None}]
  BY <1>1 DEF RowsType
<1>3. /\ pass'.on = pass.on /\ pass'.recorded = pass.recorded /\ pass'.walked = pass.walked
      /\ pass'.incomplete = pass.incomplete /\ pass'.found = pass.found /\ pass'.done = pass.done \cup {k}
      /\ pass'.onDisk = pass.onDisk /\ DOMAIN pass' = DOMAIN pass
      /\ pass'.todo = pass.todo /\ pass'.checked = pass.checked
  BY <1>1 DEF PassType
<1>4. DiskOk' /\ Listed(roots)' /\ RowsType(row)'
  BY <1>1, <1>2 DEF DiskOk, disk, Listed, RowsType
<1>5. PassType' /\ WalkingOk'
  BY <1>1, <1>3 DEF PassType, WalkingOk
<1>6. (\A x \in DOMAIN pass.found : FoundOk(x))' /\ AllFound'
  BY <1>3 DEF FoundOk, AllFound
<1>7. RowsAsRecorded'
  BY <1>2, <1>3 DEF RowsAsRecorded
<1>8. CopiesHold'
  BY <1>1, <1>3 DEF CopiesHold
<1>9. MayGo(k)
  <2>1. k[1] \in pass.walked \ pass.incomplete /\ (k[2] \in DOMAIN pass.found => pass.found[k[2]].root # k[1])
    BY <1>1 DEF Missing
  <2>2. OnDisk(k[1]) = pass.onDisk[k[1]]
    BY <2>1 DEF OnDisk, AllFound
  <2>3. CASE k[2] \in DOMAIN pass.found
    <3>1. FoundOk(k[2]) /\ pass.found[k[2]].root # k[1]
      BY <2>1, <2>3
    <3> QED
      BY <3>1 DEF FoundOk, AllFound, MayGo
  <2>4. CASE k[2] \notin DOMAIN pass.found
    BY <2>1, <2>2, <2>4 DEF AllFound, MayGo
  <2> QED
    BY <2>3, <2>4
<1>10. Kept
  BY <1>2, <1>9 DEF Kept
<1> QED
  BY <1>4, <1>5, <1>6, <1>7, <1>8, <1>10

\* The pass ends and its batch begins, with copies of what is recorded.
LEMMA ListKeeps ==
  ASSUME Calm, KeptInv, ListProjects
  PROVE  KeptInv' /\ Kept
<1> USE DEF KeptInv, TypesOk
<1>1. /\ pass.on /\ pass' = Idle /\ disk' = disk /\ roots' = roots /\ row' = row
      /\ batch' = batch \cup Copies({k \in Keys : pass.only \in {None, k[1]}})
  BY DEF ListProjects, Walked
<1>2. batch = {}
  BY <1>1 DEF CopiesHold
<1>3. CopiesHold'
  BY <1>1, <1>2, CopiesAre, IdleIs DEF CopiesHold
<1>4. DiskOk' /\ Listed(roots') /\ RowsType(row') /\ Kept
  BY <1>1 DEF DiskOk, disk, Kept
<1> QED
  BY <1>1, <1>3, <1>4, AtRest

\* What is there does not change with the tables: a root that was checked still is.
LEMMA StillThere ==
  ASSUME KeptInv, disk' = disk, pass' = pass
  PROVE  DiskOk' /\ WalkingOk'
<1>1. \A r : Reached(r)' <=> Reached(r)
  BY DEF Reached, Present, disk
<1> QED
  BY <1>1 DEF KeptInv, TypesOk, DiskOk, WalkingOk, disk

\* A scan that reads its project again drops no manifest that is there.
LEMMA RefreshKeeps ==
  ASSUME Calm, KeptInv, NEW e \in batch, refreshProjectInventory(e)
  PROVE  KeptInv' /\ Kept
<1> USE DEF KeptInv, TypesOk
<1> DEFINE k == e[1]
           r == k[1]
           p == k[2]
           tree == rediscoverProject(Seen, r, p)
           now == withUnreadManifests(tree.found[p], e[2], tree.errors)
<1>1. /\ ~pass.on /\ disk' = disk /\ roots' = roots /\ pass' = pass /\ batch' = batch \ {e}
      /\ row' = IF r \in Registered /\ row[k] # None /\ p \in DOMAIN tree.found /\ now # e[2]
                THEN [row EXCEPT ![k].manifests = now] ELSE row
  BY DEF refreshProjectInventory
<1>2. pass = Idle
  BY <1>1 DEF PassType
<1>3. DiskOk' /\ Listed(roots')
  BY <1>1, StillThere
<1>4. CASE row' = row
  <2>1. CopiesHold'
    BY <1>1, <1>4 DEF CopiesHold
  <2>2. RowsType(row') /\ Kept
    BY <1>4 DEF Kept
  <2> QED
    BY <1>1, <1>2, <1>3, <2>1, <2>2, AtRest
<1>5. CASE row[k] # None /\ p \in DOMAIN tree.found /\ row' = [row EXCEPT ![k].manifests = now]
  <2>1. k \in Keys /\ e[2] \subseteq Manifests /\ row[k].manifests = e[2]
    BY <1>5 DEF CopiesHold
  <2>2. r \in RootDirs /\ r \in Dirs /\ p \in Below(r) /\ p \in Dirs
    BY <2>1, KeyIs, RootAssumption
  <2>3. tree = walk(Seen, r, p)
    <3>1. tree = IF p \in Seen.exists THEN walk(Seen, r, p) ELSE [found |-> Nothing, errors |-> {}]
      BY DEF rediscoverProject
    <3>2. p \in Seen.exists
      <4> HIDE DEF tree, p, r
      <4> QED
        BY <1>5, <3>1 DEF Nothing
    <3> QED
      BY <3>1, <3>2
  <2>4. p \in Begun(Seen, r, p)
    BY <1>5, <2>2, <2>3, WalkIs
  <2>5. now \subseteq Manifests
    <3>1. tree.found[p] \subseteq Manifests
      BY <2>2, <2>3, <2>4, FoundType
    <3> HIDE DEF tree, p, r, k
    <3> QED
      BY <2>1, <3>1, UnreadType
  <2>6. ASSUME p \in DOMAIN OnDisk(r), NEW m \in row[k].manifests, m \in OnDisk(r)[p]
        PROVE  m \in now
    <3>1. OnDisk(r) = walk(Whole, r, r).found
      BY <1>2, IdleIs DEF OnDisk
    <3>2. p \in Begun(Whole, r, r)
      BY <2>2, <2>6, <3>1, WalkIs
    <3>3. m \in walk(Whole, r, p).found[p]
      BY <2>2, <2>6, <3>1, <3>2, WalkAgrees
    <3>4. m \in e[2]
      BY <2>1, <2>6
    <3>5. m \in withUnreadManifests(walk(Seen, r, p).found[p], e[2], walk(Seen, r, p).errors)
      BY <2>2, <2>4, <3>3, <3>4, KeepsWhatIsThere
    <3> QED
      BY <2>3, <3>5
  <2>7. row[k] \in Rows
    BY <1>5, <2>1, RowIs
  <2> HIDE DEF now, tree
  <2>8. /\ row'[k] = [row[k] EXCEPT !.manifests = now]
        /\ \A x \in Keys : x # k => row'[x] = row[x]
        /\ DOMAIN row' = Keys
    <3> HIDE DEF k
    <3> QED
      BY <1>5, <2>1 DEF RowsType
  <2>9. row'[k] \in Rows /\ row'[k].manifests = now /\ row'[k].tagged = row[k].tagged
    <3> HIDE DEF k, p, r
    <3> QED
      BY <2>5, <2>7, <2>8 DEF Rows
  <2>10. RowsType(row')
    <3>1. \A x \in Keys : row'[x] \in Rows \cup {None}
      <4> HIDE DEF k, p, r
      <4> QED
        BY <2>8, <2>9 DEF RowsType
    <3> QED
      BY <1>5, <2>8, <3>1 DEF RowsType
  <2>11. CopiesHold'
    <3> SUFFICES ASSUME NEW x \in batch, x # e
                 PROVE  /\ x = <<x[1], x[2]>> /\ x[1] \in Keys /\ x[2] \subseteq Manifests
                        /\ row'[x[1]] = None \/ row'[x[1]].manifests = x[2]
      BY <1>1 DEF CopiesHold
    <3>1. /\ x = <<x[1], x[2]>> /\ x[1] \in Keys /\ x[2] \subseteq Manifests
          /\ row[x[1]] = None \/ row[x[1]].manifests = x[2]
      BY DEF CopiesHold
    <3>2. e = <<e[1], e[2]>>
      BY DEF CopiesHold
    <3>3. x[1] # k
      BY <1>5, <2>1, <3>1, <3>2
    <3> QED
      BY <2>8, <3>1, <3>3
  <2>12. Kept
    <3> SUFFICES ASSUME NEW x \in Keys, row[x] # None, row'[x] # row[x]
                 PROVE  /\ row'[x] # None
                        /\ \A m \in row[x].manifests \ row'[x].manifests :
                              x[2] \in DOMAIN OnDisk(x[1]) => m \notin OnDisk(x[1])[x[2]]
                        /\ row'[x].tagged = row[x].tagged
      BY DEF Kept
    <3>1. x = k
      BY <2>8
    <3>2. row'[k] # None
      BY <2>9, NamesAssumption
    <3> QED
      BY <2>6, <2>9, <3>1, <3>2
  <2> QED
    BY <1>1, <1>2, <1>3, <2>10, <2>11, <2>12, AtRest
<1> QED
  BY <1>1, <1>4, <1>5

\* A step that leaves the rows, the pass and the batch alone keeps what they know.
LEMMA ElsewhereKeeps ==
  ASSUME KeptInv, row' = row, pass' = pass, batch' = batch, DiskOk', Listed(roots'), WalkingOk'
  PROVE  KeptInv' /\ Kept
<1>1. RowsType(row') /\ RowsAsRecorded' /\ CopiesHold'
  BY DEF KeptInv, TypesOk, RowsAsRecorded, CopiesHold
<1>2. Kept
  BY DEF Kept
<1> QED
  BY <1>1, <1>2, PassStands

\* The portal adds or removes a root, or sets a tag.
LEMMA UpsertRootKeeps ==
  ASSUME Calm, KeptInv, NEW r \in RootDirs, upsertRootAction(r)
  PROVE  KeptInv' /\ Kept
<1>1. Registered \cup {r} \subseteq RootDirs
  BY RegisteredIs DEF KeptInv, TypesOk
<1>2. Listed(roots')
  BY <1>1, RelistedIs DEF upsertRootAction
<1> QED
  BY <1>2, StillThere, ElsewhereKeeps DEF upsertRootAction

LEMMA DeleteRootKeeps ==
  ASSUME Calm, KeptInv, NEW r \in RootDirs, deleteRootAction(r)
  PROVE  KeptInv' /\ Kept
<1>1. Registered \ {r} \subseteq RootDirs
  BY RegisteredIs DEF KeptInv, TypesOk
<1>2. Listed(roots') /\ Elements(roots') \subseteq Registered \ {r}
  BY <1>1, RelistedIs DEF deleteRootAction
<1>3. /\ disk' = disk /\ pass' = pass /\ batch' = batch
      /\ row' = [k \in Keys |-> IF k[1] = r THEN None ELSE row[k]]
  BY DEF deleteRootAction
<1>4. \A k \in Keys : row'[k] = IF k[1] = r THEN None ELSE row[k]
  BY <1>3
<1>5. RowsType(row')
  BY <1>3 DEF KeptInv, TypesOk, RowsType
<1>6. RowsAsRecorded' /\ CopiesHold'
  BY <1>3, <1>4 DEF KeptInv, RowsAsRecorded, CopiesHold
<1>7. Kept
  <2>1. \A k \in Keys : k[1] = r => MayGo(k)
    BY <1>2 DEF MayGo, Registered
  <2> QED
    BY <1>4, <2>1 DEF Kept
<1> QED
  BY <1>2, <1>3, <1>5, <1>6, <1>7, StillThere, PassStands

LEMMA TagsKeep ==
  ASSUME Calm, KeptInv, NEW k \in Keys, setProjectTagsAction(k)
  PROVE  KeptInv' /\ Kept
<1> USE DEF KeptInv, TypesOk
<1>1. /\ row[k] # None /\ ~pass.on /\ row' = [row EXCEPT ![k].tagged = ~row[k].tagged]
      /\ disk' = disk /\ roots' = roots /\ pass' = pass /\ batch' = batch
  BY DEF setProjectTagsAction, Calm
<1>2. row[k] \in Rows
  BY <1>1, RowIs
<1>3. /\ row'[k] = [row[k] EXCEPT !.tagged = ~row[k].tagged]
      /\ \A x \in Keys : x # k => row'[x] = row[x]
      /\ DOMAIN row' = Keys /\ row' = [x \in Keys |-> row'[x]]
  BY <1>1 DEF RowsType
<1>4. row'[k] \in Rows /\ row'[k].manifests = row[k].manifests /\ row'[k] # None
  <2>1. row'[k] \in Rows /\ row'[k].manifests = row[k].manifests
    BY <1>2, <1>3 DEF Rows
  <2> QED
    BY <2>1, NamesAssumption
<1>5. RowsType(row')
  BY <1>3, <1>4 DEF RowsType
<1>6. CopiesHold'
  BY <1>1, <1>3, <1>4 DEF CopiesHold
<1>7. Kept
  BY <1>1, <1>3, <1>4 DEF Kept
<1>8. pass' = Idle /\ DiskOk' /\ Listed(roots')
  BY <1>1, StillThere DEF PassType
<1> QED
  BY <1>5, <1>6, <1>7, <1>8, AtRest

\* The worker starts anew.
LEMMA RestartKeeps ==
  ASSUME Calm, KeptInv, Restart
  PROVE  KeptInv' /\ Kept
<1> USE DEF KeptInv, TypesOk
<1> DEFINE mounted == {r \in DockerRoots : Present(r)}
           stale == (DockerRoots \cap Registered) \ mounted
<1>1. /\ disk' = disk /\ pass' = Idle /\ batch' = {}
      /\ roots' \in Relisted((Registered \ stale) \cup mounted, mounted \ Registered)
      /\ row' = [k \in Keys |-> IF k[1] \in stale THEN None ELSE row[k]]
  BY DEF Restart
<1>2. (Registered \ stale) \cup mounted \subseteq RootDirs
  BY RegisteredIs, RootAssumption
<1>3. Listed(roots') /\ Elements(roots') \subseteq (Registered \ stale) \cup mounted
  BY <1>1, <1>2, RelistedIs
<1>4. stale \cap ((Registered \ stale) \cup mounted) = {}
  OBVIOUS
<1> HIDE DEF stale, mounted
<1>5. \A k \in Keys : row'[k] = IF k[1] \in stale THEN None ELSE row[k]
  BY <1>1
<1>6. RowsType(row')
  BY <1>1 DEF RowsType
<1>7. Kept
  <2>1. \A k \in Keys : k[1] \in stale => MayGo(k)
    BY <1>3, <1>4 DEF MayGo, Registered
  <2> QED
    BY <1>5, <2>1 DEF Kept
<1>8. CopiesHold' /\ DiskOk'
  BY <1>1, IdleIs DEF CopiesHold, DiskOk, disk
<1> QED
  BY <1>1, <1>3, <1>6, <1>7, <1>8, AtRest

\* The disk changes: files and ignore files, permissions, mounts.
LEMMA EditKeeps ==
  ASSUME Calm, KeptInv, \E d \in Dirs : EditFiles(d) \/ \E a \in Above[d] \ {d} : Ignore(a, d)
  PROVE  KeptInv' /\ Kept
<1>1. mode' = mode /\ mount' = mount /\ roots' = roots /\ row' = row /\ pass' = pass /\ batch' = batch
  BY DEF EditFiles, Ignore
<1>2. \A r : Reached(r)' <=> Reached(r)
  BY <1>1 DEF Reached, Present
<1>3. DiskOk' /\ Listed(roots') /\ WalkingOk'
  BY <1>1, <1>2 DEF KeptInv, TypesOk, DiskOk, WalkingOk
<1> QED
  BY <1>1, <1>3, ElsewhereKeeps

LEMMA ChmodKeeps ==
  ASSUME Calm, KeptInv, NEW d \in Dirs, Chmod(d)
  PROVE  KeptInv' /\ Kept
<1>1. mount' = mount /\ roots' = roots /\ row' = row /\ pass' = pass /\ batch' = batch
  BY DEF Chmod
<1>2. PICK m \in Modes : mode' = [mode EXCEPT ![d] = m]
  BY DEF Chmod
<1>3. DiskOk'
  BY <1>1, <1>2 DEF KeptInv, TypesOk, DiskOk, Calm
<1>4. WalkingOk'
  <2>1. pass.checked => Reached(Head(pass.todo))'
    BY DEF Chmod, Stays, Calm
  <2> QED
    BY <1>1, <2>1 DEF KeptInv, WalkingOk
<1>5. Listed(roots')
  BY <1>1 DEF KeptInv, TypesOk
<1> QED
  BY <1>1, <1>3, <1>4, <1>5, ElsewhereKeeps

LEMMA MountKeeps ==
  ASSUME Calm, KeptInv, NEW r \in Mounts, Mount(r)
  PROVE  KeptInv' /\ Kept
<1>1. mode' = mode /\ roots' = roots /\ row' = row /\ pass' = pass /\ batch' = batch
  BY DEF Mount
<1>2. PICK s \in MountStates : mount' = [mount EXCEPT ![r] = s]
  BY DEF Mount
<1>3. DiskOk'
  BY <1>1, <1>2 DEF KeptInv, TypesOk, DiskOk, Calm
<1>4. WalkingOk'
  <2>1. pass.checked => Reached(Head(pass.todo))'
    BY DEF Mount, Stays, Calm
  <2> QED
    BY <1>1, <2>1 DEF KeptInv, WalkingOk
<1>5. Listed(roots')
  BY <1>1 DEF KeptInv, TypesOk
<1> QED
  BY <1>1, <1>3, <1>4, <1>5, ElsewhereKeeps

\* Every step keeps the invariant, and what is on disk.
LEMMA KeptStep ==
  ASSUME Calm, KeptInv, [DiscoveryNext]_discoveryVars
  PROVE  KeptInv' /\ [Kept]_discoveryVars
<1> USE DEF KeptInv, TypesOk
<1>1. CASE UNCHANGED discoveryVars
  <2>1. disk' = disk /\ roots' = roots /\ row' = row /\ pass' = pass /\ batch' = batch
    BY <1>1 DEF discoveryVars
  <2> QED
    BY <1>1, <2>1, StillThere, ElsewhereKeeps
<1>2. CASE CheckRoot
  BY <1>2, CheckKeeps
<1>3. CASE WalkRoot
  BY <1>3, WalkKeeps
<1>4. CASE \E p \in Dirs : upsertProject(p)
  BY <1>4, UpsertKeeps
<1>5. CASE \E k \in Keys : deleteProject(k)
  BY <1>5, DeleteKeeps
<1>6. CASE ListProjects
  BY <1>6, ListKeeps
<1>7. CASE \E e \in batch : refreshProjectInventory(e)
  BY <1>7, RefreshKeeps
<1>8. CASE runFullSweep
  BY <1>8, DiscoverKeeps DEF runFullSweep
<1>9. CASE \E r \in RootDirs : runRootSweep(r)
  <2>1. PICK r \in RootDirs : Discover(<<r>>, r)
    BY <1>9 DEF runRootSweep
  <2>2. Listed(<<r>>)
    BY DEF Listed
  <2> QED
    BY <2>1, <2>2, DiscoverKeeps
<1>10. CASE \E k \in Keys : runSingleProject(k)
  BY <1>10, SingleKeeps
<1>11. CASE \E r \in RootDirs : upsertRootAction(r)
  BY <1>11, UpsertRootKeeps
<1>12. CASE \E r \in RootDirs : deleteRootAction(r)
  BY <1>12, DeleteRootKeeps
<1>13. CASE \E k \in Keys : setProjectTagsAction(k)
  BY <1>13, TagsKeep
<1>14. CASE Restart
  BY <1>14, RestartKeeps
<1>15. CASE \E d \in Dirs : EditFiles(d) \/ \E a \in Above[d] \ {d} : Ignore(a, d)
  BY <1>15, EditKeeps
<1>16. CASE \E d \in Dirs : Chmod(d)
  BY <1>16, ChmodKeeps
<1>17. CASE \E r \in Mounts : Mount(r)
  BY <1>17, MountKeeps
<1> QED
  BY <1>1, <1>2, <1>3, <1>4, <1>5, <1>6, <1>7, <1>8, <1>9, <1>10, <1>11, <1>12, <1>13, <1>14, <1>15, <1>16, <1>17
  DEF DiscoveryNext, Worker

\* In calm, a project or a manifest that is on disk stays recorded: discoverProjects deletes
\* what a walk to its end did not find, withUnreadManifests keeps what an error hides, and
\* only the portal, or a boot without the mount, takes a root's projects away.
THEOREM OnDiskIsAlwaysKept == Calm => (DiscoverySpec => OnDiskIsKept)
<1> SUFFICES ASSUME Calm PROVE DiscoverySpec => OnDiskIsKept
  OBVIOUS
<1>1. DiscoveryInit => KeptInv
  BY KeptStart
<1>2. KeptInv /\ [DiscoveryNext]_discoveryVars => KeptInv' /\ [Kept]_discoveryVars
  BY KeptStep
<1>3. OnDiskIsKept <=> [][Kept]_discoveryVars
  BY DEF OnDiskIsKept, Kept
<1> QED
  BY <1>1, <1>2, <1>3, PTL DEF DiscoverySpec

-----------------------------------------------------------------------------
(* CapabilityBaseline. *)

\* A sweep that scans, and one that does not: idle, queued or dispatching.
Scanning == [at : {"scanning"}, left : SUBSET Projects, notReady : SUBSET Projects,
             broken : SUBSET Projects]
Elsewhere(x) == "at" \in DOMAIN x /\ x.at # "scanning"

FreshSweep == [at |-> "scanning", left |-> Projects, notReady |-> {}, broken |-> {}]

BaselineTypes ==
    /\ baseline \in {"pending", "swept", "done"}
    /\ stamped \subseteq Findings /\ single \subseteq Findings
    /\ old \subseteq world /\ world \subseteq Findings
    /\ sweep = [s \in Sweeps |-> sweep[s]]
    /\ \A s \in Sweeps : sweep[s] \in Scanning \/ Elsewhere(sweep[s])

\* An event is stamped or told by itself, not both, and none is told while the baseline
\* is pending.
StampsAreFinal ==
    /\ stamped \cap single = {}
    /\ baseline = "pending" => single = {}

\* The old findings a running sweep has been through without an answer for them.
Unanswered(s) ==
    {f \in old : ProjectOf[f] \in sweep[s].left \cup sweep[s].notReady \cup sweep[s].broken}

\* A sweep that answered for a project stamped what was there, as long as nobody claimed.
AnsweredIsStamped ==
    \A s \in Sweeps :
        sweep[s].at = "scanning" /\ baseline = "pending" => old \subseteq stamped \cup Unanswered(s)

\* After the claim an old finding is stamped or excused.
ClaimedIsComplete == baseline # "pending" => old \subseteq stamped \cup excused

SilenceInv == BaselineTypes /\ StampsAreFinal /\ AnsweredIsStamped /\ ClaimedIsComplete

\* The invariant is stronger than the property: what is told by itself is not stamped.
LEMMA SilenceFollows == SilenceInv => OldNewsIsSilent
  BY DEF SilenceInv, StampsAreFinal, ClaimedIsComplete, OldNewsIsSilent

LEMMA SilenceInit == Init => SilenceInv
  <1> SUFFICES ASSUME Init PROVE SilenceInv
    OBVIOUS
  <1>1. BaselineTypes
    BY DEF Init, BaselineTypes, NotSweeping, Elsewhere
  <1>2. StampsAreFinal
    BY DEF Init, StampsAreFinal
  <1>3. AnsweredIsStamped
    BY DEF Init, AnsweredIsStamped, NotSweeping
  <1>4. ClaimedIsComplete
    BY DEF Init, ClaimedIsComplete
  <1> QED
    BY <1>1, <1>2, <1>3, <1>4 DEF SilenceInv

\* Recording what a scan found adds only findings, keeps the stamps final and, while the
\* baseline is pending, leaves all that was found stamped.
LEMMA RecordStamps ==
  ASSUME SilenceInv, NEW found, found \subseteq Findings, Record(found), UNCHANGED baseline
  PROVE  /\ stamped \subseteq stamped' /\ stamped' \subseteq Findings
         /\ single' \subseteq Findings
         /\ StampsAreFinal'
         /\ baseline = "pending" => found \subseteq stamped'
  BY DEF Record, SilenceInv, BaselineTypes, StampsAreFinal

\* A step that changes neither events nor baseline, and lets a sweep become nothing but a
\* fresh one or one that no longer scans, keeps the invariant.
LEMMA SilenceKept ==
  ASSUME SilenceInv, UNCHANGED <<stamped, single, old, excused>>,
         world \subseteq world', world' \subseteq Findings,
         baseline' = baseline \/ (baseline # "pending" /\ baseline' \in {"swept", "done"}),
         sweep' = [s \in Sweeps |-> sweep'[s]],
         \A s \in Sweeps : \/ sweep'[s] = sweep[s]
                           \/ Elsewhere(sweep'[s])
                           \/ sweep'[s] = FreshSweep
  PROVE  SilenceInv'
  <1> USE BaselineAssumption
  <1>1. BaselineTypes'
    <2>1. FreshSweep \in Scanning
      BY DEF FreshSweep, Scanning
    <2> QED
      BY <2>1 DEF SilenceInv, BaselineTypes
  <1>2. StampsAreFinal'
    BY DEF SilenceInv, BaselineTypes, StampsAreFinal
  <1>3. AnsweredIsStamped'
    <2> SUFFICES ASSUME NEW s \in Sweeps, sweep'[s].at = "scanning", baseline' = "pending"
                 PROVE  old' \subseteq stamped' \cup Unanswered(s)'
      BY DEF AnsweredIsStamped
    <2>0. baseline = "pending"
      OBVIOUS
    <2>1. CASE sweep'[s] = sweep[s]
      BY <2>0, <2>1 DEF SilenceInv, AnsweredIsStamped, Unanswered
    <2>2. CASE sweep'[s] = FreshSweep
      <3>1. \A f \in old : ProjectOf[f] \in Projects
        BY DEF SilenceInv, BaselineTypes, BaselineAssumption
      <3> QED
        BY <2>2, <3>1 DEF Unanswered, FreshSweep
    <2> QED
      BY <2>1, <2>2 DEF Elsewhere
  <1>4. ClaimedIsComplete'
    BY DEF SilenceInv, ClaimedIsComplete
  <1> QED
    BY <1>1, <1>2, <1>3, <1>4 DEF SilenceInv

\* The claim: nothing is left to scan, no cache that may still come was missed, and so
\* what is not stamped is excused.
LEMMA SilenceClaim ==
  ASSUME SilenceInv, NEW s \in Sweeps, CompleteSweep(s), baseline = "pending", ~Waiting(s)
  PROVE  SilenceInv'
  <1>1. /\ baseline' = "swept" /\ excused' = excused \cup Excusable(s)
        /\ UNCHANGED <<stamped, single, old, world>>
        /\ sweep[s].at = "scanning" /\ sweep[s].left = {}
        /\ sweep' = [sweep EXCEPT ![s] = [at |-> "queued"]]
    BY DEF CompleteSweep
  <1>2. BaselineTypes'
    BY <1>1 DEF SilenceInv, BaselineTypes, Elsewhere
  <1>3. StampsAreFinal' /\ AnsweredIsStamped'
    BY <1>1 DEF SilenceInv, StampsAreFinal, AnsweredIsStamped
  <1>4. ClaimedIsComplete'
    <2>1. old \subseteq stamped \cup Unanswered(s)
      BY <1>1 DEF SilenceInv, AnsweredIsStamped
    <2>2. Unanswered(s) \subseteq Excusable(s)
      BY <1>1 DEF Unanswered, Excusable, Waiting
    <2> QED
      BY <1>1, <2>1, <2>2 DEF ClaimedIsComplete
  <1> QED
    BY <1>2, <1>3, <1>4 DEF SilenceInv

\* What SweepProject makes of a sweep it has no answer for.
LEMMA UnansweredProject ==
  ASSUME NEW x \in Scanning, NEW p \in Projects, NEW y,
         \/ y = [x EXCEPT !.left = @ \ {p}, !.notReady = @ \cup {p}]
         \/ y = [x EXCEPT !.left = @ \ {p}, !.broken = @ \cup {p}]
  PROVE  /\ y \in Scanning
         /\ x.left \subseteq y.left \cup y.notReady \cup y.broken
         /\ x.notReady \subseteq y.notReady
         /\ x.broken \subseteq y.broken
  <1>1. CASE y = [x EXCEPT !.left = @ \ {p}, !.notReady = @ \cup {p}]
    BY <1>1 DEF Scanning
  <1>2. CASE y = [x EXCEPT !.left = @ \ {p}, !.broken = @ \cup {p}]
    BY <1>2 DEF Scanning
  <1> QED
    BY <1>1, <1>2

\* One project of a sweep: answered, or among those the sweep has no answer for.
LEMMA SilenceSweepProject ==
  ASSUME SilenceInv, NEW s \in Sweeps, NEW p \in Projects, SweepProject(s, p)
  PROVE  SilenceInv'
  <1> USE BaselineAssumption
  <1>1. /\ UNCHANGED <<baseline, old, world, excused>>
        /\ sweep[s].at = "scanning" /\ p \in sweep[s].left
        /\ sweep[s] \in Scanning
    BY DEF SweepProject, SilenceInv, BaselineTypes, Elsewhere
  <1>2. CASE usable /\ Record(FoundIn(p)) /\ sweep' = [sweep EXCEPT ![s].left = @ \ {p}]
    <2>1. FoundIn(p) \subseteq Findings
      BY DEF FoundIn, SilenceInv, BaselineTypes
    <2>2. /\ stamped \subseteq stamped' /\ stamped' \subseteq Findings
          /\ single' \subseteq Findings /\ StampsAreFinal'
          /\ baseline = "pending" => FoundIn(p) \subseteq stamped'
      BY <1>1, <1>2, <2>1, RecordStamps
    <2>0. /\ sweep' = [r \in Sweeps |-> IF r = s THEN [sweep[s] EXCEPT !.left = @ \ {p}]
                                               ELSE sweep[r]]
          /\ sweep'[s] \in Scanning
      BY <1>1, <1>2 DEF SilenceInv, BaselineTypes, Scanning
    <2>3. BaselineTypes'
      BY <1>1, <2>0, <2>2 DEF SilenceInv, BaselineTypes
    <2>4. AnsweredIsStamped'
      <3> SUFFICES ASSUME NEW r \in Sweeps, sweep'[r].at = "scanning", baseline' = "pending",
                          NEW f \in old', f \notin stamped'
                   PROVE  f \in Unanswered(r)'
        BY DEF AnsweredIsStamped
      <3>1. f \in old /\ f \notin stamped /\ f \notin FoundIn(p) /\ baseline = "pending"
        BY <1>1, <2>2
      <3>2. ProjectOf[f] # p
        BY <3>1 DEF FoundIn, SilenceInv, BaselineTypes
      <3>3. sweep[r].at = "scanning"
        BY <1>1, <2>0
      <3>4. f \in Unanswered(r)
        BY <3>1, <3>3 DEF SilenceInv, AnsweredIsStamped
      <3>5. /\ sweep'[r].notReady = sweep[r].notReady /\ sweep'[r].broken = sweep[r].broken
            /\ sweep[r].left \ {p} \subseteq sweep'[r].left
        BY <1>1, <2>0 DEF Scanning
      <3> QED
        BY <1>1, <3>2, <3>4, <3>5 DEF Unanswered
    <2>5. ClaimedIsComplete'
      BY <1>1, <2>2 DEF SilenceInv, ClaimedIsComplete
    <2> QED
      BY <2>2, <2>3, <2>4, <2>5 DEF SilenceInv
  <1>3. CASE /\ UNCHANGED <<stamped, single>>
             /\ \/ sweep' = [sweep EXCEPT ![s] = [sweep[s] EXCEPT !.left = @ \ {p}, !.notReady = @ \cup {p}]]
                \/ sweep' = [sweep EXCEPT ![s] = [sweep[s] EXCEPT !.left = @ \ {p}, !.broken = @ \cup {p}]]
    <2>0. /\ sweep' = [r \in Sweeps |-> IF r = s THEN sweep'[s] ELSE sweep[r]]
          /\ sweep'[s] \in Scanning
          /\ sweep[s].left \subseteq sweep'[s].left \cup sweep'[s].notReady \cup sweep'[s].broken
          /\ sweep[s].notReady \subseteq sweep'[s].notReady
          /\ sweep[s].broken \subseteq sweep'[s].broken
      <3> DEFINE away == [sweep[s] EXCEPT !.left = @ \ {p}, !.notReady = @ \cup {p}]
                 lost == [sweep[s] EXCEPT !.left = @ \ {p}, !.broken = @ \cup {p}]
      <3>1. PICK y \in {away, lost} : sweep' = [sweep EXCEPT ![s] = y]
        BY <1>3
      <3>2. sweep'[s] = y /\ sweep' = [r \in Sweeps |-> IF r = s THEN sweep'[s] ELSE sweep[r]]
        BY <3>1 DEF SilenceInv, BaselineTypes
      <3>3. /\ y \in Scanning
            /\ sweep[s].left \subseteq y.left \cup y.notReady \cup y.broken
            /\ sweep[s].notReady \subseteq y.notReady
            /\ sweep[s].broken \subseteq y.broken
        BY <1>1, <3>1, UnansweredProject
      <3> QED
        BY <3>2, <3>3
    <2>1. BaselineTypes' /\ StampsAreFinal' /\ ClaimedIsComplete'
      BY <1>1, <1>3, <2>0
      DEF SilenceInv, BaselineTypes, StampsAreFinal, ClaimedIsComplete
    <2>2. \A r \in Sweeps : Unanswered(r) \subseteq Unanswered(r)' /\ sweep'[r].at = sweep[r].at
      <3> SUFFICES ASSUME NEW r \in Sweeps
                   PROVE  Unanswered(r) \subseteq Unanswered(r)' /\ sweep'[r].at = sweep[r].at
        OBVIOUS
      <3>1. CASE r = s
        BY <1>1, <2>0, <3>1 DEF Unanswered, Scanning
      <3>2. CASE r # s
        BY <1>1, <2>0, <3>2 DEF Unanswered
      <3> QED
        BY <3>1, <3>2
    <2>3. AnsweredIsStamped'
      BY <1>1, <1>3, <2>2 DEF SilenceInv, AnsweredIsStamped
    <2> QED
      BY <2>1, <2>3 DEF SilenceInv
  <1> QED
    BY <1>2, <1>3 DEF SweepProject

LEMMA SilenceStep == SilenceInv /\ [Next]_vars => SilenceInv'
  <1> SUFFICES ASSUME SilenceInv, [Next]_vars PROVE SilenceInv'
    OBVIOUS
  <1> USE BaselineAssumption
  <1>0. /\ world \subseteq Findings /\ sweep = [s \in Sweeps |-> sweep[s]]
        /\ \A s \in Sweeps : sweep[s] \in Scanning \/ Elsewhere(sweep[s])
    BY DEF SilenceInv, BaselineTypes
  <1>1. ASSUME NEW p \in Projects, RescanProject(p) PROVE SilenceInv'
    <2>1. FoundIn(p) \subseteq Findings
      BY <1>0 DEF FoundIn
    <2>2. UNCHANGED <<baseline, old, world, excused, sweep>>
      BY <1>1 DEF RescanProject
    <2>3. /\ stamped \subseteq stamped' /\ stamped' \subseteq Findings
          /\ single' \subseteq Findings /\ StampsAreFinal'
      BY <1>1, <2>1, <2>2, RecordStamps DEF RescanProject
    <2>4. \A s \in Sweeps : Unanswered(s)' = Unanswered(s)
      BY <2>2 DEF Unanswered
    <2> QED
      BY <2>2, <2>3, <2>4
      DEF SilenceInv, BaselineTypes, AnsweredIsStamped, ClaimedIsComplete
  <1>2. ASSUME NEW s \in Sweeps, StartSweep(s) PROVE SilenceInv'
    <2>1. /\ UNCHANGED <<baseline, stamped, single, old, excused, world>>
          /\ sweep' = [sweep EXCEPT ![s] = FreshSweep]
      BY <1>2 DEF StartSweep, events, FreshSweep
    <2>2. sweep' = [r \in Sweeps |-> sweep'[r]]
      BY <1>0, <2>1
    <2>3. \A r \in Sweeps : sweep'[r] = sweep[r] \/ sweep'[r] = FreshSweep
      BY <1>0, <2>1
    <2> QED
      BY <1>0, <2>1, <2>2, <2>3, SilenceKept
  <1>3. ASSUME NEW s \in Sweeps, CompleteSweep(s) PROVE SilenceInv'
    <2>1. CASE baseline = "pending" /\ ~Waiting(s)
      BY <1>3, <2>1, SilenceClaim
    <2>2. CASE ~(baseline = "pending" /\ ~Waiting(s))
      <3>1. /\ UNCHANGED <<baseline, stamped, single, old, excused, world>>
            /\ sweep' = [sweep EXCEPT ![s] = [at |-> "queued"]]
        BY <1>3, <2>2 DEF CompleteSweep
      <3>2. sweep' = [r \in Sweeps |-> sweep'[r]]
        BY <1>0, <3>1
      <3>3. \A r \in Sweeps : sweep'[r] = sweep[r] \/ Elsewhere(sweep'[r])
        BY <1>0, <3>1 DEF Elsewhere
      <3> QED
        BY <1>0, <3>1, <3>2, <3>3, SilenceKept
    <2> QED
      BY <2>1, <2>2
  <1>4. ASSUME NEW s \in Sweeps, Dispatch(s) PROVE SilenceInv'
    <2>1. /\ UNCHANGED <<stamped, single, old, excused, world>>
          /\ baseline' = baseline \/ (baseline = "swept" /\ baseline' = "done")
      BY <1>4 DEF Dispatch, StartDispatch, Pass, Attempt, SendSucceeds, SendFails, SendThrows,
                  EndDispatch, events
    <2>2. /\ sweep' = [r \in Sweeps |-> sweep'[r]]
          /\ \A r \in Sweeps : sweep'[r] = sweep[r] \/ Elsewhere(sweep'[r])
      <3>1. CASE StartDispatch(s)
        BY <1>0, <3>1 DEF StartDispatch, Elsewhere
      <3>2. CASE \/ \E t \in Targets : Pass(s, t) \/ Attempt(s, t)
                 \/ SendSucceeds(s) \/ SendFails(s)
        <4>1. sweep[s].at = "dispatching" /\ Elsewhere(sweep[s])
          BY <1>0, <3>2
          DEF Pass, Attempt, SendSucceeds, SendFails, Dispatching, Sending, Scanning
        <4>2. PICK x : sweep' = [sweep EXCEPT ![s] = x] /\ Elsewhere(x)
          <5>1. CASE \E t \in Targets : Pass(s, t)
            BY <4>1, <5>1 DEF Pass, Elsewhere
          <5>2. CASE \E t \in Targets : Attempt(s, t)
            BY <4>1, <5>2 DEF Attempt, Elsewhere
          <5>3. CASE SendSucceeds(s) \/ SendFails(s)
            BY <4>1, <5>3 DEF SendSucceeds, SendFails, Elsewhere
          <5> QED
            BY <3>2, <5>1, <5>2, <5>3
        <4> QED
          BY <1>0, <4>2
      <3>3. CASE SendThrows(s) \/ EndDispatch(s)
        BY <1>0, <3>3 DEF SendThrows, EndDispatch, Returned, NotSweeping, Elsewhere
      <3> QED
        BY <1>4, <3>1, <3>2, <3>3 DEF Dispatch
    <2> QED
      BY <1>0, <2>1, <2>2, SilenceKept
  <1>5. ASSUME NEW s \in Sweeps, NEW p \in Projects, SweepProject(s, p) PROVE SilenceInv'
    BY <1>5, SilenceSweepProject
  <1>6. CASE Crash
    <2>1. /\ UNCHANGED <<baseline, stamped, single, old, excused, world>>
          /\ sweep' = [s \in Sweeps |-> NotSweeping]
      BY <1>6 DEF Crash, events
    <2>2. \A r \in Sweeps : Elsewhere(sweep'[r])
      BY <2>1 DEF NotSweeping, Elsewhere
    <2> QED
      BY <1>0, <2>1, <2>2, SilenceKept
  <1>7. ASSUME NEW f \in Findings, NewFinding(f) PROVE SilenceInv'
    BY <1>0, <1>7, SilenceKept DEF NewFinding
  <1>8. CASE \/ CacheLands \/ SyncSettles
             \/ \E t \in Targets : \/ \E on \in BOOLEAN, pol \in Policies : EditTarget(t, on, pol)
                                   \/ \E pol \in Policies : AddTarget(t, pol)
                                   \/ DeleteTarget(t)
             \/ \E f \in Findings : ChangeMute(f)
             \/ UNCHANGED vars
    <2>1. UNCHANGED <<baseline, stamped, single, old, excused, world, sweep>>
      BY <1>8 DEF CacheLands, SyncSettles, EditTarget, AddTarget, DeleteTarget, ChangeMute, vars,
                  events
    <2> QED
      BY <1>0, <2>1, SilenceKept
  <1> QED
    BY <1>1, <1>2, <1>3, <1>4, <1>5, <1>6, <1>7, <1>8 DEF Next

\* The silent baseline is silent: no finding from before the upgrade is ever notified by
\* itself, unless its own scan broke or its cache could not be downloaded when the first
\* completed sweep claimed the baseline (onCompletedSweep, upsertByIdentityKey).
THEOREM OldNewsStaysSilent == Spec => []OldNewsIsSilent
  <1>1. Spec => []SilenceInv
    BY SilenceInit, SilenceStep, PTL DEF Spec
  <1> QED
    BY <1>1, SilenceFollows, PTL

-----------------------------------------------------------------------------
(* The dispatcher: one summary per target.                                 *)

\* A dispatch that runs is first in the queue, and one that waits is in it.
QueueInv ==
    /\ queue \in Seq(Sweeps)
    /\ \A s \in Sweeps : sweep[s].at \in {"queued", "dispatching"} => \E i \in 1..Len(queue) : queue[i] = s
    /\ \A s \in Sweeps : sweep[s].at = "dispatching" => Head(queue) = s

IsSummary(r) == r = [field \in {"state", "counts", "policy", "attempts"} |-> r[field]]

IsDispatch(x) ==
    /\ x = [field \in {"at", "left", "seen", "to"} |-> x[field]]
    /\ x.left \subseteq Targets /\ x.to \in Targets \cup {Absent} /\ x.to \notin x.left

\* What a dispatch may still send.
Ahead(x) == x.left \cup ({x.to} \ {Absent})

\* Its row is open, or went with its target, which does not come back.
Waits(t) ==
    /\ delivered[t] = 0
    /\ \/ IsSummary(summary[t]) /\ summary[t].state = "open"
       \/ summary[t] = Absent /\ ~target[t].live /\ target[t].enabled

SummaryInv ==
    /\ summary = [t \in Targets |-> summary[t]]
    /\ delivered = [t \in Targets |-> delivered[t]]
    /\ target \in [Targets -> [live : BOOLEAN, enabled : BOOLEAN, policy : SUBSET Findings]]
    /\ \A t \in Targets : /\ summary[t] # Absent => IsSummary(summary[t])
                          /\ delivered[t] \in {0, 1}
                          /\ delivered[t] = 1 => summary[t] = Absent \/ summary[t].state = "sent"
    /\ \A s \in Sweeps : sweep[s].at = "dispatching" => IsDispatch(sweep[s]) /\ \A t \in Ahead(sweep[s]) : Waits(t)
    /\ baseline = "pending" =>
          /\ \A t \in Targets : summary[t] = Absent /\ delivered[t] = 0
          /\ \A s \in Sweeps : sweep[s].at = "dispatching" => Ahead(sweep[s]) = {}

LEMMA QueueSame ==
  ASSUME QueueInv, UNCHANGED queue,
         \A s \in Sweeps : \/ sweep'[s].at = sweep[s].at
                           \/ sweep'[s].at \notin {"queued", "dispatching"}
                           \/ sweep[s].at = "queued" /\ Head(queue) = s
  PROVE  QueueInv'
  BY DEF QueueInv

LEMMA QueueNext ==
  ASSUME QueueInv, NEW s \in Sweeps, sweep[s].at = "dispatching", queue' = Tail(queue),
         sweep'[s].at \notin {"queued", "dispatching"},
         \A r \in Sweeps \ {s} : sweep'[r] = sweep[r]
  PROVE  QueueInv'
  <1>1. queue \in Seq(Sweeps) /\ queue # <<>> /\ Head(queue) = s /\ Len(queue) \in Nat
    BY EmptySeq, LenProperties DEF QueueInv
  <1>2. /\ Tail(queue) \in Seq(Sweeps) /\ Len(Tail(queue)) = Len(queue) - 1
        /\ \A i \in 1..Len(Tail(queue)) : Tail(queue)[i] = queue[i + 1]
    BY <1>1, HeadTailProperties
  <1>3. Head(queue) = queue[1]
    BY <1>1
  <1>4. ASSUME NEW r \in Sweeps, sweep'[r].at \in {"queued", "dispatching"}
        PROVE  (\E i \in 1..Len(queue') : queue'[i] = r) /\ sweep'[r].at # "dispatching"
    <2>1. r # s /\ sweep'[r] = sweep[r]
      BY <1>4
    <2>2. PICK i \in 1..Len(queue) : queue[i] = r
      BY <1>4, <2>1 DEF QueueInv
    <2>3. i # 1
      BY <1>1, <1>3, <2>1, <2>2
    <2>4. i - 1 \in 1..Len(Tail(queue)) /\ (i - 1) + 1 = i
      BY <1>1, <1>2, <2>3
    <2>5. sweep[r].at # "dispatching"
      BY <1>1, <2>1 DEF QueueInv
    <2> QED
      BY <1>2, <2>1, <2>2, <2>4, <2>5
  <1> QED
    BY <1>2, <1>4 DEF QueueInv

LEMMA QueueStep == SilenceInv /\ QueueInv /\ [Next]_vars => QueueInv'
  <1> SUFFICES ASSUME SilenceInv, QueueInv, [Next]_vars PROVE QueueInv'
    OBVIOUS
  <1>0. /\ sweep = [s \in Sweeps |-> sweep[s]]
        /\ \A s \in Sweeps : "at" \in DOMAIN sweep[s]
    BY DEF SilenceInv, BaselineTypes, Scanning, Elsewhere
  <1>1. ASSUME NEW s \in Sweeps, StartSweep(s) PROVE QueueInv'
    BY <1>0, <1>1, QueueSame DEF StartSweep
  <1>2. ASSUME NEW s \in Sweeps, NEW p \in Projects, SweepProject(s, p) PROVE QueueInv'
    <2>1. /\ UNCHANGED queue /\ sweep[s].at = "scanning"
          /\ \E x : sweep' = [sweep EXCEPT ![s] = x] /\ x.at = "scanning"
      <3>1. sweep[s] \in Scanning
        BY <1>2 DEF SweepProject, SilenceInv, BaselineTypes, Elsewhere
      <3>2. /\ sweep[s].at = "scanning"
            /\ [sweep[s] EXCEPT !.left = @ \ {p}].at = "scanning"
            /\ [sweep[s] EXCEPT !.left = @ \ {p}, !.notReady = @ \cup {p}].at = "scanning"
            /\ [sweep[s] EXCEPT !.left = @ \ {p}, !.broken = @ \cup {p}].at = "scanning"
        BY <3>1 DEF Scanning
      <3> QED
        BY <1>2, <3>2 DEF SweepProject
    <2> QED
      BY <1>0, <2>1, QueueSame
  <1>3. ASSUME NEW s \in Sweeps, CompleteSweep(s) PROVE QueueInv'
    <2>1. /\ sweep' = [sweep EXCEPT ![s] = [at |-> "queued"]]
          /\ queue' = Append(queue, s) /\ sweep[s].at = "scanning"
      BY <1>3 DEF CompleteSweep
    <2>2. queue \in Seq(Sweeps) /\ Len(queue) \in Nat
      BY LenProperties DEF QueueInv
    <2>3. /\ queue' \in Seq(Sweeps) /\ Len(queue') = Len(queue) + 1
          /\ \A i \in 1..Len(queue) : queue'[i] = queue[i]
          /\ queue'[Len(queue) + 1] = s
      BY <2>1, <2>2, AppendProperties
    <2>4. sweep'[s].at = "queued" /\ \A r \in Sweeps \ {s} : sweep'[r] = sweep[r]
      BY <1>0, <2>1
    <2>5. ASSUME NEW r \in Sweeps, r # s, sweep[r].at \in {"queued", "dispatching"}
          PROVE  /\ \E i \in 1..Len(queue') : queue'[i] = r
                 /\ sweep[r].at = "dispatching" => Head(queue') = r
      <3>1. PICK i \in 1..Len(queue) : queue[i] = r
        BY <2>5 DEF QueueInv
      <3>2. i \in 1..Len(queue') /\ queue # <<>>
        BY <2>2, <2>3, <3>1, EmptySeq
      <3>3. Head(queue') = Head(queue)
        BY <2>1, <2>2, <3>2, HeadTailAppend
      <3> QED
        BY <2>3, <2>5, <3>1, <3>2, <3>3 DEF QueueInv
    <2>6. Len(queue) + 1 \in 1..Len(queue')
      BY <2>2, <2>3
    <2> QED
      BY <2>3, <2>4, <2>5, <2>6 DEF QueueInv
  <1>4. ASSUME NEW s \in Sweeps, StartDispatch(s) PROVE QueueInv'
    BY <1>0, <1>4, QueueSame DEF StartDispatch, Turn
  <1>5. ASSUME NEW s \in Sweeps,
               (\E t \in Targets : Pass(s, t) \/ Attempt(s, t)) \/ SendSucceeds(s) \/ SendFails(s)
        PROVE  QueueInv'
    <2>1. PICK x : sweep' = [sweep EXCEPT ![s] = x] /\ x.at = sweep[s].at /\ UNCHANGED queue
      <3>1. CASE \E t \in Targets : Pass(s, t)
        BY <1>0, <3>1 DEF Pass
      <3>2. CASE \E t \in Targets : Attempt(s, t)
        BY <1>0, <3>2 DEF Attempt
      <3>3. CASE SendSucceeds(s) \/ SendFails(s)
        BY <1>0, <3>3 DEF SendSucceeds, SendFails
      <3> QED
        BY <1>5, <3>1, <3>2, <3>3
    <2> QED
      BY <1>0, <2>1, QueueSame
  <1>6. ASSUME NEW s \in Sweeps, SendThrows(s) \/ EndDispatch(s) PROVE QueueInv'
    <2>1. /\ sweep[s].at = "dispatching" /\ queue' = Tail(queue)
          /\ sweep' = [sweep EXCEPT ![s] = NotSweeping]
      BY <1>6 DEF SendThrows, EndDispatch, Sending, Dispatching, Returned
    <2> QED
      BY <1>0, <2>1, QueueNext DEF NotSweeping
  <1>7. CASE Crash
    <2>1. queue' = <<>> /\ sweep' = [s \in Sweeps |-> NotSweeping]
      BY <1>7 DEF Crash
    <2> QED
      BY <2>1, EmptySeq DEF QueueInv, NotSweeping
  <1>8. CASE \/ \E p \in Projects : RescanProject(p)
             \/ CacheLands \/ SyncSettles
             \/ \E t \in Targets : \/ \E on \in BOOLEAN, pol \in Policies : EditTarget(t, on, pol)
                                   \/ \E pol \in Policies : AddTarget(t, pol)
                                   \/ DeleteTarget(t)
             \/ \E f \in Findings : ChangeMute(f) \/ NewFinding(f)
             \/ UNCHANGED vars
    <2>1. UNCHANGED <<sweep, queue>>
      BY <1>8 DEF RescanProject, CacheLands, SyncSettles, EditTarget, AddTarget, DeleteTarget, ChangeMute,
                  NewFinding, vars
    <2> QED
      BY <2>1, QueueSame
  <1> QED
    BY <1>1, <1>2, <1>3, <1>4, <1>5, <1>6, <1>7, <1>8 DEF Next, Dispatch

\* A settled row stays as it is until its target goes.
RowsStay == \A t \in Targets : Settled(t) => summary'[t] \in {Absent, summary[t]}

LEMMA SummaryInit == Init => QueueInv /\ SummaryInv
  <1> SUFFICES ASSUME Init PROVE QueueInv /\ SummaryInv
    OBVIOUS
  <1>1. \A s \in Sweeps : sweep[s].at = "idle"
    BY DEF Init, NotSweeping
  <1>2. queue \in Seq(Sweeps)
    BY EmptySeq DEF Init
  <1>3. /\ summary = [t \in Targets |-> Absent] /\ summary = [t \in Targets |-> summary[t]]
        /\ delivered = [t \in Targets |-> 0] /\ delivered = [t \in Targets |-> delivered[t]]
    BY DEF Init
  <1>4. target \in [Targets -> [live : BOOLEAN, enabled : BOOLEAN, policy : SUBSET Findings]]
    <2>1. target \in [Targets -> {[live |-> FALSE, enabled |-> FALSE, policy |-> {}]}
                        \cup [live : {TRUE}, enabled : {TRUE}, policy : Policies]]
      BY DEF Init
    <2>2. ASSUME NEW x \in {[live |-> FALSE, enabled |-> FALSE, policy |-> {}]}
                        \cup [live : {TRUE}, enabled : {TRUE}, policy : Policies]
          PROVE  x \in [live : BOOLEAN, enabled : BOOLEAN, policy : SUBSET Findings]
      <3>1. CASE x = [live |-> FALSE, enabled |-> FALSE, policy |-> {}]
        BY <3>1
      <3>2. CASE x \in [live : {TRUE}, enabled : {TRUE}, policy : Policies]
        BY <3>2, BaselineAssumption DEF BaselineAssumption
      <3> QED
        BY <2>2, <3>1, <3>2
    <2> QED
      BY <2>1, <2>2
  <1> QED
    BY <1>1, <1>2, <1>3, <1>4 DEF QueueInv, SummaryInv

\* A step that leaves rows, successes and targets alone, and adds nothing to a dispatch.
LEMMA SummaryKept ==
  ASSUME SummaryInv, UNCHANGED <<summary, delivered, target>>,
         baseline' = "pending" => baseline = "pending",
         \A s \in Sweeps : \/ sweep'[s].at # "dispatching"
                           \/ sweep'[s] = sweep[s]
                           \/ /\ sweep[s].at = "dispatching" /\ IsDispatch(sweep'[s])
                              /\ Ahead(sweep'[s]) \subseteq Ahead(sweep[s])
  PROVE  SummaryInv' /\ RowsStay
  <1>1. \A t \in Targets \cup {Absent} : Waits(t)' <=> Waits(t)
    BY DEF Waits
  <1>2. \A s \in Sweeps : IsDispatch(sweep[s]) => Ahead(sweep[s]) \subseteq Targets \cup {Absent}
    BY DEF IsDispatch, Ahead
  <1>3. ASSUME NEW s \in Sweeps, sweep'[s].at = "dispatching"
        PROVE  /\ IsDispatch(sweep'[s]) /\ \A t \in Ahead(sweep'[s]) : Waits(t)'
               /\ baseline' = "pending" => Ahead(sweep'[s]) = {}
    <2>1. CASE sweep'[s] = sweep[s]
      BY <1>1, <1>2, <1>3, <2>1 DEF SummaryInv
    <2>2. CASE /\ sweep[s].at = "dispatching" /\ IsDispatch(sweep'[s])
               /\ Ahead(sweep'[s]) \subseteq Ahead(sweep[s])
      BY <1>1, <1>2, <1>3, <2>2 DEF SummaryInv
    <2> QED
      BY <1>3, <2>1, <2>2
  <1>4. \A s \in Sweeps : sweep'[s].at = "dispatching" => IsDispatch(sweep'[s]) /\ \A t \in Ahead(sweep'[s]) : Waits(t)'
    BY <1>3
  <1>5. baseline' = "pending" => \A s \in Sweeps : sweep'[s].at = "dispatching" => Ahead(sweep'[s]) = {}
    BY <1>3
  <1>6. SummaryInv'
    BY <1>4, <1>5 DEF SummaryInv
  <1> QED
    BY <1>6 DEF RowsStay

\* A step of the dispatch that runs, with t taken off its list: only t's row changes.
LEMMA SummaryOf ==
  ASSUME SummaryInv, QueueInv, NEW s \in Sweeps, sweep[s].at = "dispatching",
         NEW t \in Ahead(sweep[s]), NEW x,
         sweep = [r \in Sweeps |-> sweep[r]], sweep' = [sweep EXCEPT ![s] = x],
         IsDispatch(x), Ahead(x) \subseteq Ahead(sweep[s]),
         UNCHANGED <<baseline, target>>,
         NEW r, summary' = summary \/ summary' = [summary EXCEPT ![t] = r],
         NEW d \in {0, 1}, delivered' = [delivered EXCEPT ![t] = d],
         r # Absent => IsSummary(r),
         d = 1 => summary'[t] = Absent \/ summary'[t].state = "sent",
         t \in Ahead(x) => Waits(t)'
  PROVE  SummaryInv' /\ RowsStay
  <1>1. /\ t \in Targets /\ Waits(t) /\ baseline # "pending"
        /\ Ahead(sweep[s]) \subseteq Targets
    BY DEF SummaryInv, IsDispatch, Ahead
  <1>2. /\ summary' = [u \in Targets |-> summary'[u]] /\ delivered' = [u \in Targets |-> delivered'[u]]
        /\ summary'[t] \in {r, summary[t]} /\ delivered'[t] = d
        /\ \A u \in Targets \ {t} : summary'[u] = summary[u] /\ delivered'[u] = delivered[u]
    BY <1>1 DEF SummaryInv
  <1>3. \A u \in Targets \ {t} : Waits(u)' <=> Waits(u)
    BY <1>2 DEF Waits
  <1>4. sweep'[s] = x /\ \A q \in Sweeps \ {s} : sweep'[q] = sweep[q] /\ sweep[q].at # "dispatching"
    BY DEF QueueInv
  <1>5. \A u \in Ahead(x) : Waits(u)'
    BY <1>1, <1>3 DEF SummaryInv
  <1>6. \A u \in Targets : /\ summary'[u] # Absent => IsSummary(summary'[u])
                           /\ delivered'[u] \in {0, 1}
                           /\ delivered'[u] = 1 => summary'[u] = Absent \/ summary'[u].state = "sent"
    BY <1>1, <1>2 DEF SummaryInv
  <1>7. SummaryInv'
    BY <1>1, <1>2, <1>4, <1>5, <1>6 DEF SummaryInv
  <1>8. ~Settled(t)
    BY <1>1 DEF Waits, Settled
  <1> QED
    BY <1>2, <1>7, <1>8 DEF RowsStay

\* The claim opens the rows: until then there were none, and nothing to send.
LEMMA SummaryClaim ==
  ASSUME SummaryInv, NEW s \in Sweeps, CompleteSweep(s), sweep = [r \in Sweeps |-> sweep[r]]
  PROVE  SummaryInv' /\ RowsStay
  <1>1. /\ sweep'[s].at # "dispatching" /\ \A r \in Sweeps \ {s} : sweep'[r] = sweep[r]
        /\ UNCHANGED <<delivered, target>>
    BY DEF CompleteSweep, policy
  <1>2. CASE UNCHANGED <<baseline, summary>>
    BY <1>1, <1>2, SummaryKept
  <1>3. CASE ~UNCHANGED <<baseline, summary>>
    <2> DEFINE fresh(t) == [state |-> "open", counts |-> baselineCountsForTarget(t),
                            policy |-> target[t].policy, attempts |-> 0]
    <2>1. /\ baseline = "pending" /\ baseline' = "swept"
          /\ summary' = [t \in Targets |-> IF t \in Enabled THEN fresh(t) ELSE Absent]
      BY <1>3 DEF CompleteSweep
    <2>2. \A t : IsSummary(fresh(t))
      BY DEF IsSummary
    <2> HIDE DEF fresh
    <2>3. summary' = [t \in Targets |-> summary'[t]] /\ \A t \in Targets : summary'[t] # Absent => IsSummary(summary'[t])
      BY <2>1, <2>2
    <2>4. \A t \in Targets : delivered[t] = 0 /\ summary[t] = Absent
      BY <2>1 DEF SummaryInv
    <2>5. \A r \in Sweeps : sweep'[r].at = "dispatching" => IsDispatch(sweep'[r]) /\ Ahead(sweep'[r]) = {}
      BY <1>1, <2>1 DEF SummaryInv
    <2>6. SummaryInv'
      BY <1>1, <2>1, <2>3, <2>4, <2>5 DEF SummaryInv
    <2> QED
      BY <2>4, <2>6 DEF RowsStay, Settled
  <1> QED
    BY <1>2, <1>3

LEMMA SummaryDispatch ==
  ASSUME SummaryInv, QueueInv, sweep = [r \in Sweeps |-> sweep[r]], NEW s \in Sweeps, Dispatch(s)
  PROVE  SummaryInv' /\ RowsStay
  <1> USE BaselineAssumption DEF BaselineAssumption
  <1>0. 0 \in {0, 1} /\ 1 \in {0, 1} /\ 0 # 1
    OBVIOUS
  <1>1. CASE StartDispatch(s)
    <2> DEFINE x == [at |-> "dispatching", left |-> IF baseline = "swept" THEN Open ELSE {},
                     seen |-> summary, to |-> Absent]
    <2>1. sweep' = [sweep EXCEPT ![s] = x] /\ UNCHANGED <<baseline, summary, delivered, target>>
      BY <1>1 DEF StartDispatch, policy
    <2>2. /\ x.left = (IF baseline = "swept" THEN Open ELSE {}) /\ x.to = Absent
          /\ x = [field \in {"at", "left", "seen", "to"} |-> x[field]]
      OBVIOUS
    <2> HIDE DEF x
    <2>3. IsDispatch(x) /\ Ahead(x) = x.left
      BY <2>2 DEF IsDispatch, Ahead, Open
    <2>4. \A t \in Open : t \in Targets /\ Waits(t)
      BY DEF Open, Waits, SummaryInv
    <2>5. \A t \in Targets : Waits(t)' <=> Waits(t)
      BY <2>1 DEF Waits
    <2>6. \A t \in Ahead(x) : Waits(t)'
      BY <2>2, <2>3, <2>4, <2>5
    <2>7. \A r \in Sweeps \ {s} : sweep'[r] = sweep[r]
      BY <2>1
    <2>8. ASSUME NEW r \in Sweeps, r # s, sweep[r].at = "dispatching"
          PROVE  IsDispatch(sweep[r]) /\ \A t \in Ahead(sweep[r]) : Waits(t)'
      <3>1. IsDispatch(sweep[r]) /\ \A t \in Ahead(sweep[r]) : Waits(t)
        BY <2>8 DEF SummaryInv
      <3>2. Ahead(sweep[r]) \subseteq Targets
        BY <3>1 DEF IsDispatch, Ahead
      <3> QED
        BY <2>5, <3>1, <3>2
    <2>9. sweep'[s] = x /\ (baseline = "pending" => Ahead(x) = {})
      BY <2>1, <2>2, <2>3
    <2>10. SummaryInv'
      BY <2>1, <2>3, <2>6, <2>7, <2>8, <2>9 DEF SummaryInv
    <2> QED
      BY <2>1, <2>10 DEF RowsStay
  <1>2. ASSUME sweep[s].at = "dispatching"
        PROVE  /\ IsDispatch(sweep[s]) /\ \A t \in Ahead(sweep[s]) : t \in Targets /\ Waits(t)
               /\ delivered = [t \in Targets |-> delivered[t]]
    BY <1>2 DEF SummaryInv, IsDispatch, Ahead
  <1>3. ASSUME NEW t \in Targets, Pass(s, t)
        PROVE  SummaryInv' /\ RowsStay
    <2> DEFINE x == [sweep[s] EXCEPT !.left = @ \ {t}]
    <2>1. /\ sweep[s].at = "dispatching" /\ sweep[s].to = Absent /\ t \in sweep[s].left
          /\ sweep' = [sweep EXCEPT ![s] = x] /\ UNCHANGED <<baseline, delivered, target>>
      BY <1>3 DEF Pass, Dispatching, policy
    <2>2. /\ x = [field \in {"at", "left", "seen", "to"} |-> x[field]]
          /\ x.left = sweep[s].left \ {t} /\ x.to = Absent
      BY <1>2, <2>1 DEF IsDispatch
    <2> HIDE DEF x
    <2>3. /\ IsDispatch(x) /\ Ahead(x) \subseteq Ahead(sweep[s]) /\ t \notin Ahead(x)
          /\ t \in Ahead(sweep[s]) /\ Waits(t)
      BY <1>2, <2>1, <2>2 DEF IsDispatch, Ahead
    <2>4. delivered[t] = 0 /\ delivered' = [delivered EXCEPT ![t] = 0]
      BY <1>2, <2>1, <2>3 DEF Waits
    <2>5. PICK r : (summary' = summary \/ summary' = [summary EXCEPT ![t] = r]) /\ IsSummary(r)
      <3>1. CASE t \notin Live
        <4>1. summary' = summary
          BY <1>3, <3>1 DEF Pass
        <4>2. IsSummary([field \in {"state", "counts", "policy", "attempts"} |-> {}])
          BY DEF IsSummary
        <4> QED
          BY <4>1, <4>2
      <3>2. CASE t \in Live
        <4>1. IsSummary(summary[t])
          BY <2>3, <3>2 DEF Waits, Live
        <4>2. \A how : IsSummary([summary[t] EXCEPT !.state = how])
          BY <4>1 DEF IsSummary
        <4>3. PICK how : summary' = [summary EXCEPT ![t] = [summary[t] EXCEPT !.state = how]]
          BY <1>3, <3>2 DEF Pass
        <4> QED
          BY <4>2, <4>3
      <3> QED
        BY <3>1, <3>2
    <2> QED
      BY <1>0, <2>1, <2>3, <2>4, <2>5, SummaryOf
  <1>4. ASSUME NEW t \in Targets, Attempt(s, t)
        PROVE  SummaryInv' /\ RowsStay
    <2> DEFINE x == [sweep[s] EXCEPT !.left = @ \ {t}, !.to = t]
               r == [summary[t] EXCEPT !.attempts = @ + 1]
    <2>1. /\ sweep[s].at = "dispatching" /\ t \in sweep[s].left /\ t \in Live
          /\ sweep' = [sweep EXCEPT ![s] = x] /\ UNCHANGED <<baseline, delivered, target>>
          /\ summary' = [summary EXCEPT ![t] = r]
      BY <1>4 DEF Attempt, Dispatching, policy
    <2>2. /\ x = [field \in {"at", "left", "seen", "to"} |-> x[field]]
          /\ x.left = sweep[s].left \ {t} /\ x.to = t
      BY <1>2, <2>1 DEF IsDispatch
    <2>3. t \in Ahead(sweep[s]) /\ Waits(t)
      BY <1>2, <2>1 DEF Ahead
    <2>4. IsSummary(summary[t]) /\ summary[t].state = "open"
      BY <2>1, <2>3 DEF Waits, Live
    <2>5. IsSummary(r) /\ r.state = "open"
      BY <2>4 DEF IsSummary
    <2> HIDE DEF x, r
    <2>6. IsDispatch(x) /\ Ahead(x) \subseteq Ahead(sweep[s])
      BY <1>2, <2>1, <2>2 DEF IsDispatch, Ahead
    <2>7. delivered[t] = 0 /\ delivered' = [delivered EXCEPT ![t] = 0]
      BY <1>2, <2>1, <2>3 DEF Waits
    <2>8. summary'[t] = r /\ delivered'[t] = 0
      BY <2>1, <2>7 DEF SummaryInv
    <2>9. Waits(t)'
      BY <2>5, <2>8 DEF Waits
    <2> QED
      BY <1>0, <2>1, <2>3, <2>5, <2>6, <2>7, <2>9, SummaryOf
  <1>5. ASSUME SendSucceeds(s) \/ SendFails(s)
        PROVE  SummaryInv' /\ RowsStay
    <2> DEFINE t == sweep[s].to
               x == [sweep[s] EXCEPT !.to = Absent]
    <2>1. /\ sweep[s].at = "dispatching" /\ t # Absent
          /\ sweep' = [sweep EXCEPT ![s] = x] /\ UNCHANGED <<baseline, target>>
      BY <1>5 DEF SendSucceeds, SendFails, Sending, policy
    <2>2. /\ x = [field \in {"at", "left", "seen", "to"} |-> x[field]]
          /\ x.left = sweep[s].left /\ x.to = Absent
      BY <1>2, <2>1 DEF IsDispatch
    <2> HIDE DEF x
    <2>3. /\ IsDispatch(x) /\ Ahead(x) \subseteq Ahead(sweep[s]) /\ t \notin Ahead(x)
          /\ t \in Ahead(sweep[s]) /\ t \in Targets /\ Waits(t)
      BY <1>2, <2>1, <2>2 DEF IsDispatch, Ahead
    <2>4. ASSUME NEW how
          PROVE  LET r == [summary[t] EXCEPT !.state = how]
                 IN  summary[t] # Absent => IsSummary(r) /\ r.state = how /\ [summary EXCEPT ![t].state = how] = [summary EXCEPT ![t] = r]
      <3>1. summary[t] # Absent => IsSummary(summary[t])
        BY <2>3 DEF SummaryInv
      <3> QED
        BY <3>1 DEF IsSummary
    <2>5. CASE SendSucceeds(s)
      <3> DEFINE r == [summary[t] EXCEPT !.state = "sent"]
      <3>1. delivered[t] = 0 /\ delivered' = [delivered EXCEPT ![t] = 1]
        BY <2>3, <2>5 DEF SendSucceeds, Waits
      <3>2. IF summary[t] = Absent THEN summary' = summary ELSE summary' = [summary EXCEPT ![t] = r] /\ IsSummary(r) /\ r.state = "sent"
        BY <2>4, <2>5 DEF SendSucceeds, Recorded
      <3> HIDE DEF r, t
      <3>3. CASE summary[t] = Absent
        BY <2>1, <2>3, <3>1, <3>2, <3>3, SummaryOf
      <3>4. CASE summary[t] # Absent
        <4>1. summary'[t] = r
          BY <2>3, <3>2, <3>4 DEF SummaryInv
        <4> QED
          BY <2>1, <2>3, <3>1, <3>2, <3>4, <4>1, SummaryOf
      <3> QED
        BY <3>3, <3>4
    <2>6. CASE SendFails(s)
      <3> DEFINE r == [summary[t] EXCEPT !.state = "gaveUp"]
      <3>1. delivered[t] = 0 /\ delivered' = [delivered EXCEPT ![t] = 0]
        BY <1>2, <2>1, <2>3, <2>6 DEF SendFails, Waits
      <3>2. summary' = summary \/ (summary' = [summary EXCEPT ![t] = r] /\ IsSummary(r))
        BY <2>4, <2>6 DEF SendFails, Recorded
      <3> HIDE DEF r, t
      <3>3. CASE summary' = summary
        BY <1>0, <2>1, <2>3, <3>1, <3>3, SummaryOf
      <3>4. CASE summary' = [summary EXCEPT ![t] = r] /\ IsSummary(r)
        BY <1>0, <2>1, <2>3, <3>1, <3>4, SummaryOf
      <3> QED
        BY <3>2, <3>3, <3>4
    <2> QED
      BY <1>5, <2>5, <2>6
  <1>6. ASSUME SendThrows(s) \/ EndDispatch(s)
        PROVE  SummaryInv' /\ RowsStay
    <2>1. /\ sweep' = [sweep EXCEPT ![s] = NotSweeping] /\ UNCHANGED <<summary, delivered, target>>
          /\ baseline' = "pending" => baseline = "pending"
      BY <1>6 DEF SendThrows, EndDispatch, Returned, policy
    <2> QED
      BY <2>1, SummaryKept DEF NotSweeping
  <1> QED
    BY <1>1, <1>3, <1>4, <1>5, <1>6 DEF Dispatch

\* An edit of a target: one that went does not come back, and takes its row with it.
LEMMA SummaryEdit ==
  ASSUME SummaryInv, UNCHANGED <<delivered, baseline, sweep>>, NEW t \in Targets,
         \/ \E on \in BOOLEAN, pol \in Policies : EditTarget(t, on, pol)
         \/ \E pol \in Policies : AddTarget(t, pol)
         \/ DeleteTarget(t)
  PROVE  SummaryInv' /\ RowsStay
  <1> DEFINE Kind == [live : BOOLEAN, enabled : BOOLEAN, policy : SUBSET Findings]
  <1>0. target \in [Targets -> Kind] /\ Policies \subseteq SUBSET Findings
    BY BaselineAssumption DEF SummaryInv, BaselineAssumption
  <1>1. PICK x \in Kind : /\ target' = [target EXCEPT ![t] = x]
                          /\ ~target[t].live /\ target[t].enabled => ~x.live /\ x.enabled
                          /\ \/ summary' = summary
                             \/ summary' = [summary EXCEPT ![t] = Absent] /\ ~x.live /\ x.enabled
    <2>1. ASSUME NEW on \in BOOLEAN, NEW pol \in Policies, EditTarget(t, on, pol)
          PROVE  /\ [target[t] EXCEPT !.enabled = on, !.policy = pol] \in Kind
                 /\ target' = [target EXCEPT ![t] = [target[t] EXCEPT !.enabled = on, !.policy = pol]]
                 /\ target[t].live /\ summary' = summary
      <3>1. /\ target' = [target EXCEPT ![t].enabled = on, ![t].policy = pol]
            /\ target[t].live /\ summary' = summary
        BY <2>1 DEF EditTarget, Live
      <3>2. target[t] \in Kind /\ pol \in SUBSET Findings
        BY <1>0
      <3>3. [target[t] EXCEPT !.enabled = on, !.policy = pol] \in Kind
        BY <3>2
      <3>4. target' = [target EXCEPT ![t] = [target[t] EXCEPT !.enabled = on, !.policy = pol]]
        BY <1>0, <3>1
      <3> QED
        BY <3>1, <3>3, <3>4
    <2>2. ASSUME NEW pol \in Policies, AddTarget(t, pol)
          PROVE  /\ [live |-> TRUE, enabled |-> TRUE, policy |-> pol] \in Kind
                 /\ target' = [target EXCEPT ![t] = [live |-> TRUE, enabled |-> TRUE, policy |-> pol]]
                 /\ ~target[t].enabled /\ summary' = summary
      BY <1>0, <2>2 DEF AddTarget
    <2>3. ASSUME DeleteTarget(t)
          PROVE  /\ [target[t] EXCEPT !.live = FALSE, !.enabled = TRUE] \in Kind
                 /\ ~[target[t] EXCEPT !.live = FALSE, !.enabled = TRUE].live
                 /\ [target[t] EXCEPT !.live = FALSE, !.enabled = TRUE].enabled
                 /\ target' = [target EXCEPT ![t] = [target[t] EXCEPT !.live = FALSE, !.enabled = TRUE]]
                 /\ summary' = [summary EXCEPT ![t] = Absent]
      <3>1. /\ target' = [target EXCEPT ![t].live = FALSE, ![t].enabled = TRUE]
            /\ summary' = [summary EXCEPT ![t] = Absent]
        BY <2>3 DEF DeleteTarget, Live
      <3>2. target[t] \in Kind
        BY <1>0
      <3>3. /\ [target[t] EXCEPT !.live = FALSE, !.enabled = TRUE] \in Kind
            /\ ~[target[t] EXCEPT !.live = FALSE, !.enabled = TRUE].live
            /\ [target[t] EXCEPT !.live = FALSE, !.enabled = TRUE].enabled
        BY <3>2
      <3>4. target' = [target EXCEPT ![t] = [target[t] EXCEPT !.live = FALSE, !.enabled = TRUE]]
        BY <1>0, <3>1
      <3> QED
        BY <3>1, <3>3, <3>4
    <2> HIDE DEF Kind
    <2> QED
      BY <2>1, <2>2, <2>3
  <1>2. target' \in [Targets -> Kind] /\ target'[t] = x /\ \A u \in Targets \ {t} : target'[u] = target[u]
    BY <1>0, <1>1
  <1> HIDE DEF Kind
  <1>3. /\ summary' = [u \in Targets |-> summary'[u]]
        /\ summary'[t] = summary[t] \/ (summary'[t] = Absent /\ ~x.live /\ x.enabled)
        /\ \A u \in Targets \ {t} : summary'[u] = summary[u]
    BY <1>1 DEF SummaryInv
  <1>4. ASSUME NEW u \in Targets, Waits(u)
        PROVE  Waits(u)'
    <2>1. CASE u # t
      BY <1>2, <1>3, <1>4, <2>1 DEF Waits
    <2>2. CASE u = t
      BY <1>1, <1>2, <1>3, <1>4, <2>2 DEF Waits
    <2> QED
      BY <2>1, <2>2
  <1>5. \A s \in Sweeps : sweep[s].at = "dispatching" => IsDispatch(sweep[s]) /\ \A u \in Ahead(sweep[s]) : Waits(u)'
    <2>1. \A s \in Sweeps : IsDispatch(sweep[s]) => Ahead(sweep[s]) \subseteq Targets
      BY DEF IsDispatch, Ahead
    <2> QED
      BY <1>4, <2>1 DEF SummaryInv
  <1>6. SummaryInv'
    BY <1>2, <1>3, <1>5 DEF SummaryInv, Kind
  <1> QED
    BY <1>3, <1>6 DEF RowsStay

LEMMA SummaryStep == SilenceInv /\ QueueInv /\ SummaryInv /\ [Next]_vars => SummaryInv' /\ RowsStay
  <1> SUFFICES ASSUME SilenceInv, QueueInv, SummaryInv, [Next]_vars PROVE SummaryInv' /\ RowsStay
    OBVIOUS
  <1>0. sweep = [s \in Sweeps |-> sweep[s]]
    BY DEF SilenceInv, BaselineTypes
  <1>1. ASSUME NEW s \in Sweeps, StartSweep(s) PROVE SummaryInv' /\ RowsStay
    BY <1>0, <1>1, SummaryKept DEF StartSweep, policy
  <1>2. ASSUME NEW s \in Sweeps, NEW p \in Projects, SweepProject(s, p) PROVE SummaryInv' /\ RowsStay
    <2>1. sweep[s] \in Scanning
      BY <1>2 DEF SweepProject, SilenceInv, BaselineTypes, Elsewhere
    <2>2. /\ [sweep[s] EXCEPT !.left = @ \ {p}].at = "scanning"
          /\ [sweep[s] EXCEPT !.left = @ \ {p}, !.notReady = @ \cup {p}].at = "scanning"
          /\ [sweep[s] EXCEPT !.left = @ \ {p}, !.broken = @ \cup {p}].at = "scanning"
      BY <2>1 DEF Scanning
    <2>3. PICK x : sweep' = [sweep EXCEPT ![s] = x] /\ x.at = "scanning" /\ UNCHANGED <<baseline, summary, delivered, target>>
      BY <1>2, <2>2 DEF SweepProject, policy
    <2> QED
      BY <1>0, <2>3, SummaryKept
  <1>3. ASSUME NEW s \in Sweeps, CompleteSweep(s) PROVE SummaryInv' /\ RowsStay
    BY <1>0, <1>3, SummaryClaim
  <1>4. ASSUME NEW s \in Sweeps, Dispatch(s) PROVE SummaryInv' /\ RowsStay
    BY <1>0, <1>4, SummaryDispatch
  <1>5. CASE Crash
    <2>1. sweep' = [s \in Sweeps |-> NotSweeping] /\ UNCHANGED <<baseline, summary, delivered, target>>
      BY <1>5 DEF Crash, policy
    <2> QED
      BY <2>1, SummaryKept DEF NotSweeping
  <1>6. ASSUME NEW t \in Targets,
               \/ \E on \in BOOLEAN, pol \in Policies : EditTarget(t, on, pol)
               \/ \E pol \in Policies : AddTarget(t, pol)
               \/ DeleteTarget(t)
        PROVE  SummaryInv' /\ RowsStay
    <2>1. UNCHANGED <<delivered, baseline, sweep>>
      BY <1>6 DEF EditTarget, AddTarget, DeleteTarget
    <2> QED
      BY <1>6, <2>1, SummaryEdit
  <1>7. CASE \/ \E p \in Projects : RescanProject(p)
             \/ CacheLands \/ SyncSettles
             \/ \E f \in Findings : ChangeMute(f) \/ NewFinding(f)
             \/ UNCHANGED vars
    <2>1. UNCHANGED <<baseline, summary, delivered, target, sweep>>
      BY <1>7 DEF RescanProject, CacheLands, SyncSettles, ChangeMute, NewFinding, vars, policy
    <2> QED
      BY <2>1, SummaryKept
  <1> QED
    BY <1>1, <1>2, <1>3, <1>4, <1>5, <1>6, <1>7 DEF Next

\* However dispatches overlap, crash and throw while targets come and go: at most one
\* summary succeeds per target, a settled row stays, and what is on its way is not
\* settled yet (dispatchCapabilitySummaries' queue, listOpenSummaryDeliveries).
THEOREM SummariesAreSingle == Spec => OneSummary
  <1> DEFINE One == /\ \A t \in Targets : delivered'[t] <= 1 /\ (Settled(t) => summary'[t] \in {Absent, summary[t]})
                    /\ \A s \in Sweeps : Sending(s)' => ~Settled(sweep[s].to)'
  <1>1. SummaryInv' /\ RowsStay => One
    <2> SUFFICES ASSUME SummaryInv', RowsStay PROVE One
      OBVIOUS
    <2>1. \A t \in Targets : delivered'[t] <= 1
      BY DEF SummaryInv
    <2>2. ASSUME NEW s \in Sweeps, Sending(s)' PROVE ~Settled(sweep[s].to)'
      <3>1. Waits(sweep[s].to)'
        BY <2>2 DEF SummaryInv, Sending, Ahead
      <3> QED
        BY <3>1 DEF Waits, Settled
    <2> QED
      BY <2>1, <2>2 DEF RowsStay
  <1>2. SilenceInv /\ QueueInv /\ SummaryInv /\ [Next]_vars => [One]_vars
    BY <1>1, SummaryStep
  <1>3. SilenceInv /\ QueueInv /\ SummaryInv /\ [Next]_vars => SummaryInv'
    BY SummaryStep
  <1>4. Spec => [][One]_vars
    BY <1>2, <1>3, SilenceInit, SummaryInit, SilenceStep, QueueStep, PTL DEF Spec
  <1> QED
    BY <1>4 DEF OneSummary
=============================================================================
