---------------------------- MODULE WayOutProofs ----------------------------
(***************************************************************************)
(* What a closure proof and a way out are worth, for any registry,         *)
(* lockfile and targets.                                                   *)
(*                                                                         *)
(* A walk may be stopped and resumed, by other releases and for other      *)
(* targets, so nothing about its end can be said of it meanwhile.  What    *)
(* holds at every moment is Sound: each dependency met has been followed   *)
(* or is in the frontier, and every install holds what was followed.       *)
(*                                                                         *)
(* The least install is a closed set of releases, since its levels settle  *)
(* in as many steps as there are releases: a verdict on a release is one   *)
(* on its install.  A climb then knows of every level it left that no      *)
(* newer release drops the package, or of the one below that the release   *)
(* which does is not admitted; and the paths it climbs are lockfile paths. *)
(***************************************************************************)
EXTENDS WayOut, FiniteSetTheorems, SequenceTheorems, TLAPS

-----------------------------------------------------------------------------
(* The inductive invariant of the walks. *)

\* A dependency the walk met is still to be read, or was read.
Met(q, w) ==
    \/ q \in w.frontier
    \/ Answer(q) \subseteq w.nodes /\ (Answer(q) = {} => w.lost # {})

\* Sets of releases that hold all the edges es bring in.
HoldsAll(S, es) == Closed(S) /\ \A q \in es : Answer(q) \subseteq S

\* A walk of the edges es: nothing met is forgotten, and every install holds what it found.
Sound(w, es) ==
    /\ w.nodes \subseteq Listed
    /\ \A q \in w.frontier : \E x \in Listed : q \in EdgesOf(x)
    /\ w.lost # {} => ~Resolved(Listed)
    /\ \A q \in es : Met(q, w)
    /\ \A x \in w.nodes : \A q \in EdgesOf(x) : Met(q, w)
    /\ \A S \in SUBSET Listed : HoldsAll(S, es) =>
          w.nodes \subseteq S /\ \A q \in w.frontier : Answer(q) \subseteq S

\* Every walk begun is sound for each release that shares it.
WalksSound ==
    \A r \in Release : WalkKey(r) \in DOMAIN walks => Sound(walks[WalkKey(r)], EdgesOf(r))

\* What a no and a yes mean; a yes of what is not published, that it is a copy itself.
Escape(r, t) == \E S \in SUBSET Listed : r \in S /\ Closed(S) /\ Resolved(S) /\ S \cap Copies(t) = {}
Caught(r, t) == \A S \in SUBSET Listed : r \in S /\ Closed(S) => S \cap Copies(t) # {}

\* A verdict means what it says, and unknown has a cause.
VerdictSound(v, r, t) ==
    /\ v \in {"yes", "no", "unknown"}
    /\ v = "no" => Escape(r, t)
    /\ v = "yes" => Caught(r, t) /\ (r \notin Listed => r \in Copies(t))
    /\ v = "unknown" => r \notin Listed \/ ~Resolved(Listed)

MemoSound ==
    \A r \in Release, t \in Target :
        <<r, t>> \in DOMAIN memo => VerdictSound(memo[<<r, t>>], r, t)

IInv == world \in Worlds /\ WalksSound /\ MemoSound

-----------------------------------------------------------------------------
(* The inductive invariant of the guidance. *)

\* The steps of a path are edges of the lockfile.
Routes ==
    {p \in [root : ToSet(roots), ids : Seq(Node)] :
        p.ids # <<>> /\ \A j \in 1..Len(p.ids) - 1 : <<p.ids[j], p.ids[j + 1]>> \in world.edges}
\* A path as it is shown, and the releases on it.
Displays == [path : Routes, count : Nat]
Names(d) == [j \in DOMAIN d.path.ids |-> release[d.path.ids[j]]]

\* A sequence of whatever it holds.
IsList(s) == s \in Seq(ToSet(s))

\* What is said of a path and of a replacement, and that it is said for a cause.
Told(v, path, t) == VerdictIsTrue(v, path, t) /\ (NothingIsMissing => v.kind # "unknown")
Offered(n, outcome, t) ==
    /\ OptionIsTrue(n, outcome, t)
    /\ NothingIsMissing /\ outcome = "unverified" => Replacement(n) \notin Listed
Guided(g, t) ==
    /\ \A c \in DOMAIN g.found.shown : Told(g.verdicts[c], Names(g.found.shown[c]), t)
    /\ \A n \in DOMAIN g.options : Offered(n, g.options[n], t)

\* Releases of the package at the climb's level that were tried all reach the target.
TriedHold(a, path, t) ==
    \A v \in Published(path[a.level][1]) : path[a.level][2] < v /\ v <= a.tried => Holds(<<path[a.level][1], v>>, t)

\* So far every package below the level is without an escape.
AllStuck(a, path, t) ==
    /\ a.stuck = [l \in 1..(Len(path) - 1 - a.level) |-> path[Len(path) - l][1]]
    /\ \A l \in (a.level + 1)..(Len(path) - 1) : NoneNewerDrops(path[l], t)

\* Or the package below escapes to a release that the installed one at the level does not admit.
BelowEscapes(a, path, t) ==
    /\ a.level < Len(path) - 1
    /\ path[a.level + 1][2] < a.escaping
    /\ Drops(<<path[a.level + 1][1], a.escaping>>, t)
    /\ a.escaping \notin Declared(path[a.level], path[a.level + 1][1])

\* What a climb knows at its level.
ClimbIsTrue(a, path, t) ==
    /\ a.level \in 1..(Len(path) - 1) /\ a.tried \in Nat
    /\ TriedHold(a, path, t)
    /\ IF a.escaping = None THEN AllStuck(a, path, t) ELSE BelowEscapes(a, path, t)

\* The phases with verdicts.
Telling == phase \in {"chains", "alternatives"}

\* The paths waiting and shown; then verdicts, climb, replacements and what was handed back.
WalkInv == Walking => walk.stacks \in [0..(2 * NodeCount) -> Seq(Routes)] /\ walk.shown \in Seq(Displays)
FoundInv == found.shown \in Seq(Displays) /\ (phase = "begin" => found.shown = <<>>)
ToldInv ==
    /\ IsList(verdicts)
    /\ ~Telling => verdicts = <<>>
    /\ Telling /\ found.shown # <<>> =>
          /\ at.chain = Len(verdicts) + 1
          /\ Len(verdicts) <= Len(found.shown)
          /\ \A c \in 1..Len(verdicts) : Told(verdicts[c], Names(found.shown[c]), target)
    /\ phase = "alternatives" => at.chain \notin DOMAIN found.shown
ClimbInv == Climbing /\ Len(chain) > 1 => ClimbIsTrue(at, chain, target)
OfferInv == \A n \in DOMAIN options : n \in Name /\ Offered(n, options[n], target)
HandInv ==
    /\ IsList(guidance)
    /\ phase \notin {"done", "failed"} => Len(guidance) = req - 1
    /\ \A i \in 1..Len(guidance) : i \in DOMAIN Requests /\ Guided(guidance[i], Requests[i])
ReqInv == req \in DOMAIN Requests
\* The records have their fields.
ShapeInv ==
    /\ at = [f \in {"chain", "level", "tried", "escaping", "stuck"} |-> at[f]]
    /\ found = [f \in {"shown", "more", "atLeast", "devOnly"} |-> found[f]]
    /\ walk = [f \in {"stacks", "expanded", "visited", "shown", "filled"} |-> walk[f]]

\* All of it, with the walks.
RestInv == ReqInv /\ ShapeInv /\ WalkInv /\ FoundInv /\ ToldInv /\ ClimbInv /\ OfferInv /\ HandInv
GuideInv == IInv /\ RestInv

-----------------------------------------------------------------------------
(* Releases and their edges. *)

\* What a dependency resolves to is published.
LEMMA AnswerIsListed ==
  ASSUME world \in Worlds, NEW q, q[1] \in Name
  PROVE  Answer(q) \subseteq Listed
<1> SUFFICES ASSUME NEW x \in Answer(q) PROVE x \in Listed
  OBVIOUS
<1>1. PICK v \in Picks(q[1], q[2]) : x = <<q[1], v>>
  BY DEF Answer
<1>2. v \in Published(q[1])
  BY DEF Picks
<1>3. v \in Version
  BY <1>2, WorldAssumption DEF Edges, Published, registry
<1> QED
  BY <1>1, <1>2, <1>3 DEF Listed, Release

\* The dependencies of a published release name packages.
LEMMA EdgesAreNamed ==
  ASSUME world \in Worlds, NEW x \in Listed, NEW q \in EdgesOf(x)
  PROVE  q[1] \in Name
<1>1. x[1] \in Name /\ x[2] \in Published(x[1])
  BY DEF Listed, Release
<1>2. PICK m \in DOMAIN registry[x[1]].edges[x[2]] : q = <<m, registry[x[1]].edges[x[2]][m]>>
  BY <1>1 DEF EdgesOf
<1>3. m \in Name
  BY <1>1, WorldAssumption DEF Edges, Published, registry
<1> QED
  BY <1>2, <1>3

-----------------------------------------------------------------------------
(* One walk. *)

\* A walk not begun is sound.
LEMMA BeginSound ==
  ASSUME NEW r \in Release
  PROVE  Sound([nodes |-> {}, lost |-> {}, frontier |-> EdgesOf(r)], EdgesOf(r))
<1>1. \A q \in EdgesOf(r) : \E x \in Listed : q \in EdgesOf(x)
  BY DEF EdgesOf, Listed
<1> QED
  BY <1>1 DEF Sound, Met, HoldsAll

\* A level keeps a walk sound.
LEMMA LevelSound ==
  ASSUME world \in Worlds, NEW w, NEW es, Sound(w, es)
  PROVE  Sound(Level(w), es)
<1> DEFINE got == UNION {Answer(q) : q \in w.frontier}
           v == Level(w)
<1>1. /\ v.nodes = w.nodes \cup got
      /\ v.frontier = UNION {EdgesOf(x) : x \in got \ w.nodes}
      /\ v.lost = w.lost \cup {q[1] : q \in {p \in w.frontier : Answer(p) = {}}}
  BY DEF Level
<1> HIDE DEF v
<1>2. got \subseteq Listed
  BY AnswerIsListed, EdgesAreNamed DEF Sound
<1>3. v.nodes \subseteq Listed
  BY <1>1, <1>2 DEF Sound
<1>4. \A q \in v.frontier : \E x \in Listed : q \in EdgesOf(x)
  BY <1>1, <1>2
<1>5. v.lost # {} => ~Resolved(Listed)
  BY <1>1 DEF Sound, Resolved
<1>6. ASSUME NEW q, Met(q, w) PROVE Met(q, v)
  <2>1. CASE q \in w.frontier
    <3>1. Answer(q) \subseteq v.nodes
      BY <1>1, <2>1
    <3>2. Answer(q) = {} => v.lost # {}
      BY <1>1, <2>1
    <3> QED
      BY <3>1, <3>2 DEF Met
  <2>2. CASE q \notin w.frontier
    BY <1>1, <1>6, <2>2 DEF Met
  <2> QED
    BY <2>1, <2>2
<1>7. \A q \in es : Met(q, v)
  BY <1>6 DEF Sound
<1>8. ASSUME NEW x \in v.nodes, NEW q \in EdgesOf(x) PROVE Met(q, v)
  <2>1. CASE x \in w.nodes
    BY <1>6, <2>1 DEF Sound
  <2>2. CASE x \notin w.nodes
    BY <1>1, <2>2 DEF Met
  <2> QED
    BY <2>1, <2>2
<1>9. ASSUME NEW S \in SUBSET Listed, HoldsAll(S, es)
      PROVE  v.nodes \subseteq S /\ \A q \in v.frontier : Answer(q) \subseteq S
  <2>1. w.nodes \subseteq S /\ got \subseteq S
    BY <1>9 DEF Sound
  <2>2. \A q \in v.frontier : Answer(q) \subseteq S
    BY <1>1, <1>9, <2>1 DEF HoldsAll, Closed
  <2> QED
    BY <1>1, <2>1, <2>2
<1> HIDE DEF got
<1> QED
  BY <1>3, <1>4, <1>7, <1>8, <1>9, <1>5 DEF Sound, v

\* The walk of a release is sound, begun or not.
LEMMA WalkOfSound ==
  ASSUME WalksSound, NEW r \in Release
  PROVE  Sound(WalkOf(r), EdgesOf(r))
BY BeginSound DEF WalksSound, WalkOf

-----------------------------------------------------------------------------
(* What the judge says of a sound walk. *)

\* A no: the walk and the release are an install without the package.
LEMMA NoEscapes ==
  ASSUME world \in Worlds, WalksSound, NEW r \in Release, NEW t \in Target, Judge(r, t) = "no"
  PROVE  Escape(r, t)
<1> DEFINE w == WalkOf(r)
           S == w.nodes \cup {r}
<1>1. S \cap Copies(t) = {} /\ w.frontier = {} /\ w.lost = {} /\ r \in Listed
  BY DEF Judge
<1>2. Sound(w, EdgesOf(r))
  BY <1>1, WalkOfSound
<1> HIDE DEF w
<1>3. ASSUME NEW x \in S, NEW q \in EdgesOf(x) PROVE Answer(q) \subseteq w.nodes /\ Answer(q) # {}
  <2>1. Met(q, w)
    BY <1>2 DEF Sound
  <2> QED
    BY <1>1, <2>1 DEF Met
<1>4. S \in SUBSET Listed /\ r \in S
  BY <1>1, <1>2 DEF Sound
<1>5. Closed(S) /\ Resolved(S)
  BY <1>3 DEF Closed, Resolved
<1> QED
  BY <1>1, <1>4, <1>5 DEF Escape

\* A yes: the copy found is in every install.
LEMMA YesCatches ==
  ASSUME WalksSound, NEW r \in Release, NEW t \in Target, Judge(r, t) = "yes"
  PROVE  Caught(r, t) /\ (r \notin Listed => r \in Copies(t))
<1> DEFINE w == WalkOf(r)
<1>1. (w.nodes \cup {r}) \cap Copies(t) # {}
  BY DEF Judge
<1>2. Sound(w, EdgesOf(r))
  BY WalkOfSound
<1> HIDE DEF w
<1>3. ASSUME NEW S \in SUBSET Listed, r \in S, Closed(S) PROVE S \cap Copies(t) # {}
  <2>1. HoldsAll(S, EdgesOf(r))
    BY <1>3 DEF HoldsAll, Closed
  <2>2. w.nodes \subseteq S
    BY <1>2, <2>1 DEF Sound
  <2> QED
    BY <1>1, <1>3, <2>2
<1>4. ASSUME r \notin Listed PROVE r \in Copies(t)
  <2>1. HoldsAll({}, EdgesOf(r))
    BY <1>4 DEF HoldsAll, Closed, EdgesOf, Listed
  <2>2. w.nodes = {}
    BY <1>2, <2>1 DEF Sound
  <2> QED
    BY <1>1, <2>2
<1> QED
  BY <1>3, <1>4 DEF Caught

\* A verdict that is no longer open.
LEMMA JudgeSound ==
  ASSUME world \in Worlds, WalksSound, NEW r \in Release, NEW t \in Target, Judge(r, t) # "open"
  PROVE  VerdictSound(Judge(r, t), r, t)
<1>1. Judge(r, t) \in {"yes", "no", "unknown"}
  BY DEF Judge
<1>2. Judge(r, t) = "unknown" => WalkOf(r).lost # {} \/ r \notin Listed
  BY DEF Judge
<1>3. Judge(r, t) = "unknown" => r \notin Listed \/ ~Resolved(Listed)
  BY <1>2, WalkOfSound DEF Sound
<1> QED
  BY <1>1, <1>3, NoEscapes, YesCatches DEF VerdictSound

-----------------------------------------------------------------------------
(* The registry does not change during a scan. *)

\* Answers, edges and copies stay what they are.
LEMMA WorldStays ==
  ASSUME UNCHANGED world
  PROVE  /\ Listed' = Listed
         /\ \A x : EdgesOf(x)' = EdgesOf(x)
         /\ \A q : Answer(q)' = Answer(q)
         /\ \A t : Copies(t)' = Copies(t)
<1>1. registry' = registry
  BY DEF registry
<1>2. \A n : Published(n)' = Published(n)
  BY <1>1 DEF Published
<1>3. Listed' = Listed
  BY <1>2 DEF Listed
<1>4. ASSUME NEW x PROVE EdgesOf(x)' = EdgesOf(x)
  BY <1>1, <1>2 DEF EdgesOf
<1>5. ASSUME NEW q PROVE Answer(q)' = Answer(q)
  BY <1>1, <1>2 DEF Answer, Picks
<1>6. ASSUME NEW t PROVE Copies(t)' = Copies(t)
  BY DEF Copies
<1> QED
  BY <1>3, <1>4, <1>5, <1>6

\* The same world sees the same installs.
LEMMA InstallsStay ==
  ASSUME UNCHANGED world
  PROVE  /\ \A w, es : Sound(w, es)' = Sound(w, es)
         /\ \A r, t : Escape(r, t)' = Escape(r, t)
         /\ \A r, t : Caught(r, t)' = Caught(r, t)
         /\ \A v, r, t : VerdictSound(v, r, t)' = VerdictSound(v, r, t)
<1>1. \A S : Closed(S)' = Closed(S) /\ Resolved(S)' = Resolved(S)
  BY WorldStays DEF Closed, Resolved
<1>2. \A q, w : Met(q, w)' = Met(q, w)
  BY WorldStays DEF Met
<1>3. \A S, es : HoldsAll(S, es)' = HoldsAll(S, es)
  BY <1>1, WorldStays DEF HoldsAll
<1>4. ASSUME NEW w, NEW es PROVE Sound(w, es)' = Sound(w, es)
  BY <1>1, <1>2, <1>3, WorldStays DEF Sound
<1>5. ASSUME NEW r, NEW t PROVE Escape(r, t)' = Escape(r, t) /\ Caught(r, t)' = Caught(r, t)
  BY <1>1, WorldStays DEF Escape, Caught
<1>6. ASSUME NEW v, NEW r, NEW t PROVE VerdictSound(v, r, t)' = VerdictSound(v, r, t)
  BY <1>1, <1>5, WorldStays DEF VerdictSound
<1> QED
  BY <1>4, <1>5, <1>6

-----------------------------------------------------------------------------
(* The walker. *)

\* Nothing is asked: everything walked and known stays sound.
LEMMA WalkerStays ==
  ASSUME IInv, UNCHANGED world, UNCHANGED walks, UNCHANGED memo
  PROVE  IInv'
<1>1. WalksSound'
  BY InstallsStay, WorldStays DEF IInv, WalksSound, WalkKey
<1>2. MemoSound'
  BY InstallsStay DEF IInv, MemoSound
<1> QED
  BY <1>1, <1>2 DEF IInv

\* A level of a walk, for whatever release it is expanded.
LEMMA ExpandSound ==
  ASSUME IInv, NEW c, NEW t, expandLevel(c, t)
  PROVE  IInv'
<1>1. UNCHANGED <<world, memo>> /\ walks' = Put(walks, WalkKey(c), Level(WalkOf(c)))
  BY DEF expandLevel
<1>2. ASSUME NEW r \in Release, WalkKey(r) \in DOMAIN walks'
      PROVE  Sound(walks'[WalkKey(r)], EdgesOf(r))
  <2>1. CASE WalkKey(r) = WalkKey(c)
    <3>1. walks'[WalkKey(r)] = Level(WalkOf(c))
      BY <1>1, <2>1 DEF Put
    <3>2. WalkOf(c) = WalkOf(r)
      BY <2>1 DEF WalkOf, WalkKey
    <3>3. Sound(WalkOf(r), EdgesOf(r))
      BY WalkOfSound DEF IInv
    <3> QED
      BY <3>1, <3>2, <3>3, LevelSound DEF IInv
  <2>2. CASE WalkKey(r) # WalkKey(c)
    BY <1>1, <1>2, <2>2 DEF Put, IInv, WalksSound
  <2> QED
    BY <2>1, <2>2
<1>3. WalksSound'
  BY <1>1, <1>2, WorldStays, InstallsStay DEF WalksSound, WalkKey
<1>4. MemoSound'
  BY <1>1, InstallsStay DEF IInv, MemoSound
<1> QED
  BY <1>1, <1>3, <1>4 DEF IInv

\* A verdict is kept.
LEMMA ReachSound ==
  ASSUME IInv, NEW c, NEW d, reaches(c, d)
  PROVE  IInv'
<1>1. UNCHANGED <<world, walks>> /\ memo' = Put(memo, <<c, d>>, Judge(c, d))
  BY DEF reaches
<1>2. WalksSound'
  BY <1>1, InstallsStay, WorldStays DEF IInv, WalksSound, WalkKey
<1>3. ASSUME NEW r \in Release, NEW t \in Target, <<r, t>> \in DOMAIN memo'
      PROVE  VerdictSound(memo'[<<r, t>>], r, t)
  <2>1. CASE <<r, t>> = <<c, d>>
    <3>1. memo'[<<r, t>>] = Judge(r, t)
      BY <1>1, <2>1 DEF Put
    <3> QED
      BY <2>1, <3>1, JudgeSound DEF IInv, reaches
  <2>2. CASE <<r, t>> # <<c, d>>
    BY <1>1, <1>3, <2>2 DEF Put, IInv, MemoSound
  <2> QED
    BY <2>1, <2>2
<1>4. MemoSound'
  BY <1>1, <1>3, InstallsStay DEF MemoSound
<1> QED
  BY <1>1, <1>2, <1>4 DEF IInv

\* A failed store leaves nothing behind.
LEMMA FailSound ==
  ASSUME IInv, StoreFails
  PROVE  IInv'
BY DEF IInv, StoreFails, WalksSound, MemoSound

-----------------------------------------------------------------------------
(* The specification. *)

\* The first question finds nothing walked and nothing known.
LEMMA InitSound == Init => IInv
BY DEF Init, WalkInit, IInv, WalksSound, MemoSound

\* Every step keeps what was walked and what is known sound.
LEMMA NextSound == IInv /\ [Next]_vars => IInv'
<1> SUFFICES ASSUME IInv, [Next]_vars PROVE IInv'
  OBVIOUS
<1>1. CASE FindChains \/ StartPaths \/ Extend \/ Visit \/ EndWalk
  BY <1>1, WalkerStays DEF FindChains, StartPaths, Extend, Visit, EndWalk, walker
<1>2. CASE Direct \/ NoData \/ Unproven
  BY <1>2, WalkerStays DEF Direct, NoData, Unproven, Conclude, walker
<1>3. CASE Ask
  BY <1>3, ExpandSound, ReachSound DEF Ask
<1>4. CASE StillReaches
  BY <1>4, WalkerStays DEF StillReaches, Move, walker
<1>5. CASE Escapes
  BY <1>5, WalkerStays DEF Escapes, Admit, Conclude, Move, walker
<1>6. CASE NoEscape
  BY <1>6, WalkerStays DEF NoEscape, Conclude, Move, walker
<1>7. CASE ChainsDone
  BY <1>7, WalkerStays DEF ChainsDone, walker
<1>8. ASSUME NEW n \in Name, moduleOption(n) PROVE IInv'
  <2>1. CASE expandLevel(Replacement(n), target) \/ reaches(Replacement(n), target)
    BY <2>1, ExpandSound, ReachSound
  <2>2. CASE \E outcome : Offer(n, outcome)
    BY <2>2, WalkerStays DEF Offer, walker
  <2> QED
    BY <1>8, <2>1, <2>2 DEF moduleOption
<1>9. CASE NextRequest
  BY <1>9, WalkerStays DEF NextRequest, walker
<1>10. CASE StoreFails
  BY <1>10, FailSound
<1>11. CASE UNCHANGED vars
  BY <1>11, WalkerStays DEF vars, walker
<1> QED
  BY <1>1, <1>2, <1>3, <1>4, <1>5, <1>6, <1>7, <1>8, <1>9, <1>10, <1>11 DEF Next

\* At every moment of the computation the walks and the verdicts are sound (closure.ts).
THEOREM WalkIsSound == Spec => []IInv
<1>1. Init => IInv
  BY InitSound
<1>2. IInv /\ [Next]_vars => IInv'
  BY NextSound
<1> QED
  BY <1>1, <1>2, PTL DEF Spec

\* A release said to drop the package has an install, all ranges resolved, without an affected copy, however
\* many releases, targets and questions the walk it rests on was shared by (judge in closure.ts).
THEOREM NoIsAlwaysProven == Spec => []NoIsProven
<1>1. IInv => NoIsProven
  BY DEF IInv, MemoSound, VerdictSound, NoIsProven, Escape
<1> QED
  BY <1>1, WalkIsSound, PTL

\* A release said to reach the package has no install without an affected copy (reaches in closure.ts).
THEOREM YesIsAlwaysWitnessed == Spec => []YesIsWitnessed
<1>1. IInv => YesIsWitnessed
  BY DEF IInv, MemoSound, VerdictSound, YesIsWitnessed, Caught
<1> QED
  BY <1>1, WalkIsSound, PTL

\* No verdict on a release misleads (the contract of reaches, closure.ts).
THEOREM ReachIsAlwaysTrue == Spec => []ReachIsTrue
BY NoIsAlwaysProven, YesIsAlwaysWitnessed, PTL DEF ReachIsTrue

-----------------------------------------------------------------------------
(* The reference install of a release. *)

\* A set of naturals that is not empty has a least member.
LEMMA Least ==
  ASSUME NEW T \in SUBSET Nat, T # {}
  PROVE  \E n \in T : \A m \in T : n <= m
<1>1. PICK n \in T : \A m \in T : ~(<<m, n>> \in OpToRel(<, Nat))
  BY NatLessThanWellFounded, WFMin
<1>2. \A m \in T : ~(m < n)
  BY <1>1 DEF OpToRel
<1> QED
  BY <1>2

\* The levels by which Install is computed, up to n.
Levels(r, n, f) == f = [k \in 0..n |-> IF k = 0 THEN {r} ELSE Further(f[k - 1])]

\* The first level and each next.
LEMMA LevelSteps ==
  ASSUME NEW r, NEW n \in Nat, NEW f, Levels(r, n, f)
  PROVE  f[0] = {r} /\ \A i \in 1..n : f[i] = Further(f[i - 1])
<1>1. \A k \in 0..n : f[k] = IF k = 0 THEN {r} ELSE Further(f[k - 1])
  BY DEF Levels
<1>2. 0 \in 0..n /\ \A i \in 1..n : i \in 0..n /\ i # 0
  OBVIOUS
<1> QED
  BY <1>1, <1>2

\* One level more.
LEMMA NextLevel ==
  ASSUME NEW r, NEW n \in Nat, NEW f, Levels(r, n, f)
  PROVE  Levels(r, n + 1, [k \in 0..(n + 1) |-> IF k = n + 1 THEN Further(f[n]) ELSE f[k]])
<1> DEFINE g == [k \in 0..(n + 1) |-> IF k = n + 1 THEN Further(f[n]) ELSE f[k]]
<1>1. \A k \in 0..n : f[k] = IF k = 0 THEN {r} ELSE Further(f[k - 1])
  BY DEF Levels
<1>2. \A k \in 0..n : g[k] = f[k]
  OBVIOUS
<1>3. g[n + 1] = Further(g[n])
  BY <1>2
<1>4. ASSUME NEW k \in 0..(n + 1) PROVE g[k] = IF k = 0 THEN {r} ELSE Further(g[k - 1])
  <2>1. CASE k = n + 1
    BY <1>3, <2>1
  <2>2. CASE k \in 0..n
    <3>1. g[k] = f[k] /\ f[k] = IF k = 0 THEN {r} ELSE Further(f[k - 1])
      BY <1>1, <1>2, <2>2
    <3>2. k # 0 => g[k - 1] = f[k - 1]
      BY <1>2, <2>2
    <3> HIDE DEF g
    <3> QED
      BY <3>1, <3>2
  <2> QED
    BY <2>1, <2>2
<1>5. g = [k \in 0..(n + 1) |-> g[k]]
  OBVIOUS
<1> HIDE DEF g
<1>6. g = [k \in 0..(n + 1) |-> IF k = 0 THEN {r} ELSE Further(g[k - 1])]
  BY <1>4, <1>5
<1> QED
  BY <1>6 DEF Levels, g

\* There are levels up to any n.
LEMMA LevelsExist ==
  ASSUME NEW r, NEW n \in Nat
  PROVE  \E f : Levels(r, n, f)
<1> DEFINE T == {m \in Nat : ~\E f : Levels(r, m, f)}
<1>1. SUFFICES ASSUME T # {} PROVE FALSE
  OBVIOUS
<1>2. PICK m \in T : \A k \in T : m <= k
  BY <1>1, Least
<1>3. m # 0
  <2> DEFINE f == [k \in 0..0 |-> {r}]
  <2>1. f = [k \in 0..0 |-> IF k = 0 THEN {r} ELSE Further(f[k - 1])]
    OBVIOUS
  <2>2. Levels(r, 0, f)
    BY <2>1 DEF Levels
  <2> QED
    BY <2>2
<1>4. m - 1 \in Nat /\ m - 1 \notin T /\ m = (m - 1) + 1
  BY <1>2, <1>3
<1>5. PICK f : Levels(r, m - 1, f)
  BY <1>4
<1>6. \E g : Levels(r, (m - 1) + 1, g)
  BY <1>4, <1>5, NextLevel
<1> QED
  BY <1>2, <1>4, <1>6

\* Install is the last of these levels.
LEMMA InstallHasLevels ==
  ASSUME NEW r, Cardinality(Listed) \in Nat
  PROVE  \E f : Levels(r, Cardinality(Listed), f) /\ Install(r) = f[Cardinality(Listed)]
<1> DEFINE N == Cardinality(Listed)
           within[k \in 0..N] == IF k = 0 THEN {r} ELSE Further(within[k - 1])
<1>1. Install(r) = within[N]
  BY DEF Install
<1>2. \E f : f = [k \in 0..N |-> IF k = 0 THEN {r} ELSE Further(f[k - 1])]
  BY LevelsExist DEF Levels
<1>3. within = [k \in 0..N |-> IF k = 0 THEN {r} ELSE Further(within[k - 1])]
  BY <1>2
<1> HIDE DEF within, N
<1>4. Levels(r, N, within)
  BY <1>3 DEF Levels
<1> QED
  BY <1>1, <1>4 DEF N

\* What is in some level is in every later one.
LEMMA LevelsGrow ==
  ASSUME NEW r, NEW n \in Nat, NEW f, Levels(r, n, f), NEW k \in 0..n
  PROVE  r \in f[k]
<1> DEFINE T == {j \in 0..n : r \notin f[j]}
<1>1. SUFFICES ASSUME T # {} PROVE FALSE
  OBVIOUS
<1>2. PICK j \in T : \A i \in T : j <= i
  <2>1. T \in SUBSET Nat
    OBVIOUS
  <2> HIDE DEF T
  <2> QED
    BY <1>1, <2>1, Least
<1>3. f[0] = {r} /\ \A i \in 1..n : f[i] = Further(f[i - 1])
  BY LevelSteps
<1>4. j # 0
  BY <1>3
<1>5. j - 1 \in 0..n /\ j - 1 \notin T
  BY <1>2, <1>4
<1>6. r \in f[j - 1] /\ f[j] = Further(f[j - 1])
  BY <1>3, <1>4, <1>5
<1> QED
  BY <1>6 DEF Further

\* Every closed set with the release holds every level.
LEMMA LevelsInClosed ==
  ASSUME NEW r, NEW n \in Nat, NEW f, Levels(r, n, f), NEW k \in 0..n,
         NEW S, r \in S, Closed(S)
  PROVE  f[k] \subseteq S
<1> DEFINE T == {j \in 0..n : ~(f[j] \subseteq S)}
<1>1. SUFFICES ASSUME T # {} PROVE FALSE
  OBVIOUS
<1>2. PICK j \in T : \A i \in T : j <= i
  <2>1. T \in SUBSET Nat
    OBVIOUS
  <2> HIDE DEF T
  <2> QED
    BY <1>1, <2>1, Least
<1>3. f[0] = {r} /\ \A i \in 1..n : f[i] = Further(f[i - 1])
  BY LevelSteps
<1>4. j # 0
  BY <1>3
<1>5. j - 1 \in 0..n /\ j - 1 \notin T
  BY <1>2, <1>4
<1>6. f[j - 1] \subseteq S /\ f[j] = Further(f[j - 1])
  BY <1>3, <1>4, <1>5
<1>7. Further(f[j - 1]) \subseteq S
  BY <1>6 DEF Further, Closed
<1> QED
  BY <1>6, <1>7

\* A level that brings in nothing is the last that differs.
LEMMA LevelsSettle ==
  ASSUME NEW r, NEW n \in Nat, NEW f, Levels(r, n, f), NEW k \in 0..(n - 1), f[k + 1] = f[k]
  PROVE  f[n] = f[k]
<1> DEFINE T == {j \in k..n : f[j] # f[k]}
<1>1. SUFFICES ASSUME T # {} PROVE FALSE
  OBVIOUS
<1>2. PICK j \in T : \A i \in T : j <= i
  <2>1. T \in SUBSET Nat
    OBVIOUS
  <2> HIDE DEF T
  <2> QED
    BY <1>1, <2>1, Least
<1>3. \A i \in 1..n : f[i] = Further(f[i - 1])
  BY LevelSteps
<1>4. j # k
  OBVIOUS
<1>5. j - 1 \in k..n /\ j - 1 \notin T /\ j \in 1..n /\ k + 1 \in 1..n /\ (k + 1) - 1 = k
  BY <1>2, <1>4
<1>6. f[j - 1] = f[k] /\ f[j] = Further(f[j - 1]) /\ f[k + 1] = Further(f[k])
  BY <1>3, <1>5
<1> QED
  BY <1>6

\* As long as each level brings in something, a level has more members than its number.
LEMMA LevelsCount ==
  ASSUME NEW r, NEW n \in Nat, NEW f, Levels(r, n, f),
         NEW S, IsFiniteSet(S), r \in S, Closed(S),
         \A k \in 0..(n - 1) : f[k + 1] # f[k]
  PROVE  \A k \in 0..n : Cardinality(f[k]) > k
<1> DEFINE T == {j \in 0..n : ~(Cardinality(f[j]) > j)}
<1>1. SUFFICES ASSUME T # {} PROVE FALSE
  OBVIOUS
<1>2. PICK j \in T : \A i \in T : j <= i
  <2>1. T \in SUBSET Nat
    OBVIOUS
  <2> HIDE DEF T
  <2> QED
    BY <1>1, <2>1, Least
<1>3. f[0] = {r} /\ \A i \in 1..n : f[i] = Further(f[i - 1])
  BY LevelSteps
<1>4. j # 0
  <2>1. Cardinality({r}) = 1
    BY FS_Singleton
  <2> QED
    BY <1>3, <2>1
<1>5. j - 1 \in 0..(n - 1) /\ j - 1 \notin T /\ j \in 1..n /\ (j - 1) + 1 = j
  BY <1>2, <1>4
<1>6. f[j - 1] \subseteq f[j] /\ f[j - 1] # f[j]
  BY <1>3, <1>5 DEF Further
<1>7. f[j] \subseteq S
  BY LevelsInClosed
<1>8. IsFiniteSet(f[j]) /\ IsFiniteSet(f[j - 1])
  BY <1>6, <1>7, FS_Subset
<1>9. Cardinality(f[j - 1]) <= Cardinality(f[j]) /\ Cardinality(f[j - 1]) # Cardinality(f[j])
  BY <1>6, <1>8, FS_Subset
<1>10. Cardinality(f[j - 1]) \in Nat /\ Cardinality(f[j]) \in Nat
  BY <1>8, FS_CardinalityType
<1>11. Cardinality(f[j - 1]) > j - 1
  BY <1>5
<1> QED
  BY <1>5, <1>9, <1>10, <1>11

\* A registry holds finitely many releases.
LEMMA ListedIsFinite == IsFiniteSet(Listed) /\ Cardinality(Listed) \in Nat
<1>1. IsFiniteSet(Release)
  BY FiniteAssumption, FS_Product DEF Release
<1>2. Listed \in SUBSET Release
  BY DEF Listed
<1>3. IsFiniteSet(Listed)
  BY <1>1, <1>2, FS_Subset
<1> QED
  BY <1>3, FS_CardinalityType

\* The install is in every closed set with the release.
LEMMA InstallIsLeast ==
  ASSUME NEW r
  PROVE  r \in Install(r) /\ \A S : r \in S /\ Closed(S) => Install(r) \subseteq S
<1> DEFINE N == Cardinality(Listed)
<1>1. N \in Nat /\ N \in 0..N
  BY ListedIsFinite
<1>2. PICK f : Levels(r, N, f) /\ Install(r) = f[N]
  BY <1>1, InstallHasLevels
<1> HIDE DEF N
<1>3. r \in f[N]
  BY <1>1, <1>2, LevelsGrow
<1>4. \A S : r \in S /\ Closed(S) => f[N] \subseteq S
  BY <1>1, <1>2, LevelsInClosed
<1> QED
  BY <1>2, <1>3, <1>4

\* All that is published is closed.
LEMMA ListedIsClosed ==
  ASSUME world \in Worlds
  PROVE  Closed(Listed)
BY AnswerIsListed, EdgesAreNamed DEF Closed

\* The install of a published release is published and closed: the levels settle in as many steps as there
\* are releases.
LEMMA InstallIsClosed ==
  ASSUME world \in Worlds, NEW r \in Listed
  PROVE  Install(r) \in SUBSET Listed /\ Closed(Install(r))
<1> DEFINE N == Cardinality(Listed)
<1>1. N \in Nat /\ N \in 0..N /\ IsFiniteSet(Listed)
  BY ListedIsFinite
<1>2. PICK f : Levels(r, N, f) /\ Install(r) = f[N]
  BY <1>1, InstallHasLevels
<1>3. f[N] \in SUBSET Listed
  BY <1>2, InstallIsLeast, ListedIsClosed
<1>4. Cardinality(f[N]) <= N
  BY <1>1, <1>3, FS_Subset
<1> HIDE DEF N
<1>5. \E k \in 0..(N - 1) : f[k + 1] = f[k]
  <2> SUFFICES ASSUME \A k \in 0..(N - 1) : f[k + 1] # f[k] PROVE FALSE
    OBVIOUS
  <2>1. Cardinality(f[N]) > N
    BY <1>1, <1>2, LevelsCount, ListedIsClosed
  <2>2. Cardinality(f[N]) \in Nat
    BY <1>1, <1>3, FS_Subset, FS_CardinalityType
  <2> QED
    BY <1>1, <1>4, <2>1, <2>2
<1>6. PICK k \in 0..(N - 1) : f[k + 1] = f[k]
  BY <1>5
<1>7. f[N] = f[k]
  BY <1>1, <1>2, <1>6, LevelsSettle
<1>8. f[k + 1] = Further(f[k])
  <2>1. k + 1 \in 1..N /\ (k + 1) - 1 = k
    BY <1>1
  <2>2. f[0] = {r} /\ \A i \in 1..N : f[i] = Further(f[i - 1])
    BY <1>1, <1>2, LevelSteps
  <2>3. f[k + 1] = Further(f[(k + 1) - 1])
    BY <2>1, <2>2
  <2> QED
    BY <2>1, <2>3
<1>9. Further(f[N]) = f[N]
  BY <1>6, <1>7, <1>8
<1>10. Closed(f[N])
  BY <1>9 DEF Further, Closed
<1> QED
  BY <1>2, <1>3, <1>10

\* What a verdict says of the install.
LEMMA VerdictOnInstall ==
  ASSUME world \in Worlds, NEW r \in Release, NEW t \in Target, NEW v, VerdictSound(v, r, t)
  PROVE  /\ v = "no" => Drops(r, t)
         /\ v = "yes" => Holds(r, t)
<1>1. ASSUME v = "no" PROVE Drops(r, t)
  <2>1. PICK S \in SUBSET Listed : r \in S /\ Closed(S) /\ Resolved(S) /\ S \cap Copies(t) = {}
    BY <1>1 DEF VerdictSound, Escape
  <2>2. Install(r) \subseteq S
    BY <2>1, InstallIsLeast
  <2> QED
    BY <2>1, <2>2 DEF Drops, Resolved
<1>2. ASSUME v = "yes" PROVE Holds(r, t)
  <2>1. CASE r \in Listed
    BY <1>2, <2>1, InstallIsClosed, InstallIsLeast DEF VerdictSound, Caught, Holds
  <2>2. CASE r \notin Listed
    BY <1>2, <2>2, InstallIsLeast DEF VerdictSound, Holds
  <2> QED
    BY <2>1, <2>2
<1> QED
  BY <1>1, <1>2

-----------------------------------------------------------------------------
(* Sequences. *)

\* The elements taken up to i.
Taken(s, keep, i, x) == IF s[i] \in keep THEN Append(x, s[i]) ELSE x
\* The filter's steps up to n.
Takes(s, keep, n, f) == f = [i \in 0..n |-> IF i = 0 THEN <<>> ELSE Taken(s, keep, i, f[i - 1])]

\* One element more.
LEMMA NextTaken ==
  ASSUME NEW s, NEW keep, NEW n \in Nat, NEW f, Takes(s, keep, n, f)
  PROVE  Takes(s, keep, n + 1, [k \in 0..(n + 1) |-> IF k = n + 1 THEN Taken(s, keep, n + 1, f[n]) ELSE f[k]])
<1> DEFINE g == [k \in 0..(n + 1) |-> IF k = n + 1 THEN Taken(s, keep, n + 1, f[n]) ELSE f[k]]
<1>1. \A k \in 0..n : f[k] = IF k = 0 THEN <<>> ELSE Taken(s, keep, k, f[k - 1])
  BY DEF Takes
<1>2. \A k \in 0..n : g[k] = f[k]
  OBVIOUS
<1>3. g[n + 1] = Taken(s, keep, n + 1, g[n])
  BY <1>2
<1>4. ASSUME NEW k \in 0..(n + 1) PROVE g[k] = IF k = 0 THEN <<>> ELSE Taken(s, keep, k, g[k - 1])
  <2>1. CASE k = n + 1
    BY <1>3, <2>1
  <2>2. CASE k \in 0..n
    <3>1. g[k] = f[k] /\ f[k] = IF k = 0 THEN <<>> ELSE Taken(s, keep, k, f[k - 1])
      BY <1>1, <1>2, <2>2
    <3>2. k # 0 => g[k - 1] = f[k - 1]
      BY <1>2, <2>2
    <3> HIDE DEF g
    <3> QED
      BY <3>1, <3>2
  <2> QED
    BY <2>1, <2>2
<1>5. g = [k \in 0..(n + 1) |-> g[k]]
  OBVIOUS
<1> HIDE DEF g
<1>6. g = [k \in 0..(n + 1) |-> IF k = 0 THEN <<>> ELSE Taken(s, keep, k, g[k - 1])]
  BY <1>4, <1>5
<1> QED
  BY <1>6 DEF Takes, g

\* The elements of a sequence that are in a set are a sequence, and they are its elements.
LEMMA ThoseAreElements ==
  ASSUME NEW S, NEW s \in Seq(S), NEW keep
  PROVE  Those(s, keep) \in Seq(S \cap keep)
<1> DEFINE N == Len(s)
           T == {m \in Nat : ~\E f : Takes(s, keep, m, f)}
           those[i \in 0..N] == IF i = 0 THEN <<>> ELSE IF s[i] \in keep THEN Append(those[i - 1], s[i]) ELSE those[i - 1]
<1>1. T = {}
  <2> SUFFICES ASSUME T # {} PROVE FALSE
    OBVIOUS
  <2>1. T \in SUBSET Nat
    OBVIOUS
  <2>2. PICK m \in T : \A k \in T : m <= k
    <3> HIDE DEF T
    <3> QED
      BY <2>1, Least
  <2>3. m # 0
    <3> DEFINE f == [k \in 0..0 |-> <<>>]
    <3>1. f = [k \in 0..0 |-> IF k = 0 THEN <<>> ELSE Taken(s, keep, k, f[k - 1])]
      OBVIOUS
    <3>2. Takes(s, keep, 0, f)
      BY <3>1 DEF Takes
    <3> QED
      BY <3>2
  <2>4. m - 1 \in Nat /\ m - 1 \notin T /\ m = (m - 1) + 1
    BY <2>2, <2>3
  <2>5. PICK f : Takes(s, keep, m - 1, f)
    BY <2>4
  <2>6. \E g : Takes(s, keep, (m - 1) + 1, g)
    BY <2>4, <2>5, NextTaken
  <2> QED
    BY <2>2, <2>4, <2>6
<1>2. Those(s, keep) = those[N]
  BY DEF Those
<1>3. N \in Nat
  OBVIOUS
<1>4. PICK f : Takes(s, keep, N, f)
  <2> HIDE DEF N
  <2> QED
    BY <1>1, <1>3
<1>5. f = [i \in 0..N |-> IF i = 0 THEN <<>> ELSE IF s[i] \in keep THEN Append(f[i - 1], s[i]) ELSE f[i - 1]]
  BY <1>4 DEF Takes, Taken
<1>6. those = [i \in 0..N |-> IF i = 0 THEN <<>> ELSE IF s[i] \in keep THEN Append(those[i - 1], s[i]) ELSE those[i - 1]]
  BY <1>5
<1> HIDE DEF those, T
<1>7. those[0] = <<>> /\ \A i \in 1..N : those[i] = IF s[i] \in keep THEN Append(those[i - 1], s[i]) ELSE those[i - 1]
  <2>1. \A i \in 0..N : those[i] = IF i = 0 THEN <<>> ELSE IF s[i] \in keep THEN Append(those[i - 1], s[i]) ELSE those[i - 1]
    BY <1>6
  <2>2. 0 \in 0..N /\ \A i \in 1..N : i \in 0..N /\ i # 0
    BY <1>3
  <2> QED
    BY <2>1, <2>2
<1>8. \A i \in 0..N : those[i] \in Seq(S \cap keep)
  <2> DEFINE U == {i \in 0..N : those[i] \notin Seq(S \cap keep)}
  <2> SUFFICES ASSUME U # {} PROVE FALSE
    OBVIOUS
  <2>1. U \in SUBSET Nat
    BY <1>3
  <2>2. PICK m \in U : \A k \in U : m <= k
    <3> HIDE DEF U
    <3> QED
      BY <2>1, Least
  <2>3. m # 0
    <3>1. those[0] \in Seq(S \cap keep)
      BY <1>7, EmptySeq
    <3> QED
      BY <3>1
  <2>4. m - 1 \in 0..N /\ m - 1 \notin U /\ m \in 1..N
    BY <2>2, <2>3, <1>3
  <2>5. those[m - 1] \in Seq(S \cap keep)
    BY <2>4
  <2>6. s[m] \in S
    BY <2>4
  <2>7. those[m] \in Seq(S \cap keep)
    <3>1. those[m] = IF s[m] \in keep THEN Append(those[m - 1], s[m]) ELSE those[m - 1]
      BY <1>7, <2>4
    <3>2. s[m] \in keep => Append(those[m - 1], s[m]) \in Seq(S \cap keep)
      BY <2>5, <2>6, AppendProperties
    <3> QED
      BY <2>5, <3>1, <3>2
  <2> QED
    BY <2>7
<1> HIDE DEF N
<1> QED
  BY <1>2, <1>3, <1>8

\* They are among those of s.
LEMMA ThoseAreAmong ==
  ASSUME NEW S, NEW s \in Seq(S), NEW keep
  PROVE  Those(s, keep) \in Seq(S)
<1>1. Those(s, keep) \in Seq(S \cap keep)
  BY ThoseAreElements
<1> QED
  BY <1>1, SeqMonotonic

\* Joined up to i.
JoinedTo(q, n, f) == f = [i \in 1..n |-> IF i = 1 THEN q[i] ELSE f[i - 1] \o q[i]]

\* One sequence more.
LEMMA NextJoined ==
  ASSUME NEW q, NEW n \in Nat \ {0}, NEW f, JoinedTo(q, n, f)
  PROVE  JoinedTo(q, n + 1, [k \in 1..(n + 1) |-> IF k = n + 1 THEN f[n] \o q[n + 1] ELSE f[k]])
<1> DEFINE g == [k \in 1..(n + 1) |-> IF k = n + 1 THEN f[n] \o q[n + 1] ELSE f[k]]
<1>1. \A k \in 1..n : f[k] = IF k = 1 THEN q[k] ELSE f[k - 1] \o q[k]
  BY DEF JoinedTo
<1>2. \A k \in 1..n : g[k] = f[k]
  OBVIOUS
<1>3. g[n + 1] = g[n] \o q[n + 1]
  <2>1. n \in 1..n /\ n + 1 \in 1..(n + 1)
    OBVIOUS
  <2>2. g[n + 1] = f[n] \o q[n + 1]
    BY <2>1
  <2>3. g[n] = f[n]
    BY <1>2, <2>1
  <2> HIDE DEF g
  <2> QED
    BY <2>2, <2>3
<1>4. ASSUME NEW k \in 1..(n + 1) PROVE g[k] = IF k = 1 THEN q[k] ELSE g[k - 1] \o q[k]
  <2>1. CASE k = n + 1
    <3>1. k # 1 /\ k - 1 = n
      BY <2>1
    <3> HIDE DEF g
    <3> QED
      BY <1>3, <2>1, <3>1
  <2>2. CASE k \in 1..n
    <3>1. g[k] = f[k] /\ f[k] = IF k = 1 THEN q[k] ELSE f[k - 1] \o q[k]
      BY <1>1, <1>2, <2>2
    <3>2. k # 1 => g[k - 1] = f[k - 1]
      BY <1>2, <2>2
    <3> HIDE DEF g
    <3> QED
      BY <3>1, <3>2
  <2> QED
    BY <2>1, <2>2
<1>5. g = [k \in 1..(n + 1) |-> g[k]]
  OBVIOUS
<1> HIDE DEF g
<1>6. g = [k \in 1..(n + 1) |-> IF k = 1 THEN q[k] ELSE g[k - 1] \o q[k]]
  BY <1>4, <1>5
<1> QED
  BY <1>6 DEF JoinedTo, g

\* Sequences over a set join to a sequence over the set.
LEMMA FlatIsASeq ==
  ASSUME NEW S, NEW n \in Nat \ {0}, NEW q \in [1..n -> Seq(S)]
  PROVE  FlattenSeq(q) \in Seq(S)
<1> DEFINE T == {m \in Nat \ {0} : ~\E f : JoinedTo(q, m, f)}
           flatten[i \in 1..n] == IF i = 1 THEN q[i] ELSE flatten[i - 1] \o q[i]
<1>1. T = {}
  <2> SUFFICES ASSUME T # {} PROVE FALSE
    OBVIOUS
  <2>1. T \in SUBSET Nat
    OBVIOUS
  <2>2. PICK m \in T : \A k \in T : m <= k
    <3> HIDE DEF T
    <3> QED
      BY <2>1, Least
  <2>3. m # 1
    <3> DEFINE f == [k \in 1..1 |-> q[k]]
    <3>1. f = [k \in 1..1 |-> IF k = 1 THEN q[k] ELSE f[k - 1] \o q[k]]
      OBVIOUS
    <3>2. JoinedTo(q, 1, f)
      BY <3>1 DEF JoinedTo
    <3> QED
      BY <3>2
  <2>4. m - 1 \in Nat \ {0} /\ m - 1 \notin T /\ m = (m - 1) + 1
    <3>1. m \in Nat \ {0} /\ \A k \in T : m <= k
      BY <2>2
    <3>2. m - 1 \in Nat \ {0} /\ ~(m <= m - 1) /\ m = (m - 1) + 1
      BY <2>3, <3>1
    <3> HIDE DEF T
    <3> QED
      BY <3>1, <3>2
  <2>5. PICK f : JoinedTo(q, m - 1, f)
    BY <2>4
  <2>6. \E g : JoinedTo(q, (m - 1) + 1, g)
    BY <2>4, <2>5, NextJoined
  <2> QED
    BY <2>2, <2>4, <2>6
<1>2. Len(q) = n
  OBVIOUS
<1>3. FlattenSeq(q) = flatten[n]
  BY <1>2 DEF FlattenSeq
<1>4. PICK f : f = [i \in 1..n |-> IF i = 1 THEN q[i] ELSE f[i - 1] \o q[i]]
  BY <1>1 DEF JoinedTo
<1>5. flatten = [i \in 1..n |-> IF i = 1 THEN q[i] ELSE flatten[i - 1] \o q[i]]
  BY <1>4
<1> HIDE DEF flatten, T
<1>6. \A i \in 1..n : flatten[i] = IF i = 1 THEN q[i] ELSE flatten[i - 1] \o q[i]
  BY <1>5
<1>7. \A i \in 1..n : flatten[i] \in Seq(S)
  <2> DEFINE U == {i \in 1..n : flatten[i] \notin Seq(S)}
  <2> SUFFICES ASSUME U # {} PROVE FALSE
    OBVIOUS
  <2>1. U \in SUBSET Nat
    OBVIOUS
  <2>2. PICK m \in U : \A k \in U : m <= k
    <3> HIDE DEF U
    <3> QED
      BY <2>1, Least
  <2>3. m # 1
    BY <1>6
  <2>4. m - 1 \in 1..n /\ m - 1 \notin U
    <3>1. m \in 1..n /\ \A k \in U : m <= k
      BY <2>2
    <3>2. m - 1 \in 1..n
      BY <2>3, <3>1
    <3>3. m - 1 \notin U
      BY <3>1, <3>2
    <3> QED
      BY <3>2, <3>3
  <2>5. flatten[m - 1] \in Seq(S) /\ q[m] \in Seq(S)
    BY <2>4
  <2>6. flatten[m] = flatten[m - 1] \o q[m]
    BY <1>6, <2>3
  <2>7. flatten[m] \in Seq(S)
    BY <2>5, <2>6, ConcatProperties
  <2> QED
    BY <2>7
<1> QED
  BY <1>3, <1>7

\* A list with one element more.
LEMMA Appended ==
  ASSUME NEW s, IsList(s), NEW x
  PROVE  /\ IsList(Append(s, x))
         /\ Len(s) \in Nat /\ DOMAIN s = 1..Len(s)
         /\ Len(Append(s, x)) = Len(s) + 1
         /\ \A i \in 1..Len(s) : Append(s, x)[i] = s[i]
         /\ Append(s, x)[Len(s) + 1] = x
<1> DEFINE S == ToSet(s) \cup {x}
           z == Append(s, x)
<1>1. s \in Seq(S)
  BY SeqMonotonic DEF IsList
<1>2. /\ z \in Seq(S) /\ Len(z) = Len(s) + 1
      /\ \A i \in 1..Len(s) : z[i] = s[i]
      /\ z[Len(s) + 1] = x
  BY <1>1, AppendProperties
<1>3. Len(s) \in Nat /\ DOMAIN s = 1..Len(s)
  BY <1>1, LenProperties
<1> HIDE DEF S, z
<1>4. IsList(z)
  <2>1. DOMAIN z = 1..Len(z) /\ Len(z) \in Nat /\ z \in [1..Len(z) -> S]
    BY <1>2, LenProperties
  <2>2. \A i \in 1..Len(z) : z[i] \in ToSet(z)
    BY <2>1 DEF ToSet
  <2>3. z \in [1..Len(z) -> ToSet(z)]
    BY <2>1, <2>2
  <2> QED
    BY <2>1, <2>3, SeqDef DEF IsList
<1> QED
  BY <1>2, <1>3, <1>4 DEF z

\* The empty list.
LEMMA NothingIsAList == IsList(<<>>) /\ Len(<<>>) = 0
BY EmptySeq DEF IsList

-----------------------------------------------------------------------------
(* Paths: all that waits on a stack or is shown is a path of the lockfile. *)

\* The roots in their order.
LEMMA OrderedAreRoots ==
  ASSUME world \in Worlds
  PROVE  Ordered \in Seq(ToSet(roots)) /\ Production \in Seq(ToSet(roots))
<1> DEFINE S == ToSet(roots)
           L == 2 * NodeCount + 2
           OfLength(k) == Those(roots, {r \in ToSet(roots) : Reaches(r) /\ 2 * dist[r.node] + Rank(r) + 1 = k})
           q == [k \in 1..L |-> OfLength(k)]
<1>1. roots \in Seq(S)
  BY InputAssumption DEF ScanInput, roots
<1>2. L \in Nat \ {0}
  BY NodeAssumption
<1> HIDE DEF S
<1>3. ASSUME NEW keep, NEW s \in Seq(S) PROVE Those(s, keep) \in Seq(S)
  BY ThoseAreAmong
<1>4. \A k \in 1..L : OfLength(k) \in Seq(S)
  BY <1>1, <1>3
<1>5. q \in [1..L -> Seq(S)]
  BY <1>4
<1>6. Ordered = FlattenSeq(q)
  BY DEF Ordered
<1> HIDE DEF L, q
<1>7. Ordered \in Seq(S)
  BY <1>2, <1>5, <1>6, FlatIsASeq
<1>8. Production \in Seq(S)
  BY <1>3, <1>7 DEF Production
<1> QED
  BY <1>7, <1>8 DEF S

\* Those of one length.
LEMMA SomeRoutes ==
  ASSUME NEW l, NEW ps \in Seq(Routes)
  PROVE  OfTotal(l, ps) \in Seq(Routes)
BY ThoseAreAmong DEF OfTotal

\* A root is a path of one node.
LEMMA RootIsARoute ==
  ASSUME world \in Worlds, NEW r \in ToSet(roots)
  PROVE  Partial(r, <<r.node>>) \in Routes
<1>1. r.node \in Node
  BY InputAssumption DEF ScanInput, roots
<1>2. <<r.node>> \in Seq(Node) /\ <<r.node>> # <<>> /\ Len(<<r.node>>) = 1
  BY <1>1
<1> QED
  BY <1>2 DEF Partial, Routes

\* Where a walk starts.
LEMMA StartRoutes ==
  ASSUME world \in Worlds, NEW from \in Seq(ToSet(roots))
  PROVE  /\ StartWalk(from).stacks \in [0..(2 * NodeCount) -> Seq(Routes)]
         /\ StartWalk(from).shown \in Seq(Displays)
<1> DEFINE ps == [i \in DOMAIN from |-> Partial(from[i], <<from[i].node>>)]
<1>1. DOMAIN from = 1..Len(from) /\ Len(from) \in Nat /\ \A i \in 1..Len(from) : from[i] \in ToSet(roots)
  BY LenProperties, ElementOfSeq
<1>2. ps \in [1..Len(from) -> Routes]
  BY <1>1, RootIsARoute
<1>3. ps \in Seq(Routes)
  BY <1>1, <1>2, SeqDef
<1> HIDE DEF ps
<1>4. \A l : OfTotal(l, ps) \in Seq(Routes)
  BY <1>3, SomeRoutes
<1>5. StartWalk(from).stacks = [l \in 0..(2 * NodeCount) |-> OfTotal(l, ps)] /\ StartWalk(from).shown = <<>>
  BY DEF StartWalk, ps
<1> QED
  BY <1>4, <1>5, EmptySeq

\* A path goes on along edges.
LEMMA OnwardRoutes ==
  ASSUME NEW p \in Routes
  PROVE  Onward(p) \in Seq(Routes)
<1> DEFINE keep == {c \in Children(Last(p.ids)) : dist[c] # None} \ ToSet(p.ids)
           open == Those([i \in Node |-> i], keep)
<1>1. [i \in Node |-> i] \in Seq(Node)
  BY NodeAssumption
<1>2. open \in Seq(Node \cap keep)
  BY <1>1, ThoseAreElements
<1>3. \A c \in Node \cap keep : <<Last(p.ids), c>> \in world.edges
  BY DEF Children
<1>4. Onward(p) = [i \in DOMAIN open |-> Partial(p.root, Append(p.ids, open[i]))]
  BY DEF Onward
<1> HIDE DEF open, keep
<1>5. DOMAIN open = 1..Len(open) /\ Len(open) \in Nat /\ \A i \in 1..Len(open) : open[i] \in Node \cap keep
  BY <1>2, LenProperties, ElementOfSeq
<1>6. /\ p.root \in ToSet(roots) /\ p.ids \in Seq(Node) /\ p.ids # <<>>
      /\ \A j \in 1..Len(p.ids) - 1 : <<p.ids[j], p.ids[j + 1]>> \in world.edges
  BY DEF Routes
<1>7. ASSUME NEW c \in Node \cap keep PROVE Partial(p.root, Append(p.ids, c)) \in Routes
  <2> DEFINE s == Append(p.ids, c)
  <2>1. /\ s \in Seq(Node) /\ s # <<>> /\ Len(s) = Len(p.ids) + 1
        /\ \A i \in 1..Len(p.ids) : s[i] = p.ids[i]
        /\ s[Len(p.ids) + 1] = c
    BY <1>6, AppendProperties
  <2>2. Len(p.ids) \in Nat \ {0}
    BY <1>6, EmptySeq
  <2> HIDE DEF s
  <2>3. ASSUME NEW j \in 1..Len(s) - 1 PROVE <<s[j], s[j + 1]>> \in world.edges
    <3>1. CASE j = Len(p.ids)
      <4>1. s[j] = Last(p.ids) /\ s[j + 1] = c
        BY <2>1, <2>2, <3>1 DEF Last
      <4> QED
        BY <1>3, <4>1
    <3>2. CASE j # Len(p.ids)
      <4>1. j \in 1..Len(p.ids) - 1 /\ j + 1 \in 1..Len(p.ids) /\ j \in 1..Len(p.ids)
        BY <2>1, <2>2, <3>2
      <4> QED
        BY <1>6, <2>1, <4>1
    <3> QED
      BY <3>1, <3>2
  <2> QED
    BY <1>6, <2>1, <2>3 DEF Partial, Routes, s
<1>8. Onward(p) \in [1..Len(open) -> Routes]
  BY <1>4, <1>5, <1>7
<1> QED
  BY <1>5, <1>8, SeqDef

\* The path read next, and the stack it is taken from.
LEMMA CurrentIsARoute ==
  ASSUME walk.stacks \in [0..(2 * NodeCount) -> Seq(Routes)], Unread # {}
  PROVE  /\ Shortest \in 0..(2 * NodeCount)
         /\ Current \in Routes
         /\ Tail(walk.stacks[Shortest]) \in Seq(Routes)
<1>1. Unread \in SUBSET (0..(2 * NodeCount))
  BY DEF Unread
<1>2. Unread \in SUBSET Nat
  BY <1>1
<1>3. Shortest \in Unread
  BY <1>2, Least DEF Shortest, Min
<1>4. walk.stacks[Shortest] # <<>> /\ Shortest \in 0..(2 * NodeCount)
  BY <1>1, <1>3 DEF Unread
<1>5. walk.stacks[Shortest] \in Seq(Routes)
  BY <1>4
<1> QED
  BY <1>4, <1>5, HeadTailProperties DEF Current

\* What is pushed.
LEMMA PushedRoutes ==
  ASSUME walk.stacks \in [0..(2 * NodeCount) -> Seq(Routes)], Unread # {}, NEW onward \in Seq(Routes)
  PROVE  Pushed(onward) \in [0..(2 * NodeCount) -> Seq(Routes)]
<1>1. DOMAIN walk.stacks = 0..(2 * NodeCount)
  OBVIOUS
<1>2. ASSUME NEW l \in 0..(2 * NodeCount)
      PROVE  /\ l = Shortest => OfTotal(l, onward) \o Tail(walk.stacks[l]) \in Seq(Routes)
             /\ walk.stacks[l] \o OfTotal(l, onward) \in Seq(Routes)
  <2>1. OfTotal(l, onward) \in Seq(Routes) /\ walk.stacks[l] \in Seq(Routes)
    BY SomeRoutes
  <2>2. l = Shortest => Tail(walk.stacks[l]) \in Seq(Routes)
    BY CurrentIsARoute
  <2> QED
    BY <2>1, <2>2, ConcatProperties
<1> QED
  BY <1>1, <1>2 DEF Pushed

\* What the visitor shows.
LEMMA ShownRoutes ==
  ASSUME walk.shown \in Seq(Displays), NEW p \in Routes
  PROVE  Shown(p) \in Seq(Displays)
<1>1. DOMAIN walk.shown = 1..Len(walk.shown) /\ Len(walk.shown) \in Nat
  BY LenProperties
<1>2. \A i \in 1..Len(walk.shown) : walk.shown[i] \in Displays
  BY ElementOfSeq
<1>3. \A d \in Displays : [d EXCEPT !.count = @ + 1] \in Displays
  BY DEF Displays
<1>4. [i \in DOMAIN walk.shown |-> IF i \in Same(p) THEN [walk.shown[i] EXCEPT !.count = @ + 1] ELSE walk.shown[i]]
        \in [1..Len(walk.shown) -> Displays]
  BY <1>1, <1>2, <1>3
<1>5. [path |-> p, count |-> 1] \in Displays
  BY DEF Displays
<1>6. Append(walk.shown, [path |-> p, count |-> 1]) \in Seq(Displays)
  BY <1>5, AppendProperties
<1> QED
  BY <1>1, <1>4, <1>6, SeqDef DEF Shown

\* The paths kept beside a production path.
LEMMA KeptRoutes ==
  ASSUME NEW shown \in Seq(Displays)
  PROVE  Kept(shown) \in Seq(Displays)
<1> DEFINE T == {MaxChains - 1, Len(shown)}
<1>1. MaxChains - 1 \in Nat /\ Len(shown) \in Nat
  BY LimitsAssumption, LenProperties
<1>2. T \in SUBSET Nat /\ T # {}
  BY <1>1
<1> HIDE DEF T
<1>3. Min(T) \in T /\ \A m \in T : Min(T) <= m
  BY <1>2, Least DEF Min
<1>4. Min(T) \in Nat /\ Min(T) <= Len(shown)
  BY <1>2, <1>3 DEF T
<1>5. \A i \in 1..Min(T) : shown[i] \in Displays
  BY <1>1, <1>4, ElementOfSeq
<1>6. SubSeq(shown, 1, Min(T)) \in Seq(Displays)
  BY <1>4, <1>5, SubSeqProperties
<1> QED
  BY <1>6 DEF Kept, T

-----------------------------------------------------------------------------
(* What is true of the registry and the lockfile stays true during the scan. *)

\* The lockfile: its roots, its releases, the paths it has and what they display.
LEMMA InputStays ==
  ASSUME UNCHANGED world
  PROVE  /\ roots' = roots /\ release' = release
         /\ Routes' = Routes /\ Displays' = Displays
         /\ \A d : Names(d)' = Names(d)
<1>1. roots' = roots /\ release' = release
  BY DEF roots, release
<1>2. Routes' = Routes
  BY <1>1 DEF Routes
<1>3. Displays' = Displays
  BY <1>2 DEF Displays
<1>4. \A d : Names(d)' = Names(d)
  BY <1>1 DEF Names
<1> QED
  BY <1>1, <1>2, <1>3, <1>4

\* What installing a release brings in at least.
LEMMA InstallStays ==
  ASSUME UNCHANGED world
  PROVE  \A r : Install(r)' = Install(r)
BY DEF Install, Further, Listed, Published, registry, Answer, EdgesOf, Picks, Release

\* What a claim rests on: what releases hold and drop, the ranges declared, the data there is.
LEMMA ClaimsStay ==
  ASSUME UNCHANGED world
  PROVE  /\ \A r, t : Holds(r, t)' = Holds(r, t) /\ Drops(r, t)' = Drops(r, t)
         /\ \A p, n : Declared(p, n)' = Declared(p, n)
         /\ \A a, t : NoneNewerDrops(a, t)' = NoneNewerDrops(a, t)
         /\ \A n : Replacement(n)' = Replacement(n)
         /\ NothingIsMissing' = NothingIsMissing
<1>1. registry' = registry /\ release' = release
  BY DEF registry, release
<1>2. \A n : Published(n)' = Published(n)
  BY <1>1 DEF Published
<1>3. \A S : Resolved(S)' = Resolved(S)
  BY WorldStays DEF Resolved
<1>4. \A r : Install(r)' = Install(r)
  BY InstallStays
<1>5. \A r, t : Holds(r, t)' = Holds(r, t) /\ Drops(r, t)' = Drops(r, t)
  BY <1>3, <1>4, WorldStays DEF Holds, Drops
<1>6. \A p, n : Declared(p, n)' = Declared(p, n)
  BY <1>1, <1>2 DEF Declared
<1>7. \A a, t : NoneNewerDrops(a, t)' = NoneNewerDrops(a, t)
  BY <1>2, <1>5 DEF NoneNewerDrops
<1>8. \A n : Replacement(n)' = Replacement(n)
  BY <1>1 DEF Replacement
<1>9. NothingIsMissing' = NothingIsMissing
  BY <1>1, <1>3, <1>6, WorldStays DEF NothingIsMissing
<1> QED
  BY <1>5, <1>6, <1>7, <1>8, <1>9

\* So a claim once true stays true, and so does what a climb found.
LEMMA TruthStays ==
  ASSUME UNCHANGED world
  PROVE  /\ \A v, path, t : Told(v, path, t)' = Told(v, path, t)
         /\ \A n, o, t : Offered(n, o, t)' = Offered(n, o, t)
         /\ \A g, t : Guided(g, t)' = Guided(g, t)
         /\ \A a, path, t : ClimbIsTrue(a, path, t)' = ClimbIsTrue(a, path, t)
<1>1. \A n : Published(n)' = Published(n)
  BY DEF Published, registry
<1>2. \A v, path, t : UpgradeIsTrue(v, path, t)' = UpgradeIsTrue(v, path, t)
  BY <1>1, ClaimsStay DEF UpgradeIsTrue
<1>3. \A v, path, t : BlockedIsTrue(v, path, t)' = BlockedIsTrue(v, path, t)
  BY ClaimsStay DEF BlockedIsTrue
<1>4. \A v, path, t : NoEscapeIsTrue(v, path, t)' = NoEscapeIsTrue(v, path, t)
  BY ClaimsStay DEF NoEscapeIsTrue
<1>5. \A v, path, t : Told(v, path, t)' = Told(v, path, t)
  BY <1>2, <1>3, <1>4, ClaimsStay DEF Told, VerdictIsTrue
<1>6. \A n, o, t : Offered(n, o, t)' = Offered(n, o, t)
  <2>1. ASSUME NEW n, NEW o, NEW t PROVE OptionIsTrue(n, o, t)' = OptionIsTrue(n, o, t)
    BY ClaimsStay DEF OptionIsTrue
  <2>2. ASSUME NEW n PROVE Replacement(n)' = Replacement(n) /\ Listed' = Listed /\ NothingIsMissing' = NothingIsMissing
    BY ClaimsStay, WorldStays
  <2>3. ASSUME NEW n, NEW o, NEW t PROVE Offered(n, o, t)' = Offered(n, o, t)
    BY <2>1, <2>2 DEF Offered
  <2> QED
    BY <2>3
<1>7. \A g, t : Guided(g, t)' = Guided(g, t)
  BY <1>5, <1>6, InputStays DEF Guided
<1>8. \A a, path, t : TriedHold(a, path, t)' = TriedHold(a, path, t)
  BY <1>1, ClaimsStay DEF TriedHold
<1>9. \A a, path, t : AllStuck(a, path, t)' = AllStuck(a, path, t)
  BY ClaimsStay DEF AllStuck
<1>10. \A a, path, t : BelowEscapes(a, path, t)' = BelowEscapes(a, path, t)
  BY ClaimsStay DEF BelowEscapes
<1>11. \A a, path, t : ClimbIsTrue(a, path, t)' = ClimbIsTrue(a, path, t)
  BY <1>8, <1>9, <1>10 DEF ClimbIsTrue
<1> QED
  BY <1>5, <1>6, <1>7, <1>11

-----------------------------------------------------------------------------
(* The climb from the vulnerable package to the direct dependency. *)

\* A displayed path by its releases: each pair in turn is joined by an edge of the lockfile.
LockPath(path) ==
    /\ path \in Seq(Release) /\ Len(path) \in Nat \ {0}
    /\ \A j \in 1..Len(path) - 1 :
          \E e \in world.edges : release[e[1]] = path[j] /\ release[e[2]] = path[j + 1]

\* What is displayed is such a path.
LEMMA NamesArePaths ==
  ASSUME world \in Worlds, NEW d \in Displays
  PROVE  LockPath(Names(d)) /\ DOMAIN Names(d) = 1..Len(Names(d)) /\ Len(Names(d)) = Len(d.path.ids)
<1> DEFINE ids == d.path.ids
           path == Names(d)
<1>1. /\ ids \in Seq(Node) /\ ids # <<>>
      /\ \A j \in 1..Len(ids) - 1 : <<ids[j], ids[j + 1]>> \in world.edges
  BY DEF Displays, Routes
<1>2. Len(ids) \in Nat \ {0} /\ DOMAIN ids = 1..Len(ids) /\ \A j \in 1..Len(ids) : ids[j] \in Node
  BY <1>1, EmptySeq, LenProperties, ElementOfSeq
<1>3. release \in [Node -> Release]
  BY InputAssumption DEF ScanInput, release
<1>4. path = [j \in 1..Len(ids) |-> release[ids[j]]]
  BY <1>2 DEF Names
<1> HIDE DEF ids, path
<1>5. path \in [1..Len(ids) -> Release]
  BY <1>2, <1>3, <1>4
<1>6. path \in Seq(Release) /\ Len(path) = Len(ids) /\ DOMAIN path = 1..Len(ids)
  BY <1>2, <1>5, SeqDef
<1>7. ASSUME NEW j \in 1..Len(path) - 1
      PROVE  \E e \in world.edges : release[e[1]] = path[j] /\ release[e[2]] = path[j + 1]
  <2>1. j \in 1..Len(ids) /\ j + 1 \in 1..Len(ids) /\ j \in 1..Len(ids) - 1
    BY <1>2, <1>6
  <2>2. path[j] = release[ids[j]] /\ path[j + 1] = release[ids[j + 1]] /\ <<ids[j], ids[j + 1]>> \in world.edges
    BY <1>1, <1>4, <2>1
  <2> QED
    BY <2>2
<1> QED
  BY <1>2, <1>6, <1>7 DEF LockPath, ids, path

\* The releases on a path have names and numbers.
LEMMA PathNumbers ==
  ASSUME NEW path, LockPath(path), NEW l \in 1..Len(path)
  PROVE  path[l] \in Release /\ path[l][1] \in Name /\ path[l][2] \in Nat /\ path[l] = <<path[l][1], path[l][2]>>
<1>1. path[l] \in Release
  BY ElementOfSeq DEF LockPath
<1>2. PICK n \in Name, v \in Version : path[l] = <<n, v>>
  BY <1>1 DEF Release
<1>3. v \in Nat
  BY VersionAssumption
<1> QED
  BY <1>1, <1>2, <1>3

\* At its start nothing was tried.
LEMMA ClimbStarts ==
  ASSUME world \in Worlds, NEW path, LockPath(path), Len(path) > 1, NEW t, NEW a,
         a.level = Len(path) - 1, a.tried = 0, a.escaping = None, a.stuck = <<>>
  PROVE  ClimbIsTrue(a, path, t)
<1>1. Len(path) \in Nat /\ a.level \in 1..(Len(path) - 1) /\ a.level \in 1..Len(path)
  BY DEF LockPath
<1>2. Published(path[a.level][1]) \subseteq Nat /\ path[a.level][2] \in Nat
  BY <1>1, PathNumbers, WorldAssumption, VersionAssumption DEF Published, registry, Edges
<1>3. TriedHold(a, path, t)
  BY <1>2 DEF TriedHold
<1>4. Len(path) - 1 - a.level = 0
  BY <1>1
<1>5. a.stuck = [l \in 1..(Len(path) - 1 - a.level) |-> path[Len(path) - l][1]]
  BY <1>4
<1>6. \A l \in (a.level + 1)..(Len(path) - 1) : NoneNewerDrops(path[l], t)
  BY <1>1
<1>7. AllStuck(a, path, t)
  BY <1>5, <1>6 DEF AllStuck
<1> QED
  BY <1>1, <1>3, <1>7 DEF ClimbIsTrue

\* One release more that holds.
LEMMA ClimbTries ==
  ASSUME NEW path, NEW t, NEW a, ClimbIsTrue(a, path, t), NEW b, b.tried \in Nat,
         b.level = a.level, b.escaping = a.escaping, b.stuck = a.stuck, TriedHold(b, path, t)
  PROVE  ClimbIsTrue(b, path, t)
<1>1. AllStuck(a, path, t) => AllStuck(b, path, t)
  BY DEF AllStuck
<1>2. BelowEscapes(a, path, t) => BelowEscapes(b, path, t)
  BY DEF BelowEscapes
<1> QED
  BY <1>1, <1>2 DEF ClimbIsTrue

\* The lowest release that drops the package is what the installed parent admits.
LEMMA UpgradeIsTold ==
  ASSUME NEW path, LockPath(path), Len(path) > 1, NEW t, NEW l \in 1..(Len(path) - 1), NEW v,
         path[l][2] < v, Drops(<<path[l][1], v>>, t),
         \A u \in Published(path[l][1]) : path[l][2] < u /\ u < v => Holds(<<path[l][1], u>>, t),
         l = 1 \/ v \in Declared(path[l - 1], path[l][1])
  PROVE  Told(Upgrade(<<path[l][1], v>>), path, t)
<1> DEFINE x == Upgrade(<<path[l][1], v>>)
<1>1. x.kind = "upgrade" /\ x.release = <<path[l][1], v>>
  BY DEF Upgrade
<1> HIDE DEF x
<1>2. UpgradeIsTrue(x, path, t)
  BY <1>1 DEF UpgradeIsTrue
<1>3. Len(path) # 1
  BY DEF LockPath
<1> QED
  BY <1>1, <1>2, <1>3 DEF Told, VerdictIsTrue, x

\* The parent does not admit it and must move too.
LEMMA ClimbMoves ==
  ASSUME world \in Worlds, NEW path, LockPath(path), NEW t, NEW l \in 2..(Len(path) - 1), NEW v \in Version,
         path[l][2] < v, Drops(<<path[l][1], v>>, t), v \notin Declared(path[l - 1], path[l][1]),
         NEW b, b.level = l - 1, b.tried = 0, b.escaping = v
  PROVE  ClimbIsTrue(b, path, t)
<1>1. /\ Len(path) \in Nat /\ b.level \in 1..(Len(path) - 1) /\ b.level \in 1..Len(path)
      /\ b.level < Len(path) - 1 /\ b.level + 1 = l
  BY DEF LockPath
<1>2. Published(path[b.level][1]) \subseteq Nat /\ path[b.level][2] \in Nat
  BY <1>1, PathNumbers, WorldAssumption, VersionAssumption DEF Published, registry, Edges
<1>3. TriedHold(b, path, t)
  BY <1>2 DEF TriedHold
<1>4. BelowEscapes(b, path, t)
  BY <1>1 DEF BelowEscapes
<1>5. b.escaping # None
  BY VersionAssumption
<1> QED
  BY <1>1, <1>3, <1>4, <1>5 DEF ClimbIsTrue

\* The parent that would have to move cannot.
LEMMA BlockedIsTold ==
  ASSUME NEW path, LockPath(path), NEW t, NEW a, ClimbIsTrue(a, path, t), a.escaping # None,
         NoneNewerDrops(path[a.level], t)
  PROVE  Told([kind |-> "blocked", release |-> <<path[a.level + 1][1], a.escaping>>, by |-> path[a.level][1]], path, t)
<1> DEFINE x == [kind |-> "blocked", release |-> <<path[a.level + 1][1], a.escaping>>, by |-> path[a.level][1]]
           l == a.level + 1
<1>1. x.kind = "blocked" /\ x.release = <<path[l][1], a.escaping>> /\ x.by = path[a.level][1]
  OBVIOUS
<1>2. BelowEscapes(a, path, t) /\ a.level \in 1..(Len(path) - 1) /\ Len(path) \in Nat
  BY DEF ClimbIsTrue, LockPath
<1>3. l \in 2..(Len(path) - 1) /\ l - 1 = a.level /\ Len(path) # 1
  BY <1>2 DEF BelowEscapes
<1>4. /\ path[l][2] < a.escaping /\ Drops(<<path[l][1], a.escaping>>, t)
      /\ a.escaping \notin Declared(path[a.level], path[l][1])
  BY <1>2 DEF BelowEscapes
<1> HIDE DEF x, l
<1>5. BlockedIsTrue(x, path, t)
  BY <1>1, <1>3, <1>4 DEF BlockedIsTrue
<1> QED
  BY <1>1, <1>3, <1>5 DEF Told, VerdictIsTrue, x

\* The packages passed, with the one at this level.
LEMMA StuckGrows ==
  ASSUME NEW path, LockPath(path), NEW t, NEW a, ClimbIsTrue(a, path, t), a.escaping = None,
         NoneNewerDrops(path[a.level], t)
  PROVE  /\ Append(a.stuck, path[a.level][1]) = [l \in 1..(Len(path) - a.level) |-> path[Len(path) - l][1]]
         /\ \A l \in a.level..(Len(path) - 1) : NoneNewerDrops(path[l], t)
<1> DEFINE n == Len(path) - 1 - a.level
           f == [l \in 1..n |-> path[Len(path) - l][1]]
           g == [l \in 1..(n + 1) |-> path[Len(path) - l][1]]
<1>1. AllStuck(a, path, t) /\ a.level \in 1..(Len(path) - 1) /\ Len(path) \in Nat
  BY DEF ClimbIsTrue, LockPath
<1>2. n \in Nat /\ n + 1 = Len(path) - a.level /\ Len(path) - (n + 1) = a.level
  BY <1>1
<1>3. a.stuck = f
  BY <1>1 DEF AllStuck
<1>4. ASSUME NEW l \in 1..(n + 1) PROVE path[Len(path) - l][1] \in Name
  <2>1. Len(path) - l \in 1..Len(path)
    BY <1>1
  <2> QED
    BY <2>1, PathNumbers
<1> DEFINE x == path[a.level][1]
<1> HIDE DEF n, x
<1>5. f \in [1..n -> Name] /\ g \in [1..(n + 1) -> Name]
  BY <1>2, <1>4
<1>6. \A k \in Nat : \A h \in [1..k -> Name] : h \in Seq(Name) /\ Len(h) = k
  BY SeqDef
<1>7. f \in Seq(Name) /\ g \in Seq(Name) /\ Len(f) = n /\ Len(g) = n + 1
  <2>1. n + 1 \in Nat
    BY <1>2
  <2> HIDE DEF f, g
  <2> QED
    BY <1>2, <1>5, <1>6, <2>1
<1>8. \A l \in 1..n : f[l] = g[l]
  BY <1>2
<1>9. g[n + 1] = x
  <2>1. n + 1 \in 1..(n + 1)
    BY <1>2
  <2>2. g[n + 1] = path[Len(path) - (n + 1)][1]
    BY <2>1
  <2> QED
    BY <1>2, <2>2 DEF x
<1> HIDE DEF f, g
<1>10. (\A l \in 1..n : f[l] = g[l]) /\ g[n + 1] = x /\ x \in Name
  BY <1>2, <1>5, <1>8, <1>9
<1>11. /\ Append(f, x) \in Seq(Name) /\ Len(Append(f, x)) = n + 1
      /\ \A l \in 1..n : Append(f, x)[l] = f[l]
      /\ Append(f, x)[n + 1] = x
  BY <1>7, <1>10, AppendProperties
<1>12. \A l \in 1..(n + 1) : Append(f, x)[l] = g[l]
  BY <1>2, <1>10, <1>11
<1>13. Append(f, x) = g
  BY <1>7, <1>11, <1>12, SeqEqual
<1>14. Append(a.stuck, path[a.level][1]) = [l \in 1..(Len(path) - a.level) |-> path[Len(path) - l][1]]
  BY <1>2, <1>3, <1>13 DEF g, x
<1>15. \A l \in a.level..(Len(path) - 1) : NoneNewerDrops(path[l], t)
  BY <1>1 DEF AllStuck
<1> QED
  BY <1>14, <1>15

\* Stuck at one level, the climb goes on at the next.
LEMMA StuckClimbs ==
  ASSUME world \in Worlds, NEW path, LockPath(path), NEW t, NEW a, ClimbIsTrue(a, path, t), a.escaping = None,
         a.level > 1, NoneNewerDrops(path[a.level], t), NEW b, b.level = a.level - 1, b.tried = 0,
         b.escaping = None, b.stuck = Append(a.stuck, path[a.level][1])
  PROVE  ClimbIsTrue(b, path, t)
<1>1. a.level \in 1..(Len(path) - 1) /\ Len(path) \in Nat
  BY DEF ClimbIsTrue, LockPath
<1>2. /\ b.level \in 1..(Len(path) - 1) /\ b.level \in 1..Len(path)
      /\ b.level + 1 = a.level /\ Len(path) - 1 - b.level = Len(path) - a.level
  BY <1>1
<1>3. Published(path[b.level][1]) \subseteq Nat /\ path[b.level][2] \in Nat
  BY <1>2, PathNumbers, WorldAssumption, VersionAssumption DEF Published, registry, Edges
<1>4. TriedHold(b, path, t)
  BY <1>3 DEF TriedHold
<1>5. /\ Append(a.stuck, path[a.level][1]) = [l \in 1..(Len(path) - a.level) |-> path[Len(path) - l][1]]
      /\ \A l \in a.level..(Len(path) - 1) : NoneNewerDrops(path[l], t)
  BY StuckGrows
<1>6. AllStuck(b, path, t)
  BY <1>2, <1>5 DEF AllStuck
<1> QED
  BY <1>2, <1>4, <1>6 DEF ClimbIsTrue

\* Stuck at every level.
LEMMA NoEscapeIsTold ==
  ASSUME NEW path, LockPath(path), NEW t, NEW a, ClimbIsTrue(a, path, t), a.escaping = None,
         a.level = 1, NoneNewerDrops(path[a.level], t)
  PROVE  Told([kind |-> "noEscape", packages |-> Append(a.stuck, path[a.level][1])], path, t)
<1> DEFINE x == [kind |-> "noEscape", packages |-> Append(a.stuck, path[a.level][1])]
<1>1. Append(a.stuck, path[a.level][1]) = [l \in 1..(Len(path) - a.level) |-> path[Len(path) - l][1]]
  BY StuckGrows
<1>2. x.kind = "noEscape" /\ x.packages = [l \in 1..(Len(path) - 1) |-> path[Len(path) - l][1]]
  BY <1>1
<1>3. \A l \in a.level..(Len(path) - 1) : NoneNewerDrops(path[l], t)
  BY StuckGrows
<1>4. \A l \in 1..(Len(path) - 1) : NoneNewerDrops(path[l], t)
  BY <1>3
<1>5. Len(path) # 1
  BY DEF ClimbIsTrue, LockPath
<1> HIDE DEF x
<1>6. NoEscapeIsTrue(x, path, t)
  BY <1>2, <1>4 DEF NoEscapeIsTrue
<1> QED
  BY <1>2, <1>5, <1>6 DEF Told, VerdictIsTrue, x

\* A verdict that says nothing of releases.
LEMMA PlainIsTold ==
  ASSUME NEW path, LockPath(path), NEW t
  PROVE  /\ Len(path) = 1 => Told([kind |-> "direct"], path, t)
         /\ Len(path) > 1 /\ ~NothingIsMissing => \A x : Told([kind |-> "unknown", at |-> x], path, t)
BY DEF Told, VerdictIsTrue, LockPath

-----------------------------------------------------------------------------
(* What a step leaves alone. *)

\* The request asked about.
LEMMA ReqStays ==
  ASSUME ReqInv, UNCHANGED req
  PROVE  ReqInv' /\ target' = target /\ target \in Target
BY RequestsAssumption, LenProperties, ElementOfSeq DEF ReqInv, target

\* A walk no step was taken of.
LEMMA WalkStays ==
  ASSUME WalkInv, UNCHANGED <<world, phase, walk>>
  PROVE  WalkInv'
BY InputStays DEF WalkInv, Walking

\* The paths found.
LEMMA FoundStays ==
  ASSUME FoundInv, UNCHANGED <<world, phase, found>>
  PROVE  FoundInv'
BY InputStays DEF FoundInv

\* The verdicts told.
LEMMA ToldStays ==
  ASSUME ToldInv, ReqInv, UNCHANGED <<world, req, phase, found, at, verdicts>>
  PROVE  ToldInv'
BY InputStays, TruthStays, ReqStays DEF ToldInv, Telling, IsList

\* The climb under way.
LEMMA ClimbStays ==
  ASSUME ClimbInv, ReqInv, UNCHANGED <<world, req, phase, found, at>>
  PROVE  ClimbInv'
<1>1. chain' = chain
  BY InputStays DEF chain
<1>2. Climbing' = Climbing
  BY DEF Climbing
<1> QED
  BY <1>1, <1>2, TruthStays, ReqStays DEF ClimbInv

\* The replacements looked at.
LEMMA OfferStays ==
  ASSUME OfferInv, ReqInv, UNCHANGED <<world, req, options>>
  PROVE  OfferInv'
BY TruthStays, ReqStays DEF OfferInv

\* What was handed back.
LEMMA HandStays ==
  ASSUME HandInv, UNCHANGED <<world, req, guidance>>, phase \in {"done", "failed"} => phase' \in {"done", "failed"}
  PROVE  HandInv'
BY TruthStays DEF HandInv, IsList

\* The fields of the records.
LEMMA ShapeStays ==
  ASSUME ShapeInv, UNCHANGED <<at, found, walk>>
  PROVE  ShapeInv'
BY DEF ShapeInv

\* Nothing but the walker moved.
LEMMA QuestionStays ==
  ASSUME RestInv, UNCHANGED world, UNCHANGED question
  PROVE  RestInv'
BY ReqStays, WalkStays, FoundStays, ToldStays, ClimbStays, OfferStays, HandStays, ShapeStays DEF RestInv, question

-----------------------------------------------------------------------------
(* Reading the paths. *)

\* The distances are computed.
LEMMA FindChainsRest ==
  ASSUME RestInv, FindChains
  PROVE  RestInv'
BY ReqStays, WalkStays, FoundStays, ToldStays, ClimbStays, OfferStays, HandStays, ShapeStays DEF RestInv, FindChains

\* The first walk begins, or there is no path to walk.
LEMMA StartPathsRest ==
  ASSUME world \in Worlds, RestInv, StartPaths
  PROVE  RestInv'
<1>1. /\ phase = "begin" /\ UNCHANGED <<world, req, found, at, options, guidance>>
      /\ ReqInv /\ ShapeInv /\ FoundInv /\ ToldInv /\ OfferInv /\ HandInv
  BY DEF StartPaths, RestInv
<1>2. ReqInv' /\ OfferInv'
  BY <1>1, ReqStays, OfferStays
<1>3. found.shown = <<>> /\ verdicts = <<>>
  BY <1>1 DEF FoundInv, ToldInv, Telling
<1>4. CASE Ordered = <<>>
  <2>1. verdicts' = <<[kind |-> "unknown", at |-> target]>> /\ phase' = "chains" /\ UNCHANGED walk
    BY <1>4 DEF StartPaths
  <2>2. IsList(verdicts')
    <3>1. verdicts' = Append(<<>>, [kind |-> "unknown", at |-> target])
      BY <2>1
    <3> QED
      BY <3>1, NothingIsAList, Appended
  <2>3. ToldInv'
    BY <1>1, <1>3, <2>1, <2>2 DEF ToldInv, Telling, IsList
  <2>4. ClimbInv'
    BY <1>1, <1>3 DEF ClimbInv, Climbing
  <2>5. WalkInv'
    BY <2>1 DEF WalkInv, Walking
  <2>6. FoundInv' /\ HandInv' /\ ShapeInv'
    BY <1>1, <2>1, InputStays, HandStays, ShapeStays DEF FoundInv
  <2> QED
    BY <1>2, <2>3, <2>4, <2>5, <2>6 DEF RestInv
<1>5. CASE Ordered # <<>>
  <2>1. phase' = "shown" /\ walk' = StartWalk(Ordered) /\ UNCHANGED verdicts
    BY <1>5 DEF StartPaths
  <2>2. WalkInv'
    BY <1>1, <2>1, OrderedAreRoots, StartRoutes, InputStays DEF WalkInv
  <2>3. ToldInv' /\ ClimbInv'
    BY <1>1, <1>3, <2>1 DEF ToldInv, Telling, IsList, ClimbInv, Climbing
  <2>4. ShapeInv'
    BY <1>1, <2>1 DEF ShapeInv, StartWalk
  <2>5. FoundInv' /\ HandInv'
    BY <1>1, <2>1, InputStays, HandStays DEF FoundInv
  <2> QED
    BY <1>2, <2>2, <2>3, <2>4, <2>5 DEF RestInv
<1> QED
  BY <1>4, <1>5

\* A path is replaced by those one edge longer.
LEMMA ExtendRest ==
  ASSUME world \in Worlds, RestInv, Extend
  PROVE  RestInv'
<1>1. /\ UNCHANGED <<world, req, phase, found, at, verdicts, options, guidance>>
      /\ Walking /\ Unread # {}
  BY DEF Extend
<1>2. walk.stacks \in [0..(2 * NodeCount) -> Seq(Routes)] /\ walk.shown \in Seq(Displays)
  BY <1>1 DEF RestInv, WalkInv
<1>3. walk' = [walk EXCEPT !.stacks = Pushed(Onward(Current)), !.expanded = @ + 1]
  BY DEF Extend
<1>4. Pushed(Onward(Current)) \in [0..(2 * NodeCount) -> Seq(Routes)]
  BY <1>1, <1>2, CurrentIsARoute, OnwardRoutes, PushedRoutes
<1>5. ShapeInv
  BY DEF RestInv
<1>6. walk'.stacks = Pushed(Onward(Current)) /\ walk'.shown = walk.shown
  BY <1>3, <1>5 DEF ShapeInv
<1>7. ShapeInv'
  BY <1>1, <1>3, <1>5 DEF ShapeInv
<1>8. WalkInv'
  BY <1>1, <1>2, <1>4, <1>6, InputStays DEF WalkInv
<1> QED
  BY <1>1, <1>7, <1>8, ReqStays, FoundStays, ToldStays, ClimbStays, OfferStays, HandStays DEF RestInv

-----------------------------------------------------------------------------
(* The paths are counted, and the first climb begins. *)

\* A climb begins at the vulnerable package of the path it is given.
LEMMA ClimbBegins ==
  ASSUME world \in Worlds, ReqInv, UNCHANGED <<world, req>>, NEW shown \in Seq(Displays), NEW i,
         found'.shown = shown, at' = Climb(shown, i)
  PROVE  ClimbInv'
<1> SUFFICES ASSUME Climbing', Len(chain') > 1
             PROVE  ClimbIsTrue(at, chain, target)'
  BY DEF ClimbInv
<1>1. at'.chain = i /\ i \in DOMAIN shown
  BY DEF Climbing, Climb
<1> DEFINE d == shown[i]
           path == Names(d)
<1>2. d \in Displays
  BY <1>1, LenProperties, ElementOfSeq
<1>3. chain' = path
  BY <1>1, InputStays DEF chain, Names
<1>4. /\ at'.level = Len(d.path.ids) - 1 /\ at'.tried = 0 /\ at'.escaping = None /\ at'.stuck = <<>>
  BY <1>1 DEF Climb
<1> HIDE DEF d
<1>5. LockPath(path) /\ Len(path) = Len(d.path.ids)
  BY <1>2, NamesArePaths
<1> HIDE DEF path
<1>6. Len(path) > 1
  BY <1>3
<1>7. ClimbIsTrue(at', path, target)
  BY <1>4, <1>5, <1>6, ClimbStarts
<1> QED
  BY <1>3, <1>7, TruthStays, ReqStays

\* The paths are known: none has its verdict yet.
LEMMA CountedRest ==
  ASSUME world \in Worlds, RestInv, Walking, UNCHANGED <<world, req, verdicts, options, guidance>>,
         NEW shown \in Seq(Displays), NEW n, NEW exact, Counted(shown, n, exact)
  PROVE  RestInv'
<1>1. ReqInv /\ ShapeInv /\ ToldInv /\ OfferInv /\ HandInv
  BY DEF RestInv
<1>2. phase' = "chains" /\ at' = Climb(shown, 1) /\ walk' = NoWalk /\ found'.shown = shown
  BY DEF Counted
<1>3. ReqInv' /\ OfferInv' /\ HandInv'
  BY <1>1, <1>2, ReqStays, OfferStays, HandStays DEF Walking
<1>4. ClimbInv'
  BY <1>1, <1>2, ClimbBegins
<1>5. ShapeInv'
  BY DEF Counted, ShapeInv, Climb, NoWalk
<1>6. WalkInv' /\ FoundInv'
  BY <1>2, InputStays DEF WalkInv, Walking, FoundInv
<1>7. verdicts = <<>> /\ at'.chain = 1
  BY <1>1, <1>2 DEF ToldInv, Telling, Walking, Climb
<1>8. ToldInv'
  <2>1. Len(verdicts') = 0 /\ IsList(verdicts)'
    BY <1>7, NothingIsAList DEF IsList
  <2>2. Len(shown) \in Nat
    BY LenProperties
  <2> QED
    BY <1>2, <1>7, <2>1, <2>2 DEF ToldInv, Telling
<1> QED
  BY <1>3, <1>4, <1>5, <1>6, <1>8 DEF RestInv

\* A further walk begins: for a production path, or to count.
LEMMA WalksOn ==
  ASSUME world \in Worlds, RestInv, Walking, UNCHANGED <<world, req, at, verdicts, options, guidance>>,
         NEW shown \in Seq(Displays), found' = [found EXCEPT !.shown = shown],
         NEW from \in Seq(ToSet(roots)), walk' = StartWalk(from), phase' \in {"production", "count"}
  PROVE  RestInv'
<1>1. ReqInv /\ ShapeInv /\ ToldInv /\ OfferInv /\ HandInv
  BY DEF RestInv
<1>2. ReqInv' /\ OfferInv' /\ HandInv'
  BY <1>1, ReqStays, OfferStays, HandStays DEF Walking
<1>3. found'.shown = shown
  BY <1>1 DEF ShapeInv
<1>4. ShapeInv'
  BY <1>1 DEF ShapeInv, StartWalk
<1>5. WalkInv' /\ FoundInv'
  BY <1>3, StartRoutes, InputStays DEF WalkInv, FoundInv
<1>6. ToldInv' /\ ClimbInv'
  BY <1>1 DEF ToldInv, Telling, Walking, IsList, ClimbInv, Climbing
<1> QED
  BY <1>2, <1>4, <1>5, <1>6 DEF RestInv

\* The paths are counted, by adding up or by a walk of their own.
LEMMA CountRest ==
  ASSUME world \in Worlds, RestInv, Walking, UNCHANGED <<world, req, verdicts, options, guidance>>,
         NEW shown \in Seq(Displays), Count(shown)
  PROVE  RestInv'
<1>1. CASE Cyclic
  BY <1>1, OrderedAreRoots, WalksOn DEF Count
<1>2. CASE ~Cyclic
  BY <1>2, CountedRest DEF Count
<1> QED
  BY <1>1, <1>2

\* A walk ends.
LEMMA EndedRest ==
  ASSUME world \in Worlds, RestInv, Walking, UNCHANGED <<world, req, verdicts, options, guidance>>,
         NEW w, w.shown \in Seq(Displays), NEW exact, Ended(w, exact)
  PROVE  RestInv'
<1>1. found.shown \in Seq(Displays)
  BY DEF RestInv, FoundInv
<1>2. CASE phase = "shown"
  <2>1. CASE LacksProduction(w.shown)
    BY <1>2, <2>1, OrderedAreRoots, WalksOn DEF Ended
  <2>2. CASE ~LacksProduction(w.shown)
    <3>1. Count(w.shown)
      BY <1>2, <2>2 DEF Ended
    <3> QED
      BY <3>1, CountRest
  <2> QED
    BY <2>1, <2>2
<1>3. CASE phase = "production"
  <2>1. Kept(found.shown) \o w.shown \in Seq(Displays)
    BY <1>1, KeptRoutes, ConcatProperties
  <2>2. Count(Kept(found.shown) \o w.shown)
    BY <1>3 DEF Ended
  <2> QED
    BY <2>1, <2>2, CountRest
<1>4. CASE phase = "count"
  <2>1. Counted(found.shown, w.visited, exact)
    BY <1>4 DEF Ended
  <2> QED
    BY <1>1, <2>1, CountedRest
<1> QED
  BY <1>2, <1>3, <1>4 DEF Walking

\* A path is read, and perhaps shown.
LEMMA VisitRest ==
  ASSUME world \in Worlds, RestInv, Visit
  PROVE  RestInv'
<1>1. /\ UNCHANGED <<world, req, verdicts, options, guidance>>
      /\ Walking /\ Unread # {} /\ ShapeInv
  BY DEF Visit, RestInv
<1>2. walk.stacks \in [0..(2 * NodeCount) -> Seq(Routes)] /\ walk.shown \in Seq(Displays)
  BY <1>1 DEF RestInv, WalkInv
<1>3. Shown(Current) \in Seq(Displays)
  BY <1>1, <1>2, CurrentIsARoute, ShownRoutes
<1>4. <<>> \in Seq(Displays)
  BY EmptySeq
<1>5. /\ Seen.shown \in Seq(Displays)
      /\ Seen.stacks = [walk.stacks EXCEPT ![Shortest] = Tail(walk.stacks[Shortest])]
      /\ Seen = [f \in {"stacks", "expanded", "visited", "shown", "filled"} |-> Seen[f]]
  BY <1>1, <1>3, <1>4 DEF Seen, ShapeInv
<1>6. Seen.stacks \in [0..(2 * NodeCount) -> Seq(Routes)]
  BY <1>1, <1>2, <1>5, CurrentIsARoute
<1>7. CASE walk.visited + 1 < MaxPaths
  <2>1. walk' = Seen /\ UNCHANGED <<phase, found, at>>
    BY <1>7 DEF Visit
  <2>2. WalkInv' /\ ShapeInv'
    BY <1>1, <1>5, <1>6, <2>1, InputStays DEF WalkInv, ShapeInv
  <2> QED
    BY <1>1, <2>1, <2>2, ReqStays, FoundStays, ToldStays, ClimbStays, OfferStays, HandStays DEF RestInv
<1>8. CASE ~(walk.visited + 1 < MaxPaths)
  <2>1. Ended(Seen, FALSE)
    BY <1>8 DEF Visit
  <2> QED
    BY <1>1, <1>5, <2>1, EndedRest
<1> QED
  BY <1>7, <1>8

\* No path is left to read, or none may be.
LEMMA EndWalkRest ==
  ASSUME world \in Worlds, RestInv, EndWalk
  PROVE  RestInv'
<1>1. /\ UNCHANGED <<world, req, verdicts, options, guidance>>
      /\ Walking /\ Ended(walk, Unread = {})
  BY DEF EndWalk
<1>2. walk.shown \in Seq(Displays)
  BY <1>1 DEF RestInv, WalkInv
<1> QED
  BY <1>1, <1>2, EndedRest

-----------------------------------------------------------------------------
(* A climb. *)

\* The path climbed is one of the lockfile, and what the climb found so far is true.
LEMMA OnChain ==
  ASSUME world \in Worlds, RestInv, Climbing
  PROVE  /\ at.chain \in 1..Len(found.shown) /\ found.shown \in Seq(Displays)
         /\ chain = Names(found.shown[at.chain]) /\ LockPath(chain)
         /\ target \in Target
         /\ at.chain = Len(verdicts) + 1
         /\ Len(chain) > 1 => ClimbIsTrue(at, chain, target)
<1>1. /\ found.shown \in Seq(Displays) /\ ToldInv /\ ReqInv /\ ClimbInv
      /\ at.chain \in DOMAIN found.shown /\ phase = "chains"
  BY DEF RestInv, FoundInv, Climbing
<1>2. at.chain \in 1..Len(found.shown) /\ found.shown[at.chain] \in Displays /\ found.shown # <<>>
  BY <1>1, LenProperties, ElementOfSeq, EmptySeq
<1>3. chain = Names(found.shown[at.chain])
  BY DEF chain, Names
<1>4. LockPath(chain)
  BY <1>2, <1>3, NamesArePaths
<1>5. target \in Target
  BY <1>1, RequestsAssumption, LenProperties, ElementOfSeq DEF ReqInv, target
<1>6. at.chain = Len(verdicts) + 1
  BY <1>1, <1>2 DEF ToldInv, Telling
<1>7. Len(chain) > 1 => ClimbIsTrue(at, chain, target)
  BY <1>1 DEF ClimbInv
<1> QED
  BY <1>1, <1>2, <1>3, <1>4, <1>5, <1>6, <1>7

\* A true verdict is kept, and the next climb begins.
LEMMA ConcludeRest ==
  ASSUME world \in Worlds, RestInv, Climbing, NEW v, Conclude(v), Told(v, chain, target)
  PROVE  RestInv'
<1>1. /\ verdicts' = Append(verdicts, v)
      /\ at' = Climb(found.shown, at.chain + 1)
      /\ UNCHANGED <<world, req, phase, dist, walk, found, options, guidance>>
      /\ ReqInv /\ WalkInv /\ ShapeInv /\ FoundInv /\ ToldInv /\ OfferInv /\ HandInv /\ phase = "chains"
  BY DEF Conclude, RestInv, Climbing
<1>2. /\ at.chain \in 1..Len(found.shown) /\ found.shown \in Seq(Displays)
      /\ chain = Names(found.shown[at.chain]) /\ at.chain = Len(verdicts) + 1
  BY OnChain
<1>3. ReqInv' /\ WalkInv' /\ FoundInv' /\ OfferInv' /\ HandInv'
  BY <1>1, ReqStays, WalkStays, FoundStays, OfferStays, HandStays
<1>4. ShapeInv'
  BY <1>1 DEF ShapeInv, Climb
<1>5. ClimbInv'
  BY <1>1, <1>2, ClimbBegins
<1>6. ToldInv'
  <2>1. /\ IsList(verdicts) /\ at.chain = Len(verdicts) + 1 /\ Len(verdicts) <= Len(found.shown)
        /\ \A c \in 1..Len(verdicts) : Told(verdicts[c], Names(found.shown[c]), target)
    BY <1>1, <1>2, EmptySeq DEF ToldInv, Telling
  <2>2. /\ IsList(verdicts') /\ Len(verdicts) \in Nat /\ Len(verdicts') = Len(verdicts) + 1
        /\ \A i \in 1..Len(verdicts) : verdicts'[i] = verdicts[i]
        /\ verdicts'[Len(verdicts) + 1] = v
    BY <1>1, <2>1, Appended
  <2>3. \A c \in 1..Len(verdicts') : Told(verdicts'[c], Names(found.shown[c]), target)
    <3> TAKE c \in 1..Len(verdicts')
    <3>1. CASE c \in 1..Len(verdicts)
      BY <2>1, <2>2, <3>1
    <3>2. CASE c = Len(verdicts) + 1
      BY <1>2, <2>2, <3>2
    <3> QED
      BY <2>2, <3>1, <3>2
  <2>4. at'.chain = Len(verdicts') + 1 /\ Len(verdicts') <= Len(found.shown)
    BY <1>1, <1>2, <2>2, LenProperties DEF Climb
  <2>5. found' = found /\ phase' = "chains"
    BY <1>1
  <2>6. IsList(verdicts)'
    BY <2>2 DEF IsList
  <2>7. \A c \in 1..Len(verdicts') : Told(verdicts[c], Names(found.shown[c]), target)'
    BY <1>1, <2>3, <2>5, TruthStays, InputStays, ReqStays
  <2> QED
    BY <2>4, <2>5, <2>6, <2>7 DEF ToldInv, Telling
<1> QED
  BY <1>3, <1>4, <1>5, <1>6 DEF RestInv

\* The climb moves on, and what it found stays true.
LEMMA MoveRest ==
  ASSUME world \in Worlds, RestInv, Climbing, NEW a, Move(a), a.chain = at.chain,
         a = [f \in {"chain", "level", "tried", "escaping", "stuck"} |-> a[f]],
         Len(chain) > 1, ClimbIsTrue(a, chain, target)
  PROVE  RestInv'
<1>1. /\ at' = a
      /\ UNCHANGED <<world, req, phase, walk, found, verdicts, options, guidance>>
      /\ ReqInv /\ WalkInv /\ ShapeInv /\ FoundInv /\ ToldInv /\ OfferInv /\ HandInv
  BY DEF Move, RestInv
<1>2. ReqInv' /\ WalkInv' /\ FoundInv' /\ OfferInv' /\ HandInv'
  BY <1>1, ReqStays, WalkStays, FoundStays, OfferStays, HandStays
<1>3. ShapeInv'
  BY <1>1 DEF ShapeInv
<1>4. at'.chain = at.chain
  BY <1>1
<1>5. ToldInv'
  BY <1>1, <1>4, InputStays, TruthStays, ReqStays DEF ToldInv, Telling, IsList
<1>6. chain' = chain
  BY <1>1, <1>4, InputStays DEF chain
<1>7. ClimbInv'
  BY <1>1, <1>6, TruthStays, ReqStays DEF ClimbInv
<1> QED
  BY <1>2, <1>3, <1>5, <1>7 DEF RestInv

\* The release asked about is the lowest newer one not known to hold the package.
LEMMA Asked ==
  ASSUME world \in Worlds, RestInv, Asking
  PROVE  /\ at.level \in 1..(Len(chain) - 1) /\ at.level \in 1..Len(chain) /\ Len(chain) \in Nat
         /\ Candidate = <<ancestor[1], Candidate[2]>> /\ Candidate \in Listed /\ Candidate \in Release
         /\ Candidate[2] \in Version /\ Candidate[2] \in Nat /\ ancestor[2] < Candidate[2]
         /\ \A u \in Published(ancestor[1]) :
               ancestor[2] < u /\ u < Candidate[2] => Holds(<<ancestor[1], u>>, target)
<1> DEFINE v == Min(Untried)
<1>1. LockPath(chain) /\ ClimbIsTrue(at, chain, target) /\ Untried # {}
  BY OnChain DEF Asking
<1>2. at.level \in 1..(Len(chain) - 1) /\ Len(chain) \in Nat /\ at.level \in 1..Len(chain) /\ at.tried \in Nat
  BY <1>1 DEF ClimbIsTrue, LockPath
<1>3. ancestor \in Release /\ ancestor[1] \in Name /\ ancestor[2] \in Nat
  BY <1>1, <1>2, PathNumbers DEF ancestor
<1>4. Published(ancestor[1]) \subseteq Version /\ Version \subseteq Nat
  BY <1>3, WorldAssumption, VersionAssumption DEF Published, registry, Edges
<1>5. Untried \in SUBSET Nat
  BY <1>4 DEF Untried, Newer
<1>6. v \in Untried /\ \A m \in Untried : v <= m
  <2> DEFINE T == Untried
  <2>1. T \in SUBSET Nat /\ T # {}
    BY <1>1, <1>5
  <2>2. v = Min(T)
    OBVIOUS
  <2> HIDE DEF T, v
  <2>3. \E n \in T : \A m \in T : n <= m
    BY <2>1, Least
  <2>4. v \in T /\ \A m \in T : v <= m
    BY <2>2, <2>3 DEF Min
  <2> QED
    BY <2>4 DEF T
<1> HIDE DEF v
<1>7. Candidate = <<ancestor[1], v>>
  BY DEF Candidate, v
<1>8. v \in Published(ancestor[1]) /\ ancestor[2] < v /\ at.tried < v
  BY <1>6 DEF Untried, Newer
<1>9. v \in Version /\ v \in Nat
  BY <1>4, <1>8
<1>10. Candidate \in Release /\ Candidate \in Listed
  BY <1>3, <1>7, <1>8, <1>9 DEF Release, Listed
<1>11. ASSUME NEW u \in Published(ancestor[1]), ancestor[2] < u, u < v
       PROVE  Holds(<<ancestor[1], u>>, target)
  <2>1. u \in Nat
    BY <1>4
  <2>2. u \notin Untried
    BY <1>6, <1>9, <1>11, <2>1
  <2>3. u <= at.tried
    BY <1>2, <1>11, <2>1, <2>2 DEF Untried, Newer
  <2>4. TriedHold(at, chain, target)
    BY <1>1 DEF ClimbIsTrue
  <2> QED
    BY <1>11, <2>3, <2>4 DEF TriedHold, ancestor
<1> QED
  BY <1>2, <1>7, <1>8, <1>9, <1>10, <1>11

\* What is known of a published release is so of its install; there is a cause for not knowing.
LEMMA KnownIsTrue ==
  ASSUME IInv, NEW r \in Listed, NEW t \in Target, <<r, t>> \in DOMAIN memo
  PROVE  /\ memo[<<r, t>>] = "no" => Drops(r, t)
         /\ memo[<<r, t>>] = "yes" => Holds(r, t)
         /\ memo[<<r, t>>] = "unknown" => ~NothingIsMissing
         /\ memo[<<r, t>>] \in {"yes", "no", "unknown"}
<1>1. r \in Release /\ world \in Worlds
  BY DEF Listed, IInv
<1>2. VerdictSound(memo[<<r, t>>], r, t)
  BY <1>1 DEF IInv, MemoSound
<1>3. memo[<<r, t>>] = "unknown" => ~NothingIsMissing
  BY <1>2 DEF VerdictSound, NothingIsMissing
<1> QED
  BY <1>1, <1>2, <1>3, VerdictOnInstall DEF VerdictSound

\* When no release is left to try, every newer one holds the package.
LEMMA NoneLeft ==
  ASSUME world \in Worlds, RestInv, Climbing, Len(chain) > 1, Untried = {}
  PROVE  NoneNewerDrops(chain[at.level], target)
<1>1. LockPath(chain) /\ ClimbIsTrue(at, chain, target)
  BY OnChain
<1>2. at.level \in 1..Len(chain) /\ at.tried \in Nat /\ TriedHold(at, chain, target)
  BY <1>1 DEF ClimbIsTrue, LockPath
<1>3. chain[at.level][1] \in Name /\ chain[at.level][2] \in Nat
  BY <1>1, <1>2, PathNumbers
<1>4. Published(chain[at.level][1]) \subseteq Nat
  BY <1>3, WorldAssumption, VersionAssumption DEF Published, registry, Edges
<1>5. ASSUME NEW v \in Published(chain[at.level][1]), chain[at.level][2] < v
      PROVE  Holds(<<chain[at.level][1], v>>, target)
  <2>1. v <= at.tried
    BY <1>2, <1>4, <1>5 DEF Untried, Newer, ancestor
  <2> QED
    BY <1>2, <1>5, <2>1 DEF TriedHold
<1> QED
  BY <1>5 DEF NoneNewerDrops

-----------------------------------------------------------------------------
(* The steps of a climb. *)

\* The project depends on the package itself.
LEMMA DirectRest ==
  ASSUME world \in Worlds, RestInv, Direct
  PROVE  RestInv'
<1>1. Climbing /\ Len(chain) = 1 /\ Conclude([kind |-> "direct"])
  BY DEF Direct
<1>2. Told([kind |-> "direct"], chain, target)
  BY <1>1, OnChain, PlainIsTold
<1> QED
  BY <1>1, <1>2, ConcludeRest

\* A package of a path with no answer from the registry is a cause.
LEMMA NoDataRest ==
  ASSUME world \in Worlds, RestInv, NoData
  PROVE  RestInv'
<1> DEFINE x == [kind |-> "unknown", at |-> ancestor[1]]
<1>1. Climbing /\ Len(chain) > 1 /\ ~registry[ancestor[1]].ok /\ Conclude(x)
  BY DEF NoData
<1>2. LockPath(chain) /\ ClimbIsTrue(at, chain, target)
  BY <1>1, OnChain
<1>3. at.level \in 1..Len(chain)
  BY <1>2 DEF ClimbIsTrue, LockPath
<1>4. ancestor[1] \in Name
  BY <1>2, <1>3, PathNumbers DEF ancestor
<1>5. ~NothingIsMissing
  BY <1>1, <1>4 DEF NothingIsMissing
<1>6. Told(x, chain, target)
  BY <1>1, <1>2, <1>5, PlainIsTold
<1> HIDE DEF x
<1> QED
  BY <1>1, <1>6, ConcludeRest

\* One release more holds the package.
LEMMA StillReachesRest ==
  ASSUME IInv, RestInv, StillReaches
  PROVE  RestInv'
<1> DEFINE a == [at EXCEPT !.tried = Candidate[2]]
<1>1. Asking /\ Known("yes") /\ Move(a) /\ Climbing /\ Len(chain) > 1 /\ world \in Worlds
  BY DEF StillReaches, Asking, IInv
<1>2. ShapeInv
  BY DEF RestInv
<1>3. /\ a = [f \in {"chain", "level", "tried", "escaping", "stuck"} |-> a[f]]
      /\ a.chain = at.chain /\ a.level = at.level /\ a.tried = Candidate[2]
      /\ a.escaping = at.escaping /\ a.stuck = at.stuck
  BY <1>2 DEF ShapeInv
<1> HIDE DEF a
<1>4. /\ Candidate = <<ancestor[1], Candidate[2]>> /\ Candidate \in Listed
      /\ Candidate[2] \in Nat
      /\ at.level \in 1..Len(chain)
      /\ \A u \in Published(ancestor[1]) :
            ancestor[2] < u /\ u < Candidate[2] => Holds(<<ancestor[1], u>>, target)
  BY <1>1, Asked
<1>5. target \in Target /\ LockPath(chain) /\ ClimbIsTrue(at, chain, target)
  BY <1>1, OnChain
<1>6. Holds(Candidate, target)
  BY <1>1, <1>4, <1>5, KnownIsTrue DEF Known
<1>7. TriedHold(a, chain, target)
  <2>1. ancestor[1] \in Name
    BY <1>4, <1>5, PathNumbers DEF ancestor
  <2>2. Published(ancestor[1]) \subseteq Nat
    BY <1>1, <2>1, WorldAssumption, VersionAssumption DEF Published, registry, Edges
  <2>3. ASSUME NEW u \in Published(ancestor[1]), ancestor[2] < u, u <= Candidate[2]
        PROVE  Holds(<<ancestor[1], u>>, target)
    <3>1. u < Candidate[2] \/ u = Candidate[2]
      BY <1>4, <2>2, <2>3
    <3> QED
      BY <1>4, <1>6, <2>3, <3>1
  <2> QED
    BY <1>3, <2>3 DEF TriedHold, ancestor
<1>8. ClimbIsTrue(a, chain, target)
  BY <1>3, <1>4, <1>5, <1>7, ClimbTries
<1> QED
  BY <1>1, <1>3, <1>8, MoveRest

\* A verdict on a published release that stays unknown has a cause.
LEMMA UnprovenRest ==
  ASSUME IInv, RestInv, Unproven
  PROVE  RestInv'
<1> DEFINE x == [kind |-> "unknown", at |-> ancestor[1]]
<1>1. Asking /\ Known("unknown") /\ Conclude(x) /\ Climbing /\ Len(chain) > 1 /\ world \in Worlds
  BY DEF Unproven, Asking, IInv
<1>2. target \in Target /\ LockPath(chain) /\ Candidate \in Listed
  BY <1>1, OnChain, Asked
<1>3. ~NothingIsMissing
  BY <1>1, <1>2, KnownIsTrue DEF Known
<1>4. Told(x, chain, target)
  BY <1>1, <1>2, <1>3, PlainIsTold
<1> HIDE DEF x
<1> QED
  BY <1>1, <1>4, ConcludeRest

\* A release drops the package: the parent admits it, or must move, or its range is not known.
LEMMA EscapesRest ==
  ASSUME IInv, RestInv, Escapes
  PROVE  RestInv'
<1> DEFINE r == Candidate
           l == at.level
           v == r[2]
           declared == Declared(chain[l - 1], r[1])
<1>1. Asking /\ Known("no") /\ Admit(r) /\ Climbing /\ Len(chain) > 1 /\ world \in Worlds /\ ShapeInv
  BY DEF Escapes, Asking, IInv, RestInv
<1>2. /\ l \in 1..(Len(chain) - 1) /\ l \in 1..Len(chain) /\ Len(chain) \in Nat
      /\ r = <<chain[l][1], v>> /\ r \in Listed /\ v \in Version /\ chain[l][2] < v
      /\ \A u \in Published(chain[l][1]) : chain[l][2] < u /\ u < v => Holds(<<chain[l][1], u>>, target)
  BY <1>1, Asked DEF ancestor
<1>3. target \in Target /\ LockPath(chain)
  BY <1>1, OnChain
<1>4. Drops(r, target)
  BY <1>1, <1>2, <1>3, KnownIsTrue DEF Known
<1>5. r[1] = chain[l][1]
  BY <1>2
<1>6. CASE l = 1 \/ v \in declared
  <2>1. Conclude(Upgrade(r))
    BY <1>1, <1>6 DEF Admit
  <2> HIDE DEF l, v, r
  <2>2. Told(Upgrade(<<chain[l][1], v>>), chain, target)
    BY <1>1, <1>2, <1>3, <1>4, <1>5, <1>6, UpgradeIsTold
  <2> QED
    BY <1>1, <1>2, <2>1, <2>2, ConcludeRest
<1>7. CASE l # 1 /\ declared = {}
  <2> DEFINE x == [kind |-> "unknown", at |-> chain[l - 1][1]]
  <2>1. Conclude(x)
    BY <1>1, <1>7 DEF Admit
  <2>2. l - 1 \in 1..Len(chain) - 1 /\ (l - 1) + 1 = l
    BY <1>2, <1>7
  <2> HIDE DEF l, r
  <2>3. PICK e \in world.edges : release[e[1]] = chain[l - 1] /\ release[e[2]] = chain[l]
    BY <1>3, <2>2 DEF LockPath
  <2>4. Declared(release[e[1]], release[e[2]][1]) = {}
    BY <1>5, <1>7, <2>3
  <2>5. ~NothingIsMissing
    BY <2>4 DEF NothingIsMissing
  <2>6. Told(x, chain, target)
    BY <1>1, <1>3, <2>5, PlainIsTold
  <2> HIDE DEF x
  <2> QED
    BY <1>1, <2>1, <2>6, ConcludeRest
<1>8. CASE l # 1 /\ declared # {} /\ v \notin declared
  <2> DEFINE b == [at EXCEPT !.level = @ - 1, !.tried = 0, !.escaping = r[2]]
  <2>1. Move(b)
    BY <1>1, <1>8 DEF Admit
  <2>2. /\ b = [f \in {"chain", "level", "tried", "escaping", "stuck"} |-> b[f]]
        /\ b.chain = at.chain /\ b.level = l - 1 /\ b.tried = 0 /\ b.escaping = v
    BY <1>1 DEF ShapeInv
  <2>3. l \in 2..(Len(chain) - 1)
    BY <1>2, <1>8
  <2> HIDE DEF b, l, v, r
  <2>4. v \notin Declared(chain[l - 1], chain[l][1])
    BY <1>5, <1>8
  <2>5. Drops(<<chain[l][1], v>>, target)
    BY <1>2, <1>4
  <2>6. ClimbIsTrue(b, chain, target)
    BY <1>1, <1>2, <1>3, <2>2, <2>3, <2>4, <2>5, ClimbMoves
  <2> QED
    BY <1>1, <2>1, <2>2, <2>6, MoveRest
<1> QED
  BY <1>6, <1>7, <1>8

\* No newer release of the package drops the target.
LEMMA NoEscapeRest ==
  ASSUME world \in Worlds, RestInv, NoEscape
  PROVE  RestInv'
<1>1. Climbing /\ Len(chain) > 1 /\ Untried = {} /\ ShapeInv
  BY DEF NoEscape, RestInv
<1>2. LockPath(chain) /\ ClimbIsTrue(at, chain, target) /\ NoneNewerDrops(chain[at.level], target)
  BY <1>1, OnChain, NoneLeft
<1>3. at.level \in 1..(Len(chain) - 1)
  BY <1>2 DEF ClimbIsTrue
<1>4. CASE at.escaping # None
  <2> DEFINE x == [kind |-> "blocked", release |-> <<chain[at.level + 1][1], at.escaping>>, by |-> chain[at.level][1]]
  <2>1. Conclude(x)
    BY <1>4 DEF NoEscape, ancestor
  <2>2. Told(x, chain, target)
    BY <1>2, <1>4, BlockedIsTold
  <2> HIDE DEF x
  <2> QED
    BY <1>1, <2>1, <2>2, ConcludeRest
<1>5. CASE at.escaping = None /\ at.level > 1
  <2> DEFINE b == [at EXCEPT !.level = @ - 1, !.tried = 0, !.stuck = Append(@, ancestor[1])]
  <2>1. Move(b)
    BY <1>5 DEF NoEscape
  <2>2. /\ b = [f \in {"chain", "level", "tried", "escaping", "stuck"} |-> b[f]]
        /\ b.chain = at.chain /\ b.level = at.level - 1 /\ b.tried = 0 /\ b.escaping = None
        /\ b.stuck = Append(at.stuck, chain[at.level][1])
    BY <1>1, <1>5 DEF ShapeInv, ancestor
  <2> HIDE DEF b
  <2>3. ClimbIsTrue(b, chain, target)
    BY <1>2, <1>5, <2>2, StuckClimbs
  <2> QED
    BY <1>1, <2>1, <2>2, <2>3, MoveRest
<1>6. CASE at.escaping = None /\ ~(at.level > 1)
  <2> DEFINE x == [kind |-> "noEscape", packages |-> Append(at.stuck, chain[at.level][1])]
  <2>1. Conclude(x)
    BY <1>6 DEF NoEscape, ancestor
  <2>2. at.level = 1
    BY <1>3, <1>6
  <2>3. Told(x, chain, target)
    BY <1>2, <1>6, <2>2, NoEscapeIsTold
  <2> HIDE DEF x
  <2> QED
    BY <1>1, <2>1, <2>3, ConcludeRest
<1> QED
  BY <1>4, <1>5, <1>6

-----------------------------------------------------------------------------
(* The replacements, and what is handed back. *)

\* Every path has its verdict.
LEMMA ChainsDoneRest ==
  ASSUME RestInv, ChainsDone
  PROVE  RestInv'
<1>1. /\ phase = "chains" /\ phase' = "alternatives" /\ at.chain \notin DOMAIN found.shown
      /\ UNCHANGED <<world, req, dist, walk, found, at, verdicts, options, guidance>>
      /\ ReqInv /\ ShapeInv /\ FoundInv /\ ToldInv /\ OfferInv /\ HandInv
  BY DEF ChainsDone, RestInv
<1>2. ReqInv' /\ OfferInv' /\ HandInv' /\ ShapeInv'
  BY <1>1, ReqStays, OfferStays, HandStays, ShapeStays
<1>3. WalkInv' /\ ClimbInv' /\ FoundInv'
  BY <1>1, InputStays DEF WalkInv, Walking, ClimbInv, Climbing, FoundInv
<1>4. ToldInv'
  BY <1>1, InputStays, TruthStays, ReqStays DEF ToldInv, Telling, IsList
<1> QED
  BY <1>2, <1>3, <1>4 DEF RestInv

\* A true outcome is kept.
LEMMA OfferRest ==
  ASSUME RestInv, NEW n \in Name, NEW outcome, Offer(n, outcome), Offered(n, outcome, target)
  PROVE  RestInv'
<1>1. /\ options' = Put(options, n, outcome)
      /\ UNCHANGED <<world, req, phase, walk, found, at, verdicts, guidance>>
      /\ ReqInv /\ WalkInv /\ ShapeInv /\ FoundInv /\ ToldInv /\ ClimbInv /\ OfferInv /\ HandInv
  BY DEF Offer, RestInv
<1>2. ReqInv' /\ WalkInv' /\ ShapeInv' /\ FoundInv' /\ ToldInv' /\ ClimbInv' /\ HandInv'
  BY <1>1, ReqStays, WalkStays, ShapeStays, FoundStays, ToldStays, ClimbStays, HandStays
<1>3. \A m \in DOMAIN options' : m \in Name /\ Offered(m, options'[m], target)
  BY <1>1 DEF Put, OfferInv
<1>4. OfferInv'
  BY <1>1, <1>3, TruthStays, ReqStays DEF OfferInv
<1> QED
  BY <1>2, <1>4 DEF RestInv

\* A replacement is looked at: an outcome other than not verified rests on a verdict.
LEMMA moduleOptionRest ==
  ASSUME IInv, RestInv, NEW n \in Name, moduleOption(n)
  PROVE  RestInv'
<1> DEFINE r == Replacement(n)
<1>1. HasEntry(n) /\ world \in Worlds /\ ReqInv /\ target \in Target
  BY ReqStays, RequestsAssumption, LenProperties, ElementOfSeq DEF moduleOption, Wanted, IInv, RestInv, ReqInv, target
<1>2. world.replacement[n] \in Name \cup {None} /\ world.replacement[n] # None
  BY <1>1, InputAssumption DEF ScanInput, HasEntry
<1>3. r[1] \in Name /\ r[2] \in Version \cup {None} /\ r = <<r[1], r[2]>>
  BY <1>1, <1>2, InputAssumption DEF ScanInput, Replacement, registry
<1> HIDE DEF r
<1>4. CASE ~registry[r[1]].ok \/ r[2] = None
  <2>1. Offer(n, "unverified")
    BY <1>4 DEF moduleOption, r
  <2>2. NothingIsMissing => r[2] = None
    BY <1>3, <1>4 DEF NothingIsMissing
  <2>3. NothingIsMissing => r \notin Listed
    BY <1>3, <2>2, VersionAssumption DEF Listed, Release
  <2>4. Offered(n, "unverified", target)
    BY <2>3 DEF Offered, OptionIsTrue, r
  <2> QED
    BY <2>1, <2>4, OfferRest
<1>5. CASE registry[r[1]].ok /\ r[2] # None /\ <<r, target>> \in DOMAIN memo
  <2> DEFINE known == memo[<<r, target>>]
             outcome == CASE known = "yes" -> "left out" [] known = "no" -> "verified" [] OTHER -> "unverified"
  <2>1. Offer(n, outcome)
    BY <1>5 DEF moduleOption, r
  <2>2. r \in Release
    BY <1>3, <1>5 DEF Release
  <2>3. VerdictSound(known, r, target)
    BY <1>1, <1>5, <2>2 DEF IInv, MemoSound
  <2> HIDE DEF known
  <2>4. (known = "no" => Drops(r, target)) /\ (known = "yes" => Holds(r, target))
    BY <1>1, <2>2, <2>3, VerdictOnInstall
  <2>5. known \in {"yes", "no", "unknown"} /\ (known = "unknown" /\ NothingIsMissing => r \notin Listed)
    BY <2>3 DEF VerdictSound, NothingIsMissing
  <2>6. Offered(n, outcome, target)
    BY <2>4, <2>5 DEF Offered, OptionIsTrue, r
  <2> HIDE DEF outcome
  <2> QED
    BY <2>1, <2>6, OfferRest
<1>6. CASE registry[r[1]].ok /\ r[2] # None /\ <<r, target>> \notin DOMAIN memo
  <2>1. (expandLevel(r, target) \/ reaches(r, target)) /\ UNCHANGED question
    BY <1>6 DEF moduleOption, r
  <2>2. UNCHANGED world
    BY <2>1 DEF expandLevel, reaches
  <2> QED
    BY <2>1, <2>2, QuestionStays
<1> QED
  BY <1>4, <1>5, <1>6

\* What is handed back of a request is true of it.
LEMMA NextRequestRest ==
  ASSUME RestInv, NextRequest
  PROVE  RestInv'
<1> DEFINE g == [found |-> found, verdicts |-> verdicts, options |-> options]
           n == Len(Requests)
<1>1. /\ phase = "alternatives" /\ guidance' = Append(guidance, g) /\ UNCHANGED <<world, walk>>
      /\ req' = IF req < n THEN req + 1 ELSE req
      /\ phase' = IF req < n THEN "begin" ELSE "done"
      /\ found' = NothingFound /\ at' = Climb(<<>>, 1) /\ verdicts' = <<>> /\ options' = NoOptions
      /\ ReqInv /\ ShapeInv /\ FoundInv /\ ToldInv /\ OfferInv /\ HandInv
  BY DEF NextRequest, RestInv
<1>2. n \in Nat /\ DOMAIN Requests = 1..n /\ req \in 1..n
  BY <1>1, RequestsAssumption, LenProperties DEF ReqInv
<1>3. g.found = found /\ g.verdicts = verdicts /\ g.options = options
  OBVIOUS
<1> HIDE DEF g, n
<1>4. \A c \in DOMAIN found.shown : Told(verdicts[c], Names(found.shown[c]), target)
  <2> TAKE c \in DOMAIN found.shown
  <2>1. found.shown \in Seq(Displays) /\ DOMAIN found.shown = 1..Len(found.shown) /\ Len(found.shown) \in Nat
    BY <1>1, LenProperties DEF FoundInv
  <2>2. found.shown # <<>>
    BY <2>1, EmptySeq
  <2>3. /\ at.chain = Len(verdicts) + 1 /\ Len(verdicts) <= Len(found.shown) /\ at.chain \notin DOMAIN found.shown
        /\ \A i \in 1..Len(verdicts) : Told(verdicts[i], Names(found.shown[i]), target)
    BY <1>1, <2>2 DEF ToldInv, Telling
  <2>4. Len(verdicts) \in Nat
    BY <1>1, Appended DEF ToldInv
  <2>5. c \in 1..Len(verdicts)
    BY <2>1, <2>3, <2>4
  <2> QED
    BY <2>3, <2>5
<1>5. Guided(g, target)
  BY <1>1, <1>3, <1>4 DEF Guided, OfferInv
<1>6. /\ IsList(guidance) /\ Len(guidance) = req - 1
      /\ \A i \in 1..Len(guidance) : i \in DOMAIN Requests /\ Guided(guidance[i], Requests[i])
  BY <1>1 DEF HandInv
<1>7. /\ IsList(guidance') /\ Len(guidance) \in Nat /\ Len(guidance') = Len(guidance) + 1
      /\ \A i \in 1..Len(guidance) : guidance'[i] = guidance[i]
      /\ guidance'[Len(guidance) + 1] = g
  BY <1>1, <1>6, Appended
<1>8. \A i \in 1..Len(guidance') : i \in DOMAIN Requests /\ Guided(guidance'[i], Requests[i])
  <2> TAKE i \in 1..Len(guidance')
  <2>1. CASE i \in 1..Len(guidance)
    BY <1>6, <1>7, <2>1
  <2>2. CASE i = Len(guidance) + 1
    <3>1. i = req /\ guidance'[i] = g
      BY <1>2, <1>6, <1>7, <2>2
    <3> QED
      BY <1>2, <1>5, <3>1 DEF target
  <2> QED
    BY <1>7, <2>1, <2>2
<1>9. HandInv'
  <2>1. phase' \notin {"done", "failed"} => Len(guidance') = req' - 1
    BY <1>1, <1>2, <1>6, <1>7
  <2>2. \A i \in 1..Len(guidance') : i \in DOMAIN Requests /\ Guided(guidance[i], Requests[i])'
    BY <1>1, <1>8, TruthStays
  <2>3. IsList(guidance)'
    BY <1>7 DEF IsList
  <2> QED
    BY <2>1, <2>2, <2>3 DEF HandInv
<1>10. ReqInv'
  BY <1>1, <1>2 DEF ReqInv
<1>11. phase' \in {"begin", "done"}
  BY <1>1
<1>12. ToldInv'
  BY <1>1, <1>11, NothingIsAList DEF ToldInv, Telling, IsList
<1>13. WalkInv' /\ ClimbInv' /\ OfferInv'
  BY <1>1, <1>11 DEF WalkInv, Walking, ClimbInv, Climbing, OfferInv, NoOptions
<1>14. FoundInv'
  BY <1>1, EmptySeq DEF FoundInv, NothingFound
<1>15. ShapeInv'
  BY <1>1 DEF ShapeInv, NothingFound, Climb
<1> QED
  BY <1>9, <1>10, <1>12, <1>13, <1>14, <1>15 DEF RestInv

\* Nothing is handed back when the store fails.
LEMMA StoreFailsRest ==
  ASSUME RestInv, StoreFails
  PROVE  RestInv'
<1>1. /\ phase' = "failed" /\ guidance' = <<>> /\ UNCHANGED <<world, req, walk>>
      /\ found' = NothingFound /\ at' = Climb(<<>>, 1) /\ verdicts' = <<>> /\ options' = NoOptions
      /\ ReqInv /\ ShapeInv
  BY DEF StoreFails, RestInv
<1>2. HandInv'
  BY <1>1, NothingIsAList DEF HandInv, IsList
<1>3. ToldInv'
  BY <1>1, NothingIsAList DEF ToldInv, Telling, IsList
<1>4. WalkInv' /\ ClimbInv' /\ OfferInv' /\ ReqInv'
  BY <1>1 DEF WalkInv, Walking, ClimbInv, Climbing, OfferInv, NoOptions, ReqInv
<1>5. FoundInv' /\ ShapeInv'
  BY <1>1, EmptySeq DEF FoundInv, ShapeInv, NothingFound, Climb
<1> QED
  BY <1>2, <1>3, <1>4, <1>5 DEF RestInv

-----------------------------------------------------------------------------
(* The guidance. *)

\* The first question begins with nothing found, told or handed back.
LEMMA InitGuides == Init => GuideInv
<1> SUFFICES ASSUME Init PROVE GuideInv
  OBVIOUS
<1>1. IInv
  BY InitSound
<1>2. ReqInv
  <2>1. Len(Requests) \in Nat /\ DOMAIN Requests = 1..Len(Requests) /\ Len(Requests) # 0
    BY RequestsAssumption, LenProperties, EmptySeq
  <2> QED
    BY <2>1 DEF Init, ReqInv
<1>3. ShapeInv /\ WalkInv /\ ClimbInv /\ OfferInv
  BY DEF Init, ShapeInv, Climb, NothingFound, NoWalk, WalkInv, Walking, ClimbInv, Climbing, OfferInv, NoOptions
<1>4. FoundInv
  BY EmptySeq DEF Init, FoundInv, NothingFound
<1>5. ToldInv /\ HandInv
  BY NothingIsAList DEF Init, ToldInv, Telling, HandInv
<1> QED
  BY <1>1, <1>2, <1>3, <1>4, <1>5 DEF GuideInv, RestInv

\* Every step keeps what is known of the paths, the climbs and the replacements.
LEMMA NextGuides == GuideInv /\ [Next]_vars => GuideInv'
<1> SUFFICES ASSUME GuideInv, [Next]_vars PROVE GuideInv'
  OBVIOUS
<1>1. IInv /\ RestInv /\ world \in Worlds
  BY DEF GuideInv, IInv
<1>2. IInv'
  BY <1>1, NextSound
<1>3. RestInv'
  <2>1. CASE FindChains \/ StartPaths \/ Extend \/ Visit \/ EndWalk
    BY <1>1, <2>1, FindChainsRest, StartPathsRest, ExtendRest, VisitRest, EndWalkRest
  <2>2. CASE Direct \/ NoData \/ StillReaches \/ Unproven \/ Escapes \/ NoEscape
    BY <1>1, <2>2, DirectRest, NoDataRest, StillReachesRest, UnprovenRest, EscapesRest, NoEscapeRest
  <2>3. CASE Ask
    BY <1>1, <2>3, QuestionStays DEF Ask, expandLevel, reaches
  <2>4. CASE ChainsDone \/ NextRequest \/ StoreFails
    BY <1>1, <2>4, ChainsDoneRest, NextRequestRest, StoreFailsRest
  <2>5. CASE \E n \in Name : moduleOption(n)
    BY <1>1, <2>5, moduleOptionRest
  <2>6. CASE UNCHANGED vars
    BY <1>1, <2>6, QuestionStays DEF vars
  <2> QED
    BY <2>1, <2>2, <2>3, <2>4, <2>5, <2>6 DEF Next
<1> QED
  BY <1>2, <1>3 DEF GuideInv

\* Of what is handed back each claim is true of the least install, and each unknown has its cause.
LEMMA GuidedIsTrue == GuideInv => GuidanceIsTrue
<1> SUFFICES ASSUME GuideInv PROVE GuidanceIsTrue
  OBVIOUS
<1>1. \A i \in DOMAIN guidance : Guided(guidance[i], Requests[i])
  BY Appended DEF GuideInv, RestInv, HandInv
<1>2. \A g, c : PathOf(g, c) = Names(g.found.shown[c])
  BY DEF PathOf, Names
<1>3. ClaimsAreTrue
  BY <1>1, <1>2 DEF ClaimsAreTrue, Guided, Told, Offered
<1>4. UnknownHasACause
  BY <1>1 DEF UnknownHasACause, Guided, Told, Offered
<1> QED
  BY <1>3, <1>4 DEF GuidanceIsTrue

\* What the reader of a finding is told of its way out is true, whatever the registry and the lockfile hold and
\* however many findings share the walks: an upgrade is the lowest newer release that drops the package and is
\* admitted by the installed parent, of what is blocked or has no escape no newer release drops it, a
\* replacement does without the package, and an unknown has its cause (remediation.ts).
THEOREM GuidanceIsAlwaysTrue == Spec => []GuidanceIsTrue
<1>1. Init => GuideInv
  BY InitGuides
<1>2. GuideInv /\ [Next]_vars => GuideInv'
  BY NextGuides
<1>3. GuideInv => GuidanceIsTrue
  BY GuidedIsTrue
<1> QED
  BY <1>1, <1>2, <1>3, PTL DEF Spec
=============================================================================
