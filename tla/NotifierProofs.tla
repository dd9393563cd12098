----------------------------- MODULE NotifierProofs -----------------------------
(***************************************************************************)
(* Theorems about Notifier, for any findings, projects, targets and edits, *)
(* and any finite number of overlapping scans.                             *)
(*                                                                         *)
(* They follow from what can be said of each pair of an event and a target *)
(* by itself: the state of the target, the pair's delivery row, how many   *)
(* messages about it were taken, and how many passes have it before them.  *)
(***************************************************************************)
EXTENDS Notifier, FiniteSetTheorems, TLAPS

FewLanes == IsFiniteSet(Lanes)

ScopeRows == [roots : SUBSET Roots, projects : SUBSET Projects]
TargetRows == [state : {"none", "live", "gone"}, enabled : BOOLEAN, filter : SUBSET Grades, scope : ScopeRows]

Scanned == [at : {"scanned"}, project : Projects, found : [Findings -> Maybe], failed : BOOLEAN]
Sending == [at : {"sending"}, found : [Findings -> Maybe], groups : [Targets -> SUBSET Events],
            to : Targets \cup {NoTarget}, failures : SUBSET Projects,
            message : SUBSET Events, text : SUBSET Events]

Shape ==
    /\ world \in [Findings -> Maybe]
    /\ delivery \in [Events \X Targets -> {"none", "placeholder", "tried", "done"}]
    /\ older \subseteq Events \X Targets
    /\ target \in [Targets -> TargetRows]
    /\ writes \in [Targets -> [left : SUBSET {"roots", "projects"}, scope : ScopeRows]]
    /\ accepted \in [Events \X Targets -> Nat] /\ crowd \in [Events \X Targets -> Nat]
    /\ lane \in [Lanes -> {Idle} \cup Scanned \cup Sending]
    /\ faults \in 0..MaxFaults

\* A message describes what is recorded with it, and what is on its way is due no more.
LaneOk(s) ==
    s.at = "sending" =>
        /\ s.text = s.message
        /\ s.message \cap s.failures = {}
        /\ s.message \cup s.failures # {} => s.to \in Targets /\ s.groups[s.to] = {}

\* The pass has the pair on its way.
Sent(s, e, t) == s.at = "sending" /\ t = s.to /\ e \in s.message

\* A pair's numbers: its target's state, its delivery row, how many messages were taken,
\* how many passes have it before them, the faults so far, and the most passes there were.
PairOk(s, d, a, n, f, c) ==
    /\ d = "done" => a > 0
    /\ s = "none" => a = 0 /\ n = 0
    /\ a + n <= c * (1 + f)
    /\ s = "live" /\ d # "done" => a <= c * f

CountsOk(e, t) ==
    PairOk(target[t].state, delivery[<<e, t>>], accepted[<<e, t>>], Cardinality(Passes(e, t)), faults, crowd[<<e, t>>])

\* An old event is before a pass, or was told, only where the history was asked for.
HistoryOk(e, t) ==
    /\ <<e, t>> \in older /\ t \in Live
    /\ accepted[<<e, t>>] > 0 \/ \E l \in Lanes : Due(lane[l], e, t)
    => delivery[<<e, t>>] \in {"placeholder", "done"}

\* A message on its way to a live target has its row.
SentOk(e, t) == t \in Live /\ (\E l \in Lanes : Sent(lane[l], e, t)) => delivery[<<e, t>>] # "none"

PairInv(e, t) == CountsOk(e, t) /\ HistoryOk(e, t) /\ SentOk(e, t)

IInv ==
    /\ Shape
    /\ \A l \in Lanes : LaneOk(lane[l])
    /\ \A e \in Events, t \in Targets : PairInv(e, t)

-----------------------------------------------------------------------------
(* Counting passes. *)

\* The passes that have a pair before them can be counted, and are no more than the lanes.
LEMMA PassesAreFew ==
  ASSUME FewLanes, NEW e, NEW t
  PROVE  /\ IsFiniteSet(Passes(e, t)) /\ Cardinality(Passes(e, t)) \in Nat
         /\ Cardinality(Lanes) \in Nat /\ Cardinality(Passes(e, t)) <= Cardinality(Lanes)
<1>1. Passes(e, t) \subseteq Lanes
  BY DEF Passes
<1> QED
  BY <1>1, FS_Subset, FS_CardinalityType DEF FewLanes

\* Passes that give a pair up are fewer by one.
LEMMA FewerPasses ==
  ASSUME FewLanes, NEW S, NEW T, S \subseteq T, T \subseteq Lanes
  PROVE  /\ Cardinality(S) \in Nat /\ Cardinality(T) \in Nat /\ Cardinality(S) <= Cardinality(T)
         /\ \A l \in T : l \notin S => Cardinality(S) + 1 <= Cardinality(T)
<1>1. IsFiniteSet(T) /\ IsFiniteSet(S)
  BY FS_Subset DEF FewLanes
<1>2. ASSUME NEW l \in T, l \notin S PROVE Cardinality(S) + 1 <= Cardinality(T)
  <2>1. S \subseteq T \ {l}
    BY <1>2
  <2>2. IsFiniteSet(T \ {l}) /\ Cardinality(T \ {l}) = Cardinality(T) - 1
    BY <1>1, FS_RemoveElement
  <2>3. Cardinality(S) <= Cardinality(T \ {l})
    BY <2>1, <2>2, FS_Subset
  <2> QED
    BY <1>1, <2>2, <2>3, FS_CardinalityType
<1> QED
  BY <1>1, <1>2, FS_Subset, FS_CardinalityType

\* The bound on duplicates grows with each fault by the number of passes.
LEMMA Bound ==
  ASSUME NEW k \in Nat, NEW f \in Nat
  PROVE  /\ k * f \in Nat /\ k * (1 + f) \in Nat /\ k * (1 + f) = k * f + k
         /\ k * (f + 1) = k * f + k /\ k * (1 + (f + 1)) = k * f + k + k
OBVIOUS

\* A pair whose passes get no more, with no more than a fault happening, stays sound.
LEMMA PairKept ==
  ASSUME FewLanes, NEW s, NEW d, NEW a \in Nat, NEW n \in Nat, NEW f \in Nat,
         NEW c \in Nat, PairOk(s, d, a, n, f, c), NEW k \in Nat, k <= n, NEW g \in {f, f + 1}
  PROVE  PairOk(s, d, a, k, g, c)
<1>1. c * f <= c * g /\ c * (1 + f) <= c * (1 + g) /\ c * (1 + f) \in Nat /\ c * f \in Nat
      /\ c * (1 + g) \in Nat /\ c * g \in Nat
  BY Bound
<1> QED
  BY <1>1 DEF PairOk

\* A product grows with its factor.
LEMMA Larger ==
  ASSUME NEW b \in Nat, NEW c \in Nat, b <= c, NEW f \in Nat
  PROVE  b * f \in Nat /\ c * f \in Nat /\ b * f <= c * f
<1>1. PICK x \in Nat : c = b + x
  <2>1. c - b \in Nat /\ c = b + (c - b)
    OBVIOUS
  <2> QED
    BY <2>1
<1>2. c * f = b * f + x * f /\ b * f \in Nat /\ x * f \in Nat
  BY <1>1
<1> QED
  BY <1>2

\* More passes at one time leave a pair sound.
LEMMA Grown ==
  ASSUME NEW s, NEW d, NEW a \in Nat, NEW n \in Nat, NEW f \in Nat, NEW b \in Nat, NEW c \in Nat, b <= c,
         PairOk(s, d, a, n, f, b)
  PROVE  PairOk(s, d, a, n, f, c)
<1>1. b * f <= c * f /\ b * f \in Nat /\ c * f \in Nat
  BY Larger
<1>2. b * (1 + f) <= c * (1 + f) /\ b * (1 + f) \in Nat /\ c * (1 + f) \in Nat
  <2>1. 1 + f \in Nat
    OBVIOUS
  <2> QED
    BY <2>1, Larger
<1> QED
  BY <1>1, <1>2 DEF PairOk

-----------------------------------------------------------------------------
(* Steps of one pass. *)

LaneStates == {Idle} \cup Scanned \cup Sending

LaneBecomes(l, s) ==
    /\ s \in LaneStates /\ LaneOk(s)
    /\ lane' \in [Lanes -> LaneStates]
    /\ lane'[l] = s /\ \A k \in Lanes \ {l} : lane'[k] = lane[k]

\* A pass that moves on with nothing new before it takes no pair on.
LEMMA PassMoves ==
  ASSUME FewLanes, NEW l \in Lanes, NEW s, LaneBecomes(l, s), NEW e, NEW t,
         Due(s, e, t) => Due(lane[l], e, t)
  PROVE  /\ Cardinality(Passes(e, t)) \in Nat /\ Cardinality(Passes(e, t))' \in Nat
         /\ Cardinality(Passes(e, t))' <= Cardinality(Passes(e, t))
         /\ Due(lane[l], e, t) /\ ~Due(s, e, t) =>
              Cardinality(Passes(e, t))' + 1 <= Cardinality(Passes(e, t))
<1>1. Passes(e, t)' \subseteq Passes(e, t) /\ Passes(e, t) \subseteq Lanes
  BY DEF Passes, LaneBecomes
<1>2. ASSUME Due(lane[l], e, t), ~Due(s, e, t) PROVE l \in Passes(e, t) /\ l \notin Passes(e, t)'
  BY <1>2 DEF Passes, LaneBecomes
<1> DEFINE S == Passes(e, t)'
           T == Passes(e, t)
<1> HIDE DEF S, T
<1>3. /\ Cardinality(S) \in Nat /\ Cardinality(T) \in Nat /\ Cardinality(S) <= Cardinality(T)
      /\ \A k \in T : k \notin S => Cardinality(S) + 1 <= Cardinality(T)
  BY <1>1, FewerPasses DEF S, T
<1> QED
  BY <1>2, <1>3 DEF S, T

\* The pair's numbers have their types.
LEMMA PairType ==
  ASSUME Shape, NEW e \in Events, NEW t \in Targets
  PROVE  /\ accepted[<<e, t>>] \in Nat /\ faults \in Nat /\ crowd[<<e, t>>] \in Nat
         /\ delivery[<<e, t>>] \in {"none", "placeholder", "tried", "done"}
         /\ target[t] \in TargetRows /\ target[t].state \in {"none", "live", "gone"}
         /\ (t \in Live <=> target[t].state = "live")
<1>1. faults \in Nat
  BY NotifierAssumption DEF Shape
<1>2. <<e, t>> \in Events \X Targets
  OBVIOUS
<1>3. accepted[<<e, t>>] \in Nat /\ crowd[<<e, t>>] \in Nat /\ delivery[<<e, t>>] \in {"none", "placeholder", "tried", "done"}
  BY <1>2 DEF Shape
<1>4. target[t] \in TargetRows
  BY DEF Shape
<1> QED
  BY <1>1, <1>3, <1>4 DEF TargetRows, Live

\* A pass that gives pairs up, and writes nothing to the ledger, keeps the invariant.
LEMMA PassGivesUp ==
  ASSUME FewLanes, IInv, NEW l \in Lanes, NEW s, LaneBecomes(l, s),
         UNCHANGED <<world, delivery, older, target, writes, told>>,
         faults' \in {faults, faults + 1}, faults' \in 0..MaxFaults,
         \A e \in Events, t \in Targets :
            (Due(s, e, t) => Due(lane[l], e, t)) /\ (Sent(s, e, t) => Sent(lane[l], e, t))
  PROVE  IInv'
<1>1. Shape'
  BY DEF IInv, Shape, LaneBecomes, LaneStates, told
<1>2. \A k \in Lanes : LaneOk(lane'[k])
  BY DEF IInv, LaneBecomes
<1>3. ASSUME NEW e \in Events, NEW t \in Targets PROVE PairInv(e, t)'
  <2>1. /\ Cardinality(Passes(e, t)) \in Nat /\ Cardinality(Passes(e, t))' \in Nat
        /\ Cardinality(Passes(e, t))' <= Cardinality(Passes(e, t))
    BY PassMoves
  <2>2. (\E k \in Lanes : Sent(lane'[k], e, t)) => \E k \in Lanes : Sent(lane[k], e, t)
    BY DEF LaneBecomes
  <2>3. accepted[<<e, t>>] \in Nat /\ faults \in Nat /\ crowd[<<e, t>>] \in Nat /\ PairInv(e, t)
    BY PairType DEF IInv
  <2>4. PairOk(target[t].state, delivery[<<e, t>>], accepted[<<e, t>>], Cardinality(Passes(e, t))', faults',
               crowd[<<e, t>>])
    BY <2>1, <2>3, PairKept DEF PairInv, CountsOk
  <2>5. (\E k \in Lanes : Due(lane'[k], e, t)) => \E k \in Lanes : Due(lane[k], e, t)
    BY DEF LaneBecomes
  <2>6. Live' = Live
    BY DEF Live
  <2>7. HistoryOk(e, t)' /\ SentOk(e, t)'
    BY <2>2, <2>3, <2>5, <2>6 DEF PairInv, HistoryOk, SentOk, told
  <2> QED
    BY <2>4, <2>7 DEF PairInv, CountsOk, told
<1> QED
  BY <1>1, <1>2, <1>3 DEF IInv

\* A lane that is idle or has only scanned has no pair before it.
LEMMA NothingDue ==
  ASSUME NEW s, s = Idle \/ s.at # "sending"
  PROVE  /\ LaneOk(s) /\ \A e, t : ~Due(s, e, t) /\ ~Sent(s, e, t)
BY DEF Idle, LaneOk, Due, Sent

\* A lane set to a new state holds it, and the others theirs.
LEMMA SetLane ==
  ASSUME Shape, NEW l \in Lanes, NEW s \in LaneStates, LaneOk(s), lane' = [lane EXCEPT ![l] = s]
  PROVE  LaneBecomes(l, s)
BY DEF Shape, LaneBecomes, LaneStates

\* A scan begins, whether it succeeds or fails: nothing is selected yet.
LEMMA ScanStep ==
  ASSUME FewLanes, IInv, NEW l \in Lanes, NEW p \in Projects, StartScan(l, p) \/ FailScan(l, p)
  PROVE  IInv'
<1>1. PICK s \in Scanned : lane' = [lane EXCEPT ![l] = s]
  <2>1. CASE StartScan(l, p)
    <3> DEFINE found == [f \in Findings |-> IF ProjectOf[f] = p THEN world[f] ELSE None]
               s == [at |-> "scanned", project |-> p, found |-> found, failed |-> FALSE]
    <3>1. found \in [Findings -> Maybe]
      BY DEF IInv, Shape, Maybe
    <3> HIDE DEF found
    <3>2. s \in Scanned
      BY <3>1 DEF Scanned
    <3> QED
      BY <2>1, <3>2 DEF StartScan, found
  <2>2. CASE FailScan(l, p)
    <3> DEFINE found == [f \in Findings |-> None]
               s == [at |-> "scanned", project |-> p, found |-> found, failed |-> TRUE]
    <3>1. found \in [Findings -> Maybe]
      BY DEF Maybe
    <3> HIDE DEF found
    <3>2. s \in Scanned
      BY <3>1 DEF Scanned
    <3> QED
      BY <2>2, <3>2 DEF FailScan, found
  <2> QED
    BY <2>1, <2>2
<1>2. s.at # "sending" /\ s \in LaneStates
  BY DEF Scanned, LaneStates
<1>3. LaneBecomes(l, s) /\ \A e, t : ~Due(s, e, t) /\ ~Sent(s, e, t)
  BY <1>1, <1>2, NothingDue, SetLane DEF IInv
<1>4. UNCHANGED <<world, delivery, older, target, writes, told>>
  BY DEF StartScan, FailScan, ledger, portal
<1>5. faults' \in {faults, faults + 1} /\ faults' \in 0..MaxFaults
  BY NotifierAssumption DEF StartScan, FailScan, IInv, Shape
<1> QED
  BY <1>3, <1>4, <1>5, PassGivesUp

\* A pass ends.
LEMMA FinishStep ==
  ASSUME FewLanes, IInv, NEW l \in Lanes, Finish(l)
  PROVE  IInv'
<1>1. lane' = [lane EXCEPT ![l] = Idle] /\ UNCHANGED <<world, delivery, older, target, writes, told, faults>>
  BY DEF Finish, ledger, portal
<1>2. LaneBecomes(l, Idle) /\ \A e, t : ~Due(Idle, e, t) /\ ~Sent(Idle, e, t)
  BY <1>1, NothingDue, SetLane DEF IInv, LaneStates
<1> QED
  BY <1>1, <1>2, PassGivesUp DEF IInv, Shape

\* The pass selects the pairs it will tell: those live, not done, and older than their
\* target only where the history was asked for.
LEMMA NotifyStep ==
  ASSUME FewLanes, IInv, NEW l \in Lanes, NEW dry \in BOOLEAN, Notify(l, dry)
  PROVE  IInv'
<1>1. PICK ev : lane' = [lane EXCEPT ![l] =
                  [at |-> "sending", found |-> lane[l].found,
                   groups |-> [t \in Targets |-> IF dry THEN {} ELSE Dispatchable(ev, lane[l].project, t)],
                   to |-> NoTarget, failures |-> {}, message |-> {}, text |-> {}]]
  BY DEF Notify
<1> DEFINE groups == [t \in Targets |-> IF dry THEN {} ELSE Dispatchable(ev, lane[l].project, t)]
           s == [at |-> "sending", found |-> lane[l].found, groups |-> groups,
                 to |-> NoTarget, failures |-> {}, message |-> {}, text |-> {}]
<1>2. lane[l] \in Scanned
  BY DEF Notify, IInv, Shape, Idle, Sending
<1>3. \A t \in Targets : groups[t] \subseteq Events
  BY DEF Dispatchable
<1>4. \A t \in Targets : \A e \in groups[t] :
         /\ target[t].state = "live" /\ delivery[<<e, t>>] # "done"
         /\ <<e, t>> \notin older \/ delivery[<<e, t>>] = "placeholder"
  BY DEF Dispatchable, Live
<1>5. groups \in [Targets -> SUBSET Events]
  BY <1>3
<1>6. lane' = [lane EXCEPT ![l] = s]
  BY <1>1
<1> HIDE DEF groups
<1>7. s \in Sending /\ LaneOk(s)
  BY <1>2, <1>5 DEF Sending, Scanned, LaneOk
<1>8. \A e \in Events, t \in Targets : ~Sent(s, e, t) /\ ~Sent(lane[l], e, t) /\ ~Due(lane[l], e, t)
        /\ (Due(s, e, t) <=> e \in groups[t])
  BY <1>2 DEF Sent, Due, Scanned
<1> HIDE DEF s
<1>9. LaneBecomes(l, s)
  BY <1>6, <1>7, SetLane DEF IInv, LaneStates
<1>10. UNCHANGED <<world, delivery, older, target, writes, accepted>>
  BY DEF Notify, portal
<1>11. faults' \in {faults, faults + 1} /\ faults' \in 0..MaxFaults
  BY NotifierAssumption DEF Notify, IInv, Shape
<1>15. crowd' \in [Events \X Targets -> Nat]
       /\ \A e \in Events, t \in Targets :
             crowd'[<<e, t>>] >= crowd[<<e, t>>] /\ crowd'[<<e, t>>] >= Cardinality(Passes(e, t))'
  <2>1. crowd' = [x \in Events \X Targets |->
           IF Cardinality(Passes(x[1], x[2])') > crowd[x] THEN Cardinality(Passes(x[1], x[2])') ELSE crowd[x]]
    BY DEF Notify
  <2>2. ASSUME NEW e \in Events, NEW t \in Targets
        PROVE  /\ crowd'[<<e, t>>] \in Nat
               /\ crowd'[<<e, t>>] >= crowd[<<e, t>>] /\ crowd'[<<e, t>>] >= Cardinality(Passes(e, t))'
    <3> DEFINE S == Passes(e, t)'
    <3>1. S \subseteq Lanes
      BY DEF Passes
    <3> HIDE DEF S
    <3>2. Cardinality(S) \in Nat /\ crowd[<<e, t>>] \in Nat
      BY <3>1, FewerPasses, PairType DEF IInv
    <3>3. crowd'[<<e, t>>] = IF Cardinality(S) > crowd[<<e, t>>] THEN Cardinality(S) ELSE crowd[<<e, t>>]
      BY <2>1 DEF S
    <3> QED
      BY <3>2, <3>3 DEF S
  <2>3. \A x \in Events \X Targets : crowd'[x] \in Nat
    BY <2>2
  <2>4. DOMAIN crowd' = Events \X Targets /\ crowd' = [x \in Events \X Targets |-> crowd'[x]]
    BY <2>1
  <2> QED
    BY <2>2, <2>3, <2>4
<1>12. Shape'
  BY <1>9, <1>10, <1>11, <1>15 DEF IInv, Shape, LaneBecomes, LaneStates
<1>13. \A k \in Lanes : LaneOk(lane'[k])
  BY <1>9 DEF IInv, LaneBecomes
<1>14. ASSUME NEW e \in Events, NEW t \in Targets PROVE PairInv(e, t)'
  <2> DEFINE a == accepted[<<e, t>>]
             n == Cardinality(Passes(e, t))
             k == Cardinality(Passes(e, t))'
             b == crowd[<<e, t>>]
             c == crowd'[<<e, t>>]
  <2>1. /\ a \in Nat /\ faults \in Nat /\ PairInv(e, t) /\ b \in Nat
        /\ delivery[<<e, t>>] \in {"none", "placeholder", "tried", "done"}
    BY PairType DEF IInv
  <2>2. n \in Nat
    BY PassesAreFew
  <2>3. k \in Nat /\ k <= c /\ b <= c /\ c \in Nat
    <3>1. Passes(e, t)' \subseteq Lanes
      BY DEF Passes
    <3> DEFINE S == Passes(e, t)'
    <3> HIDE DEF S
    <3>2. Cardinality(S) \in Nat
      BY <3>1, FewerPasses DEF S
    <3> QED
      BY <1>15, <3>2 DEF S
  <2>4. PairOk(target[t].state, delivery[<<e, t>>], a, k, faults', c)
    <3>1. CASE e \notin groups[t]
      <4>1. k <= n
        BY <1>8, <1>9, <3>1, PassMoves
      <4> HIDE DEF a, n, k, b, c
      <4>2. PairOk(target[t].state, delivery[<<e, t>>], a, n, faults, b)
        BY <2>1 DEF PairInv, CountsOk, a, n, b
      <4>3. PairOk(target[t].state, delivery[<<e, t>>], a, k, faults', b)
        <5>1. \A g \in {faults, faults + 1} : PairOk(target[t].state, delivery[<<e, t>>], a, k, g, b)
          BY <2>1, <2>2, <2>3, <4>1, <4>2, PairKept
        <5> QED
          BY <1>11, <5>1
      <4> QED
        BY <1>11, <2>1, <2>3, <4>3, Grown
    <3>2. CASE e \in groups[t]
      <4>1. target[t].state = "live" /\ delivery[<<e, t>>] # "done"
        BY <1>4, <3>2
      <4>2. a <= b * faults
        BY <2>1, <4>1 DEF PairInv, CountsOk, PairOk
      <4> HIDE DEF a, n, k, b, c
      <4>3. /\ c * faults \in Nat /\ c * (1 + faults) = c * faults + c /\ b * faults \in Nat
            /\ c * faults' \in {c * faults, c * faults + c}
            /\ c * (1 + faults') \in {c * faults + c, c * faults + c + c}
            /\ b * faults <= c * faults
        BY <1>11, <2>1, <2>2, <2>3, Bound, Larger
      <4>4. a + k <= c * (1 + faults') /\ a <= c * faults'
        <5>1. CASE faults' = faults
          BY <2>1, <2>2, <2>3, <4>2, <4>3, <5>1
        <5>2. CASE faults' = faults + 1
          BY <2>1, <2>2, <2>3, <4>2, <4>3, <5>2, Bound
        <5> QED
          BY <1>11, <5>1, <5>2
      <4> QED
        BY <4>1, <4>4 DEF PairOk
    <3> QED
      BY <3>1, <3>2
  <2>5. HistoryOk(e, t)'
    <3> SUFFICES ASSUME <<e, t>> \in older, t \in Live, a > 0 \/ \E j \in Lanes : Due(lane'[j], e, t)
                 PROVE  delivery[<<e, t>>] \in {"placeholder", "done"}
      BY <1>10 DEF HistoryOk, Live
    <3>1. CASE a > 0 \/ \E j \in Lanes : Due(lane[j], e, t)
      BY <2>1, <3>1 DEF PairInv, HistoryOk
    <3>2. CASE ~(\E j \in Lanes : Due(lane[j], e, t)) /\ \E j \in Lanes : Due(lane'[j], e, t)
      <4>1. e \in groups[t]
        BY <1>8, <1>9, <3>2 DEF LaneBecomes
      <4> QED
        BY <1>4, <4>1
    <3> QED
      BY <3>1, <3>2
  <2>6. SentOk(e, t)'
    <3>1. (\E j \in Lanes : Sent(lane'[j], e, t)) => \E j \in Lanes : Sent(lane[j], e, t)
      BY <1>8, <1>9 DEF LaneBecomes
    <3> QED
      BY <1>10, <2>1, <3>1 DEF PairInv, SentOk, Live
  <2> QED
    BY <1>10, <2>4, <2>5, <2>6 DEF PairInv, CountsOk
<1> QED
  BY <1>12, <1>13, <1>14 DEF IInv

-----------------------------------------------------------------------------
(* Posting. *)

\* A pass that is sending has a record of that kind.
LEMMA SendingType ==
  ASSUME IInv, NEW l \in Lanes, lane[l].at = "sending"
  PROVE  lane[l] \in Sending /\ LaneOk(lane[l])
BY DEF IInv, Shape, Idle, Scanned

\* The pass turns to a target: it posts to a live one, skips one it has no words for, and
\* ends on one that is gone.
LEMMA PostStep ==
  ASSUME FewLanes, IInv, NEW l \in Lanes, Running(l), NEW t \in Targets, NEW es \in SUBSET Events,
         NEW rest \in SUBSET Projects, NEW groups \in [Targets -> SUBSET Events],
         Post(l, t, es, rest, groups), UNCHANGED <<world, older, target, writes, told, faults>>,
         groups[t] = {}, es \cap rest = {}, es \subseteq Describable(l) \cup Projects,
         \A e \in es \cup rest : Due(lane[l], e, t),
         \A u \in Targets : groups[u] \subseteq lane[l].groups[u]
  PROVE  IInv'
<1> USE DEF told
<1>1. lane[l] \in Sending /\ LaneOk(lane[l]) /\ lane[l].at = "sending" /\ lane[l].message = {}
  BY SendingType DEF Running
<1>2. lane \in [Lanes -> LaneStates] /\ faults \in 0..MaxFaults
  BY DEF IInv, Shape, LaneStates
<1>3. CASE es = {} /\ lane' = [lane EXCEPT ![l].to = t, ![l].failures = rest, ![l].groups = groups]
             /\ UNCHANGED delivery
  <2> DEFINE s == [lane[l] EXCEPT !.to = t, !.failures = rest, !.groups = groups]
  <2>1. /\ s \in Sending /\ s.to = t /\ s.failures = rest /\ s.groups = groups
        /\ s.message = {} /\ s.text = lane[l].text /\ s.at = "sending"
    BY <1>1 DEF Sending
  <2>2. LaneOk(s)
    BY <1>1, <2>1 DEF LaneOk
  <2>3. lane' = [lane EXCEPT ![l] = s]
    BY <1>2, <1>3
  <2>4. ASSUME NEW e \in Events, NEW u \in Targets
        PROVE  (Due(s, e, u) => Due(lane[l], e, u)) /\ ~Sent(s, e, u)
    BY <1>1, <2>1 DEF Due, Sent
  <2> HIDE DEF s
  <2>5. LaneBecomes(l, s)
    BY <2>1, <2>2, <2>3, SetLane DEF IInv, LaneStates
  <2> QED
    BY <1>2, <1>3, <2>4, <2>5, PassGivesUp
<1>4. CASE lane' = [lane EXCEPT ![l] = Idle] /\ UNCHANGED delivery
  <2>1. LaneBecomes(l, Idle) /\ \A e, u : ~Due(Idle, e, u) /\ ~Sent(Idle, e, u)
    BY <1>4, NothingDue, SetLane DEF IInv, LaneStates
  <2> QED
    BY <1>2, <1>4, <2>1, PassGivesUp
<1>5. CASE /\ t \in Live
           /\ delivery' = [x \in Events \X Targets |->
                  IF x \in es \X {t} THEN Attempted(delivery[x]) ELSE delivery[x]]
           /\ lane' = [lane EXCEPT ![l].to = t, ![l].failures = rest, ![l].groups = groups,
                               ![l].message = es, ![l].text = es \cap (Describable(l) \cup Projects)]
  <2> DEFINE s == [lane[l] EXCEPT !.to = t, !.failures = rest, !.groups = groups,
                                  !.message = es, !.text = es \cap (Describable(l) \cup Projects)]
  <2>1. /\ s \in Sending /\ s.to = t /\ s.failures = rest /\ s.groups = groups
        /\ s.message = es /\ s.text = es /\ s.at = "sending"
    BY <1>1 DEF Sending
  <2>2. LaneOk(s)
    BY <2>1 DEF LaneOk
  <2>3. lane' = [lane EXCEPT ![l] = s]
    BY <1>2, <1>5
  <2>4. ASSUME NEW e \in Events, NEW u \in Targets
        PROVE  (Due(s, e, u) => Due(lane[l], e, u)) /\ (Sent(s, e, u) => u = t /\ e \in es)
    BY <1>1, <2>1 DEF Due, Sent
  <2> HIDE DEF s
  <2>5. LaneBecomes(l, s)
    BY <2>1, <2>2, <2>3, SetLane DEF IInv, LaneStates
  <2>6. delivery \in [Events \X Targets -> {"none", "placeholder", "tried", "done"}]
    BY DEF IInv, Shape
  <2>7. Shape'
    <3>1. delivery' \in [Events \X Targets -> {"none", "placeholder", "tried", "done"}]
      BY <1>5, <2>6 DEF Attempted
    <3> QED
      BY <2>5, <3>1 DEF IInv, Shape, LaneBecomes, LaneStates
  <2>8. \A k \in Lanes : LaneOk(lane'[k])
    BY <2>5 DEF IInv, LaneBecomes
  <2>9. ASSUME NEW e \in Events, NEW u \in Targets PROVE PairInv(e, u)'
    <3> DEFINE d == delivery[<<e, u>>]
               k == Cardinality(Passes(e, u))'
               n == Cardinality(Passes(e, u))
    <3>1. /\ k \in Nat /\ n \in Nat /\ k <= n
          /\ accepted[<<e, u>>] \in Nat /\ faults \in Nat /\ crowd[<<e, u>>] \in Nat /\ PairInv(e, u)
          /\ (u \in Live <=> target[u].state = "live")
      BY <2>4, <2>5, PassMoves, PairType DEF IInv
    <3>2. /\ d' = d \/ (d = "none" /\ d' = "tried")
          /\ u = t /\ e \in es => d' # "none"
      BY <1>5, <2>6 DEF Attempted
    <3>3. u = t /\ e \in es => Due(lane[l], e, u)
      OBVIOUS
    <3>4. HistoryOk(e, u)'
      <4>1. (\E j \in Lanes : Due(lane'[j], e, u)) => \E j \in Lanes : Due(lane[j], e, u)
        BY <2>4, <2>5 DEF LaneBecomes
      <4> QED
        BY <3>1, <3>2, <4>1 DEF PairInv, HistoryOk, Live
    <3>5. SentOk(e, u)'
      <4>1. (\E j \in Lanes : Sent(lane'[j], e, u)) => (u = t /\ e \in es) \/ \E j \in Lanes : Sent(lane[j], e, u)
        BY <2>4, <2>5 DEF LaneBecomes
      <4> QED
        BY <3>1, <3>2, <4>1 DEF PairInv, SentOk, Live
    <3> HIDE DEF d, k, n
    <3>6. PairOk(target[u].state, d, accepted[<<e, u>>], k, faults, crowd[<<e, u>>])
      BY <3>1, PairKept DEF PairInv, CountsOk, d, n
    <3>7. PairOk(target[u].state, d', accepted[<<e, u>>], k, faults, crowd[<<e, u>>])
      BY <3>2, <3>6 DEF PairOk
    <3> QED
      BY <3>4, <3>5, <3>7 DEF PairInv, CountsOk, d, k
  <2> QED
    BY <2>7, <2>8, <2>9 DEF IInv
<1> QED
  BY <1>3, <1>4, <1>5 DEF Post

\* The findings of the next target go out, then its scan failures.
LEMMA NextGroupStep ==
  ASSUME FewLanes, IInv, NEW l \in Lanes, NextGroup(l)
  PROVE  IInv'
<1>1. PICK t \in Targets :
        Post(l, t, Matched(l, lane[l].groups[t]), lane[l].groups[t] \cap Projects,
             [lane[l].groups EXCEPT ![t] = {}])
  BY DEF NextGroup
<1> DEFINE es == Matched(l, lane[l].groups[t])
           rest == lane[l].groups[t] \cap Projects
           groups == [lane[l].groups EXCEPT ![t] = {}]
<1>2. Running(l) /\ lane[l].at = "sending" /\ lane[l] \in Sending
  BY SendingType DEF NextGroup, Running
<1>3. lane[l].groups \in [Targets -> SUBSET Events]
  BY <1>2 DEF Sending
<1>4. /\ groups \in [Targets -> SUBSET Events] /\ groups[t] = {}
      /\ \A u \in Targets : groups[u] \subseteq lane[l].groups[u]
  BY <1>3
<1>5. es \in SUBSET Events /\ rest \in SUBSET Projects /\ es \subseteq Describable(l) \cup Projects
  BY <1>3 DEF Matched
<1>6. es \cap rest = {}
  BY NotifierAssumption DEF Matched, Describable
<1>7. \A e \in es \cup rest : Due(lane[l], e, t)
  BY <1>2 DEF Matched, Due
<1>8. UNCHANGED <<world, older, target, writes, told, faults>>
  BY DEF NextGroup, portal
<1>9. Post(l, t, es, rest, groups)
  BY <1>1
<1> HIDE DEF es, rest, groups
<1> QED
  BY <1>2, <1>4, <1>5, <1>6, <1>7, <1>8, <1>9, PostStep

\* A scan failure goes out in a message of its own.
LEMMA NextFailureStep ==
  ASSUME FewLanes, IInv, NEW l \in Lanes, NextFailure(l)
  PROVE  IInv'
<1>1. PICK e \in lane[l].failures : Post(l, lane[l].to, {e}, lane[l].failures \ {e}, lane[l].groups)
  BY DEF NextFailure
<1>2. Running(l) /\ lane[l].at = "sending" /\ lane[l] \in Sending /\ LaneOk(lane[l])
  BY SendingType DEF NextFailure, Running
<1>3. /\ lane[l].groups \in [Targets -> SUBSET Events] /\ lane[l].failures \in SUBSET Projects
      /\ lane[l].to \in Targets /\ lane[l].groups[lane[l].to] = {}
  BY <1>2 DEF Sending, LaneOk
<1>4. {e} \in SUBSET Events /\ {e} \subseteq Describable(l) \cup Projects
      /\ lane[l].failures \ {e} \in SUBSET Projects /\ {e} \cap (lane[l].failures \ {e}) = {}
  BY <1>3 DEF Events
<1>5. \A x \in {e} \cup (lane[l].failures \ {e}) : Due(lane[l], x, lane[l].to)
  BY <1>2 DEF Due
<1>6. UNCHANGED <<world, older, target, writes, told, faults>>
  BY DEF NextFailure, portal
<1> QED
  BY <1>1, <1>2, <1>3, <1>4, <1>5, <1>6, PostStep

-----------------------------------------------------------------------------
(* Answers and losses. *)

\* How many messages about a pair were taken once those of ls are in.
LEMMA TakenBy ==
  ASSUME FewLanes, IInv, NEW ls \in SUBSET {l \in Lanes : Waiting(l)}, NEW e \in Events, NEW t \in Targets
  PROVE  /\ Cardinality({l \in ls : Sent(lane[l], e, t)}) \in Nat
         /\ Taken(ls)[<<e, t>>] = accepted[<<e, t>>] + Cardinality({l \in ls : Sent(lane[l], e, t)})
         /\ Cardinality({l \in ls : Sent(lane[l], e, t)}) <= Cardinality(Passes(e, t))
         /\ (\A l \in Lanes : ~Sent(lane[l], e, t)) => Taken(ls)[<<e, t>>] = accepted[<<e, t>>]
<1>1. \A l \in ls : lane[l].at = "sending" /\ lane[l].text = lane[l].message
  BY DEF Waiting, IInv, LaneOk
<1>2. {l \in ls : <<e, t>> \in lane[l].text \X {lane[l].to}} = {l \in ls : Sent(lane[l], e, t)}
  BY <1>1 DEF Sent
<1>3. Taken(ls)[<<e, t>>] = accepted[<<e, t>>] + Cardinality({l \in ls : Sent(lane[l], e, t)})
  BY <1>2 DEF Taken
<1>4. {l \in ls : Sent(lane[l], e, t)} \subseteq Passes(e, t) /\ Passes(e, t) \subseteq Lanes
  BY DEF Sent, Passes, Due
<1>5. (\A l \in Lanes : ~Sent(lane[l], e, t)) => {l \in ls : Sent(lane[l], e, t)} = {}
  OBVIOUS
<1>6. accepted[<<e, t>>] \in Nat
  BY PairType DEF IInv
<1> QED
  BY <1>3, <1>4, <1>5, <1>6, FewerPasses, FS_EmptySet

\* Taken has the type of accepted.
LEMMA TakenType ==
  ASSUME FewLanes, IInv, NEW ls \in SUBSET {l \in Lanes : Waiting(l)}
  PROVE  Taken(ls) \in [Events \X Targets -> Nat]
<1>1. ASSUME NEW x \in Events \X Targets PROVE Taken(ls)[x] \in Nat
  <2>1. PICK e \in Events, t \in Targets : x = <<e, t>>
    OBVIOUS
  <2>2. Taken(ls)[<<e, t>>] = accepted[<<e, t>>] + Cardinality({l \in ls : Sent(lane[l], e, t)})
        /\ Cardinality({l \in ls : Sent(lane[l], e, t)}) \in Nat
    BY TakenBy
  <2>3. accepted[<<e, t>>] \in Nat
    BY PairType DEF IInv
  <2> QED
    BY <2>1, <2>2, <2>3
<1>2. Taken(ls) = [x \in Events \X Targets |-> Taken(ls)[x]]
  BY DEF Taken
<1> QED
  BY <1>1, <1>2

\* A fault may turn passes into messages taken, never add to their sum.
LEMMA PairFaulted ==
  ASSUME NEW s, NEW d, NEW a \in Nat, NEW n \in Nat, NEW f \in Nat, NEW c \in Nat, PairOk(s, d, a, n, f, c),
         NEW b \in Nat, NEW k \in Nat, a <= b, b + k <= a + n
  PROVE  PairOk(s, d, b, k, f + 1, c)
<1>1. a + n <= c * (1 + f)
  BY DEF PairOk
<1>2. /\ c * f \in Nat /\ c * (1 + f) = c * f + c /\ c * (f + 1) = c * f + c
      /\ c * (1 + (f + 1)) = c * f + c + c
  BY Bound
<1>3. b + k <= c * (1 + (f + 1)) /\ b <= c * (f + 1)
  BY <1>1, <1>2
<1> QED
  BY <1>3 DEF PairOk

\* The message of a pass has been answered, or given up: it is due no more.
LEMMA AnsweredLane ==
  ASSUME IInv, NEW l \in Lanes, Waiting(l), lane' = [lane EXCEPT ![l].message = {}, ![l].text = {}]
  PROVE  \E s : /\ LaneBecomes(l, s)
                /\ \A e \in Events, t \in Targets :
                      /\ Due(s, e, t) => Due(lane[l], e, t)
                      /\ ~Sent(s, e, t)
                      /\ Sent(lane[l], e, t) => Due(lane[l], e, t) /\ ~Due(s, e, t)
<1> DEFINE s == [lane[l] EXCEPT !.message = {}, !.text = {}]
<1>1. lane[l] \in Sending /\ LaneOk(lane[l]) /\ lane[l].at = "sending"
  BY SendingType DEF Waiting
<1>2. /\ s \in Sending /\ s.at = "sending" /\ s.to = lane[l].to /\ s.groups = lane[l].groups
      /\ s.failures = lane[l].failures /\ s.message = {} /\ s.text = {}
  BY <1>1 DEF Sending
<1>3. LaneOk(s)
  BY <1>1, <1>2 DEF LaneOk
<1>4. lane' = [lane EXCEPT ![l] = s]
  BY DEF IInv, Shape
<1>5. ASSUME NEW e \in Events, NEW t \in Targets
      PROVE  /\ Due(s, e, t) => Due(lane[l], e, t)
             /\ ~Sent(s, e, t)
             /\ Sent(lane[l], e, t) => Due(lane[l], e, t) /\ ~Due(s, e, t)
  BY <1>1, <1>2 DEF Due, Sent, LaneOk
<1> HIDE DEF s
<1>6. LaneBecomes(l, s)
  BY <1>2, <1>3, <1>4, SetLane DEF IInv, LaneStates
<1> QED
  BY <1>5, <1>6

\* The answer is recorded for each event of the message that still has a row.
LEMMA SucceedStep ==
  ASSUME FewLanes, IInv, NEW l \in Lanes, Succeed(l)
  PROVE  IInv'
<1>1. Waiting(l) /\ lane' = [lane EXCEPT ![l].message = {}, ![l].text = {}]
      /\ accepted' = Taken({l})
      /\ delivery' = [x \in Events \X Targets |->
           IF x \in lane[l].message \X {lane[l].to} /\ delivery[x] # "none" THEN "done" ELSE delivery[x]]
      /\ UNCHANGED <<world, older, target, writes, crowd, faults>>
  BY DEF Succeed, portal
<1>2. PICK s : /\ LaneBecomes(l, s)
               /\ \A e \in Events, t \in Targets :
                      /\ Due(s, e, t) => Due(lane[l], e, t)
                      /\ ~Sent(s, e, t)
                      /\ Sent(lane[l], e, t) => Due(lane[l], e, t) /\ ~Due(s, e, t)
  BY <1>1, AnsweredLane
<1>3. delivery \in [Events \X Targets -> {"none", "placeholder", "tried", "done"}]
  BY DEF IInv, Shape
<1>4. {l} \in SUBSET {k \in Lanes : Waiting(k)} /\ lane[l].at = "sending"
  BY <1>1 DEF Waiting
<1>5. Shape'
  <2>1. delivery' \in [Events \X Targets -> {"none", "placeholder", "tried", "done"}]
    BY <1>1, <1>3
  <2>2. accepted' \in [Events \X Targets -> Nat]
    BY <1>1, <1>4, TakenType
  <2> QED
    BY <1>1, <1>2, <2>1, <2>2 DEF IInv, Shape, LaneBecomes, LaneStates
<1>6. \A k \in Lanes : LaneOk(lane'[k])
  BY <1>2 DEF IInv, LaneBecomes
<1>7. ASSUME NEW e \in Events, NEW t \in Targets PROVE PairInv(e, t)'
  <2> DEFINE d == delivery[<<e, t>>]
             a == accepted[<<e, t>>]
             k == Cardinality(Passes(e, t))'
             n == Cardinality(Passes(e, t))
             c == crowd[<<e, t>>]
             sent == Sent(lane[l], e, t)
  <2>1. /\ k \in Nat /\ n \in Nat /\ k <= n /\ (sent => k + 1 <= n)
        /\ a \in Nat /\ faults \in Nat /\ c \in Nat /\ PairInv(e, t)
        /\ (t \in Live <=> target[t].state = "live")
    BY <1>2, PassMoves, PairType DEF IInv
  <2>2. d' = IF sent /\ d # "none" THEN "done" ELSE d
    BY <1>1, <1>4 DEF Sent
  <2>3. a' = a + (IF sent THEN 1 ELSE 0)
    <3>1. a' = a + Cardinality({j \in {l} : Sent(lane[j], e, t)})
      BY <1>1, <1>4, TakenBy
    <3>2. CASE sent
      <4>1. {j \in {l} : Sent(lane[j], e, t)} = {l}
        BY <3>2
      <4> QED
        BY <3>1, <3>2, <4>1, FS_Singleton
    <3>3. CASE ~sent
      <4>1. {j \in {l} : Sent(lane[j], e, t)} = {}
        BY <3>3
      <4> QED
        BY <3>1, <3>3, <4>1, FS_EmptySet
    <3> QED
      BY <3>2, <3>3
  <2>4. (\E j \in Lanes : Due(lane'[j], e, t)) => \E j \in Lanes : Due(lane[j], e, t)
    BY <1>2 DEF LaneBecomes
  <2>5. sent => \E j \in Lanes : Due(lane[j], e, t) /\ Sent(lane[j], e, t)
    BY <1>2
  <2>6. (\E j \in Lanes : Sent(lane'[j], e, t)) => \E j \in Lanes : Sent(lane[j], e, t)
    BY <1>2 DEF LaneBecomes
  <2>7. HistoryOk(e, t)' /\ SentOk(e, t)'
    <3>1. HistoryOk(e, t) /\ SentOk(e, t)
      BY <2>1 DEF PairInv
    <3>2. HistoryOk(e, t)'
      <4> SUFFICES ASSUME <<e, t>> \in older, t \in Live, a' > 0 \/ \E j \in Lanes : Due(lane'[j], e, t)
                   PROVE  d' \in {"placeholder", "done"}
        BY <1>1 DEF HistoryOk, Live
      <4>1. a > 0 \/ \E j \in Lanes : Due(lane[j], e, t)
        BY <2>1, <2>3, <2>4, <2>5
      <4>2. d \in {"placeholder", "done"}
        BY <3>1, <4>1 DEF HistoryOk
      <4> QED
        BY <2>2, <4>2
    <3>3. SentOk(e, t)'
      BY <1>1, <2>2, <2>6, <3>1 DEF SentOk, Live
    <3> QED
      BY <3>2, <3>3
  <2>8. sent /\ target[t].state = "live" => d # "none"
    BY <2>1, <2>5 DEF PairInv, SentOk
  <2> HIDE DEF d, a, k, n, c, sent
  <2>9. PairOk(target[t].state, d, a, n, faults, c)
    BY <2>1 DEF PairInv, CountsOk, d, a, n, c
  <2>10. PairOk(target[t].state, d', a', k, faults, c)
    <3>1. CASE sent
      <4>1. a' + k <= a + n /\ a' > 0
        BY <2>1, <2>3, <3>1
      <4>2. a + n <= c * (1 + faults) /\ c * (1 + faults) \in Nat
        BY <2>1, <2>9, Bound DEF PairOk
      <4>3. a' + k <= c * (1 + faults)
        BY <2>1, <2>3, <4>1, <4>2
      <4>4. target[t].state # "none"
        BY <2>1, <2>9, <3>1 DEF PairOk
      <4>5. target[t].state = "live" => d' = "done"
        BY <2>2, <2>8, <3>1
      <4> QED
        BY <4>1, <4>3, <4>4, <4>5 DEF PairOk
    <3>2. CASE ~sent
      <4>1. d' = d /\ a' = a
        BY <2>1, <2>2, <2>3, <3>2
      <4> QED
        BY <2>1, <2>9, <4>1, PairKept
    <3> QED
      BY <3>1, <3>2
  <2>11. CountsOk(e, t)'
    BY <1>1, <2>10 DEF CountsOk, d, a, k, c
  <2> QED
    BY <2>7, <2>11 DEF PairInv
<1> QED
  BY <1>5, <1>6, <1>7 DEF IInv

\* One pass, or all of them, end with a fault; messages on their way may have arrived.
LEMMA LossStep ==
  ASSUME FewLanes, IInv, NEW ls \in SUBSET {l \in Lanes : Waiting(l)}, accepted' = Taken(ls),
         UNCHANGED <<world, delivery, older, target, writes, crowd>>, faults' = faults + 1, faults < MaxFaults,
         lane' \in [Lanes -> LaneStates], \A k \in Lanes : LaneOk(lane'[k]),
         \A k \in Lanes, e \in Events, t \in Targets :
            /\ Due(lane'[k], e, t) => Due(lane[k], e, t)
            /\ Sent(lane'[k], e, t) => Sent(lane[k], e, t)
            /\ k \in ls /\ Sent(lane[k], e, t) => ~Due(lane'[k], e, t)
  PROVE  IInv'
<1>1. Shape'
  <2>1. accepted' \in [Events \X Targets -> Nat]
    BY TakenType
  <2>2. faults' \in 0..MaxFaults
    BY NotifierAssumption DEF IInv, Shape
  <2> QED
    BY <2>1, <2>2 DEF IInv, Shape, LaneStates
<1>2. ASSUME NEW e \in Events, NEW t \in Targets PROVE PairInv(e, t)'
  <2> DEFINE sent == {l \in ls : Sent(lane[l], e, t)}
             left == Passes(e, t)'
             all == Passes(e, t)
             a == accepted[<<e, t>>]
  <2>1. /\ a \in Nat /\ faults \in Nat /\ crowd[<<e, t>>] \in Nat /\ PairInv(e, t)
        /\ Cardinality(sent) \in Nat /\ accepted'[<<e, t>>] = a + Cardinality(sent)
        /\ (\A l \in Lanes : ~Sent(lane[l], e, t)) => accepted'[<<e, t>>] = a
    BY PairType, TakenBy DEF IInv
  <2>2. sent \subseteq all /\ left \subseteq all /\ sent \cap left = {} /\ all \subseteq Lanes
    BY DEF Passes, Sent, Due
  <2>3. \A l \in Lanes : Sent(lane[l], e, t) => Due(lane[l], e, t)
    BY DEF Sent, Due
  <2> HIDE DEF sent, left, all
  <2>4. Cardinality(sent) + Cardinality(left) <= Cardinality(all)
        /\ Cardinality(left) \in Nat /\ Cardinality(all) \in Nat
    <3>1. sent \cup left \subseteq all
      BY <2>2
    <3>2. IsFiniteSet(sent) /\ IsFiniteSet(left) /\ IsFiniteSet(all)
      <4>1. IsFiniteSet(all)
        BY <2>2, FS_Subset DEF FewLanes
      <4> QED
        BY <2>2, <4>1, FS_Subset
    <3>3. Cardinality(sent \cup left) = Cardinality(sent) + Cardinality(left) - Cardinality(sent \cap left)
      BY <3>2, FS_Union
    <3>4. Cardinality(sent \cap left) = 0
      BY <2>2, FS_EmptySet
    <3>5. Cardinality(sent \cup left) <= Cardinality(all)
      BY <3>1, <3>2, FS_Subset
    <3> QED
      BY <3>2, <3>3, <3>4, <3>5, FS_CardinalityType
  <2>5. PairOk(target[t].state, delivery[<<e, t>>], accepted'[<<e, t>>], Cardinality(left), faults', crowd[<<e, t>>])
    <3>1. PairOk(target[t].state, delivery[<<e, t>>], a, Cardinality(all), faults, crowd[<<e, t>>])
      BY <2>1 DEF PairInv, CountsOk, all
    <3> HIDE DEF a
    <3>2. accepted'[<<e, t>>] \in Nat /\ a <= accepted'[<<e, t>>]
          /\ accepted'[<<e, t>>] + Cardinality(left) <= a + Cardinality(all)
      BY <2>1, <2>4
    <3> QED
      BY <2>1, <2>4, <3>1, <3>2, PairFaulted
  <2>6. HistoryOk(e, t)' /\ SentOk(e, t)'
    <3>1. HistoryOk(e, t) /\ SentOk(e, t) /\ Live' = Live
      BY <2>1 DEF PairInv, Live
    <3>2. HistoryOk(e, t)'
      BY <2>1, <2>3, <3>1 DEF HistoryOk
    <3>3. SentOk(e, t)'
      BY <3>1 DEF SentOk
    <3> QED
      BY <3>2, <3>3
  <2> QED
    BY <2>5, <2>6 DEF PairInv, CountsOk, left
<1> QED
  BY <1>1, <1>2 DEF IInv

\* A post fails; the channel may have taken the message all the same.
LEMMA FailStep ==
  ASSUME FewLanes, IInv, NEW l \in Lanes, Fail(l)
  PROVE  IInv'
<1>1. /\ Waiting(l) /\ lane' = [lane EXCEPT ![l].message = {}, ![l].text = {}]
      /\ faults < MaxFaults /\ faults' = faults + 1
      /\ UNCHANGED <<world, delivery, older, target, writes, crowd>>
  BY DEF Fail, ledger, portal
<1>2. PICK ls \in SUBSET {l} : accepted' = Taken(ls)
  BY DEF Fail
<1>3. PICK s : /\ LaneBecomes(l, s)
               /\ \A e \in Events, t \in Targets :
                      /\ Due(s, e, t) => Due(lane[l], e, t)
                      /\ ~Sent(s, e, t)
                      /\ Sent(lane[l], e, t) => Due(lane[l], e, t) /\ ~Due(s, e, t)
  BY <1>1, AnsweredLane
<1>4. ls \in SUBSET {k \in Lanes : Waiting(k)}
  BY <1>1
<1>5. lane' \in [Lanes -> LaneStates] /\ \A k \in Lanes : LaneOk(lane'[k])
  BY <1>3 DEF IInv, LaneBecomes
<1>6. \A k \in Lanes, e \in Events, t \in Targets :
            /\ Due(lane'[k], e, t) => Due(lane[k], e, t)
            /\ Sent(lane'[k], e, t) => Sent(lane[k], e, t)
            /\ k \in ls /\ Sent(lane[k], e, t) => ~Due(lane'[k], e, t)
  BY <1>3 DEF LaneBecomes
<1> QED
  BY <1>1, <1>2, <1>4, <1>5, <1>6, LossStep

\* The worker dies with every pass.
LEMMA CrashStep ==
  ASSUME FewLanes, IInv, Crash
  PROVE  IInv'
<1>1. /\ faults < MaxFaults /\ faults' = faults + 1
      /\ lane' = [l \in Lanes |-> Idle]
      /\ UNCHANGED <<world, delivery, older, target, writes, crowd>>
  BY DEF Crash, ledger, portal
<1>2. PICK ls \in SUBSET {l \in Lanes : Waiting(l)} : accepted' = Taken(ls)
  BY DEF Crash
<1>3. /\ lane' \in [Lanes -> LaneStates]
      /\ \A k \in Lanes : LaneOk(lane'[k])
      /\ \A k \in Lanes, e \in Events, t \in Targets : ~Due(lane'[k], e, t) /\ ~Sent(lane'[k], e, t)
  BY <1>1, NothingDue DEF LaneStates
<1> QED
  BY <1>1, <1>2, <1>3, LossStep

-----------------------------------------------------------------------------
(* The portal. *)

\* An edit of the portal leaves the passes alone.  A pair of it may stay as it is, see
\* its target created or deleted, or be given a row by a backfill.
LEMMA PortalStep ==
  ASSUME FewLanes, IInv, Shape', UNCHANGED <<lane, told, faults>>,
         \A e \in Events, t \in Targets :
            \/ /\ target'[t].state = target[t].state
               /\ delivery'[<<e, t>>] = delivery[<<e, t>>]
               /\ <<e, t>> \in older' => <<e, t>> \in older
            \/ target[t].state = "none" /\ delivery'[<<e, t>>] = delivery[<<e, t>>]
            \/ target[t].state = "live" /\ target'[t].state = "gone" /\ delivery'[<<e, t>>] = "none"
            \/ /\ target'[t].state = target[t].state
               /\ delivery[<<e, t>>] = "none" /\ delivery'[<<e, t>>] = "placeholder"
               /\ <<e, t>> \in older' => <<e, t>> \in older
  PROVE  IInv'
<1>1. \A k \in Lanes : LaneOk(lane'[k])
  BY DEF IInv
<1>2. ASSUME NEW e \in Events, NEW t \in Targets PROVE PairInv(e, t)'
  <2> DEFINE a == accepted[<<e, t>>]
             n == Cardinality(Passes(e, t))
             d == delivery[<<e, t>>]
             c == crowd[<<e, t>>]
  <2> USE DEF told
  <2>1. /\ a \in Nat /\ faults \in Nat /\ c \in Nat /\ PairInv(e, t)
        /\ (t \in Live <=> target[t].state = "live")
    BY PairType DEF IInv
  <2>2. t \in Live' <=> target'[t].state = "live"
    BY DEF Live
  <2>3. Passes(e, t)' = Passes(e, t)
    BY DEF Passes
  <2>4. \A l \in Lanes : (Sent(lane[l], e, t) => Due(lane[l], e, t)) /\ (Due(lane[l], e, t) => l \in Passes(e, t))
    BY DEF Sent, Due, Passes
  <2>5. PairOk(target[t].state, d, a, n, faults, c)
    BY <2>1 DEF PairInv, CountsOk
  <2>6. CASE target'[t].state = target[t].state /\ (<<e, t>> \in older' => <<e, t>> \in older)
             /\ (d' = d \/ (d = "none" /\ d' = "placeholder"))
    <3>1. PairOk(target'[t].state, d', a, n, faults, c)
      BY <2>5, <2>6 DEF PairOk
    <3>2. CountsOk(e, t)'
      BY <2>3, <3>1 DEF CountsOk
    <3>3. HistoryOk(e, t)' /\ SentOk(e, t)'
      BY <2>1, <2>2, <2>6 DEF PairInv, HistoryOk, SentOk
    <3> QED
      BY <3>2, <3>3 DEF PairInv
  <2>7. CASE target[t].state = "none" /\ d' = d
    <3>1. a = 0 /\ n = 0 /\ d # "done"
      BY <2>1, <2>5, <2>7 DEF PairOk
    <3>2. \A l \in Lanes : ~Due(lane[l], e, t) /\ ~Sent(lane[l], e, t)
      <4>1. Passes(e, t) = {}
        BY <3>1, PassesAreFew, FS_EmptySet
      <4> QED
        BY <2>4, <4>1
    <3>3. HistoryOk(e, t)' /\ SentOk(e, t)'
      BY <3>1, <3>2 DEF HistoryOk, SentOk
    <3>4. 0 <= c * faults /\ 0 <= c * (1 + faults)
      BY <2>1, Bound
    <3> HIDE DEF a, d, n, c
    <3>5. PairOk(target'[t].state, d', a, n, faults, c)
      BY <2>7, <3>1, <3>4 DEF PairOk
    <3>6. CountsOk(e, t)'
      BY <2>3, <3>5 DEF CountsOk, a, d, n, c
    <3> QED
      BY <3>3, <3>6 DEF PairInv
  <2>8. CASE target[t].state = "live" /\ target'[t].state = "gone" /\ d' = "none"
    <3>1. PairOk(target'[t].state, d', a, n, faults, c)
      BY <2>5, <2>8 DEF PairOk
    <3>2. CountsOk(e, t)'
      BY <2>3, <3>1 DEF CountsOk
    <3>3. HistoryOk(e, t)' /\ SentOk(e, t)'
      BY <2>2, <2>8 DEF HistoryOk, SentOk
    <3> QED
      BY <3>2, <3>3 DEF PairInv
  <2> QED
    BY <2>6, <2>7, <2>8
<1> QED
  BY <1>1, <1>2 DEF IInv

\* A target's row and its scopes keep their types when they are written.
LEMMA TargetTypes ==
  ASSUME Shape
  PROVE  /\ NoScope \in ScopeRows /\ Scopes \subseteq ScopeRows
         /\ \A t \in Targets : /\ target[t] \in TargetRows /\ target[t].state \in {"none", "live", "gone"}
                               /\ target[t].enabled \in BOOLEAN
                               /\ target[t].scope \in ScopeRows
                               /\ writes[t].left \subseteq {"roots", "projects"}
                               /\ writes[t].scope \in ScopeRows
                               /\ (t \in Live <=> target[t].state = "live")
<1>1. NoScope \in ScopeRows
  BY DEF NoScope, ScopeRows
<1>2. Scopes \subseteq ScopeRows
  BY NotifierAssumption DEF ScopeRows
<1> QED
  BY <1>1, <1>2 DEF Shape, TargetRows, Live

\* A target is created: nothing was told to it, and nothing is on its way.
LEMMA CreateTargetStep ==
  ASSUME FewLanes, IInv, NEW t \in Targets, NEW on \in BOOLEAN, NEW filter \in Filters, NEW s \in Scopes,
         CreateTarget(t, on, filter, s)
  PROVE  IInv'
<1> DEFINE row == [state |-> "live", enabled |-> on, filter |-> filter, scope |-> NoScope]
           job == [left |-> {"roots", "projects"}, scope |-> s]
<1>1. /\ target[t].state = "none" /\ target' = [target EXCEPT ![t] = row]
      /\ older' = older \cup {<<e, t>> : e \in {x \in Events : event[x] # None}}
      /\ writes' = [writes EXCEPT ![t] = job]
      /\ UNCHANGED <<world, delivery, lane, told, faults>>
  BY DEF CreateTarget, lanes
<1>2. Shape /\ row \in TargetRows /\ job \in [left : SUBSET {"roots", "projects"}, scope : ScopeRows]
  BY TargetTypes, NotifierAssumption DEF IInv, TargetRows
<1> HIDE DEF row, job
<1>3. Shape'
  BY <1>1, <1>2 DEF Shape, told
<1>4. ASSUME NEW e \in Events, NEW u \in Targets
      PROVE  \/ /\ target'[u].state = target[u].state
                /\ delivery'[<<e, u>>] = delivery[<<e, u>>]
                /\ <<e, u>> \in older' => <<e, u>> \in older
             \/ target[u].state = "none" /\ delivery'[<<e, u>>] = delivery[<<e, u>>]
  BY <1>1, <1>2 DEF Shape
<1> QED
  BY <1>1, <1>3, <1>4, PortalStep

\* An edit, a scope write or a toggle leaves each pair as it is.
LEMMA EditTargetStep ==
  ASSUME FewLanes, IInv, NEW t \in Targets,
         \/ \E on \in BOOLEAN, filter \in Filters, s \in Scopes : UpdateTarget(t, on, filter, s)
         \/ WriteScope(t) \/ ToggleTarget(t)
  PROVE  IInv'
<1>1. UNCHANGED <<world, delivery, older, lane, told, faults>>
  BY DEF UpdateTarget, WriteScope, ToggleTarget, ledger, lanes
<1>2. Shape
  BY DEF IInv
<1>3. PICK row \in TargetRows : target' = [target EXCEPT ![t] = row] /\ row.state = target[t].state
  <2>1. target \in [Targets -> TargetRows] /\ target[t] \in TargetRows
    BY <1>2 DEF Shape
  <2>2. ASSUME NEW on \in BOOLEAN, NEW filter \in Filters, NEW s \in Scopes, UpdateTarget(t, on, filter, s)
        PROVE  \E row \in TargetRows : target' = [target EXCEPT ![t] = row] /\ row.state = target[t].state
    <3> DEFINE row == [target[t] EXCEPT !.enabled = on, !.filter = filter]
    <3>1. row \in TargetRows /\ row.state = target[t].state
      BY <2>1, NotifierAssumption DEF TargetRows
    <3>2. target' = [target EXCEPT ![t] = row]
      BY <2>1, <2>2 DEF UpdateTarget
    <3> QED
      BY <3>1, <3>2
  <2>3. ASSUME ToggleTarget(t)
        PROVE  \E row \in TargetRows : target' = [target EXCEPT ![t] = row] /\ row.state = target[t].state
    <3> DEFINE row == [target[t] EXCEPT !.enabled = ~@]
    <3>1. row \in TargetRows /\ row.state = target[t].state
      BY <2>1 DEF TargetRows
    <3>2. target' = [target EXCEPT ![t] = row]
      BY <2>1, <2>3 DEF ToggleTarget
    <3> QED
      BY <3>1, <3>2
  <2>4. ASSUME WriteScope(t)
        PROVE  \E row \in TargetRows : target' = [target EXCEPT ![t] = row] /\ row.state = target[t].state
    <3>1. PICK part \in {"roots", "projects"} :
            target' = [target EXCEPT ![t].scope[part] = writes[t].scope[part]]
      BY <2>4 DEF WriteScope
    <3> DEFINE scope == [target[t].scope EXCEPT ![part] = writes[t].scope[part]]
               row == [target[t] EXCEPT !.scope = scope]
    <3>2. target[t].scope \in ScopeRows /\ writes[t].scope \in ScopeRows
      BY <1>2, TargetTypes
    <3>3. scope \in ScopeRows
      BY <3>2 DEF ScopeRows
    <3>4. target' = [target EXCEPT ![t] = row]
      BY <2>1, <3>1
    <3> HIDE DEF scope
    <3>5. row \in TargetRows /\ row.state = target[t].state
      BY <2>1, <3>3 DEF TargetRows
    <3> QED
      BY <3>4, <3>5
  <2> QED
    BY <2>2, <2>3, <2>4
<1>4. writes' \in [Targets -> [left : SUBSET {"roots", "projects"}, scope : ScopeRows]]
  <2>1. writes \in [Targets -> [left : SUBSET {"roots", "projects"}, scope : ScopeRows]]
    BY <1>2 DEF Shape
  <2>2. ASSUME NEW on \in BOOLEAN, NEW filter \in Filters, NEW s \in Scopes, UpdateTarget(t, on, filter, s)
        PROVE  writes' \in [Targets -> [left : SUBSET {"roots", "projects"}, scope : ScopeRows]]
    <3>1. [left |-> {"roots", "projects"}, scope |-> s] \in [left : SUBSET {"roots", "projects"}, scope : ScopeRows]
      BY <1>2, TargetTypes
    <3> QED
      BY <2>1, <2>2, <3>1 DEF UpdateTarget
  <2>3. ASSUME WriteScope(t)
        PROVE  writes' \in [Targets -> [left : SUBSET {"roots", "projects"}, scope : ScopeRows]]
    <3>1. PICK part \in {"roots", "projects"} : writes' = [writes EXCEPT ![t].left = @ \ {part}]
      BY <2>3 DEF WriteScope
    <3> QED
      BY <2>1, <3>1
  <2> QED
    BY <2>1, <2>2, <2>3 DEF ToggleTarget
<1>5. Shape'
  BY <1>1, <1>2, <1>3, <1>4 DEF Shape, told
<1>6. ASSUME NEW e \in Events, NEW u \in Targets
      PROVE  /\ target'[u].state = target[u].state
             /\ delivery'[<<e, u>>] = delivery[<<e, u>>]
             /\ <<e, u>> \in older' => <<e, u>> \in older
  BY <1>1, <1>2, <1>3 DEF Shape
<1> QED
  BY <1>1, <1>5, <1>6, PortalStep

\* A target is deleted, and its rows lose their link to it.
LEMMA DeleteTargetStep ==
  ASSUME FewLanes, IInv, NEW t \in Targets, DeleteTarget(t)
  PROVE  IInv'
<1>1. /\ target' = [target EXCEPT ![t].state = "gone", ![t].scope = NoScope]
      /\ writes' = [writes EXCEPT ![t].left = {}]
      /\ delivery' = [x \in Events \X Targets |-> IF x[2] = t THEN "none" ELSE delivery[x]]
      /\ UNCHANGED <<world, older, lane, told, faults>>
  BY DEF DeleteTarget, lanes
<1>2. Shape /\ target[t].state = "live" /\ NoScope \in ScopeRows
  BY TargetTypes DEF IInv, DeleteTarget
<1> DEFINE row == [target[t] EXCEPT !.state = "gone", !.scope = NoScope]
<1>3. row \in TargetRows /\ row.state = "gone"
  BY <1>2 DEF Shape, TargetRows
<1>4. target' = [target EXCEPT ![t] = row]
  BY <1>1, <1>2 DEF Shape
<1> HIDE DEF row
<1>5. writes' \in [Targets -> [left : SUBSET {"roots", "projects"}, scope : ScopeRows]]
  BY <1>1, <1>2 DEF Shape
<1>6. Shape'
  <2>1. delivery' \in [Events \X Targets -> {"none", "placeholder", "tried", "done"}]
    BY <1>1, <1>2 DEF Shape
  <2>2. target' \in [Targets -> TargetRows]
    BY <1>2, <1>3, <1>4 DEF Shape
  <2> QED
    BY <1>1, <1>2, <1>5, <2>1, <2>2 DEF Shape, told
<1>7. ASSUME NEW e \in Events, NEW u \in Targets
      PROVE  \/ /\ target'[u].state = target[u].state
                /\ delivery'[<<e, u>>] = delivery[<<e, u>>]
                /\ <<e, u>> \in older' => <<e, u>> \in older
             \/ target[u].state = "live" /\ target'[u].state = "gone" /\ delivery'[<<e, u>>] = "none"
  BY <1>1, <1>2, <1>3, <1>4 DEF Shape
<1> QED
  BY <1>1, <1>6, <1>7, PortalStep

\* The history is asked for: placeholders where there was no row.
LEMMA BackfillStep ==
  ASSUME FewLanes, IInv, NEW t \in Targets, Backfill(t)
  PROVE  IInv'
<1>1. /\ \A x \in Events \X Targets :
            delivery'[x] = delivery[x] \/ (delivery[x] = "none" /\ delivery'[x] = "placeholder")
      /\ delivery' = [x \in Events \X Targets |-> delivery'[x]]
      /\ UNCHANGED <<world, older, target, writes, lane, told, faults>>
  BY DEF Backfill, lanes, portal
<1>2. Shape'
  <2>1. delivery' \in [Events \X Targets -> {"none", "placeholder", "tried", "done"}]
    BY <1>1 DEF IInv, Shape
  <2> QED
    BY <1>1, <2>1 DEF IInv, Shape, told
<1> QED
  BY <1>1, <1>2, PortalStep

\* Mutes, findings and the end of the baseline touch no pair.
LEMMA OutsideStep ==
  ASSUME FewLanes, IInv,
         \/ \E x \in Events : ChangeMute(x)
         \/ \E f \in Findings, g \in Grades \cup {None} : ChangeFinding(f, g)
         \/ EndBaseline \/ UNCHANGED vars
  PROVE  IInv'
<1>1. UNCHANGED <<delivery, older, target, writes, lane, told, faults>>
  BY DEF ChangeMute, ChangeFinding, EndBaseline, vars, ledger, portal, lanes
<1>2. world' \in [Findings -> Maybe]
  BY DEF ChangeMute, ChangeFinding, EndBaseline, vars, IInv, Shape, Maybe
<1>3. Shape'
  BY <1>1, <1>2 DEF IInv, Shape, told
<1> QED
  BY <1>1, <1>3, PortalStep

-----------------------------------------------------------------------------

\* Nothing was told yet, and nothing is under way.
LEMMA InitIInv ==
  ASSUME FewLanes, Init
  PROVE  IInv
<1>1. Shape
  <2>1. world \in [Findings -> Maybe] /\ older = {} /\ faults \in 0..MaxFaults
    BY NotifierAssumption DEF Init, Maybe
  <2>2. delivery \in [Events \X Targets -> {"none", "placeholder", "tried", "done"}]
        /\ accepted \in [Events \X Targets -> Nat] /\ crowd \in [Events \X Targets -> Nat]
    BY DEF Init
  <2>3. target \in [Targets -> TargetRows]
    <3> DEFINE Made(old, filter, s) == [t \in Targets |->
            IF t \in old
            THEN [state |-> "live", enabled |-> TRUE, filter |-> filter, scope |-> s]
            ELSE [state |-> "none", enabled |-> FALSE, filter |-> {}, scope |-> NoScope]]
               Wants(old, s) == asked = [t \in Targets |-> IF t \in old THEN Covered(s) ELSE {}]
    <3>1. PICK old \in SUBSET Targets, filter \in Filters, s \in Scopes : target = Made(old, filter, s)
      <4>1. \E old \in SUBSET Targets, filter \in Filters, s \in Scopes :
              target = Made(old, filter, s) /\ Wants(old, s)
        BY DEF Init
      <4> HIDE DEF Made, Wants
      <4> QED
        BY <4>1
    <3>2. filter \subseteq Grades /\ s \in ScopeRows /\ NoScope \in ScopeRows
      BY NotifierAssumption DEF NoScope, ScopeRows
    <3>3. [state |-> "live", enabled |-> TRUE, filter |-> filter, scope |-> s] \in TargetRows
      BY <3>2 DEF TargetRows
    <3>4. [state |-> "none", enabled |-> FALSE, filter |-> {}, scope |-> NoScope] \in TargetRows
      BY <3>2 DEF TargetRows
    <3> QED
      BY <3>1, <3>3, <3>4
  <2>4. writes \in [Targets -> [left : SUBSET {"roots", "projects"}, scope : ScopeRows]]
    BY DEF Init, NoScope, ScopeRows
  <2>5. lane \in [Lanes -> {Idle} \cup Scanned \cup Sending]
    BY DEF Init
  <2> QED
    BY <2>1, <2>2, <2>3, <2>4, <2>5 DEF Shape
<1>2. \A l \in Lanes : lane[l] = Idle
  BY DEF Init
<1>3. \A l \in Lanes : LaneOk(lane[l]) /\ \A e, t : ~Due(lane[l], e, t) /\ ~Sent(lane[l], e, t)
  BY <1>2, NothingDue
<1>4. ASSUME NEW e \in Events, NEW t \in Targets PROVE PairInv(e, t)
  <2>1. delivery[<<e, t>>] = "none" /\ accepted[<<e, t>>] = 0 /\ faults = 0 /\ crowd[<<e, t>>] = 0
    BY DEF Init
  <2>2. Cardinality(Passes(e, t)) = 0
    <3>1. Passes(e, t) = {}
      BY <1>3 DEF Passes
    <3> QED
      BY <3>1, FS_EmptySet
  <2>3. CountsOk(e, t)
    BY <2>1, <2>2 DEF CountsOk, PairOk
  <2> QED
    BY <1>3, <2>1, <2>3 DEF PairInv, HistoryOk, SentOk
<1> QED
  BY <1>1, <1>3, <1>4 DEF IInv

\* Every step of a pass, of the process and of the portal keeps the invariant.
LEMMA NextIInv ==
  ASSUME FewLanes, IInv, [Next]_vars
  PROVE  IInv'
<1>1. ASSUME NEW l \in Lanes, NEW p \in Projects, StartScan(l, p) \/ FailScan(l, p) PROVE IInv'
  BY <1>1, ScanStep
<1>2. ASSUME NEW l \in Lanes, Step(l) PROVE IInv'
  BY <1>2, NotifyStep, NextGroupStep, NextFailureStep, FinishStep, SucceedStep, FailStep DEF Step
<1>3. CASE Crash
  BY <1>3, CrashStep
<1>4. ASSUME NEW t \in Targets, NEW on \in BOOLEAN, NEW filter \in Filters, NEW s \in Scopes,
             CreateTarget(t, on, filter, s) \/ UpdateTarget(t, on, filter, s)
      PROVE  IInv'
  BY <1>4, CreateTargetStep, EditTargetStep
<1>5. ASSUME NEW t \in Targets, WriteScope(t) \/ ToggleTarget(t) \/ DeleteTarget(t) \/ Backfill(t) PROVE IInv'
  BY <1>5, EditTargetStep, DeleteTargetStep, BackfillStep
<1>6. CASE \/ \E x \in Events : ChangeMute(x)
           \/ \E f \in Findings, g \in Grades \cup {None} : ChangeFinding(f, g)
           \/ EndBaseline \/ UNCHANGED vars
  BY <1>6, OutsideStep
<1> QED
  BY <1>1, <1>2, <1>3, <1>4, <1>5, <1>6 DEF Next

-----------------------------------------------------------------------------

\* The delivery ledger never says a target was told of an event no accepted message
\* described (notifyForCompletedScan), with any number of scans, targets and crashes.
THEOREM DoneIsTold == FewLanes => (Spec => []OnlyToldIsDone)
<1> SUFFICES ASSUME FewLanes
             PROVE  Spec => []OnlyToldIsDone
  OBVIOUS
<1>1. Init => IInv
  BY InitIInv
<1>2. IInv /\ [Next]_vars => IInv'
  BY NextIInv
<1>3. IInv => OnlyToldIsDone
  <2> SUFFICES ASSUME IInv, NEW e \in Events, NEW t \in Targets, delivery[<<e, t>>] = "done"
               PROVE  accepted[<<e, t>>] > 0
    BY DEF OnlyToldIsDone
  <2> QED
    BY DEF IInv, PairInv, CountsOk, PairOk
<1> QED
  BY <1>1, <1>2, <1>3, PTL DEF Spec

\* A target gets one event once from each of the passes that held the two at one time, and
\* each fault costs at most one message more of each of them (recordAttempt, recordSuccess):
\* where no two scans overlapped, one message and one more per fault.
THEOREM DuplicatesAreFew == FewLanes => (Spec => []FewDuplicates)
<1> SUFFICES ASSUME FewLanes
             PROVE  Spec => []FewDuplicates
  OBVIOUS
<1>1. Init => IInv
  BY InitIInv
<1>2. IInv /\ [Next]_vars => IInv'
  BY NextIInv
<1>3. IInv => FewDuplicates
  <2> SUFFICES ASSUME IInv, NEW e \in Events, NEW t \in Targets
               PROVE  accepted[<<e, t>>] <= crowd[<<e, t>>] * (1 + faults)
    BY DEF FewDuplicates
  <2>1. accepted[<<e, t>>] \in Nat /\ faults \in Nat /\ crowd[<<e, t>>] \in Nat
        /\ Cardinality(Passes(e, t)) \in Nat
    BY PairType, PassesAreFew DEF IInv
  <2>2. accepted[<<e, t>>] + Cardinality(Passes(e, t)) <= crowd[<<e, t>>] * (1 + faults)
    BY DEF IInv, PairInv, CountsOk, PairOk
  <2>3. crowd[<<e, t>>] * (1 + faults) \in Nat
    BY <2>1, Bound
  <2> QED
    BY <2>1, <2>2, <2>3
<1> QED
  BY <1>1, <1>2, <1>3, PTL DEF Spec

\* A target is told of events older than itself only where the operator sent it the
\* history, however often an attempt fails (selectDispatchablePairs,
\* backfillForNewTarget).
THEOREM HistoryIsAskedFor == FewLanes => (Spec => []NoBackflood)
<1> SUFFICES ASSUME FewLanes
             PROVE  Spec => []NoBackflood
  OBVIOUS
<1>1. Init => IInv
  BY InitIInv
<1>2. IInv /\ [Next]_vars => IInv'
  BY NextIInv
<1>3. IInv => NoBackflood
  <2> SUFFICES ASSUME IInv, NEW x \in older, accepted[x] > 0, x[2] \in Live
               PROVE  delivery[x] \in {"placeholder", "done"}
    BY DEF NoBackflood
  <2>1. PICK e \in Events, t \in Targets : x = <<e, t>>
    BY DEF IInv, Shape
  <2> QED
    BY <2>1 DEF IInv, PairInv, HistoryOk
<1> QED
  BY <1>1, <1>2, <1>3, PTL DEF Spec
=============================================================================
