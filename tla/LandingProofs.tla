---------------------------- MODULE LandingProofs ----------------------------
(***************************************************************************)
(* Theorems about the caches that land and the verdicts they replace.      *)
(*                                                                         *)
(* RescanPipeline, for any ecosystems, sources switched on, loops, batches *)
(* and faults: who waits for what never lets go of a stale verdict.        *)
(*                                                                         *)
(* GemnasiumSync, for any advisories, any commits and any faults, when one *)
(* sync runs at a time.  A sync then ends on the cache it began with, so   *)
(* what it read of the metadata still holds when it writes.                *)
(***************************************************************************)
EXTENDS RescanPipeline, GemnasiumSync, TLAPS

-----------------------------------------------------------------------------
(* RescanPipeline: types. *)

\* No handle, ecosystem or edit is None, and no walker is the background.
LEMMA NamesDiffer ==
  /\ None \notin Handles /\ None \notin Ecosystems /\ None \notin Edits
  /\ "gemnasium" \notin Ecosystems
  /\ Loops \cap Batches = {} /\ "background" \notin Walkers
BY NamesAssumption DEF Walkers

\* The records walks start from and come to are walks.
LEMMA WalkShapes ==
  /\ Idle \in Walks
  /\ \A h \in Handles, es \in SUBSET Ecosystems :
        [Idle EXCEPT !.step = "visit", !.handle = h, !.todo = es] \in Walks
  /\ \A h \in Handles \cup {None}, es \in SUBSET Ecosystems :
        [Idle EXCEPT !.step = "visit", !.handle = h, !.todo = es] \in Walks
  /\ \A ss \in SUBSET Sources : [Idle EXCEPT !.step = "scan", !.sources = ss] \in Walks
BY DEF Idle, Walks

\* What is switched on and what is synced are ecosystems.
LEMMA SwitchedOn ==
  /\ Synced \subseteq Ecosystems
  /\ \A s : Enabled(s) \subseteq Ecosystems
  /\ \A c \in Cells : c \in enabled => c[2] \in Enabled(c[1]) /\ c[2] \in Synced
BY DEF Synced, Enabled, Cells, Sources

\* Following the configuration keeps every type.
LEMMA SyncTypes ==
  ASSUME TypeOK, NEW controllers \in SUBSET Sources, SyncToConfig(controllers)
  PROVE  /\ osv' \in Handles \cup {None} /\ gemnasium' \in BOOLEAN /\ pending' \in BOOLEAN
         /\ walk' \in [Walkers -> Walks] /\ gemSync' \in {"idle", "refresh", "rebuild"}
         /\ faults' \in 0..MaxFaults
         /\ outrun' \subseteq Cells /\ excused' \subseteq Cells /\ threw' \subseteq Sources
<1>1. osv' \in Handles \cup {None} /\ walk' \in [Walkers -> Walks]
  <2>1. CASE StartOsv
    <3>1. PICK l \in Loops : StartsLoop(l, osv')
      BY <2>1 DEF StartOsv
    <3>2. osv' \in Handles
      BY <2>1 DEF StartOsv, FreeHandles
    <3> QED
      BY <3>1, <3>2, WalkShapes, SwitchedOn DEF StartsLoop, TypeOK, Walkers
  <2>2. CASE osv' \in {osv, None} /\ UNCHANGED walk
    BY <2>2 DEF TypeOK
  <2> QED
    BY <2>1, <2>2 DEF SyncToConfig
<1>2. gemnasium' \in BOOLEAN /\ gemSync' \in {"idle", "refresh", "rebuild"}
  BY DEF SyncToConfig, StartGemnasium, TypeOK
<1>3. pending' \in BOOLEAN
  BY DEF SyncToConfig, TypeOK
<1>4. outrun' \subseteq Cells /\ excused' \subseteq Cells /\ threw' \subseteq Sources
  BY DEF SyncToConfig, TypeOK
<1>5. faults' \in 0..MaxFaults
  BY BoundsAssumption DEF SyncToConfig, Fault, TypeOK
<1> QED
  BY <1>1, <1>2, <1>3, <1>4, <1>5

\* What is forgotten are cells.
LEMMA ForgetsTypes ==
  ASSUME TypeOK, NEW done, Forgets(done)
  PROVE  asked' \subseteq Cells /\ outrun' \subseteq Cells /\ excused' \subseteq Cells
BY DEF Forgets, TypeOK

\* A field of one walk's record is set, or the record is replaced.
LEMMA WalkSet ==
  ASSUME walk \in [Walkers -> Walks], NEW w \in Walkers
  PROVE  /\ \A r \in Walks : [walk EXCEPT ![w] = r] \in [Walkers -> Walks]
         /\ \A es \in SUBSET Ecosystems, a \in Ecosystems \cup {None} :
              [walk EXCEPT ![w].todo = es, ![w].at = a] \in [Walkers -> Walks]
<1>1. \A r \in Walks : [walk EXCEPT ![w] = r] \in [Walkers -> Walks]
  OBVIOUS
<1>2. ASSUME NEW es \in SUBSET Ecosystems, NEW a \in Ecosystems \cup {None}
      PROVE  [walk EXCEPT ![w].todo = es, ![w].at = a] \in [Walkers -> Walks]
  <2> DEFINE moved == [walk[w] EXCEPT !.todo = es, !.at = a]
  <2>1. walk[w] \in Walks
    OBVIOUS
  <2>2. moved \in Walks
    BY <2>1 DEF Walks
  <2>3. [walk EXCEPT ![w].todo = es, ![w].at = a] = [walk EXCEPT ![w] = moved]
    OBVIOUS
  <2> HIDE DEF moved
  <2> QED
    BY <1>1, <2>2, <2>3
<1> QED
  BY <1>1, <1>2

\* Replacing one flight keeps the type of all.
LEMMA FlightSet ==
  ASSUME flight \in [Handles -> [Ecosystems -> Flights \cup {None}]]
  PROVE  \A h, e : \A f \in Flights \cup {None} :
            [flight EXCEPT ![h][e] = f] \in [Handles -> [Ecosystems -> Flights \cup {None}]]
OBVIOUS

\* The types hold at first, and each group of actions keeps them.
LEMMA TypeStart == Init => TypeOK
<1>1. [w \in Walkers |-> Idle] \in [Walkers -> Walks]
  BY WalkShapes
<1>2. Init => enabled \subseteq Cells
  BY SetupsAssumption DEF Init
<1>3. /\ [h \in Handles |-> [e \in Ecosystems |-> None]] \in [Handles -> [Ecosystems -> Flights \cup {None}]]
      /\ [c \in Cells |-> "none"] \in [Cells -> {"none", "ok", "not_seeded"}]
      /\ [s \in Sources |-> None] \in [Sources -> Ecosystems \cup {None}]
      /\ 0 \in 0..MaxEdits /\ 0 \in 0..MaxFaults /\ 0 \in 0..MaxTriggers
  BY BoundsAssumption
<1> QED
  BY <1>1, <1>2, <1>3 DEF Init, TypeOK

\* The steps of the sync loops and of the batches that start.
LEMMA TypeWalks ==
  ASSUME TypeOK
  PROVE  /\ \A w \in Walkers : Visit(w) => TypeOK'
         /\ \A w \in Walkers : EndWalk(w) => TypeOK'
         /\ \A w \in Walkers : WalkThrows(w) => TypeOK'
         /\ \A b \in Batches : StartsBatch(b) => walk' \in [Walkers -> Walks]
         /\ \A l \in Loops : osv # None /\ StartsLoop(l, osv) => walk' \in [Walkers -> Walks]
<1>1. ASSUME NEW w \in Walkers, Visit(w)
      PROVE  TypeOK'
  <2>1. PICK e \in walk[w].todo :
          /\ flight' = IF flight[walk[w].handle][e] # None THEN flight
                       ELSE [flight EXCEPT ![walk[w].handle][e] =
                               [before |-> e \in usable, discarded |-> FALSE,
                                owner |-> IF w \in Loops \/ e \in usable THEN w ELSE "background"]]
          /\ walk' = [walk EXCEPT ![w].todo = @ \ {e}, ![w].at = IF w \in Loops \/ e \in usable THEN e ELSE None]
    BY <1>1 DEF Visit
  <2>2. walk[w] \in Walks
    BY DEF TypeOK
  <2>3. walk[w].todo \subseteq Ecosystems /\ e \in Ecosystems
    BY <2>1, <2>2 DEF Walks
  <2>4. walk' \in [Walkers -> Walks]
    <3>1. walk' = [walk EXCEPT ![w].todo = walk[w].todo \ {e}, ![w].at = IF w \in Loops \/ e \in usable THEN e ELSE None]
      BY <2>1
    <3> QED
      BY <3>1, <2>3, WalkSet DEF TypeOK
  <2>5. flight' \in [Handles -> [Ecosystems -> Flights \cup {None}]]
    <3>1. [before |-> e \in usable, discarded |-> FALSE,
           owner |-> IF w \in Loops \/ e \in usable THEN w ELSE "background"] \in Flights
      BY DEF Flights
    <3> QED
      BY <2>1, <3>1, FlightSet DEF TypeOK
  <2> QED
    BY <1>1, <2>4, <2>5 DEF Visit, TypeOK, portal, verdicts, worker, runtimes, bounds, history
<1>2. ASSUME NEW w \in Walkers, EndWalk(w)
      PROVE  TypeOK'
  <2>1. walk' \in [Walkers -> Walks]
    <3>1. PICK r \in Walks : walk' = [walk EXCEPT ![w] = r]
      BY <1>2, WalkShapes DEF EndWalk
    <3> QED
      BY <3>1, WalkSet DEF TypeOK
  <2>2. pending' \in BOOLEAN
    BY <1>2 DEF EndWalk
  <2> QED
    BY <1>2, <2>1, <2>2 DEF EndWalk, TypeOK, portal, verdicts, worker, runtimes, bounds, history
<1>3. ASSUME NEW b \in Batches, StartsBatch(b)
      PROVE  walk' \in [Walkers -> Walks]
  <2>1. PICK es \in SUBSET Ecosystems : walk' = [walk EXCEPT ![b] = [Idle EXCEPT !.step = "visit", !.handle = osv, !.todo = es]]
    BY <1>3, SwitchedOn DEF StartsBatch
  <2> QED
    BY <2>1, WalkShapes, WalkSet DEF TypeOK, Walkers
<1>4. ASSUME NEW l \in Loops, osv # None, StartsLoop(l, osv)
      PROVE  walk' \in [Walkers -> Walks]
  BY <1>4, WalkShapes, SwitchedOn, WalkSet DEF StartsLoop, TypeOK, Walkers
<1>5. ASSUME NEW w \in Walkers, WalkThrows(w)
      PROVE  TypeOK'
  <2>1. walk' \in [Walkers -> Walks]
    BY <1>5, WalkShapes, WalkSet DEF WalkThrows, TypeOK
  <2>2. faults' \in 0..MaxFaults
    BY <1>5, BoundsAssumption DEF WalkThrows, Fault, TypeOK
  <2>3. asked' \subseteq Cells /\ outrun' \subseteq Cells /\ excused' \subseteq Cells
    BY <1>5, ForgetsTypes DEF WalkThrows, TypeOK
  <2> QED
    BY <1>5, <2>1, <2>2, <2>3 DEF WalkThrows, TypeOK, portal, verdicts, worker, runtimes
<1> QED
  BY <1>1, <1>2, <1>3, <1>4, <1>5

\* A sync that settles.
LEMMA TypeSettles ==
  ASSUME TypeOK, NEW h \in Handles, NEW e \in Ecosystems, Settles(h, e)
  PROVE  /\ flight' \in [Handles -> [Ecosystems -> Flights \cup {None}]]
         /\ walk' \in [Walkers -> Walks] /\ pending' \in BOOLEAN
<1>1. \A w \in Walkers, b \in BOOLEAN : [walk[w] EXCEPT !.at = None, !.became = b] \in Walks
  BY DEF TypeOK, Walks
<1>2. \A w \in Walkers : walk[w].became \in BOOLEAN
  BY DEF TypeOK, Walks
<1>3. walk' \in [Walkers -> Walks]
  <2>1. \A w \in Walkers : walk[w] \in Walks
    BY DEF TypeOK
  <2> QED
    BY <1>1, <1>2, <2>1 DEF Settles
<1> QED
  BY <1>3, FlightSet DEF Settles, TypeOK

\* Any step of a sync.
LEMMA TypeFlights ==
  ASSUME TypeOK, NEW h \in Handles, NEW e \in Ecosystems,
         Discard(h, e) \/ Land(h, e) \/ Fail(h, e) \/ Throw(h, e)
  PROVE  TypeOK'
<1> USE BoundsAssumption
<1>0. e \in Caches /\ flight[h][e] \in Flights \cup {None}
  BY DEF TypeOK, Caches
<1>1. CASE Discard(h, e)
  <2>1. flight' = [flight EXCEPT ![h][e] = [flight[h][e] EXCEPT !.discarded = TRUE]] /\ flight[h][e] # None
    BY <1>1 DEF Discard, TypeOK
  <2>2. [flight[h][e] EXCEPT !.discarded = TRUE] \in Flights
    BY <1>0, <2>1 DEF Flights
  <2>3. flight' \in [Handles -> [Ecosystems -> Flights \cup {None}]]
    BY <2>1, <2>2, FlightSet DEF TypeOK
  <2>4. faults' \in 0..MaxFaults
    BY <1>1 DEF Discard, Fault, TypeOK
  <2> QED
    BY <1>1, <2>3, <2>4 DEF Discard, TypeOK, portal, verdicts, worker, runtimes, history
<1>2. CASE Land(h, e)
  BY <1>0, <1>2, TypeSettles DEF Land, TypeOK, portal, verdicts, worker, runtimes, bounds, history
<1>3. CASE Fail(h, e)
  <2>1. faults' \in 0..MaxFaults
    BY <1>3 DEF Fail, Fault, TypeOK
  <2> QED
    BY <1>3, <2>1, TypeSettles DEF Fail, TypeOK, portal, verdicts, worker, runtimes, history
<1>4. CASE Throw(h, e)
  <2>1. faults' \in 0..MaxFaults
    BY <1>4 DEF Throw, Fault, TypeOK
  <2>2. usable' \subseteq Caches
    BY <1>0, <1>4 DEF Throw, TypeOK
  <2>3. walk' \in [Walkers -> Walks]
    <3>1. \A w \in Walkers : walk[w] \in Walks /\ [walk[w] EXCEPT !.at = None] \in Walks
      BY DEF TypeOK, Walks
    <3> QED
      BY <1>4, <3>1, WalkShapes DEF Throw
  <2>4. asked' \subseteq Cells /\ outrun' \subseteq Cells /\ excused' \subseteq Cells
    BY <1>4, ForgetsTypes DEF Throw, TypeOK
  <2>5. flight' \in [Handles -> [Ecosystems -> Flights \cup {None}]]
    BY <1>4, FlightSet DEF Throw, TypeOK
  <2> QED
    BY <1>4, <2>1, <2>2, <2>3, <2>4, <2>5 DEF Throw, TypeOK, portal, verdicts, worker, runtimes
<1> QED
  BY <1>1, <1>2, <1>3, <1>4

\* The statements of the portal.
LEMMA TypePortal ==
  ASSUME TypeOK, Switch \/ Signal \/ AskForScan
  PROVE  TypeOK'
<1> USE BoundsAssumption
<1>1. CASE Switch
  <2>1. edits' \in 0..MaxEdits
    BY <1>1 DEF Switch, TypeOK
  <2>2. PICK c \in Cells, ask \in BOOLEAN :
          /\ enabled' = IF c \in enabled THEN enabled \ {c} ELSE enabled \cup {c}
          /\ edit' = [cell |-> c, on |-> c \notin enabled, ask |-> ask, step |-> 1]
          /\ asked' = asked \ {c}
          /\ outrun' = outrun \ {c}
          /\ excused' = IF c \in enabled \/ ask THEN excused \ {c} ELSE excused \cup {c}
    BY <1>1 DEF Switch
  <2>3. edit' \in Edits
    BY <2>2 DEF Edits
  <2> QED
    BY <1>1, <2>1, <2>2, <2>3 DEF Switch, TypeOK, verdicts, worker, runtimes, bounds, syncs
<1>2. CASE Signal
  <2>1. edit \in Edits
    BY <1>2 DEF Signal, TypeOK
  <2>2. edit' \in Edits \cup {None}
    BY <1>2, <2>1 DEF Signal, Edits
  <2> QED
    BY <1>2, <2>2 DEF Signal, TypeOK, verdicts, worker, runtimes, bounds, syncs, history
<1>3. CASE AskForScan
  <2>1. edit \in Edits /\ edit.cell \in Cells
    BY <1>3 DEF AskForScan, TypeOK, Edits
  <2>2. edit' \in Edits \cup {None} /\ asked' \subseteq Cells /\ pending' \in BOOLEAN
    <3>1. [edit EXCEPT !.step = 4] \in Edits
      BY <2>1 DEF Edits
    <3>2. edit' \in Edits \cup {None}
      BY <1>3, <3>1 DEF AskForScan
    <3>3. asked' \subseteq Cells
      BY <1>3, <2>1 DEF AskForScan, TypeOK
    <3>4. pending' \in BOOLEAN
      BY <1>3 DEF AskForScan, TypeOK
    <3> QED
      BY <3>2, <3>3, <3>4
  <2> QED
    BY <1>3, <2>2 DEF AskForScan, TypeOK, verdicts, worker, runtimes, bounds, syncs
<1> QED
  BY <1>1, <1>2, <1>3

\* The process comes and goes.
LEMMA TypeWorker ==
  ASSUME TypeOK, Boot \/ Shutdown \/ Exit \/ Crash
  PROVE  TypeOK'
<1> USE BoundsAssumption
<1>1. CASE Boot
  BY <1>1, SyncTypes DEF Boot, TypeOK, portal, verdicts
<1>2. CASE Shutdown
  <2>1. faults' \in 0..MaxFaults
    BY <1>2 DEF Shutdown, Fault, TypeOK
  <2> QED
    BY <1>2, <2>1 DEF Shutdown, TypeOK, portal, verdicts, syncs, history
<1>3. ASSUME Gone
      PROVE  /\ up' \in BOOLEAN /\ aborted' \in BOOLEAN /\ tick' \in {"drain", "refresh", "claim"}
             /\ osv' \in Handles \cup {None} /\ gemnasium' \in BOOLEAN
             /\ flight' \in [Handles -> [Ecosystems -> Flights \cup {None}]]
             /\ walk' \in [Walkers -> Walks] /\ gemSync' \in {"idle", "refresh", "rebuild"}
             /\ history' = history
  BY <1>3, WalkShapes DEF Gone, TypeOK
<1>4. CASE Exit
  BY <1>3, <1>4 DEF Exit, Gone, TypeOK, portal, verdicts, history
<1>5. CASE Crash
  <2>1. faults' \in 0..MaxFaults /\ signals' \subseteq {"reload-sources", "refresh-osv"} /\ usable' \subseteq Caches
    BY <1>5 DEF Crash, Fault, TypeOK
  <2>2. Gone
    BY <1>5 DEF Crash
  <2>3. portal' = portal /\ pending' = pending /\ verdicts' = verdicts /\ triggers' = triggers
    BY <2>2 DEF Gone
  <2> QED
    BY <1>3, <2>1, <2>2, <2>3 DEF TypeOK, portal, verdicts, history
<1> QED
  BY <1>1, <1>2, <1>4, <1>5

\* Cron, the poller and the scheduled sweeps.
LEMMA TypePoller ==
  ASSUME TypeOK, CronSync \/ Drain \/ Refresh \/ Claim \/ OtherScan
  PROVE  TypeOK'
<1> USE BoundsAssumption
<1>1. CASE CronSync
  <2>1. triggers' \in 0..MaxTriggers
    BY <1>1 DEF CronSync, Trigger, TypeOK
  <2>2. walk' \in [Walkers -> Walks] /\ gemSync' \in {"idle", "refresh", "rebuild"}
    BY <1>1, TypeWalks DEF CronSync, TypeOK
  <2> QED
    BY <1>1, <2>1, <2>2 DEF CronSync, TypeOK, portal, verdicts, worker, runtimes, history
<1>2. CASE Drain
  <2>1. /\ osv' \in Handles \cup {None} /\ gemnasium' \in BOOLEAN /\ pending' \in BOOLEAN
        /\ walk' \in [Walkers -> Walks] /\ gemSync' \in {"idle", "refresh", "rebuild"}
        /\ faults' \in 0..MaxFaults
        /\ outrun' \subseteq Cells /\ excused' \subseteq Cells /\ threw' \subseteq Sources
    <3>1. CASE "reload-sources" \in signals
      BY <1>2, <3>1, SyncTypes DEF Drain
    <3>2. CASE "reload-sources" \notin signals
      BY <1>2, <3>2 DEF Drain, TypeOK, runtimes
    <3> QED
      BY <3>1, <3>2
  <2> QED
    BY <1>2, <2>1 DEF Drain, TypeOK, portal, verdicts
<1>3. CASE Refresh
  <2>1. /\ osv' \in Handles \cup {None} /\ gemnasium' \in BOOLEAN /\ pending' \in BOOLEAN
        /\ walk' \in [Walkers -> Walks] /\ gemSync' \in {"idle", "refresh", "rebuild"}
        /\ faults' \in 0..MaxFaults
        /\ outrun' \subseteq Cells /\ excused' \subseteq Cells /\ threw' \subseteq Sources
    <3>1. CASE osv = None
      BY <1>3, <3>1, SyncTypes DEF Refresh, Sources
    <3>2. CASE osv # None
      <4>1. walk' \in [Walkers -> Walks]
        BY <1>3, <3>2, TypeWalks DEF Refresh, TypeOK
      <4> QED
        BY <1>3, <3>2, <4>1 DEF Refresh, TypeOK, runtimes
    <3> QED
      BY <3>1, <3>2
  <2> QED
    BY <1>3, <2>1 DEF Refresh, TypeOK, portal, verdicts
<1>4. CASE Claim
  <2>1. walk' \in [Walkers -> Walks] /\ pending' \in BOOLEAN
    BY <1>4, TypeWalks DEF Claim, TypeOK
  <2> QED
    BY <1>4, <2>1 DEF Claim, TypeOK, portal, verdicts, runtimes, bounds, history
<1>5. CASE OtherScan
  <2>1. triggers' \in 0..MaxTriggers
    BY <1>5 DEF OtherScan, Trigger, TypeOK
  <2>2. walk' \in [Walkers -> Walks]
    BY <1>5, TypeWalks DEF OtherScan
  <2> QED
    BY <1>5, <2>1, <2>2 DEF OtherScan, TypeOK, portal, verdicts, worker, runtimes, history
<1> QED
  BY <1>1, <1>2, <1>3, <1>4, <1>5

\* A batch scans.
LEMMA TypeScan ==
  ASSUME TypeOK, NEW b \in Batches, Scan(b)
  PROVE  TypeOK'
<1>1. walk' \in [Walkers -> Walks]
  BY WalkShapes, WalkSet DEF Scan, TypeOK, Walkers
<1>2. /\ verdict' \in [Cells -> {"none", "ok", "not_seeded"}]
      /\ newest' \in [Sources -> Ecosystems \cup {None}]
      /\ asked' \subseteq Cells /\ outrun' \subseteq Cells /\ excused' \subseteq Cells
      /\ faults' \in 0..MaxFaults
  <2>1. CASE aborted
    BY <2>1 DEF Scan, TypeOK, verdicts
  <2>2. CASE ~aborted
    <3> DEFINE cells == {c \in enabled : c[1] \in walk[b].sources}
               last(s, done) == {e \in Ecosystems : IsLast(e, {x \in Ecosystems : <<s, x>> \in done})}
    <3>1. PICK done \in PartsOf(cells) :
            /\ verdict' = [c \in Cells |-> IF c \in done THEN Verdict(c) ELSE verdict[c]]
            /\ newest' = [s \in Sources |-> IF last(s, done) # {} THEN CHOOSE e \in last(s, done) : TRUE
                                            ELSE newest[s]]
            /\ IF done = cells
               THEN /\ asked' = asked \ done /\ outrun' = outrun \ done /\ excused' = excused \ done
                    /\ UNCHANGED faults
               ELSE Fault /\ Forgets(done)
      BY <2>2 DEF Scan
    <3>2. \A s : last(s, done) \subseteq Ecosystems
      OBVIOUS
    <3>3. \A c : Verdict(c) \in {"ok", "not_seeded"}
      BY DEF Verdict
    <3> HIDE DEF cells, last
    <3>4. \A s : last(s, done) # {} => (CHOOSE e \in last(s, done) : TRUE) \in Ecosystems
      BY <3>2
    <3>5. verdict' \in [Cells -> {"none", "ok", "not_seeded"}]
      BY <3>1, <3>3 DEF TypeOK
    <3>6. newest' \in [Sources -> Ecosystems \cup {None}]
      BY <3>1, <3>4 DEF TypeOK
    <3>7. asked' \subseteq Cells /\ outrun' \subseteq Cells /\ excused' \subseteq Cells
      BY <3>1, ForgetsTypes DEF TypeOK
    <3>8. faults' \in 0..MaxFaults
      BY <3>1, BoundsAssumption DEF Fault, TypeOK
    <3> QED
      BY <3>5, <3>6, <3>7, <3>8
  <2> QED
    BY <2>1, <2>2
<1> QED
  BY <1>1, <1>2 DEF Scan, TypeOK, portal, worker, runtimes

\* The sync of gemnasium.
LEMMA TypeGemnasium ==
  ASSUME TypeOK, GemnasiumSettles \/ GemnasiumThrows
  PROVE  TypeOK'
<1>1. faults' \in 0..MaxFaults
  BY BoundsAssumption DEF GemnasiumSettles, GemnasiumThrows, Fault, TypeOK
<1>2. usable' \subseteq Caches /\ pending' \in BOOLEAN
  BY DEF GemnasiumSettles, GemnasiumThrows, TypeOK, Caches
<1>3. asked' \subseteq Cells /\ outrun' \subseteq Cells /\ excused' \subseteq Cells /\ threw' = threw
  BY ForgetsTypes DEF GemnasiumSettles, GemnasiumThrows, TypeOK, history
<1> QED
  BY <1>1, <1>2, <1>3 DEF GemnasiumSettles, GemnasiumThrows, TypeOK, portal, verdicts, worker, runtimes

\* Every step keeps the types.
LEMMA TypeStep == TypeOK /\ [Next]_vars => TypeOK'
<1> SUFFICES ASSUME TypeOK, [Next]_vars PROVE TypeOK'
  OBVIOUS
<1>1. CASE UNCHANGED vars
  BY <1>1 DEF vars, portal, verdicts, worker, runtimes, syncs, bounds, history, TypeOK
<1>2. CASE EmptyTick
  BY <1>1, <1>2 DEF EmptyTick
<1> QED
  BY <1>1, <1>2, TypeWalks, TypeFlights, TypePortal, TypeWorker, TypePoller, TypeScan, TypeGemnasium
  DEF Next, FlightStep, WalkStep, PortalStep

\* Every variable keeps its type.
THEOREM TypeCorrect == Spec => []TypeOK
BY TypeStart, TypeStep, PTL DEF Spec

-----------------------------------------------------------------------------
(* Who waits for what. *)

\* Only a walk under way awaits a sync, or has something to report.
WalkOk == \A w \in Walkers : walk[w].step # "visit" => walk[w].at = None /\ ~walk[w].became

\* A sync's owner awaits it.
FlightOk ==
    \A h \in Handles, e \in Ecosystems :
        flight[h][e] # None /\ flight[h][e].owner \in Walkers =>
            /\ walk[flight[h][e].owner].handle = h
            /\ walk[flight[h][e].owner].at = e

\* Only a cell that is on is asked for.
EditOk == edit # None => /\ edit.step # 1 => edit.ask
                         /\ edit.ask => edit.cell \in enabled

\* Without a worker, or once it is told to end, no runtime is up.
DownOk == ~up \/ aborted => osv = None /\ ~gemnasium

\* A sync of gemnasium that is no rebuild began on a usable cache.
GemnasiumOk == gemSync = "refresh" => "gemnasium" \in usable

\* A batch that will still look at the cells of source s.
Scanning(b, s) == walk[b].step = "visit" \/ (walk[b].step = "scan" /\ s \in walk[b].sources)

\* Somebody will still replace the verdicts of source s: a sweep waits, a walk has
\* one to report, or a batch has yet to scan.
Owed(s) == \/ pending
           \/ \E w \in Walkers : walk[w].became
           \/ \E b \in Batches : Scanning(b, s)

\* The portal has yet to ask for a scan of cell c.
Asks(c) == edit # None /\ edit.ask /\ edit.cell = c

\* A stale verdict is owed a scan.
StaleOwed == \A c \in Cells \ excused : Stale(c) => Owed(c[1]) \/ Asks(c)

\* A cell turned on, and readable, is owed one until it has had it.
AskedOwed == \A c \in asked \ outrun : Readable(c) => Owed(c[1])

\* What holds of the walks, the syncs and the process whatever the verdicts are.
Shape == WalkOk /\ FlightOk /\ EditOk /\ DownOk /\ GemnasiumOk /\ asked \subseteq enabled

\* The inductive invariant.
IInv == TypeOK /\ Shape /\ StaleOwed /\ AskedOwed

\* What the types say of each walk and each sync.
LEMMA Shaped ==
  ASSUME TypeOK
  PROVE  /\ DOMAIN walk = Walkers
         /\ \A w \in Walkers : /\ walk[w] \in Walks /\ walk[w].became \in BOOLEAN
                               /\ walk[w].todo \subseteq Ecosystems
                               /\ DOMAIN walk[w] = {"step", "handle", "todo", "at", "became", "sources"}
         /\ \A h \in Handles, e \in Ecosystems :
              flight[h][e] # None => /\ flight[h][e] \in Flights
                                     /\ flight[h][e].owner \in Walkers \cup {"background"}
                                     /\ flight[h][e].before \in BOOLEAN /\ flight[h][e].discarded \in BOOLEAN
         /\ DOMAIN flight = Handles /\ \A h \in Handles : DOMAIN flight[h] = Ecosystems
<1>1. \A w \in Walkers : walk[w] \in Walks
  BY DEF TypeOK
<1>2. \A r \in Walks : r.became \in BOOLEAN /\ r.todo \subseteq Ecosystems
                       /\ DOMAIN r = {"step", "handle", "todo", "at", "became", "sources"}
  BY DEF Walks
<1>3. \A f \in Flights : f.owner \in Walkers \cup {"background"} /\ f.before \in BOOLEAN /\ f.discarded \in BOOLEAN
  BY DEF Flights
<1>4. DOMAIN walk = Walkers /\ DOMAIN flight = Handles /\ \A h \in Handles : DOMAIN flight[h] = Ecosystems
  BY DEF TypeOK
<1>5. \A h \in Handles, e \in Ecosystems : flight[h][e] \in Flights \cup {None}
  BY DEF TypeOK
<1> QED
  BY <1>1, <1>2, <1>3, <1>4, <1>5

\* No sync is owned by a walk that awaits none.
LEMMA OwnsNothing ==
  ASSUME FlightOk, NEW w \in Walkers, walk[w].at = None,
         NEW h \in Handles, NEW e \in Ecosystems, flight[h][e] # None
  PROVE  flight[h][e].owner # w
BY NamesDiffer DEF FlightOk

\* A walk that awaits nothing becomes one that awaits nothing; the syncs stay.
LEMMA Replaced ==
  ASSUME TypeOK, WalkOk, FlightOk, NEW w \in Walkers, walk[w].at = None, NEW r \in Walks,
         r.at = None, r.step # "visit" => ~r.became,
         walk' = [walk EXCEPT ![w] = r], flight' = flight
  PROVE  WalkOk' /\ FlightOk'
<1>1. \A v \in Walkers : walk'[v] = IF v = w THEN r ELSE walk[v]
  BY Shaped
<1>2. WalkOk'
  BY <1>1 DEF WalkOk
<1>3. FlightOk'
  <2> SUFFICES ASSUME NEW h \in Handles, NEW e \in Ecosystems, flight[h][e] # None, flight[h][e].owner \in Walkers
               PROVE  /\ walk'[flight[h][e].owner].handle = h
                      /\ walk'[flight[h][e].owner].at = e
    BY DEF FlightOk
  <2> QED
    BY <1>1, OwnsNothing DEF FlightOk
<1> QED
  BY <1>2, <1>3

\* What the walks that start and the batches that scan look like.
LEMMA StartRecords ==
  /\ \A h \in Handles \cup {None}, es \in SUBSET Ecosystems :
       LET r == [Idle EXCEPT !.step = "visit", !.handle = h, !.todo = es]
       IN  r \in Walks /\ r.step = "visit" /\ r.at = None /\ ~r.became /\ r.handle = h
  /\ \A ss \in SUBSET Sources :
       LET r == [Idle EXCEPT !.step = "scan", !.sources = ss]
       IN  r \in Walks /\ r.step = "scan" /\ r.at = None /\ ~r.became /\ r.sources = ss
  /\ Idle \in Walks /\ Idle.step = "idle" /\ Idle.at = None /\ ~Idle.became
BY WalkShapes DEF Idle

\* What starts a loop or a batch does to the walks.
LEMMA LoopStarts ==
  ASSUME TypeOK, WalkOk, NEW l \in Loops, walk[l].step = "idle", NEW h \in Handles, StartsLoop(l, h)
  PROVE  \E r \in Walks : /\ r.at = None /\ r.step = "visit"
                          /\ walk' = [walk EXCEPT ![l] = r]
                          /\ l \in Walkers /\ walk[l].at = None
<1> DEFINE r == [Idle EXCEPT !.step = "visit", !.handle = h, !.todo = Synced]
<1>0. Synced \in SUBSET Ecosystems
  BY SwitchedOn
<1>1. r \in Walks /\ r.at = None /\ r.step = "visit"
  BY <1>0, WalkShapes DEF Idle
<1>2. walk' = [walk EXCEPT ![l] = r] /\ l \in Walkers /\ walk[l].at = None
  BY DEF StartsLoop, WalkOk, Walkers
<1> HIDE DEF r
<1> QED
  BY <1>1, <1>2

\* A batch that starts awaits nothing yet.
LEMMA BatchStarts ==
  ASSUME TypeOK, WalkOk, NEW b \in Batches, StartsBatch(b)
  PROVE  \E r \in Walks : /\ r.at = None /\ r.step = "visit"
                          /\ walk' = [walk EXCEPT ![b] = r]
                          /\ b \in Walkers /\ walk[b].at = None
<1>1. PICK es \in SUBSET Ecosystems : walk' = [walk EXCEPT ![b] = [Idle EXCEPT !.step = "visit", !.handle = osv, !.todo = es]]
  BY SwitchedOn DEF StartsBatch
<1>2. osv \in Handles \cup {None}
  BY DEF TypeOK
<1> DEFINE r == [Idle EXCEPT !.step = "visit", !.handle = osv, !.todo = es]
<1>3. r \in Walks /\ r.at = None /\ r.step = "visit"
  BY <1>2, WalkShapes DEF Idle
<1>4. walk' = [walk EXCEPT ![b] = r] /\ b \in Walkers /\ walk[b].at = None
  BY <1>1 DEF StartsBatch, WalkOk, Walkers
<1> HIDE DEF r
<1> QED
  BY <1>3, <1>4

\* The walks are as they were, or a loop started, or a batch did.
WalksStart == \/ walk' = walk
              \/ \E w \in Walkers, r \in Walks :
                    /\ walk[w].step = "idle" /\ walk[w].at = None
                    /\ r.at = None /\ r.step = "visit"
                    /\ walk' = [walk EXCEPT ![w] = r]

\* Walks that start owe nothing new and take no debt away.
LEMMA StartedWalks ==
  ASSUME TypeOK, WalkOk, FlightOk, WalksStart, flight' = flight
  PROVE  /\ WalkOk' /\ FlightOk'
         /\ \A s \in Sources : Owed(s) => Owed(s)' \/ (pending /\ ~pending')
<1>1. CASE walk' = walk
  BY <1>1 DEF WalkOk, FlightOk, Owed, Scanning
<1>2. ASSUME NEW w \in Walkers, NEW r \in Walks, walk[w].step = "idle", walk[w].at = None,
             r.at = None, r.step = "visit", walk' = [walk EXCEPT ![w] = r]
      PROVE  /\ WalkOk' /\ FlightOk'
             /\ \A s \in Sources : Owed(s) => Owed(s)' \/ (pending /\ ~pending')
  <2>1. \A v \in Walkers : walk'[v] = IF v = w THEN r ELSE walk[v]
    BY <1>2, Shaped
  <2>2. ~walk[w].became
    BY <1>2 DEF WalkOk
  <2>3. \A s \in Sources : Owed(s) => Owed(s)' \/ (pending /\ ~pending')
    BY <1>2, <2>1, <2>2 DEF Owed, Scanning, Walkers
  <2> QED
    BY <1>2, <2>3, Replaced
<1> QED
  BY <1>1, <1>2 DEF WalksStart

\* Following the configuration starts a loop at most.
LEMMA SyncStarts ==
  ASSUME TypeOK, WalkOk, NEW controllers, SyncToConfig(controllers)
  PROVE  WalksStart
<1>1. CASE walk' = walk
  BY <1>1 DEF WalksStart
<1>2. ASSUME osv' \in FreeHandles, NEW l \in Loops, walk[l].step = "idle", StartsLoop(l, osv')
      PROVE  WalksStart
  <2>1. osv' \in Handles
    BY <1>2 DEF FreeHandles
  <2> QED
    BY <1>2, <2>1, LoopStarts DEF WalksStart
<1> QED
  BY <1>1, <1>2 DEF SyncToConfig, StartOsv

-----------------------------------------------------------------------------
(* What each step does to them. *)

\* A cell that was readable stays owed, unless the sweep that waited is claimed.
Keeps == \A s \in Sources : Owed(s) => Owed(s)'

\* With the cells, verdicts and excuses left alone and nothing newly readable.
LEMMA OwedStays ==
  ASSUME StaleOwed, AskedOwed, Keeps, asked' = asked, outrun \subseteq outrun', excused \subseteq excused',
         enabled' = enabled, verdict' = verdict, edit' = edit, asked \subseteq Cells,
         \A c \in Cells : Readable(c)' => Readable(c)
  PROVE  StaleOwed' /\ AskedOwed'
<1>1. \A c \in Cells : c[1] \in Sources
  BY DEF Cells
<1>2. \A c \in Cells : Stale(c)' => Stale(c)
  BY DEF Stale
<1>3. StaleOwed'
  BY <1>1, <1>2 DEF StaleOwed, Keeps, Asks
<1>4. AskedOwed'
  BY <1>1 DEF AskedOwed, Keeps
<1> QED
  BY <1>3, <1>4

\* What is readable depends on the runtimes and the caches.
LEMMA SameReadable ==
  ASSUME runtimes' = runtimes, usable' = usable
  PROVE  \A c : Readable(c)' <=> Readable(c)
BY DEF Readable, Running, Verdict, EvidenceReady, runtimes

\* Without runtimes no cell is readable.
LEMMA DownReadsNothing ==
  ASSUME osv' = None, ~gemnasium'
  PROVE  (\A c \in Cells : ~Readable(c)') /\ StaleOwed' /\ (AskedOwed' \/ ~(asked' \subseteq Cells))
<1>1. \A c \in Cells : ~Readable(c)'
  BY DEF Readable, Running, Cells, Sources
<1> QED
  BY <1>1 DEF StaleOwed, AskedOwed, Stale

\* A whole sweep that waits owes everything.
LEMMA PendingOwes ==
  ASSUME pending'
  PROVE  StaleOwed' /\ AskedOwed'
BY DEF StaleOwed, AskedOwed, Owed

\* What nobody will scan any more is excused, or has outrun its sweep.
LEMMA ForgetsKeeps ==
  ASSUME NEW done, Forgets(done)
  PROVE  StaleOwed' /\ AskedOwed'
<1>1. CASE pending'
  BY <1>1, PendingOwes
<1>2. CASE ~pending'
  BY <1>2 DEF Forgets, StaleOwed, AskedOwed
<1> QED
  BY <1>1, <1>2

\* The invariant holds at first, and each action keeps it.
LEMMA InitIInv == Init => IInv
<1> SUFFICES ASSUME Init PROVE IInv
  OBVIOUS
<1>1. TypeOK
  BY TypeStart
<1>2. Shape
  BY StartRecords DEF Init, Shape, WalkOk, FlightOk, EditOk, DownOk, GemnasiumOk
<1>3. StaleOwed /\ AskedOwed
  BY DEF Init, StaleOwed, AskedOwed, Stale
<1> QED
  BY <1>1, <1>2, <1>3 DEF IInv

\* The controllers follow the configuration: a runtime that starts sees the
\* verdicts left behind, or they are excused.
LEMMA SyncKeeps ==
  ASSUME IInv, NEW controllers \in SUBSET Sources, SyncToConfig(controllers), enabled' = enabled, edit' = edit, verdicts' = verdicts,
         usable' = usable, flight' = flight, asked' = asked, up', ~aborted'
  PROVE  Shape' /\ StaleOwed' /\ AskedOwed'
<1> USE DEF IInv, Shape
<1>1. WalkOk' /\ FlightOk' /\ (\A s \in Sources : Owed(s) => Owed(s)' \/ (pending /\ ~pending'))
  BY SyncStarts, StartedWalks
<1>2. pending => pending'
  BY DEF SyncToConfig
<1>3. Keeps
  BY <1>1, <1>2 DEF Keeps
<1>4. EditOk' /\ DownOk' /\ asked' \subseteq enabled'
  BY DEF EditOk, DownOk
<1>5. GemnasiumOk'
  BY DEF GemnasiumOk, SyncToConfig, StartGemnasium
<1>6. Shape'
  BY <1>1, <1>4, <1>5
<1>7. CASE pending'
  BY <1>6, <1>7, PendingOwes
<1>8. CASE ~pending'
  <2>1. /\ outrun' = outrun \cup {c \in asked : Readable(c)' /\ ~Readable(c)}
        /\ excused' = excused \cup {c \in Cells : Stale(c)' /\ ~Stale(c) /\ newest[c[1]] # c[2]}
    BY <1>8 DEF SyncToConfig
  <2>2. AskedOwed'
    <3> SUFFICES ASSUME NEW c \in asked, c \notin outrun', Readable(c)'
                 PROVE  Owed(c[1])'
      BY DEF AskedOwed
    <3>1. Readable(c) /\ c \notin outrun /\ c \in Cells
      BY <2>1 DEF TypeOK
    <3>2. Owed(c[1]) /\ c[1] \in Sources
      BY <3>1 DEF AskedOwed, Cells
    <3> QED
      BY <1>3, <3>2 DEF Keeps
  <2>3. StaleOwed'
    <3> SUFFICES ASSUME NEW c \in Cells, c \notin excused', Stale(c)'
                 PROVE  Owed(c[1])' \/ Asks(c)'
      BY DEF StaleOwed
    <3>1. c[1] \in Sources /\ c[2] \in Ecosystems /\ c = <<c[1], c[2]>>
      BY DEF Cells
    <3>2. CASE Stale(c)
      BY <1>3, <2>1, <3>1, <3>2 DEF StaleOwed, Keeps, Asks
    <3>3. CASE ~Stale(c)
      <4>1. newest[c[1]] = c[2]
        BY <2>1, <3>3
      <4>2. c \in enabled /\ verdict[c] = "not_seeded" /\ Readable(c)' /\ ~Readable(c)
        BY <3>3 DEF Stale, verdicts
      <4>3. HasStale(c[1])
        BY <3>1, <4>1, <4>2, NamesDiffer DEF HasStale
      <4>4. c[2] \in Enabled(c[1]) /\ c[2] \in Synced
        BY <4>2, SwitchedOn
      <4>5. osv' # None /\ c[2] \in usable
        BY <3>1, <4>2 DEF Readable, Running, Verdict, EvidenceReady, Sources
      <4>6. c[1] = "gemnasium" => gemnasium' /\ "gemnasium" \in usable
        BY <4>2 DEF Readable, Running, Verdict
      <4>7. PICK started \in SUBSET Sources :
              /\ "osv" \notin started => osv' \in {osv, None}
              /\ "gemnasium" \notin started => (gemnasium' => gemnasium)
              /\ \A s \in started : ~Reconciles(s, TRUE)
        <5> DEFINE down == {s \in controllers : ~Running(s) /\ Wanted(s)}
        <5>1. PICK throws \in SUBSET down :
                /\ "osv" \notin down \ throws => osv' \in {osv, None}
                /\ "gemnasium" \notin down \ throws => (gemnasium' => gemnasium)
                /\ \A s \in Sources : ~Reconciles(s, s \in down \ throws)
          BY <1>8 DEF SyncToConfig
        <5>2. down \subseteq Sources
          OBVIOUS
        <5> HIDE DEF down
        <5>3. \A s \in down \ throws : ~Reconciles(s, TRUE)
          BY <5>1, <5>2 DEF Reconciles
        <5> QED
          BY <5>1, <5>2, <5>3
      <4>8. CASE "osv" \in started
        BY <3>1, <4>3, <4>4, <4>5, <4>7, <4>8 DEF Reconciles
      <4>9. CASE "osv" \notin started
        <5>1. osv' = osv
          BY <4>5, <4>7, <4>9
        <5>2. c[1] = "gemnasium" /\ ~gemnasium
          BY <3>1, <4>2, <4>5, <4>6, <5>1 DEF Readable, Running, Verdict, EvidenceReady, Sources
        <5>3. Reconciles("gemnasium", TRUE)
          BY <4>3, <4>4, <4>5, <4>6, <5>2 DEF Reconciles
        <5> QED
          BY <4>6, <4>7, <5>2, <5>3
      <4> QED
        BY <4>8, <4>9
    <3> QED
      BY <3>2, <3>3
  <2> QED
    BY <1>6, <2>2, <2>3
<1> QED
  BY <1>7, <1>8

\* Steps that start at most a walk.
LEMMA PollerKeeps ==
  ASSUME IInv, CronSync \/ Drain \/ Refresh \/ Claim \/ OtherScan
  PROVE  Shape' /\ StaleOwed' /\ AskedOwed'
<1> USE DEF IInv, Shape
<1>0. asked \subseteq Cells
  BY DEF TypeOK
<1>1. ASSUME osv # None, NEW l \in Loops, walk[l].step = "idle", StartsLoop(l, osv)
      PROVE  WalksStart
  <2>1. osv \in Handles
    BY <1>1 DEF TypeOK
  <2> QED
    BY <1>1, <2>1, LoopStarts DEF WalksStart
<1>2. ASSUME NEW b \in Batches, StartsBatch(b)
      PROVE  WalksStart /\ \A s \in Sources : Owed(s)'
  <2>1. PICK r \in Walks : /\ r.at = None /\ r.step = "visit"
                           /\ walk' = [walk EXCEPT ![b] = r]
                           /\ b \in Walkers /\ walk[b].at = None
    BY <1>2, BatchStarts
  <2>2. walk'[b].step = "visit"
    BY <2>1, Shaped
  <2>3. walk[b].step = "idle"
    BY <1>2 DEF StartsBatch
  <2> QED
    BY <2>1, <2>2, <2>3 DEF WalksStart, Owed, Scanning
\* Nothing but walks, signals and counters changes.
<1>3. ASSUME WalksStart, pending' = pending, flight' = flight, portal' = portal, verdicts' = verdicts,
             usable' = usable, runtimes' = runtimes, history' = history, up', ~aborted,
             GemnasiumOk', aborted' = aborted
      PROVE  Shape' /\ StaleOwed' /\ AskedOwed'
  <2>1. WalkOk' /\ FlightOk' /\ Keeps
    BY <1>3, StartedWalks DEF Keeps
  <2>2. EditOk' /\ DownOk' /\ asked' \subseteq enabled'
    BY <1>3 DEF EditOk, DownOk, portal, history
  <2>3. StaleOwed' /\ AskedOwed'
    BY <1>0, <1>3, <2>1, SameReadable, OwedStays DEF portal, history, verdicts
  <2> QED
    BY <1>3, <2>1, <2>2, <2>3
<1>4. CASE CronSync
  <2>1. GemnasiumOk'
    BY <1>4 DEF CronSync, GemnasiumOk
  <2>2. WalksStart
    BY <1>1, <1>4 DEF CronSync, WalksStart
  <2> QED
    BY <1>3, <1>4, <2>1, <2>2 DEF CronSync, ThreadIsFree, worker
<1>5. CASE Drain
  <2>1. CASE "reload-sources" \in signals
    BY <1>5, <2>1, SyncKeeps DEF Drain, portal, ThreadIsFree
  <2>2. CASE "reload-sources" \notin signals
    <3>1. GemnasiumOk' /\ WalksStart
      BY <1>5, <2>2 DEF Drain, GemnasiumOk, WalksStart
    <3> QED
      BY <1>3, <1>5, <2>2, <3>1 DEF Drain, ThreadIsFree, history
  <2> QED
    BY <2>1, <2>2
<1>6. CASE Refresh
  <2>1. CASE osv = None
    BY <1>6, <2>1, SyncKeeps DEF Refresh, portal, Sources
  <2>2. CASE osv # None
    <3>1. GemnasiumOk' /\ WalksStart
      BY <1>1, <1>6, <2>2 DEF Refresh, GemnasiumOk, WalksStart
    <3> QED
      BY <1>3, <1>6, <2>2, <3>1 DEF Refresh, history
  <2> QED
    BY <2>1, <2>2
<1>7. CASE Claim
  <2>1. GemnasiumOk'
    BY <1>7 DEF Claim, GemnasiumOk
  <2>2. CASE CanClaim
    <3>1. PICK b \in Batches : StartsBatch(b)
      BY <1>7, <2>2 DEF Claim
    <3>2. WalksStart /\ \A s \in Sources : Owed(s)'
      BY <1>2, <3>1
    <3>3. WalkOk' /\ FlightOk'
      BY <1>7, <3>2, StartedWalks DEF Claim
    <3>4. EditOk' /\ DownOk' /\ asked' \subseteq enabled'
      BY <1>7 DEF Claim, EditOk, DownOk, portal, history, runtimes
    <3>5. StaleOwed' /\ AskedOwed'
      <4>1. asked' \subseteq Cells /\ \A c \in Cells : c[1] \in Sources
        BY <1>0, <1>7 DEF Claim, history, Cells
      <4> QED
        BY <3>2, <4>1 DEF StaleOwed, AskedOwed
    <3> QED
      BY <2>1, <3>3, <3>4, <3>5
  <2>3. CASE ~CanClaim
    BY <1>3, <1>7, <2>1, <2>3 DEF Claim, WalksStart
  <2> QED
    BY <2>2, <2>3
<1>8. CASE OtherScan
  <2>1. GemnasiumOk'
    BY <1>8 DEF OtherScan, GemnasiumOk
  <2>2. WalksStart
    BY <1>2, <1>8 DEF OtherScan
  <2> QED
    BY <1>3, <1>8, <2>1, <2>2 DEF OtherScan, ThreadIsFree, worker
<1> QED
  BY <1>4, <1>5, <1>6, <1>7, <1>8

\* A walk that joins or starts a sync owns it only if it waits for it.
LEMMA VisitKeeps ==
  ASSUME IInv, NEW w \in Walkers, Visit(w)
  PROVE  Shape' /\ StaleOwed' /\ AskedOwed'
<1> USE DEF IInv, Shape
<1> DEFINE h == walk[w].handle
           waits(e) == w \in Loops \/ e \in usable
<1>1. walk[w].at = None /\ walk[w].step = "visit"
  BY DEF Visit, GoesOn
<1>2. PICK e \in walk[w].todo :
        /\ flight' = IF flight[h][e] # None THEN flight
                     ELSE [flight EXCEPT ![h][e] = [before |-> e \in usable, discarded |-> FALSE,
                                                    owner |-> IF waits(e) THEN w ELSE "background"]]
        /\ walk' = [walk EXCEPT ![w].todo = @ \ {e}, ![w].at = IF waits(e) THEN e ELSE None]
  BY DEF Visit
<1>3. e \in Ecosystems
  BY <1>2, Shaped
<1>4. /\ \A v \in Walkers \ {w} : walk'[v] = walk[v]
      /\ walk'[w].at = IF waits(e) THEN e ELSE None
      /\ walk'[w].handle = h /\ walk'[w].step = "visit" /\ walk'[w].became = walk[w].became
      /\ walk'[w].sources = walk[w].sources
  BY <1>1, <1>2, Shaped
<1> HIDE DEF waits
<1>5. WalkOk'
  BY <1>4 DEF WalkOk
<1>6. FlightOk'
  <2> SUFFICES ASSUME NEW g \in Handles, NEW x \in Ecosystems, flight'[g][x] # None, flight'[g][x].owner \in Walkers
               PROVE  walk'[flight'[g][x].owner].handle = g /\ walk'[flight'[g][x].owner].at = x
    BY DEF FlightOk
  <2>1. CASE flight'[g][x] = flight[g][x]
    <3>1. flight[g][x].owner # w
      BY <1>1, <2>1, OwnsNothing
    <3> QED
      BY <1>4, <2>1, <3>1 DEF FlightOk
  <2>2. CASE flight'[g][x] # flight[g][x]
    <3>1. g = h /\ x = e /\ flight'[g][x] = [before |-> e \in usable, discarded |-> FALSE,
                                              owner |-> IF waits(e) THEN w ELSE "background"]
      BY <1>2, <1>3, <2>2, Shaped
    <3>2. flight'[g][x].owner = IF waits(e) THEN w ELSE "background"
      BY <3>1
    <3>3. waits(e) /\ flight'[g][x].owner = w
      BY <3>2, NamesDiffer
    <3> QED
      BY <1>4, <3>1, <3>3
  <2> QED
    BY <2>1, <2>2
<1>7. EditOk' /\ DownOk' /\ GemnasiumOk' /\ asked' \subseteq enabled'
  BY DEF Visit, EditOk, DownOk, GemnasiumOk, portal, history, worker, runtimes
<1>8. Keeps
  BY <1>1, <1>4 DEF Keeps, Owed, Scanning, Visit, Walkers
<1>9. StaleOwed' /\ AskedOwed'
  BY <1>8, SameReadable, OwedStays DEF Visit, portal, history, verdicts, TypeOK
<1> QED
  BY <1>5, <1>6, <1>7, <1>9

\* A walk that ends leaves its report to the sweep, or to its own scan.
LEMMA EndWalkKeeps ==
  ASSUME IInv, NEW w \in Walkers, EndWalk(w)
  PROVE  Shape' /\ StaleOwed' /\ AskedOwed'
<1> USE DEF IInv, Shape
<1> DEFINE ss == {s \in Sources : Running(s) /\ Enabled(s) # {}}
           r == IF w \in Loops THEN Idle ELSE [Idle EXCEPT !.step = "scan", !.sources = ss]
<1>1. walk[w].at = None /\ walk[w].step = "visit" /\ walk' = [walk EXCEPT ![w] = r] /\ flight' = flight
  BY DEF EndWalk, GoesOn
<1>2. /\ r \in Walks /\ r.at = None /\ r.step # "visit" /\ ~r.became
      /\ w \notin Loops => r.step = "scan" /\ r.sources = ss
  BY WalkShapes DEF Idle
<1> HIDE DEF r
<1>3. WalkOk' /\ FlightOk'
  BY <1>1, <1>2, Replaced
<1>4. EditOk' /\ DownOk' /\ GemnasiumOk' /\ asked' \subseteq enabled'
  BY DEF EndWalk, EditOk, DownOk, GemnasiumOk, portal, history, worker, runtimes
<1>5. \A v \in Walkers : walk'[v] = IF v = w THEN r ELSE walk[v]
  BY <1>1, Shaped
<1>6. pending' = (pending \/ walk[w].became)
  BY DEF EndWalk, Reports
<1>7. \A c \in enabled : Readable(c) /\ Owed(c[1]) => Owed(c[1])'
  <2> SUFFICES ASSUME NEW c \in enabled, Readable(c), Owed(c[1])
               PROVE  Owed(c[1])'
    OBVIOUS
  <2>1. c \in Cells /\ c[1] \in Sources
    BY DEF TypeOK, Cells
  <2>2. c[1] \in ss
    BY <2>1, SwitchedOn DEF Readable
  <2> HIDE DEF ss
  <2>3. CASE pending \/ \E v \in Walkers : walk[v].became
    BY <1>5, <1>6, <2>3 DEF Owed
  <2>4. ASSUME NEW b \in Batches, Scanning(b, c[1])
        PROVE  Owed(c[1])'
    <3>1. b \in Walkers
      BY DEF Walkers
    <3>2. CASE b = w
      BY <1>2, <1>5, <2>2, <3>1, <3>2, NamesDiffer DEF Owed, Scanning
    <3>3. CASE b # w
      BY <1>5, <2>4, <3>1, <3>3 DEF Owed, Scanning
    <3> QED
      BY <3>2, <3>3
  <2> QED
    BY <2>3, <2>4 DEF Owed
<1>8. /\ enabled' = enabled /\ verdict' = verdict /\ edit' = edit /\ asked' = asked /\ outrun' = outrun /\ excused' = excused
      /\ usable' = usable /\ runtimes' = runtimes
  BY DEF EndWalk, portal, verdicts, history
<1>9. \A c : Readable(c)' <=> Readable(c)
  BY <1>8, SameReadable
<1>10. StaleOwed'
  BY <1>7, <1>8, <1>9 DEF StaleOwed, Stale, Asks
<1>11. AskedOwed'
  BY <1>7, <1>8, <1>9 DEF AskedOwed
<1> QED
  BY <1>3, <1>4, <1>10, <1>11

\* A walk that throws leaves nothing behind but what it excuses.
LEMMA WalkThrowsKeeps ==
  ASSUME IInv, NEW w \in Walkers, WalkThrows(w)
  PROVE  Shape' /\ StaleOwed' /\ AskedOwed'
<1> USE DEF IInv, Shape
<1>1. walk[w].at = None /\ walk[w].step = "visit" /\ walk' = [walk EXCEPT ![w] = Idle] /\ flight' = flight
  BY DEF WalkThrows, GoesOn
<1>2. WalkOk' /\ FlightOk'
  BY <1>1, StartRecords, Replaced
<1>3. /\ enabled' = enabled /\ verdict' = verdict /\ edit' = edit /\ runtimes' = runtimes
      /\ pending' = pending /\ usable' = usable /\ up' = up /\ aborted' = aborted /\ gemSync' = gemSync
      /\ asked' \subseteq asked
  BY DEF WalkThrows, portal, verdicts, worker, Forgets
<1>4. EditOk' /\ DownOk' /\ GemnasiumOk' /\ asked' \subseteq enabled'
  BY <1>3 DEF EditOk, DownOk, GemnasiumOk, runtimes
<1>5. CASE w \in Batches \/ Reports(w)
  BY <1>2, <1>4, <1>5, ForgetsKeeps DEF WalkThrows
<1>6. CASE ~(w \in Batches \/ Reports(w))
  <2>1. asked' = asked /\ outrun' = outrun /\ excused' = excused
    BY <1>6 DEF WalkThrows
  <2>2. \A v \in Walkers : v # w => walk'[v] = walk[v]
    BY <1>1, Shaped
  <2>3. Keeps
    BY <1>3, <1>6, <2>2 DEF Keeps, Owed, Scanning, Reports, Walkers
  <2>4. StaleOwed' /\ AskedOwed'
    BY <1>3, <2>1, <2>3, SameReadable, OwedStays DEF TypeOK
  <2> QED
    BY <1>2, <1>4, <2>4
<1> QED
  BY <1>5, <1>6

\* A cache discarded makes no verdict stale.
LEMMA DiscardKeeps ==
  ASSUME IInv, NEW h \in Handles, NEW e \in Ecosystems, Discard(h, e)
  PROVE  Shape' /\ StaleOwed' /\ AskedOwed'
<1> USE DEF IInv, Shape
<1>1. \A g \in Handles, x \in Ecosystems :
        (flight'[g][x] # None => flight[g][x] # None /\ flight'[g][x].owner = flight[g][x].owner)
  <2>1. flight' = [flight EXCEPT ![h][e] = [flight[h][e] EXCEPT !.discarded = TRUE]]
    BY Shaped DEF Discard
  <2>2. flight[h][e] # None /\ [flight[h][e] EXCEPT !.discarded = TRUE].owner = flight[h][e].owner
    BY Shaped DEF Discard, Flights
  <2> QED
    BY <2>1, <2>2, Shaped
<1>2. walk' = walk /\ pending' = pending
  BY DEF Discard
<1>3. WalkOk' /\ FlightOk'
  BY <1>1, <1>2 DEF WalkOk, FlightOk
<1>4. EditOk' /\ DownOk' /\ GemnasiumOk' /\ asked' \subseteq enabled'
  BY NamesDiffer DEF Discard, EditOk, DownOk, GemnasiumOk, portal, history, worker, runtimes
<1>5. Keeps
  BY <1>2 DEF Keeps, Owed, Scanning
<1>6. \A c \in Cells : Readable(c)' => Readable(c)
  BY DEF Discard, Readable, Running, Verdict, EvidenceReady, runtimes
<1>7. StaleOwed' /\ AskedOwed'
  BY <1>5, <1>6, OwedStays DEF Discard, portal, history, verdicts, TypeOK
<1> QED
  BY <1>3, <1>4, <1>7

\* What a sync that settles does to the walks that awaited it.
LEMMA SettledWalks ==
  ASSUME TypeOK, WalkOk, FlightOk, NEW h \in Handles, NEW e \in Ecosystems, flight[h][e] # None, Settles(h, e)
  PROVE  /\ WalkOk' /\ FlightOk'
         /\ Keeps
         /\ Became(flight[h][e], e) => \A s : Owed(s)'
<1> DEFINE waiting(w) == walk[w].handle = h /\ walk[w].at = e
           became == Became(flight[h][e], e)
           owner == flight[h][e].owner
<1>1. \A w \in Walkers :
        /\ walk'[w].step = walk[w].step /\ walk'[w].handle = walk[w].handle /\ walk'[w].sources = walk[w].sources
        /\ walk'[w].at = IF waiting(w) THEN None ELSE walk[w].at
        /\ walk'[w].became <=> walk[w].became \/ (waiting(w) /\ became /\ owner = w)
  BY Shaped DEF Settles
<1>2. \A g \in Handles, x \in Ecosystems :
        flight'[g][x] = IF g = h /\ x = e THEN None ELSE flight[g][x]
  BY Shaped DEF Settles
<1>3. owner \in Walkers \cup {"background"} /\ (owner \in Walkers => waiting(owner))
  BY Shaped DEF FlightOk
<1>4. pending' <=> pending \/ (became /\ owner = "background")
  BY DEF Settles
<1> HIDE DEF became, owner
<1>5. WalkOk'
  BY <1>1, NamesDiffer DEF WalkOk
<1>6. FlightOk'
  BY <1>1, <1>2 DEF FlightOk
<1>7. Keeps
  BY <1>1, <1>4 DEF Keeps, Owed, Scanning, Walkers
<1>8. became => \A s : Owed(s)'
  BY <1>1, <1>3, <1>4 DEF Owed
<1> QED
  BY <1>5, <1>6, <1>7, <1>8 DEF became

\* A sync that makes a cache readable tells its owner, who is still there, or queues the sweep.
LEMMA SettlesKeeps ==
  ASSUME IInv, NEW h \in Handles, NEW e \in Ecosystems, Land(h, e) \/ Fail(h, e)
  PROVE  Shape' /\ StaleOwed' /\ AskedOwed'
<1> USE DEF IInv, Shape
<1>1. Settles(h, e) /\ flight[h][e] # None
  BY DEF Land, Fail
<1>2. WalkOk' /\ FlightOk' /\ Keeps
  BY <1>1, SettledWalks
<1>3. /\ enabled' = enabled /\ verdict' = verdict /\ edit' = edit /\ runtimes' = runtimes
      /\ history' = history /\ up' = up /\ aborted' = aborted /\ gemSync' = gemSync
  BY DEF Land, Fail, portal, verdicts, worker
<1>4. usable' = usable \/ (flight[h][e].discarded /\ usable' = usable \cup {e})
  BY DEF Land, Fail
<1>5. EditOk' /\ DownOk' /\ GemnasiumOk' /\ asked' \subseteq enabled'
  BY <1>3, <1>4 DEF EditOk, DownOk, GemnasiumOk, history, runtimes
<1>6. CASE usable' = usable
  <2>1. \A c \in Cells : Readable(c)' => Readable(c)
    BY <1>3, <1>6, SameReadable
  <2> QED
    BY <1>2, <1>3, <1>5, <2>1, OwedStays DEF history, TypeOK
<1>7. CASE flight[h][e].discarded /\ usable' = usable \cup {e}
  <2>1. Became(flight[h][e], e)
    BY <1>7 DEF Became
  <2>2. \A s : Owed(s)'
    BY <1>1, <2>1, SettledWalks
  <2>3. StaleOwed' /\ AskedOwed'
    BY <2>2 DEF StaleOwed, AskedOwed
  <2> QED
    BY <1>2, <1>5, <2>3
<1> QED
  BY <1>4, <1>6, <1>7

\* A sync that throws may lose its report: the cells it would have served are excused.
LEMMA ThrowKeeps ==
  ASSUME IInv, NEW h \in Handles, NEW e \in Ecosystems, Throw(h, e)
  PROVE  Shape' /\ StaleOwed' /\ AskedOwed'
<1> USE DEF IInv, Shape
<1> DEFINE dying == {l \in Loops : walk[l].handle = h /\ walk[l].at = e}
           waiting(w) == walk[w].handle = h /\ walk[w].at = e
           lost == Became(flight[h][e], e) \/ \E l \in dying : walk[l].became
<1>1. /\ flight[h][e] # None
      /\ walk' = [w \in Walkers |-> IF w \in dying THEN Idle
                                    ELSE IF waiting(w) THEN [walk[w] EXCEPT !.at = None] ELSE walk[w]]
      /\ pending' = pending
  BY DEF Throw
<1>2. \A w \in Walkers \ dying :
        /\ walk'[w].step = walk[w].step /\ walk'[w].handle = walk[w].handle /\ walk'[w].sources = walk[w].sources
        /\ walk'[w].at = IF waiting(w) THEN None ELSE walk[w].at
        /\ walk'[w].became = walk[w].became
  BY <1>1, Shaped
<1>3. \A w \in dying : w \in Walkers /\ waiting(w) /\ walk'[w] = Idle
  BY <1>1 DEF Walkers
<1>4. \A g \in Handles, x \in Ecosystems :
        flight'[g][x] = IF g = h /\ x = e THEN None ELSE flight[g][x]
  BY Shaped DEF Throw
<1>5. /\ enabled' = enabled /\ verdict' = verdict /\ edit' = edit /\ runtimes' = runtimes
      /\ asked' \subseteq asked /\ up' = up /\ aborted' = aborted /\ gemSync' = gemSync
      /\ usable' = usable \/ (flight[h][e].discarded /\ usable' = usable \cup {e})
  BY DEF Throw, portal, verdicts, worker, Forgets
<1>6. IF lost THEN Forgets({}) ELSE asked' = asked /\ outrun' = outrun /\ excused' = excused
  BY DEF Throw
<1>7. WalkOk'
  <2> SUFFICES ASSUME NEW w \in Walkers, walk'[w].step # "visit"
               PROVE  walk'[w].at = None /\ ~walk'[w].became
    BY DEF WalkOk
  <2> HIDE DEF dying
  <2>1. CASE w \in dying
    BY <1>3, <2>1, StartRecords
  <2>2. CASE w \notin dying
    BY <1>2, <2>2 DEF WalkOk
  <2> QED
    BY <2>1, <2>2
<1>8. FlightOk'
  <2> SUFFICES ASSUME NEW g \in Handles, NEW x \in Ecosystems, flight'[g][x] # None, flight'[g][x].owner \in Walkers
               PROVE  walk'[flight'[g][x].owner].handle = g /\ walk'[flight'[g][x].owner].at = x
    BY DEF FlightOk
  <2>1. flight'[g][x] = flight[g][x] /\ ~(g = h /\ x = e)
    BY <1>4
  <2>2. walk[flight[g][x].owner].handle = g /\ walk[flight[g][x].owner].at = x
    BY <2>1 DEF FlightOk
  <2>3. ~waiting(flight[g][x].owner)
    BY <2>1, <2>2
  <2> HIDE DEF dying
  <2> QED
    BY <1>2, <1>3, <2>1, <2>2, <2>3
<1>9. EditOk' /\ DownOk' /\ GemnasiumOk' /\ asked' \subseteq enabled'
  BY <1>5 DEF EditOk, DownOk, GemnasiumOk, runtimes
<1>10. CASE lost
  BY <1>6, <1>7, <1>8, <1>9, <1>10, ForgetsKeeps
<1>11. CASE ~lost
  <2>1. usable' = usable
    BY <1>5, <1>11 DEF Became
  <2>2. \A w \in Walkers : walk[w].became => w \notin dying
    BY <1>11
  <2>3. \A b \in Batches : b \in Walkers /\ b \notin dying
    BY NamesDiffer DEF Walkers
  <2>4. asked' = asked /\ outrun' = outrun /\ excused' = excused
    BY <1>6, <1>11
  <2> HIDE DEF dying, lost
  <2>5. Keeps
    BY <1>1, <1>2, <2>2, <2>3 DEF Keeps, Owed, Scanning
  <2>6. \A c \in Cells : Readable(c)' => Readable(c)
    BY <1>5, <2>1, SameReadable
  <2>7. StaleOwed' /\ AskedOwed'
    BY <1>5, <2>4, <2>5, <2>6, OwedStays DEF TypeOK
  <2> QED
    BY <1>7, <1>8, <1>9, <2>7
<1> QED
  BY <1>10, <1>11

\* A rebuild that lands queues its sweep, and a refresh makes nothing readable.
LEMMA GemnasiumKeeps ==
  ASSUME IInv, GemnasiumSettles
  PROVE  Shape' /\ StaleOwed' /\ AskedOwed'
<1> USE DEF IInv, Shape
<1>1. /\ enabled' = enabled /\ verdict' = verdict /\ edit' = edit /\ runtimes' = runtimes
      /\ history' = history /\ up' = up /\ aborted' = aborted /\ gemSync' = "idle"
      /\ walk' = walk /\ flight' = flight
  BY DEF GemnasiumSettles, portal, verdicts, worker
<1>2. Shape'
  BY <1>1 DEF WalkOk, FlightOk, EditOk, DownOk, GemnasiumOk, history, runtimes
<1>3. CASE pending'
  BY <1>2, <1>3, PendingOwes
<1>4. CASE ~pending'
  <2>1. usable' = usable \/ gemSync # "rebuild"
    BY <1>4 DEF GemnasiumSettles
  <2>2. gemSync = "rebuild" \/ gemSync = "refresh"
    BY DEF GemnasiumSettles, TypeOK
  <2>3. usable' = usable
    BY <2>1, <2>2 DEF GemnasiumSettles, GemnasiumOk
  <2>4. Keeps
    BY <1>1 DEF Keeps, Owed, Scanning, GemnasiumSettles
  <2>5. StaleOwed' /\ AskedOwed'
    BY <1>1, <2>3, <2>4, SameReadable, OwedStays DEF history, TypeOK
  <2> QED
    BY <1>2, <2>5
<1> QED
  BY <1>3, <1>4

\* Its re-scan lost, what the cache made readable is excused.
LEMMA GemnasiumThrowsKeeps ==
  ASSUME IInv, GemnasiumThrows
  PROVE  Shape' /\ StaleOwed' /\ AskedOwed'
<1> USE DEF IInv, Shape
<1>1. /\ enabled' = enabled /\ verdict' = verdict /\ edit' = edit /\ runtimes' = runtimes
      /\ asked' \subseteq asked /\ up' = up /\ aborted' = aborted /\ gemSync' = "idle"
      /\ walk' = walk /\ flight' = flight /\ pending' = pending
  BY DEF GemnasiumThrows, portal, verdicts, worker, Forgets
<1>2. Shape'
  BY <1>1 DEF WalkOk, FlightOk, EditOk, DownOk, GemnasiumOk, runtimes
<1>3. CASE "gemnasium" \in usable' \ usable
  BY <1>2, <1>3, ForgetsKeeps DEF GemnasiumThrows
<1>4. CASE "gemnasium" \notin usable' \ usable
  <2>1. usable' = usable /\ asked' = asked /\ outrun' = outrun /\ excused' = excused
    BY <1>4 DEF GemnasiumThrows
  <2>2. Keeps
    BY <1>1 DEF Keeps, Owed, Scanning
  <2>3. StaleOwed' /\ AskedOwed'
    BY <1>1, <2>1, <2>2, SameReadable, OwedStays DEF TypeOK
  <2> QED
    BY <1>2, <2>3
<1> QED
  BY <1>3, <1>4

\* A batch that scans leaves no stale verdict of its sources, or what it leaves is excused.
LEMMA ScanKeeps ==
  ASSUME IInv, NEW b \in Batches, Scan(b)
  PROVE  Shape' /\ StaleOwed' /\ AskedOwed'
<1> USE DEF IInv, Shape
<1>1. b \in Walkers /\ walk[b].step = "scan" /\ walk[b].at = None /\ ~walk[b].became
  BY DEF Scan, WalkOk, Walkers
<1>2. walk' = [walk EXCEPT ![b] = Idle] /\ flight' = flight /\ pending' = pending
  BY DEF Scan
<1>3. WalkOk' /\ FlightOk'
  BY <1>1, <1>2, StartRecords, Replaced
<1>4. /\ enabled' = enabled /\ edit' = edit /\ runtimes' = runtimes /\ usable' = usable
      /\ up' = up /\ aborted' = aborted /\ gemSync' = gemSync
  BY DEF Scan, portal, worker
<1>5. asked' \subseteq asked
  BY DEF Scan, Forgets
<1>6. EditOk' /\ DownOk' /\ GemnasiumOk' /\ asked' \subseteq enabled'
  BY <1>4, <1>5 DEF EditOk, DownOk, GemnasiumOk, runtimes
<1>7. \A c : Readable(c)' <=> Readable(c)
  BY <1>4, SameReadable
<1>8. CASE aborted
  <2>1. osv' = None /\ ~gemnasium'
    BY <1>4, <1>8 DEF DownOk, runtimes
  <2> QED
    BY <1>3, <1>5, <1>6, <2>1, DownReadsNothing DEF TypeOK
<1> DEFINE scanned == {c \in enabled : c[1] \in walk[b].sources}
<1>9. CASE ~aborted /\ \E done : Forgets(done)
  BY <1>3, <1>6, <1>9, ForgetsKeeps
<1>10. CASE ~aborted /\ /\ verdict' = [c \in Cells |-> IF c \in scanned THEN Verdict(c) ELSE verdict[c]]
                       /\ asked' = asked \ scanned /\ outrun' = outrun \ scanned
                       /\ excused' = excused \ scanned
  <2>1. /\ verdict' = [c \in Cells |-> IF c \in scanned THEN Verdict(c) ELSE verdict[c]]
        /\ asked' = asked \ scanned /\ outrun' = outrun \ scanned /\ excused' = excused \ scanned
    BY <1>10
  <2>2. \A s : Owed(s) => Owed(s)' \/ s \in walk[b].sources
    <3>1. \A v \in Walkers : v # b => walk'[v] = walk[v]
      BY <1>1, <1>2, Shaped
    <3> QED
      BY <1>1, <1>2, <3>1 DEF Owed, Scanning, Walkers
  <2>3. StaleOwed'
    <3> SUFFICES ASSUME NEW c \in Cells, c \notin excused', Stale(c)'
                 PROVE  Owed(c[1])' \/ Asks(c)'
      BY DEF StaleOwed
    <3>1. c \in enabled /\ Readable(c) /\ verdict'[c] = "not_seeded"
      BY <1>4, <1>7 DEF Stale
    <3>2. c \notin scanned
      BY <2>1, <3>1 DEF Readable
    <3>3. Stale(c) /\ c \notin excused /\ c[1] \notin walk[b].sources
      BY <2>1, <3>1, <3>2 DEF Stale
    <3> QED
      BY <1>4, <2>2, <3>3 DEF StaleOwed, Asks
  <2>4. AskedOwed'
    <3> SUFFICES ASSUME NEW c \in asked', c \notin outrun', Readable(c)'
                 PROVE  Owed(c[1])'
      BY DEF AskedOwed
    <3>1. c \in asked /\ c \notin outrun /\ c[1] \notin walk[b].sources
      BY <2>1
    <3> QED
      BY <1>7, <2>2, <3>1 DEF AskedOwed
  <2> QED
    BY <1>3, <1>6, <2>3, <2>4
<1> QED
  BY <1>8, <1>9, <1>10 DEF Scan

\* A switch, its signals and the request: the sweep found waiting is one that waits.
LEMMA PortalKeeps ==
  ASSUME IInv, Switch \/ Signal \/ AskForScan
  PROVE  Shape' /\ StaleOwed' /\ AskedOwed'
<1> USE DEF IInv, Shape
<1>1. /\ verdicts' = verdicts /\ usable' = usable /\ worker' = worker /\ runtimes' = runtimes
      /\ flight' = flight /\ walk' = walk /\ gemSync' = gemSync
      /\ pending => pending'
  BY DEF Switch, Signal, AskForScan, syncs
<1>2. WalkOk' /\ FlightOk' /\ DownOk' /\ GemnasiumOk'
  BY <1>1 DEF WalkOk, FlightOk, DownOk, GemnasiumOk, worker, runtimes
<1>3. \A c : Readable(c)' <=> Readable(c)
  BY <1>1, SameReadable
<1>4. \A s : Owed(s) => Owed(s)'
  BY <1>1 DEF Owed, Scanning
<1>5. CASE Switch
  <2>1. PICK c \in Cells, ask \in BOOLEAN :
          /\ ask => c \notin enabled
          /\ enabled' = IF c \in enabled THEN enabled \ {c} ELSE enabled \cup {c}
          /\ edit' = [cell |-> c, on |-> c \notin enabled, ask |-> ask, step |-> 1]
          /\ asked' = asked \ {c}
          /\ outrun' = outrun \ {c}
          /\ excused' = IF c \in enabled \/ ask THEN excused \ {c} ELSE excused \cup {c}
    BY <1>5 DEF Switch
  <2>2. edit' \in Edits /\ edit'.step = 1 /\ edit'.ask = ask /\ edit'.cell = c
    BY <2>1 DEF Edits
  <2>3. edit' # None
    BY <2>2, NamesDiffer
  <2>4. EditOk'
    BY <2>1, <2>2 DEF EditOk
  <2>5. asked' \subseteq enabled'
    BY <2>1
  <2>6. StaleOwed'
    <3> SUFFICES ASSUME NEW d \in Cells, d \notin excused', Stale(d)'
                 PROVE  Owed(d[1])' \/ Asks(d)'
      BY DEF StaleOwed
    <3>1. CASE d = c
      <4>1. c \notin enabled
        BY <2>1, <3>1 DEF Stale
      <4>2. ask
        BY <2>1, <3>1, <4>1
      <4> QED
        BY <2>2, <2>3, <3>1, <4>2 DEF Asks
    <3>2. CASE d # c
      <4>1. Stale(d) /\ d \notin excused
        BY <1>1, <1>3, <2>1, <3>2 DEF Stale, verdicts
      <4>2. edit = None
        BY <1>5 DEF Switch
      <4> QED
        BY <1>4, <4>1, <4>2 DEF StaleOwed, Asks
    <3> QED
      BY <3>1, <3>2
  <2>7. AskedOwed'
    BY <1>3, <1>4, <2>1 DEF AskedOwed
  <2> QED
    BY <1>2, <2>4, <2>5, <2>6, <2>7
<1>6. CASE Signal
  <2>1. /\ enabled' = enabled /\ asked' = asked /\ outrun' = outrun /\ excused' = excused
    BY <1>6 DEF Signal, history
  <2>2. edit \in Edits /\ edit # None
    BY <1>6 DEF Signal, TypeOK
  <2>3. \/ edit' = None /\ ~edit.ask
        \/ edit'.ask = edit.ask /\ edit'.cell = edit.cell /\ edit' # None /\ (edit'.step # 1 => edit.ask \/ edit.step = 2)
    <3>1. \A k \in {2, 3} : LET x == [edit EXCEPT !.step = k]
                            IN  x \in Edits /\ x.ask = edit.ask /\ x.cell = edit.cell /\ x.step = k
      BY <2>2 DEF Edits
    <3> QED
      BY <1>6, <2>2, <3>1, NamesDiffer DEF Signal, Edits
  <2>4. EditOk'
    BY <2>1, <2>2, <2>3 DEF EditOk
  <2>5. \A c : Asks(c) => Asks(c)'
    BY <2>3 DEF Asks
  <2>6. StaleOwed' /\ AskedOwed'
    BY <1>1, <1>3, <1>4, <2>1, <2>5 DEF StaleOwed, AskedOwed, Stale, verdicts
  <2> QED
    BY <1>2, <2>1, <2>4, <2>6
<1>7. CASE AskForScan
  <2>1. edit \in Edits /\ edit # None /\ edit.step \in {3, 4}
    BY <1>7 DEF AskForScan, TypeOK
  <2>2. edit.ask /\ edit.cell \in enabled
    BY <2>1 DEF EditOk
  <2>3. CASE edit.step = 3 /\ ~pending
    <3>1. edit' = [edit EXCEPT !.step = 4] /\ asked' = asked /\ enabled' = enabled /\ outrun' = outrun /\ excused' = excused
      BY <1>7, <2>3 DEF AskForScan, SweepWillDo
    <3>2. edit' \in Edits /\ edit'.ask = edit.ask /\ edit'.cell = edit.cell
      BY <2>1, <3>1 DEF Edits
    <3>3. edit' # None
      BY <3>2, NamesDiffer
    <3>4. EditOk'
      BY <2>2, <3>1, <3>2 DEF EditOk
    <3>5. \A c : Asks(c) => Asks(c)'
      BY <3>2, <3>3 DEF Asks
    <3>6. StaleOwed' /\ AskedOwed'
      BY <1>1, <1>3, <1>4, <3>1, <3>5 DEF StaleOwed, AskedOwed, Stale, verdicts
    <3> QED
      BY <1>2, <3>1, <3>4, <3>6
  <2>4. CASE ~(edit.step = 3 /\ ~pending)
    <3>1. edit' = None /\ pending' /\ asked' = asked \cup {edit.cell} /\ enabled' = enabled
      BY <1>7, <2>1, <2>4 DEF AskForScan, SweepWillDo
    <3> QED
      BY <1>2, <2>2, <3>1, PendingOwes DEF EditOk
  <2> QED
    BY <2>3, <2>4
<1> QED
  BY <1>5, <1>6, <1>7

\* A runtime reads nothing until it is up, and then either queues a sweep or is excused.
LEMMA WorkerKeeps ==
  ASSUME IInv, Boot \/ Shutdown \/ Exit \/ Crash
  PROVE  Shape' /\ StaleOwed' /\ AskedOwed'
<1> USE DEF IInv, Shape
<1>1. CASE Boot
  BY <1>1, SyncKeeps DEF Boot, portal
<1>2. CASE Shutdown
  <2>1. Shape'
    BY <1>2 DEF Shutdown, WalkOk, FlightOk, EditOk, DownOk, GemnasiumOk, portal, syncs, history
  <2>2. asked' \subseteq Cells
    BY <1>2 DEF Shutdown, history, TypeOK
  <2>3. osv' = None /\ ~gemnasium'
    BY <1>2 DEF Shutdown
  <2> QED
    BY <2>1, <2>2, <2>3, DownReadsNothing
<1>3. CASE Exit \/ Crash
  <2>1. Gone
    BY <1>3 DEF Exit, Crash
  <2>2. WalkOk' /\ FlightOk'
    BY <2>1, StartRecords DEF Gone, WalkOk, FlightOk
  <2>3. EditOk' /\ DownOk' /\ GemnasiumOk' /\ asked' \subseteq enabled'
    BY <2>1 DEF Gone, EditOk, DownOk, GemnasiumOk, portal, history
  <2>4. asked' \subseteq Cells
    BY <2>1 DEF Gone, TypeOK, history
  <2>5. osv' = None /\ ~gemnasium'
    BY <2>1 DEF Gone
  <2> QED
    BY <2>2, <2>3, <2>4, <2>5, DownReadsNothing
<1> QED
  BY <1>1, <1>2, <1>3

\* Every step keeps the invariant.
LEMMA NextIInv == IInv /\ [Next]_vars => IInv'
<1> SUFFICES ASSUME IInv, [Next]_vars PROVE IInv'
  OBVIOUS
<1>1. TypeOK'
  BY TypeStep DEF IInv
<1>2. ASSUME UNCHANGED vars
      PROVE  Shape' /\ StaleOwed' /\ AskedOwed'
  <2>1. /\ enabled' = enabled /\ edit' = edit /\ pending' = pending /\ verdict' = verdict /\ usable' = usable
        /\ up' = up /\ aborted' = aborted /\ runtimes' = runtimes /\ osv' = osv /\ gemnasium' = gemnasium
        /\ flight' = flight /\ walk' = walk
        /\ gemSync' = gemSync /\ asked' = asked /\ outrun' = outrun /\ excused' = excused
    BY <1>2 DEF vars, portal, verdicts, worker, runtimes, syncs, history
  <2>2. Shape'
    BY <2>1 DEF IInv, Shape, WalkOk, FlightOk, EditOk, DownOk, GemnasiumOk
  <2>3. Keeps
    BY <2>1 DEF Keeps, Owed, Scanning
  <2> QED
    BY <2>1, <2>2, <2>3, SameReadable, OwedStays DEF IInv, TypeOK
<1>3. CASE EmptyTick
  BY <1>1, <1>2, <1>3 DEF EmptyTick, IInv
<1>4. CASE \E w \in Walkers : WalkStep(w)
  BY <1>1, <1>4, VisitKeeps, EndWalkKeeps DEF WalkStep, IInv
<1>5. CASE \E h \in Handles, e \in Ecosystems : Discard(h, e) \/ Land(h, e) \/ Fail(h, e) \/ Throw(h, e)
  BY <1>1, <1>5, DiscardKeeps, SettlesKeeps, ThrowKeeps DEF IInv
<1>6. CASE \E w \in Walkers : WalkThrows(w)
  BY <1>1, <1>6, WalkThrowsKeeps DEF IInv
<1> QED
  BY <1>1, <1>2, <1>3, <1>4, <1>5, <1>6, PollerKeeps, GemnasiumKeeps, GemnasiumThrowsKeeps, ScanKeeps, PortalKeeps, WorkerKeeps
  DEF Next, FlightStep, PortalStep, IInv

\* When all is quiet nothing is owed any more.
LEMMA IInvImplies == IInv => StaleIsReplaced /\ TurnedOnIsScanned
<1> SUFFICES ASSUME IInv, Quiet
             PROVE  /\ \A c \in Cells : Stale(c) => c \in excused
                    /\ \A c \in asked \ outrun : Running(c[1]) => Verdict(c) = "not_seeded"
  BY DEF StaleIsReplaced, TurnedOnIsScanned
<1>1. \A s : ~Owed(s)
  BY StartRecords DEF Quiet, Owed, Scanning, Walkers
<1>2. \A c : ~Asks(c)
  BY DEF Quiet, Asks
<1>3. \A c : Verdict(c) \in {"ok", "not_seeded"}
  BY DEF Verdict
<1> QED
  BY <1>1, <1>2, <1>3 DEF IInv, StaleOwed, AskedOwed, Readable

\* When all is quiet, no verdict given while a cache was missing outlives it, but for the
\* excused: what was stale when, with no sweep waiting, a sync or a loop threw that had a
\* re-scan to queue, or a batch failed; a cell switched on without asking for a scan; a
\* verdict another ecosystem's hid from a runtime that started.  Else whoever sees a cache
\* become usable, at boot, by cron, on request or for a batch, leaves a sweep or a scan
\* behind (runSync, reconcileStaleVerdicts), for any ecosystems, any number of loops,
\* batches and handles, and any faults.
THEOREM StaleIsAlwaysMadeUp == Spec => []StaleIsReplaced
BY InitIInv, NextIInv, IInvImplies, PTL DEF Spec

\* When all is quiet, a language turned on from its project has been scanned if its cache can
\* be read (turnOnSourceForEcosystemAction), unless it outran its sweep: with none waiting, a
\* runtime that starts finds the cache readable after the sweep was claimed, too early or by
\* a worker that died or stopped with it; a batch failed; or a sync or a loop threw that had
\* the re-scan to queue.
THEOREM TurnedOnIsSwept == Spec => []TurnedOnIsScanned
BY InitIInv, NextIInv, IInvImplies, PTL DEF Spec

-----------------------------------------------------------------------------
(* GemnasiumSync. *)

OneSlot == \A i, j \in Slots : i = j

SyncRecords == [step : {"idle", "asking", "applying", "rebuild", "stream"} \cup Stamping,
            trusted : BOOLEAN, from : 0..MaxCommit, to : 0..MaxCommit,
            snap : 0..MaxCommit, listed : SUBSET Advisories, seen : SUBSET Advisories]

AskingOk(s) == s.step = "asking" => s.from = sha /\ (s.trusted => Usable)

ApplyingOk(s) ==
    s.step = "applying" =>
        /\ s.from = sha /\ s.from # NoSha /\ Usable
        /\ s.to \in 1..head
        /\ s.listed \in Listings(s.from, s.to)

RebuildOk(s) == s.step = "rebuild" => s.to \in 0..head /\ s.seen = {}

\* The rows a sync has streamed are those of the commit its archive holds.
StreamOk(s) ==
    s.step = "stream" =>
        /\ s.to \in 0..head /\ s.snap \in 1..head
        /\ s.to # NoSha => s.snap = s.to
        /\ \A a \in s.seen : rows[a] = content[s.snap][a]

\* Once the rest is purged, every row is that of the archive's commit.
StampingOk(s) ==
    s.step \in Stamping =>
        /\ s.to \in 0..head /\ s.snap \in 1..head
        /\ s.to # NoSha => s.snap = s.to
        /\ \A a \in Advisories : rows[a] = content[s.snap][a]

SyncOk(s) == AskingOk(s) /\ ApplyingOk(s) /\ RebuildOk(s) /\ StreamOk(s) /\ StampingOk(s)

FlightInv == \A i \in Slots : SyncOk(sync[i])

\* What a cache that names its commit holds, usable or not, syncs running or not.
CacheInv ==
    sha # NoSha =>
        \A a \in Advisories :
            /\ content[sha][a] # Absent => rows[a] # Absent \/ a \in torn
            /\ a \notin strays => rows[a] = content[sha][a]

\* What was purged is gone from a commit upstream reached.
TornInv == \A a \in torn : \E c \in 1..head : content[c][a] = Absent

GemIInv == GemTypeOK /\ version <= build /\ FlightInv /\ CacheInv /\ TornInv

-----------------------------------------------------------------------------

\* A sync's record has the types of its fields.
LEMMA FlightType ==
  ASSUME GemTypeOK, NEW i \in Slots
  PROVE  sync[i] \in SyncRecords
BY DEF GemTypeOK, SyncRecords

\* No sync at all is a record of the right type, and owes nothing.
LEMMA NoSyncOk == NoSync \in SyncRecords /\ NoSync.step = "idle" /\ SyncOk(NoSync)
<1>1. 0 \in 0..MaxCommit
  BY UpstreamAssumption
<1> QED
  BY <1>1 DEF NoSync, SyncRecords, SyncOk, AskingOk, ApplyingOk, RebuildOk, StreamOk, StampingOk, Stamping, NoSha

\* The one sync there is becomes s.
LEMMA OneFlight ==
  ASSUME OneSlot, GemTypeOK, NEW i \in Slots, NEW s \in SyncRecords, Goes(i, s)
  PROVE  /\ sync' \in [Slots -> SyncRecords]
         /\ \A j \in Slots : sync'[j] = s
<1>1. \A j \in Slots : j = i
  BY DEF OneSlot
<1> QED
  BY <1>1 DEF Goes, GemTypeOK

\* A listing names every file that still exists after it changed: a renamed file's old
\* place alone may be missing from it.
LEMMA ListingCovers ==
  ASSUME NEW c, NEW d, NEW listed \in Listings(c, d), NEW a \in Advisories, a \notin listed
  PROVE  content[c][a] = content[d][a] \/ (a \in Differ(c, d) /\ content[d][a] = Absent)
<1>1. CASE listed = Differ(c, d)
  BY <1>1 DEF Differ
<1>2. CASE listed # Differ(c, d)
  <2>1. PICK p \in {q \in Advisories \X Advisories : Moved(c, d, q[1], q[2])} : listed = Differ(c, d) \ {p[1]}
    BY <1>2 DEF Listings
  <2>2. content[d][p[1]] = Absent
    BY DEF Moved
  <2> QED
    BY <2>1, <2>2 DEF Differ
<1> QED
  BY <1>1, <1>2

\* A listing names changed files only.
LEMMA ListingType ==
  ASSUME NEW c, NEW d, NEW listed \in Listings(c, d)
  PROVE  listed \subseteq Advisories
BY DEF Listings, Differ

-----------------------------------------------------------------------------
(* Steps that write nothing to the cache. *)

\* A step of the sync that leaves the cache alone keeps the invariant if the sync's
\* new record satisfies it.
LEMMA SyncMoves ==
  ASSUME OneSlot, GemIInv, NEW i \in Slots, NEW s \in SyncRecords, Goes(i, s), SyncOk(s),
         UNCHANGED <<head, content, build, rows, seedComplete, version, sha, strays, torn>>,
         breaks' \in 0..MaxBreaks
  PROVE  GemIInv'
<1>1. sync' \in [Slots -> SyncRecords] /\ \A j \in Slots : sync'[j] = s
  BY OneFlight DEF GemIInv
<1>2. GemTypeOK'
  BY <1>1 DEF GemIInv, GemTypeOK, SyncRecords
<1>3. SyncOk(s)'
  BY DEF SyncOk, AskingOk, ApplyingOk, RebuildOk, StreamOk, StampingOk, Stamping, Usable, Listings, Differ, Moved
<1>4. FlightInv'
  BY <1>1, <1>3 DEF FlightInv, SyncOk, AskingOk, ApplyingOk, RebuildOk, StreamOk, StampingOk, Stamping
<1>5. CacheInv' /\ TornInv'
  BY DEF GemIInv, CacheInv, TornInv
<1> QED
  BY <1>2, <1>4, <1>5 DEF GemIInv

\* A step by which a sync ends with nothing written, failed or not.
LEMMA EndStep ==
  ASSUME OneSlot, GemIInv, NEW i \in Slots, HeadUnchanged(i) \/ IncrementFails(i) \/ RebuildFails(i)
  PROVE  GemIInv'
<1>1. /\ Goes(i, NoSync)
      /\ UNCHANGED <<head, content, build, rows, seedComplete, version, sha, strays, torn>>
  BY DEF HeadUnchanged, IncrementFails, RebuildFails, upstream, meta
<1>2. breaks' \in 0..MaxBreaks
  BY BreaksAssumption DEF HeadUnchanged, IncrementFails, RebuildFails, Breaks, GemIInv, GemTypeOK
<1> QED
  BY <1>1, <1>2, NoSyncOk, SyncMoves

\* A sync trusts the metadata it reads, and nothing else changes it meanwhile.
LEMMA BeginStep ==
  ASSUME OneSlot, GemIInv, NEW i \in Slots, Begin(i)
  PROVE  GemIInv'
<1> DEFINE s == [NoSync EXCEPT !.step = "asking", !.trusted = Usable, !.from = sha]
<1>1. sha \in 0..MaxCommit /\ Usable \in BOOLEAN
  BY UpstreamAssumption DEF GemIInv, GemTypeOK, Commits, Usable
<1>2. s \in SyncRecords /\ s.step = "asking" /\ s.from = sha /\ (s.trusted => Usable)
  BY <1>1, NoSyncOk DEF NoSync, SyncRecords
<1>3. SyncOk(s)
  BY <1>2 DEF SyncOk, AskingOk, ApplyingOk, RebuildOk, StreamOk, StampingOk, Stamping
<1>4. /\ Goes(i, s) /\ breaks' \in 0..MaxBreaks
      /\ UNCHANGED <<head, content, build, rows, seedComplete, version, sha, strays, torn>>
  BY DEF Begin, upstream, meta, GemIInv, GemTypeOK
<1> HIDE DEF s
<1> QED
  BY <1>2, <1>3, <1>4, SyncMoves

\* The listing an increment works from starts at the cache's commit.
LEMMA StartIncrementStep ==
  ASSUME OneSlot, GemIInv, NEW i \in Slots, StartIncrement(i)
  PROVE  GemIInv'
<1>1. PICK listed \in Listings(sync[i].from, head) \ {{}} :
        Goes(i, [sync[i] EXCEPT !.step = "applying", !.to = head, !.listed = listed])
  BY DEF StartIncrement
<1> DEFINE s == [sync[i] EXCEPT !.step = "applying", !.to = head, !.listed = listed]
<1>2. sync[i] \in SyncRecords /\ sync[i].step = "asking" /\ AskingOk(sync[i]) /\ Comparable(i)
  BY FlightType DEF StartIncrement, GemIInv, FlightInv, SyncOk
<1>3. head \in 1..head /\ head \in 0..MaxCommit
  BY UpstreamAssumption DEF GemIInv, GemTypeOK, Commits
<1>4. /\ s \in SyncRecords /\ s.step = "applying" /\ s.from = sync[i].from
      /\ s.to = head /\ s.listed = listed
  BY <1>2, <1>3, ListingType DEF SyncRecords
<1>5. SyncOk(s)
  BY <1>1, <1>2, <1>3, <1>4 DEF SyncOk, AskingOk, ApplyingOk, RebuildOk, StreamOk, StampingOk, Stamping, Comparable
<1>6. /\ Goes(i, s) /\ breaks' \in 0..MaxBreaks
      /\ UNCHANGED <<head, content, build, rows, seedComplete, version, sha, strays, torn>>
  BY <1>1 DEF StartIncrement, upstream, meta, GemIInv, GemTypeOK
<1> HIDE DEF s
<1> QED
  BY <1>4, <1>5, <1>6, SyncMoves

\* A rebuild is bound to a commit upstream has reached, or to none.
LEMMA StartRebuildStep ==
  ASSUME OneSlot, GemIInv, NEW i \in Slots, StartRebuild(i)
  PROVE  GemIInv'
<1>1. PICK to \in {NoSha, head} :
        /\ Comparable(i) \/ to = NoSha => Breaks
        /\ ~(Comparable(i) \/ to = NoSha) => UNCHANGED breaks
        /\ Goes(i, [NoSync EXCEPT !.step = "rebuild", !.to = to])
  BY DEF StartRebuild
<1> DEFINE s == [NoSync EXCEPT !.step = "rebuild", !.to = to]
<1>2. to \in 0..head /\ to \in 0..MaxCommit
  BY UpstreamAssumption DEF GemIInv, GemTypeOK, Commits, NoSha
<1>3. s \in SyncRecords /\ s.step = "rebuild" /\ s.to = to /\ s.seen = {}
  BY <1>2, NoSyncOk DEF NoSync, SyncRecords
<1>4. SyncOk(s)
  BY <1>2, <1>3 DEF SyncOk, AskingOk, ApplyingOk, RebuildOk, StreamOk, StampingOk, Stamping
<1>5. breaks' \in 0..MaxBreaks
  BY <1>1, BreaksAssumption DEF Breaks, GemIInv, GemTypeOK
<1>6. Goes(i, s) /\ UNCHANGED <<head, content, build, rows, seedComplete, version, sha, strays, torn>>
  BY <1>1 DEF StartRebuild, upstream, meta
<1> HIDE DEF s
<1> QED
  BY <1>3, <1>4, <1>5, <1>6, SyncMoves

\* The archive opens at the commit the rebuild is bound to, or at the branch.
LEMMA OpenArchiveStep ==
  ASSUME OneSlot, GemIInv, NEW i \in Slots, OpenArchive(i)
  PROVE  GemIInv'
<1> DEFINE snap == IF sync[i].to = NoSha THEN head ELSE sync[i].to
           s == [sync[i] EXCEPT !.step = "stream", !.snap = snap]
<1>1. sync[i] \in SyncRecords /\ RebuildOk(sync[i]) /\ sync[i].step = "rebuild"
  BY FlightType DEF OpenArchive, GemIInv, FlightInv, SyncOk
<1>2. head \in 1..MaxCommit /\ snap \in 1..head /\ snap \in 0..MaxCommit
  BY <1>1, UpstreamAssumption DEF RebuildOk, GemIInv, GemTypeOK, Commits, NoSha
<1>3. /\ s \in SyncRecords /\ s.step = "stream" /\ s.to = sync[i].to /\ s.snap = snap /\ s.seen = {}
      /\ s.to \in 0..head
  BY <1>1, <1>2 DEF SyncRecords, RebuildOk
<1>4. SyncOk(s)
  BY <1>2, <1>3 DEF SyncOk, AskingOk, ApplyingOk, RebuildOk, StreamOk, StampingOk, Stamping
<1>5. /\ Goes(i, s) /\ breaks' \in 0..MaxBreaks
      /\ UNCHANGED <<head, content, build, rows, seedComplete, version, sha, strays, torn>>
  BY DEF OpenArchive, upstream, meta, GemIInv, GemTypeOK
<1> HIDE DEF s, snap
<1> QED
  BY <1>3, <1>4, <1>5, SyncMoves

-----------------------------------------------------------------------------
(* Steps that write to the cache. *)

\* What an increment's rows, or none, bring a cache of commit c to.
LEMMA Caught ==
  ASSUME GemIInv, sha # NoSha, NEW d \in 1..head, NEW listed \in Listings(sha, d),
         NEW a \in Advisories, NEW new,
         new = IF a \in listed THEN content[d][a] ELSE rows[a]
  PROVE  /\ content[d][a] # Absent => new # Absent \/ a \in torn \ listed
         /\ a \notin (strays \cup Differ(sha, d)) \ listed => new = content[d][a]
<1>1. CASE a \in listed
  BY <1>1
<1>2. CASE a \notin listed
  <2>1. content[sha][a] = content[d][a] \/ (a \in Differ(sha, d) /\ content[d][a] = Absent)
    BY <1>2, ListingCovers
  <2> QED
    BY <1>2, <2>1 DEF GemIInv, CacheInv, Differ
<1> QED
  BY <1>1, <1>2

\* The one sync ends, and writes rows that suit the commit it records.
LEMMA WriteStep ==
  ASSUME OneSlot, GemIInv, NEW i \in Slots, Goes(i, NoSync),
         UNCHANGED <<head, content, build, breaks>>,
         rows' \in Rows, seedComplete' \in BOOLEAN, version' \in {version, build},
         sha' \in 0..head, strays' \subseteq Advisories, torn' \subseteq torn,
         CacheInv'
  PROVE  GemIInv'
<1>1. sync' \in [Slots -> SyncRecords] /\ \A j \in Slots : sync'[j] = NoSync
  BY NoSyncOk, OneFlight DEF GemIInv
<1>2. GemTypeOK' /\ version' <= build'
  BY <1>1, BreaksAssumption DEF GemIInv, GemTypeOK, SyncRecords
<1>3. FlightInv'
  BY <1>1, NoSyncOk DEF FlightInv, SyncOk, AskingOk, ApplyingOk, RebuildOk, StreamOk, StampingOk, Stamping
<1>4. TornInv'
  BY DEF GemIInv, TornInv
<1> QED
  BY <1>2, <1>3, <1>4 DEF GemIInv

\* Nothing listed concerns this cache: only the commit moves.
LEMMA NothingListedStep ==
  ASSUME OneSlot, GemIInv, NEW i \in Slots, NothingListed(i)
  PROVE  GemIInv'
<1>1. /\ sync[i].from = sha /\ sha # NoSha /\ Usable /\ {} \in Listings(sha, head)
      /\ sha' = head /\ strays' = strays \cup Differ(sha, head) /\ Goes(i, NoSync)
      /\ UNCHANGED <<head, content, build, rows, seedComplete, version, torn, breaks>>
  BY DEF NothingListed, Comparable, upstream, GemIInv, FlightInv, SyncOk, AskingOk
<1>2. head \in 1..head /\ head \in 0..head
  BY UpstreamAssumption DEF GemIInv, GemTypeOK, Commits
<1>3. rows' \in Rows /\ seedComplete' \in BOOLEAN /\ strays' \subseteq Advisories
  BY <1>1 DEF GemIInv, GemTypeOK, Differ
<1>4. CacheInv'
  <2> SUFFICES ASSUME NEW a \in Advisories
               PROVE  /\ content[head][a] # Absent => rows[a] # Absent \/ a \in torn
                      /\ a \notin strays \cup Differ(sha, head) => rows[a] = content[head][a]
    BY <1>1 DEF CacheInv
  <2> QED
    BY <1>1, <1>2, Caught
<1> QED
  BY <1>1, <1>2, <1>3, <1>4, WriteStep

\* The listed files' rows and the commit are published together.
LEMMA ApplyIncrementStep ==
  ASSUME OneSlot, GemIInv, NEW i \in Slots, ApplyIncrement(i)
  PROVE  GemIInv'
<1> DEFINE listed == sync[i].listed
           to == sync[i].to
<1>1. /\ sync[i].from = sha /\ sha # NoSha /\ Usable /\ listed \in Listings(sha, to) /\ to \in 1..head
      /\ rows' = [a \in Advisories |-> IF a \in listed THEN content[to][a] ELSE rows[a]]
      /\ sha' = to /\ strays' = (strays \cup Differ(sha, to)) \ listed /\ torn' = torn \ listed
      /\ Goes(i, NoSync)
      /\ UNCHANGED <<head, content, build, seedComplete, version, breaks>>
  BY DEF ApplyIncrement, upstream, GemIInv, FlightInv, SyncOk, ApplyingOk
<1> HIDE DEF listed, to
<1>2. to \in Commits /\ to \in 0..head
  BY <1>1, UpstreamAssumption DEF GemIInv, GemTypeOK, Commits
<1>3. rows' \in Rows /\ seedComplete' \in BOOLEAN /\ strays' \subseteq Advisories
  BY <1>1, <1>2 DEF GemIInv, GemTypeOK, Rows, Differ
<1>4. CacheInv'
  <2> SUFFICES ASSUME NEW a \in Advisories
               PROVE  /\ content[to][a] # Absent => rows'[a] # Absent \/ a \in torn \ listed
                      /\ a \notin (strays \cup Differ(sha, to)) \ listed => rows'[a] = content[to][a]
    BY <1>1 DEF CacheInv
  <2>1. rows'[a] = IF a \in listed THEN content[to][a] ELSE rows[a]
    BY <1>1
  <2> QED
    BY <1>1, <2>1, Caught
<1> QED
  BY <1>1, <1>2, <1>3, <1>4, WriteStep

\* A batch is of files that exist, and its rows may be of another commit: strays.
LEMMA StreamBatchStep ==
  ASSUME OneSlot, GemIInv, NEW i \in Slots, StreamBatch(i)
  PROVE  GemIInv'
<1>1. PICK batch \in SUBSET (Archive(i) \ sync[i].seen) \ {{}} :
        /\ rows' = [a \in Advisories |-> IF a \in batch THEN content[sync[i].snap][a] ELSE rows[a]]
        /\ strays' = strays \cup batch
        /\ torn' = torn \ batch
        /\ Goes(i, [sync[i] EXCEPT !.seen = @ \cup batch])
  BY DEF StreamBatch
<1> DEFINE s == [sync[i] EXCEPT !.seen = @ \cup batch]
<1>2. UNCHANGED <<head, content, build, seedComplete, version, sha, breaks>>
  BY DEF StreamBatch, upstream, meta
<1>3. sync[i] \in SyncRecords /\ sync[i].step = "stream" /\ StreamOk(sync[i])
  BY FlightType DEF StreamBatch, GemIInv, FlightInv, SyncOk
<1>4. batch \subseteq Advisories /\ \A a \in batch : content[sync[i].snap][a] # Absent
  BY DEF Archive
<1>5. /\ s \in SyncRecords /\ s.step = "stream" /\ s.to = sync[i].to /\ s.snap = sync[i].snap
      /\ s.seen = sync[i].seen \cup batch /\ sync[i].seen \subseteq Advisories
  BY <1>3, <1>4 DEF SyncRecords
<1>6. s.snap \in Commits
  BY <1>3, <1>5, UpstreamAssumption DEF StreamOk, GemIInv, GemTypeOK, Commits
<1>7. \A a \in s.seen : rows'[a] = content[s.snap][a]
  <2> SUFFICES ASSUME NEW a \in s.seen
               PROVE  rows'[a] = content[sync[i].snap][a]
    BY <1>5
  <2>1. a \in Advisories /\ rows'[a] = IF a \in batch THEN content[sync[i].snap][a] ELSE rows[a]
    BY <1>1, <1>4, <1>5
  <2>2. a \notin batch => rows[a] = content[sync[i].snap][a]
    BY <1>3, <1>5 DEF StreamOk
  <2> QED
    BY <2>1, <2>2
<1>8. Goes(i, s)
  BY <1>1
<1> HIDE DEF s
<1>9. sync' \in [Slots -> SyncRecords] /\ \A j \in Slots : sync'[j] = s
  BY <1>5, <1>8, OneFlight DEF GemIInv
<1>10. GemTypeOK'
  <2>1. rows' \in Rows
    BY <1>1, <1>5, <1>6 DEF GemIInv, GemTypeOK, Rows
  <2> QED
    BY <1>1, <1>2, <1>4, <1>9, <2>1 DEF GemIInv, GemTypeOK, SyncRecords
<1>11. FlightInv'
  BY <1>2, <1>3, <1>5, <1>7, <1>9 DEF FlightInv, SyncOk, AskingOk, ApplyingOk, RebuildOk, StreamOk, StampingOk, Stamping
<1>12. CacheInv' /\ TornInv'
  BY <1>1, <1>2, <1>4 DEF CacheInv, TornInv, GemIInv
<1> QED
  BY <1>2, <1>10, <1>11, <1>12 DEF GemIInv

\* The whole archive has been streamed and the rest goes: strays, and torn.
LEMMA PurgeStep ==
  ASSUME OneSlot, GemIInv, NEW i \in Slots, Purge(i)
  PROVE  GemIInv'
<1> DEFINE s == [sync[i] EXCEPT !.step = "purged"]
<1>1. sync[i] \in SyncRecords /\ sync[i].step = "stream" /\ StreamOk(sync[i]) /\ sync[i].seen = Archive(i)
  BY FlightType DEF Purge, GemIInv, FlightInv, SyncOk
<1>2. /\ rows' = Purged(i) /\ strays' = strays \cup Unseen(i) /\ torn' = torn \cup Unseen(i) /\ Goes(i, s)
      /\ UNCHANGED <<head, content, build, seedComplete, version, sha, breaks>>
  BY DEF Purge, upstream, meta
<1>3. \A a \in Advisories : rows'[a] = content[sync[i].snap][a]
  BY <1>1, <1>2 DEF Purged, StreamOk, Archive
<1>4. /\ s \in SyncRecords /\ s.step = "purged" /\ s.to = sync[i].to /\ s.snap = sync[i].snap
  BY <1>1 DEF SyncRecords, Stamping
<1> HIDE DEF s
<1>5. sync' \in [Slots -> SyncRecords] /\ \A j \in Slots : sync'[j] = s
  BY <1>2, <1>4, OneFlight DEF GemIInv
<1>6. rows' \in Rows /\ Unseen(i) \subseteq Advisories
  BY <1>2, UpstreamAssumption DEF Purged, Unseen, GemIInv, GemTypeOK, Rows, Absent
<1>7. GemTypeOK'
  BY <1>2, <1>5, <1>6 DEF GemIInv, GemTypeOK, SyncRecords
<1>8. FlightInv'
  BY <1>1, <1>2, <1>3, <1>4, <1>5
  DEF FlightInv, SyncOk, AskingOk, ApplyingOk, RebuildOk, StreamOk, StampingOk, Stamping
<1>9. CacheInv'
  BY <1>1, <1>2 DEF CacheInv, GemIInv, Purged, Unseen
<1>10. TornInv'
  <2> SUFFICES ASSUME NEW a \in Unseen(i)
               PROVE  \E c \in 1..head : content[c][a] = Absent
    BY <1>2 DEF TornInv, GemIInv
  <2> QED
    BY <1>1 DEF Unseen, Archive, StreamOk
<1> QED
  BY <1>2, <1>7, <1>8, <1>9, <1>10 DEF GemIInv

\* The flags are stamped one after the other; neither tells the cache's commit.
LEMMA StampStep ==
  ASSUME OneSlot, GemIInv, NEW i \in Slots, StampSeed(i) \/ StampVersion(i)
  PROVE  GemIInv'
<1>1. PICK step \in Stamping : Goes(i, [sync[i] EXCEPT !.step = step])
  BY DEF StampSeed, StampVersion, Stamping
<1> DEFINE s == [sync[i] EXCEPT !.step = step]
<1>2. /\ seedComplete' \in BOOLEAN /\ version' \in {version, build}
      /\ UNCHANGED <<head, content, build, rows, sha, strays, torn, breaks>>
  BY DEF StampSeed, StampVersion, upstream, GemIInv, GemTypeOK
<1>3. sync[i] \in SyncRecords /\ sync[i].step \in Stamping /\ StampingOk(sync[i])
  BY FlightType DEF StampSeed, StampVersion, Stamping, GemIInv, FlightInv, SyncOk
<1>4. s \in SyncRecords /\ s.step \in Stamping /\ s.to = sync[i].to /\ s.snap = sync[i].snap
  BY <1>3 DEF SyncRecords, Stamping
<1>5. Goes(i, s)
  BY <1>1
<1> HIDE DEF s
<1>6. sync' \in [Slots -> SyncRecords] /\ \A j \in Slots : sync'[j] = s
  BY <1>4, <1>5, OneFlight DEF GemIInv
<1>7. GemTypeOK' /\ version' <= build'
  BY <1>2, <1>6, BreaksAssumption DEF GemIInv, GemTypeOK, SyncRecords
<1>8. FlightInv'
  BY <1>2, <1>3, <1>4, <1>6
  DEF FlightInv, SyncOk, AskingOk, ApplyingOk, RebuildOk, StreamOk, StampingOk, Stamping
<1>9. CacheInv' /\ TornInv'
  BY <1>2 DEF CacheInv, TornInv, GemIInv
<1> QED
  BY <1>7, <1>8, <1>9 DEF GemIInv

\* The meta name the commit the rows are of at last: no strays, and nothing torn.
LEMMA StampHeadStep ==
  ASSUME OneSlot, GemIInv, NEW i \in Slots, StampHead(i)
  PROVE  GemIInv'
<1>1. StampingOk(sync[i]) /\ sync[i].step \in Stamping
  BY DEF StampHead, Stamping, GemIInv, FlightInv, SyncOk
<1>2. /\ sha' = sync[i].to /\ strays' = {} /\ torn' = {} /\ Goes(i, NoSync)
      /\ UNCHANGED <<head, content, build, rows, seedComplete, version, breaks>>
  BY DEF StampHead, upstream
<1>3. sync[i].to \in 0..head
  BY <1>1 DEF StampingOk
<1>4. rows' \in Rows /\ seedComplete' \in BOOLEAN /\ version' \in {version, build}
  BY <1>2 DEF GemIInv, GemTypeOK
<1>5. CacheInv'
  BY <1>1, <1>2 DEF CacheInv, StampingOk
<1> QED
  BY <1>2, <1>3, <1>4, <1>5, WriteStep

-----------------------------------------------------------------------------
(* Upstream and the process. *)

\* A new commit upstream changes nothing of the older ones.
LEMMA HeadMovesStep ==
  ASSUME GemIInv, HeadMoves
  PROVE  GemIInv'
<1>1. /\ head \in 1..MaxCommit /\ head < MaxCommit /\ head' = head + 1
      /\ UNCHANGED <<content, build, rows, seedComplete, version, sha, sync, strays, torn, breaks>>
  BY DEF HeadMoves, meta, GemIInv, GemTypeOK, Commits
<1>2. GemTypeOK'
  <2>1. head' \in Commits /\ sha' \in 0..head'
    BY <1>1, UpstreamAssumption DEF GemIInv, GemTypeOK, Commits
  <2> QED
    BY <1>1, <2>1 DEF GemIInv, GemTypeOK
<1>3. ASSUME NEW i \in Slots PROVE SyncOk(sync[i])'
  <2>1. SyncOk(sync[i])
    BY DEF GemIInv, FlightInv
  <2>2. \A n : n \in 0..head => n \in 0..head'
    BY <1>1, UpstreamAssumption
  <2>3. \A n : n \in 1..head => n \in 1..head'
    BY <1>1, UpstreamAssumption
  <2> QED
    BY <1>1, <2>1, <2>2, <2>3
    DEF SyncOk, AskingOk, ApplyingOk, RebuildOk, StreamOk, StampingOk, Stamping, Usable, Listings, Differ, Moved
<1>4. CacheInv'
  BY <1>1 DEF CacheInv, GemIInv
<1>5. TornInv'
  <2>1. \A n : n \in 1..head => n \in 1..head'
    BY <1>1, UpstreamAssumption
  <2> QED
    BY <1>1, <2>1 DEF TornInv, GemIInv
<1> QED
  BY <1>1, <1>2, <1>3, <1>4, <1>5 DEF GemIInv, FlightInv

\* A restart ends the sync; under a newer normalizer the cache is unusable.
LEMMA RestartStep ==
  ASSUME GemIInv, Restart
  PROVE  GemIInv'
<1>1. /\ sync' = [i \in Slots |-> NoSync]
      /\ UNCHANGED <<head, content, rows, seedComplete, version, sha, strays, torn>>
  BY DEF Restart, upstream, meta
<1>2. build' \in 1..MaxBuild /\ build' >= build /\ breaks' \in 0..MaxBreaks
  BY BreaksAssumption DEF Restart, Breaks, GemIInv, GemTypeOK
<1>3. sync' \in [Slots -> SyncRecords] /\ \A i \in Slots : sync'[i] = NoSync
  BY <1>1, NoSyncOk
<1>4. GemTypeOK'
  BY <1>1, <1>2, <1>3 DEF GemIInv, GemTypeOK, SyncRecords
<1>5. FlightInv'
  BY <1>3, NoSyncOk DEF FlightInv, SyncOk, AskingOk, ApplyingOk, RebuildOk, StreamOk, StampingOk, Stamping
<1>6. version' <= build'
  BY <1>1, <1>2, BreaksAssumption DEF GemIInv, GemTypeOK
<1>7. CacheInv' /\ TornInv'
  BY <1>1 DEF CacheInv, TornInv, GemIInv
<1> QED
  BY <1>4, <1>5, <1>6, <1>7 DEF GemIInv

\* An empty cache satisfies the invariant.
LEMMA GemInitIInv ==
  ASSUME GemInit
  PROVE  GemIInv
<1> USE UpstreamAssumption, BreaksAssumption
<1>1. /\ head \in Commits /\ content \in [Commits -> Rows] /\ build \in 1..MaxBuild /\ build = 1
      /\ rows \in Rows /\ version \in 0..MaxBuild /\ version = 0 /\ sha \in 0..head /\ breaks \in 0..MaxBreaks
  BY DEF GemInit, Commits, Rows, NoRows, Absent, NoSha
<1>2. seedComplete = FALSE /\ sha = NoSha /\ strays = {} /\ torn = {} /\ \A i \in Slots : sync[i] = NoSync
  BY DEF GemInit
<1>3. sync \in [Slots -> SyncRecords]
  BY NoSyncOk DEF GemInit
<1>4. GemTypeOK
  BY <1>1, <1>2, <1>3 DEF GemTypeOK, SyncRecords
<1>5. FlightInv
  BY <1>2, NoSyncOk DEF FlightInv
<1>6. CacheInv /\ TornInv
  BY <1>2 DEF CacheInv, TornInv
<1> QED
  BY <1>1, <1>4, <1>5, <1>6 DEF GemIInv

\* Every step keeps it.
LEMMA GemNextIInv ==
  ASSUME OneSlot, GemIInv, [GemNext]_gemVars
  PROVE  GemIInv'
<1>1. ASSUME NEW i \in Slots, Step(i) PROVE GemIInv'
  BY <1>1, BeginStep, EndStep, NothingListedStep, StartIncrementStep, StartRebuildStep,
     ApplyIncrementStep, OpenArchiveStep, StreamBatchStep, PurgeStep, StampStep, StampHeadStep DEF Step
<1>2. CASE HeadMoves
  BY <1>2, HeadMovesStep
<1>3. CASE Restart
  BY <1>3, RestartStep
<1>4. CASE UNCHANGED gemVars
  BY <1>4 DEF gemVars, upstream, meta, GemIInv, GemTypeOK, FlightInv, SyncOk, AskingOk, ApplyingOk,
              RebuildOk, StreamOk, StampingOk, Stamping, CacheInv, TornInv, Usable, Listings, Differ, Moved
<1> QED
  BY <1>1, <1>2, <1>3, <1>4 DEF GemNext

-----------------------------------------------------------------------------

\* The cache, its metadata and the running sync keep their types, whatever upstream
\* commits and wherever a sync fails (gemnasium-sync.ts).
THEOREM GemTypeCorrect == OneSlot => (GemSpec => []GemTypeOK)
<1> SUFFICES ASSUME OneSlot
             PROVE  GemSpec => []GemTypeOK
  OBVIOUS
<1>1. GemInit => GemIInv
  BY GemInitIInv
<1>2. GemIInv /\ [GemNext]_gemVars => GemIInv'
  BY GemNextIInv
<1>3. GemIInv => GemTypeOK
  BY DEF GemIInv
<1> QED
  BY <1>1, <1>2, <1>3, PTL DEF GemSpec

\* Every advisory live at the recorded commit has a row, even while a rebuild streams
\* over the cache and after one broke off, because rows are purged only once the whole
\* archive is in (rebuildGemnasium); all that can be missing is what a rebuild purged
\* whose commit is not recorded yet, or never was, and a commit reached does not hold it.
THEOREM NoLiveAdvisoryIsLost == OneSlot => (GemSpec => []LiveAdvisoriesHaveRows)
<1> SUFFICES ASSUME OneSlot
             PROVE  GemSpec => []LiveAdvisoriesHaveRows
  OBVIOUS
<1>1. GemInit => GemIInv
  BY GemInitIInv
<1>2. GemIInv /\ [GemNext]_gemVars => GemIInv'
  BY GemNextIInv
<1>3. GemIInv => LiveAdvisoriesHaveRows
  BY DEF GemIInv, CacheInv, TornInv, LiveAdvisoriesHaveRows
<1> QED
  BY <1>1, <1>2, <1>3, PTL DEF GemSpec

\* The rows are those of the recorded commit, but for the strays, so the next compare
\* starts where the last sync ended (incrementalSyncGemnasium, rebuildGemnasium), however
\* many rebuilds failed or died between their purge and their last stamp.
THEOREM RowsAreTheCommits == OneSlot => (GemSpec => []RowsMatchSha)
<1> SUFFICES ASSUME OneSlot
             PROVE  GemSpec => []RowsMatchSha
  OBVIOUS
<1>1. GemInit => GemIInv
  BY GemInitIInv
<1>2. GemIInv /\ [GemNext]_gemVars => GemIInv'
  BY GemNextIInv
<1>3. GemIInv => RowsMatchSha
  BY DEF GemIInv, CacheInv, RowsMatchSha
<1> QED
  BY <1>1, <1>2, <1>3, PTL DEF GemSpec
=============================================================================
