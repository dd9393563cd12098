----------------------- MODULE FindingLifecycleProofs -----------------------
(* Proofs about FindingLifecycle, for any number of manifests, advisories,  *)
(* sources and overlapping scans.  What a scan leaves behind is only true   *)
(* while scans do not overlap: the last part is about one scan at a time.   *)
EXTENDS FindingLifecycle, FiniteSetTheorems, TLAPS

-----------------------------------------------------------------------------
(* The inductive invariant. *)

\* The rows an older release left open twice never recorded an installation.
SoundRows(rows) ==
  \/ SingleOpen(rows)
  \/ Legacy /\ OpenOnes(rows) = {1, 2} /\ rows[2].copies = {}

EpisodesSound == \A i \in Sources \X Advisories : SoundRows(episodes[i])

IInv == TypeOK /\ EpisodesSound

\* When the operator switches nothing during a scan, a scan runs what is on.
RunsWhatIsOn ==
  ~MidScan => \A k \in Slots : scan[k].step # "idle" => scan[k].runnable = enabled

\* Whatever an open row knew of an unread manifest, it still knows, and is open.
UnreadKept(rows, new, unread) ==
  \A n \in OpenOnes(rows) : \A m \in rows[n].copies \cap unread :
    n \in OpenOnes(new) /\ m \in new[n].copies

-----------------------------------------------------------------------------
(* The rows of one identity. *)

\* Rewriting every row of a table in place gives a table of the same length.
LEMMA InPlace ==
  ASSUME NEW rows \in Seq(Episode), NEW g \in [DOMAIN rows -> Episode]
  PROVE  g \in Seq(Episode) /\ DOMAIN g = DOMAIN rows
<1>1. Len(rows) \in Nat /\ DOMAIN rows = 1..Len(rows)
  OBVIOUS
<1>2. g \in [1..Len(rows) -> Episode]
  BY <1>1
<1> QED
  BY <1>1, <1>2

\* Rows are numbered from one and each is an episode.
LEMMA RowsAreEpisodes ==
  ASSUME NEW rows \in Seq(Episode)
  PROVE  /\ DOMAIN rows \subseteq Nat
         /\ \A n \in DOMAIN rows : rows[n] \in Episode
         /\ OpenOnes(rows) \subseteq DOMAIN rows
  BY DEF OpenOnes

\* Among the open rows of an identity one is the oldest.
LEMMA OldestIsOpen ==
  ASSUME NEW rows \in Seq(Episode), SoundRows(rows), OpenOnes(rows) # {}
  PROVE  /\ pickOldestRow(OpenOnes(rows)) \in OpenOnes(rows)
         /\ OpenOnes(rows) = {1, 2} => pickOldestRow(OpenOnes(rows)) = 1
<1> DEFINE N == OpenOnes(rows)
<1>1. N \subseteq Nat
  BY RowsAreEpisodes
<1>2. \E n \in N : \A other \in N : n <= other
  <2>1. CASE SingleOpen(rows)
    BY <1>1, <2>1 DEF SingleOpen
  <2>2. CASE OpenOnes(rows) = {1, 2}
    BY <2>2
  <2> QED
    BY <2>1, <2>2 DEF SoundRows
<1>3. pickOldestRow(N) \in N /\ \A other \in N : pickOldestRow(N) <= other
  BY <1>2 DEF pickOldestRow
<1>4. N = {1, 2} => pickOldestRow(N) = 1
  BY <1>3
<1> QED
  BY <1>3, <1>4

\* A continuing or resolved row is an episode; a resolved one is closed.
LEMMA RowSteps ==
  ASSUME NEW row \in Episode, NEW s \in Sources,
         NEW seen \in SUBSET Manifests, NEW unread \in SUBSET Manifests
  PROVE  /\ Continued(row, s, seen, unread) \in Episode
         /\ Continued(row, s, seen, unread).open <=> row.open
         /\ Continued(row, s, seen, unread).copies = seen \cup (row.copies \cap unread)
         /\ resolveFindingRow(row) \in Episode
         /\ ~resolveFindingRow(row).open
         /\ resolveFindingRow(row).copies = row.copies
         /\ Opened(s, seen) \in Episode
         /\ Opened(s, seen).open
<1>1. Grade[s] \in Severities
  BY ConstantsAssumption
<1>2. Unsettled \in Fix
  BY DEF Unsettled, Fix
<1> QED
  BY <1>1, <1>2 DEF Continued, withRetainedCopies, resolveFindingRow, Opened, Episode

\* A report leaves the table sound: one open row, nothing lost, and the row that
\* was open before stays, with its unread copies, unless it was a duplicate.
LEMMA ReportedRows ==
  ASSUME NEW rows \in Seq(Episode), SoundRows(rows), NEW s \in Sources,
         NEW seen \in SUBSET Manifests, NEW unread \in SUBSET Manifests,
         NEW new, new = MergeReported(rows, s, seen, unread)
  PROVE  /\ new \in Seq(Episode)
         /\ SoundRows(new) /\ OpenOnes(new) # {}
         /\ UnreadKept(rows, new, unread)
<1>1. CASE OpenOnes(rows) = {}
  <2> DEFINE row == Opened(s, seen)
  <2>1. new = Append(rows, row) /\ row \in Episode /\ row.open
    <3>1. new = Append(rows, row)
      BY <1>1 DEF MergeReported
    <3>2. Grade[s] \in Severities
      BY ConstantsAssumption
    <3> QED
      BY <3>1, <3>2 DEF Opened, Episode, Fix, Unsettled
  <2>2. /\ new \in Seq(Episode) /\ DOMAIN new = DOMAIN rows \cup {Len(rows) + 1}
        /\ new[Len(rows) + 1] = row
        /\ \A n \in DOMAIN rows : new[n] = rows[n]
    <3> HIDE DEF row
    <3>1. new = Append(rows, row) /\ row \in Episode
      BY <2>1
    <3>2. Len(rows) \in Nat /\ DOMAIN rows = 1..Len(rows)
      OBVIOUS
    <3>3. new \in Seq(Episode) /\ Len(new) = Len(rows) + 1
      BY <3>1
    <3>4. DOMAIN new = 1..(Len(rows) + 1)
      BY <3>3
    <3>5. \A n \in 1..(Len(rows) + 1) : new[n] = IF n <= Len(rows) THEN rows[n] ELSE row
      BY <3>1
    <3> QED
      BY <3>2, <3>3, <3>4, <3>5
  <2>3. OpenOnes(new) = {Len(rows) + 1}
    BY <1>1, <2>1, <2>2 DEF OpenOnes
  <2> QED
    BY <1>1, <2>2, <2>3 DEF SoundRows, SingleOpen, UnreadKept
<1>2. CASE OpenOnes(rows) # {}
  <2> DEFINE open == OpenOnes(rows)
             old  == pickOldestRow(open)
  <2>1. old \in open /\ (open = {1, 2} => old = 1)
    BY <1>2, OldestIsOpen
  <2>2. \A n \in DOMAIN rows : rows[n] \in Episode /\ DOMAIN rows \subseteq Nat
    BY RowsAreEpisodes
  <2>3. new = [n \in DOMAIN rows |->
                 IF n \notin open THEN rows[n]
                 ELSE IF n = old THEN Continued(rows[n], s, seen, unread)
                 ELSE resolveFindingRow(rows[n])]
    BY <1>2 DEF MergeReported
  <2>4. new \in [DOMAIN rows -> Episode]
    <3>1. \A n \in DOMAIN rows : /\ Continued(rows[n], s, seen, unread) \in Episode
                                 /\ resolveFindingRow(rows[n]) \in Episode
      BY <2>2, RowSteps
    <3> QED
      BY <2>2, <2>3, <3>1
  <2>5. new \in Seq(Episode) /\ DOMAIN new = DOMAIN rows
    BY <2>4, InPlace
  <2>6. OpenOnes(new) = {old}
    <3>1. \A n \in DOMAIN rows : new[n].open <=> n = old
      <4>1. \A n \in DOMAIN rows :
               /\ Continued(rows[n], s, seen, unread).open <=> rows[n].open
               /\ ~resolveFindingRow(rows[n]).open
        <5> TAKE n \in DOMAIN rows
        <5>1. rows[n] \in Episode
          BY <2>2
        <5> QED
          BY <5>1, RowSteps
      <4>2. \A n \in DOMAIN rows : n \in open <=> rows[n].open
        BY DEF OpenOnes
      <4> HIDE DEF open, old
      <4> QED
        BY <2>1, <2>3, <4>1, <4>2
    <3>2. old \in DOMAIN rows
      BY <2>1 DEF OpenOnes
    <3> QED
      BY <2>5, <3>1, <3>2 DEF OpenOnes
  <2>7. \A n \in open : \A m \in rows[n].copies \cap unread : n = old /\ m \in new[n].copies
    <3> SUFFICES ASSUME NEW n \in open, NEW m \in rows[n].copies \cap unread
                 PROVE  n = old /\ m \in new[n].copies
      OBVIOUS
    <3>1. n = old
      <4>1. CASE SingleOpen(rows)
        BY <2>1, <4>1 DEF SingleOpen
      <4>2. CASE open = {1, 2} /\ rows[2].copies = {}
        BY <2>1, <4>2
      <4> QED
        BY <4>1, <4>2 DEF SoundRows
    <3>2. n \in DOMAIN rows
      BY DEF OpenOnes
    <3>3. new[n] = Continued(rows[n], s, seen, unread)
      BY <2>3, <3>1, <3>2
    <3>4. rows[n] \in Episode
      BY <2>2, <3>2
    <3>5. new[n].copies = seen \cup (rows[n].copies \cap unread)
      BY <3>3, <3>4 DEF Continued, withRetainedCopies, Episode
    <3>6. m \in seen \cup (rows[n].copies \cap unread)
      OBVIOUS
    <3>7. m \in new[n].copies
      BY <3>5, <3>6, Zenon
    <3> QED
      BY <3>1, <3>7
  <2>8. UnreadKept(rows, new, unread)
    BY <2>6, <2>7 DEF UnreadKept
  <2> QED
    BY <2>5, <2>6, <2>8 DEF SoundRows, SingleOpen
<1> QED
  BY <1>1, <1>2

\* Silence opens nothing and keeps what an unread manifest may still hold.
LEMMA AbsentRows ==
  ASSUME NEW rows \in Seq(Episode), SoundRows(rows), NEW unread \in SUBSET Manifests,
         NEW new, new = MergeAbsent(rows, unread)
  PROVE  /\ new \in Seq(Episode)
         /\ SoundRows(new)
         /\ UnreadKept(rows, new, unread)
<1>1. \A n \in DOMAIN rows : rows[n] \in Episode
  BY RowsAreEpisodes
<1>2. new = [n \in DOMAIN rows |->
               IF rows[n].open /\ ~installedThroughUnread(rows[n], unread)
               THEN resolveFindingRow(rows[n]) ELSE rows[n]]
  BY DEF MergeAbsent
<1>3. \A row \in Episode : /\ resolveFindingRow(row) \in Episode
                           /\ ~resolveFindingRow(row).open
                           /\ resolveFindingRow(row).copies = row.copies
  BY DEF resolveFindingRow, Episode
<1>4. new \in [DOMAIN rows -> Episode]
  BY <1>1, <1>2, <1>3
<1>5. new \in Seq(Episode) /\ DOMAIN new = DOMAIN rows
  BY <1>4, InPlace
<1>6. OpenOnes(new) \subseteq OpenOnes(rows)
  BY <1>1, <1>2, <1>3, <1>5 DEF OpenOnes
<1>7. \A n \in DOMAIN rows : new[n].copies = rows[n].copies
  BY <1>1, <1>2, <1>3
<1>8. SoundRows(new)
  <2>1. CASE SingleOpen(rows)
    BY <1>6, <2>1 DEF SoundRows, SingleOpen
  <2>2. CASE Legacy /\ OpenOnes(rows) = {1, 2} /\ rows[2].copies = {}
    <3>1. new[2].copies = {}
      BY <1>7, <2>2 DEF OpenOnes
    <3>2. OpenOnes(new) \in {{}, {1}, {2}, {1, 2}}
      BY <1>6, <2>2
    <3> QED
      BY <2>2, <3>1, <3>2 DEF SoundRows, SingleOpen
  <2> QED
    BY <2>1, <2>2 DEF SoundRows
<1>9. ASSUME NEW n \in OpenOnes(rows), NEW m \in rows[n].copies \cap unread
      PROVE  n \in OpenOnes(new) /\ m \in new[n].copies
  <2>1. n \in DOMAIN rows /\ rows[n].open
    BY DEF OpenOnes
  <2>2. installedThroughUnread(rows[n], unread)
    BY DEF installedThroughUnread
  <2>3. new[n] = rows[n]
    BY <1>2, <2>1, <2>2
  <2> QED
    BY <1>5, <2>1, <2>3 DEF OpenOnes
<1> QED
  BY <1>5, <1>8, <1>9 DEF UnreadKept

\* Rows whose open mark and copies are left alone stay sound.
LEMMA AnnotatedRows ==
  ASSUME NEW rows \in Seq(Episode), SoundRows(rows), NEW new \in [DOMAIN rows -> Episode],
         \A n \in DOMAIN rows :
           (new[n].open <=> rows[n].open) /\ new[n].copies = rows[n].copies
  PROVE  new \in Seq(Episode) /\ DOMAIN new = DOMAIN rows /\ SoundRows(new)
<1>1. new \in Seq(Episode) /\ DOMAIN new = DOMAIN rows
  BY InPlace
<1>2. OpenOnes(new) = OpenOnes(rows)
  BY <1>1 DEF OpenOnes
<1>3. 2 \in OpenOnes(rows) => new[2].copies = rows[2].copies
  BY DEF OpenOnes
<1> QED
  BY <1>1, <1>2, <1>3 DEF SoundRows, SingleOpen

\* Some grade is the worst of those given.
LEMMA WorstIsGraded ==
  ASSUME NEW s \in Sources, NEW agree \in SUBSET Sources
  PROVE  Worst(s, agree) \in Severities
<1> DEFINE T == {s} \cup agree
<1>1. \A t \in T : Grade[t] \in 0..4
  BY ConstantsAssumption DEF Severities
<1>2. \E t \in T : \A u \in T : Grade[u] <= Grade[t]
  <2>1. CASE \E t \in T : Grade[t] = 4
    BY <1>1, <2>1
  <2>2. CASE (\A t \in T : Grade[t] <= 3) /\ \E t \in T : Grade[t] = 3
    BY <1>1, <2>2
  <2>3. CASE (\A t \in T : Grade[t] <= 2) /\ \E t \in T : Grade[t] = 2
    BY <1>1, <2>3
  <2>4. CASE (\A t \in T : Grade[t] <= 1) /\ \E t \in T : Grade[t] = 1
    BY <1>1, <2>4
  <2>5. CASE \A t \in T : Grade[t] <= 0
    BY <1>1, <2>5
  <2> QED
    BY <1>1, <2>1, <2>2, <2>3, <2>4, <2>5
<1>3. \E g \in {Grade[t] : t \in T} : \A t \in T : Grade[t] <= g
  BY <1>2
<1>4. Worst(s, agree) \in {Grade[t] : t \in T}
  BY <1>3 DEF Worst
<1> QED
  BY <1>1, <1>4 DEF Severities

-----------------------------------------------------------------------------
(* What a scan holds. *)

\* The sets a merge is given are sets of manifests, its source a source.
LEMMA ScanSets ==
  ASSUME TypeOK, NEW k \in Slots
  PROVE  /\ unreadOf(k) \in SUBSET Manifests
         /\ \A a : CopiesSeen(k, a) \in SUBSET Manifests
         /\ scan[k] \in ScanState
         /\ scan[k].next \in DOMAIN Order => NextSource(k) \in Sources
<1>1. scan[k] \in ScanState
  BY DEF TypeOK
<1>2. scan[k].inventory \in SUBSET Manifests
  BY <1>1 DEF ScanState
<1> QED
  BY <1>1, <1>2 DEF unreadOf, CopiesSeen, NextSource, Sources

\* One source's rows were merged; nobody else's were touched.
MergedBy(new, k, s) ==
  \A i \in Sources \X Advisories :
    /\ SoundRows(new[i])
    /\ i[1] # s => new[i] = episodes[i]
    /\ UnreadKept(episodes[i], new[i], unreadOf(k))

\* The merge of one answer keeps the table typed and sound, leaves a row open for
\* every advisory it was given, and touches no other source's rows.
LEMMA MergedTable ==
  ASSUME IInv, NEW k \in Slots, NEW s \in Sources, NEW kept \in SUBSET Advisories,
         NEW new, new = mergeFindingsForScan(k, s, kept)
  PROVE  /\ new \in [Sources \X Advisories -> Seq(Episode)]
         /\ MergedBy(new, k, s)
         /\ \A a \in kept : OpenOnes(new[<<s, a>>]) # {}
<1>1. /\ unreadOf(k) \in SUBSET Manifests
      /\ \A a : CopiesSeen(k, a) \in SUBSET Manifests
  <2>1. TypeOK
    BY DEF IInv
  <2> QED
    BY <2>1, ScanSets
<1>2. \A i \in Sources \X Advisories : episodes[i] \in Seq(Episode) /\ SoundRows(episodes[i])
  BY DEF IInv, TypeOK, EpisodesSound
<1>3. new = [i \in Sources \X Advisories |->
               IF i[1] # s THEN episodes[i]
               ELSE IF i[2] \in kept
               THEN MergeReported(episodes[i], s, CopiesSeen(k, i[2]), unreadOf(k))
               ELSE MergeAbsent(episodes[i], unreadOf(k))]
  BY DEF mergeFindingsForScan
<1>4. ASSUME NEW i \in Sources \X Advisories
      PROVE  /\ new[i] \in Seq(Episode)
             /\ SoundRows(new[i])
             /\ i[1] # s => new[i] = episodes[i]
             /\ UnreadKept(episodes[i], new[i], unreadOf(k))
             /\ (i[1] = s /\ i[2] \in kept) => OpenOnes(new[i]) # {}
  <2>1. CASE i[1] # s
    <3>1. new[i] = episodes[i]
      BY <1>3, <2>1
    <3>2. UnreadKept(episodes[i], new[i], unreadOf(k))
      BY <3>1 DEF UnreadKept
    <3> QED
      BY <1>2, <2>1, <3>1, <3>2, Zenon
  <2>2. CASE i[1] = s /\ i[2] \in kept
    <3>1. new[i] = MergeReported(episodes[i], s, CopiesSeen(k, i[2]), unreadOf(k))
      BY <1>3, <2>2
    <3>2. /\ new[i] \in Seq(Episode) /\ SoundRows(new[i]) /\ OpenOnes(new[i]) # {}
          /\ UnreadKept(episodes[i], new[i], unreadOf(k))
      BY <1>1, <1>2, <3>1, ReportedRows
    <3> QED
      BY <2>2, <3>2, Zenon
  <2>3. CASE i[1] = s /\ i[2] \notin kept
    <3>1. new[i] = MergeAbsent(episodes[i], unreadOf(k))
      BY <1>3, <2>3
    <3>2. /\ new[i] \in Seq(Episode) /\ SoundRows(new[i])
          /\ UnreadKept(episodes[i], new[i], unreadOf(k))
      BY <1>1, <1>2, <3>1, AbsentRows
    <3> QED
      BY <2>3, <3>2, Zenon
  <2> QED
    BY <2>1, <2>2, <2>3
<1>5. \A a \in kept : <<s, a>> \in Sources \X Advisories /\ <<s, a>>[1] = s /\ <<s, a>>[2] = a
  OBVIOUS
<1>6. \A a \in kept : OpenOnes(new[<<s, a>>]) # {}
  BY <1>4, <1>5
<1>7. new \in [Sources \X Advisories -> Seq(Episode)]
  BY <1>3, <1>4
<1>8. MergedBy(new, k, s)
  BY <1>4 DEF MergedBy
<1> QED
  BY <1>6, <1>7, <1>8

-----------------------------------------------------------------------------
(* Every step keeps the invariant. *)

\* No scan runs and no row was ever merged: the table is empty or an older one's.
LEMMA InitInv == Init => IInv
<1> SUFFICES ASSUME Init PROVE IInv
  OBVIOUS
<1>1. Idle \in ScanState
  BY DEF Idle, ScanState, Absent, Lockfile, Outcomes
<1>2. disk \in [Manifests -> Lockfile]
  BY DEF Init, Possible
<1>3. \A s \in Sources : LegacyEpisode(s) \in Episode
  BY ConstantsAssumption DEF LegacyEpisode, Episode, Unsettled, Fix
<1>4. ASSUME NEW i \in Sources \X Advisories
      PROVE  episodes[i] \in Seq(Episode) /\ SoundRows(episodes[i])
  <2>1. PICK twice \in SUBSET (IF Legacy THEN Sources \X Advisories ELSE {}) :
          episodes = [j \in Sources \X Advisories |->
                        IF j \in twice THEN <<LegacyEpisode(j[1]), LegacyEpisode(j[1])>>
                                       ELSE <<>>]
    BY DEF Init
  <2>2. CASE i \in twice
    <3> DEFINE row == LegacyEpisode(i[1])
    <3>1. episodes[i] = <<row, row>> /\ row \in Episode /\ row.copies = {} /\ row.open
      BY <1>3, <2>1, <2>2 DEF LegacyEpisode
    <3>2. Legacy
      BY <2>2
    <3> HIDE DEF row
    <3>3. episodes[i] \in Seq(Episode) /\ DOMAIN episodes[i] = {1, 2} /\ episodes[i][2] = row
          /\ episodes[i][1] = row
      BY <3>1
    <3>4. OpenOnes(episodes[i]) = {1, 2}
      BY <3>1, <3>3 DEF OpenOnes
    <3> QED
      BY <3>1, <3>2, <3>3, <3>4 DEF SoundRows
  <2>3. CASE i \notin twice
    <3>1. episodes[i] = <<>>
      BY <2>1, <2>3
    <3> QED
      BY <3>1 DEF SoundRows, SingleOpen, OpenOnes
  <2> QED
    BY <2>2, <2>3
<1>5. episodes \in [Sources \X Advisories -> Seq(Episode)]
  <2>1. \E f : episodes = [i \in Sources \X Advisories |-> f[i]]
    BY DEF Init
  <2> QED
    BY <1>4, <2>1
<1>6. scan \in [Slots -> ScanState]
  BY <1>1 DEF Init
<1>7. changes \in 0..MaxChanges /\ faults \in 0..MaxFaults
  BY ConstantsAssumption DEF Init
<1> QED
  BY <1>2, <1>4, <1>5, <1>6, <1>7 DEF Init, IInv, TypeOK, EpisodesSound

\* Editing one field of a scan within its type keeps the scan's type.
LEMMA EditedScan ==
  ASSUME NEW r \in ScanState
  PROVE  /\ \A x \in {"idle", "read", "match", "settle"} : [r EXCEPT !.step = x] \in ScanState
         /\ [r EXCEPT !.next = @ + 1] \in ScanState
         /\ \A x \in SUBSET Manifests : [r EXCEPT !.inventory = x] \in ScanState
         /\ \A x \in SUBSET Manifests : [r EXCEPT !.read = x] \in ScanState
         /\ \A x \in SUBSET Sources : [r EXCEPT !.runnable = x] \in ScanState
         /\ \A x \in Nat : [r EXCEPT !.since = x] \in ScanState
         /\ \A x \in SUBSET Finding : [r EXCEPT !.found = x] \in ScanState
         /\ \A s \in Sources, x \in Outcomes : [r EXCEPT !.outcome[s] = x] \in ScanState
         /\ \A m \in Manifests, x \in Lockfile : [r EXCEPT !.graph[m] = x] \in ScanState
<1>1. \A x \in {"idle", "read", "match", "settle"} : [r EXCEPT !.step = x] \in ScanState
  BY DEF ScanState
<1>2. [r EXCEPT !.next = @ + 1] \in ScanState
  BY DEF ScanState
<1>3. \A x \in SUBSET Manifests : [r EXCEPT !.inventory = x] \in ScanState
  BY DEF ScanState
<1>4. \A x \in SUBSET Manifests : [r EXCEPT !.read = x] \in ScanState
  BY DEF ScanState
<1>5. \A x \in SUBSET Sources : [r EXCEPT !.runnable = x] \in ScanState
  BY DEF ScanState
<1>6. \A x \in Nat : [r EXCEPT !.since = x] \in ScanState
  BY DEF ScanState
<1>7. \A x \in SUBSET Finding : [r EXCEPT !.found = x] \in ScanState
  BY DEF ScanState
<1>8. ASSUME NEW s \in Sources, NEW x \in Outcomes
      PROVE  [r EXCEPT !.outcome[s] = x] \in ScanState
  <2> DEFINE said == [r.outcome EXCEPT ![s] = x]
  <2>1. said \in [Sources -> Outcomes]
    BY DEF ScanState
  <2>2. [r EXCEPT !.outcome[s] = x] = [r EXCEPT !.outcome = said]
    BY DEF ScanState
  <2> HIDE DEF said
  <2> QED
    BY <2>1, <2>2 DEF ScanState
<1>9. ASSUME NEW m \in Manifests, NEW x \in Lockfile
      PROVE  [r EXCEPT !.graph[m] = x] \in ScanState
  <2> DEFINE files == [r.graph EXCEPT ![m] = x]
  <2>1. files \in [Manifests -> Lockfile]
    BY DEF ScanState
  <2>2. [r EXCEPT !.graph[m] = x] = [r EXCEPT !.graph = files]
    BY DEF ScanState
  <2> HIDE DEF files
  <2> QED
    BY <2>1, <2>2 DEF ScanState
<1> QED
  BY <1>1, <1>2, <1>3, <1>4, <1>5, <1>6, <1>7, <1>8, <1>9

\* A scan that goes on to its next source keeps its type.
LEMMA AdvanceType ==
  ASSUME TypeOK, NEW k \in Slots, scan[k].next \in DOMAIN Order,
         NEW outcome \in Outcomes, NEW found \in SUBSET Finding,
         Advance(k, outcome, found)
  PROVE  scan' \in [Slots -> ScanState]
<1>1. scan[k] \in ScanState /\ NextSource(k) \in Sources
  BY ScanSets
<1> DEFINE one   == [scan[k] EXCEPT !.next = @ + 1]
           two   == [one EXCEPT !.outcome[NextSource(k)] = outcome]
           three == [two EXCEPT !.found = found]
<1>2. one \in ScanState
  BY <1>1, EditedScan
<1>3. two \in ScanState
  <2> HIDE DEF one
  <2> QED
    BY <1>1, <1>2, EditedScan
<1>4. three \in ScanState
  <2> HIDE DEF two
  <2> QED
    BY <1>3, EditedScan
<1>5. scan' = [scan EXCEPT ![k] = three]
  BY DEF Advance, TypeOK
<1> HIDE DEF three
<1> QED
  BY <1>4, <1>5 DEF TypeOK

\* What a source adds to the scan's findings are findings.
LEMMA SurvivorsType ==
  ASSUME TypeOK, NEW k \in Slots, NEW s \in Sources, NEW matched,
         NEW kept \in SUBSET Advisories,
         NEW new \in [Sources \X Advisories -> Seq(Episode)],
         \A a \in kept : SoundRows(new[<<s, a>>]) /\ OpenOnes(new[<<s, a>>]) # {}
  PROVE  reconcileAgainstReported(k, s, matched, kept, new) \in SUBSET Finding
<1> DEFINE own(a) == pickOldestRow(OpenOnes(new[<<s, a>>]))
<1>1. scan[k].found \in SUBSET Finding
  BY DEF TypeOK, ScanState
<1>2. \A f \in scan[k].found : [f EXCEPT !.agree = @ \cup {s}] \in Finding
  BY <1>1 DEF Finding
<1>3. ASSUME NEW a \in kept
      PROVE  [source |-> s, advisory |-> a, episode |-> own(a),
              copies |-> new[<<s, a>>][own(a)].copies, agree |-> {}] \in Finding
  <2>1. <<s, a>> \in Sources \X Advisories
    OBVIOUS
  <2>2. new[<<s, a>>] \in Seq(Episode)
    BY <2>1
  <2>3. own(a) \in OpenOnes(new[<<s, a>>])
    BY <2>2, OldestIsOpen
  <2>4. own(a) \in Nat /\ new[<<s, a>>][own(a)] \in Episode
    BY <2>2, <2>3, RowsAreEpisodes
  <2>5. new[<<s, a>>][own(a)].copies \in SUBSET Manifests
    BY <2>4 DEF Episode
  <2> HIDE DEF own
  <2> QED
    BY <2>4, <2>5 DEF Finding
<1> QED
  BY <1>1, <1>2, <1>3 DEF reconcileAgainstReported

\* A scan begins with what the operator chose and the manifests there are.
LEMMA BeginType ==
  ASSUME TypeOK, NEW k \in Slots, Begin(k)
  PROVE  scan' \in [Slots -> ScanState]
<1> DEFINE there == {m \in Manifests : disk[m].is # "gone"}
           one   == [Idle EXCEPT !.step = IF there = {} THEN "match" ELSE "read"]
           two   == [one EXCEPT !.since = changes]
           three == [two EXCEPT !.runnable = getRunnableSourceCells]
           four  == [three EXCEPT !.inventory = there]
<1>1. Idle \in ScanState
  BY DEF Idle, ScanState, Absent, Lockfile, Outcomes
<1>2. changes \in Nat /\ getRunnableSourceCells \in SUBSET Sources
  BY ConstantsAssumption DEF TypeOK, getRunnableSourceCells
<1>3. one \in ScanState
  BY <1>1, EditedScan
<1>4. two \in ScanState
  <2> HIDE DEF one
  <2> QED
    BY <1>2, <1>3, EditedScan
<1>5. three \in ScanState
  <2> HIDE DEF two
  <2> QED
    BY <1>2, <1>4, EditedScan
<1>6. four \in ScanState
  <2>1. there \in SUBSET Manifests
    OBVIOUS
  <2> HIDE DEF three, there
  <2> QED
    BY <1>5, <2>1, EditedScan
<1>7. scan' = [scan EXCEPT ![k] = four]
  BY DEF Begin
<1> HIDE DEF four
<1> QED
  BY <1>6, <1>7 DEF TypeOK

\* A manifest read on the way keeps the scan's type.
LEMMA ResolveType ==
  ASSUME TypeOK, NEW k \in Slots, resolveManifest(k)
  PROVE  scan' \in [Slots -> ScanState]
<1>1. PICK m \in scan[k].inventory \ scan[k].read :
        LET read == scan[k].read \cup {m}
            file == IF disk[m].is = "gone" THEN [is |-> "broken", has |-> {}] ELSE disk[m]
        IN  scan' = [scan EXCEPT ![k].read = read, ![k].graph[m] = file,
                                 ![k].step = IF read = scan[k].inventory
                                             THEN "match" ELSE "read"]
  BY DEF resolveManifest
<1> DEFINE seen  == scan[k].read \cup {m}
           file  == IF disk[m].is = "gone" THEN [is |-> "broken", has |-> {}] ELSE disk[m]
           step  == IF seen = scan[k].inventory THEN "match" ELSE "read"
           one   == [scan[k] EXCEPT !.read = seen]
           two   == [one EXCEPT !.graph[m] = file]
           three == [two EXCEPT !.step = step]
<1>2. scan[k] \in ScanState /\ scan[k].inventory \in SUBSET Manifests
      /\ scan[k].read \in SUBSET Manifests
  BY DEF TypeOK, ScanState
<1>3. m \in Manifests /\ seen \in SUBSET Manifests
  BY <1>2
<1>4. file \in Lockfile
  BY <1>3 DEF TypeOK, Lockfile
<1>5. one \in ScanState
  <2> HIDE DEF seen
  <2> QED
    BY <1>2, <1>3, EditedScan
<1>6. two \in ScanState
  <2> HIDE DEF one, file
  <2> QED
    BY <1>3, <1>4, <1>5, EditedScan
<1>7. three \in ScanState
  <2>1. step \in {"idle", "read", "match", "settle"}
    OBVIOUS
  <2> HIDE DEF two, step
  <2> QED
    BY <1>6, <2>1, EditedScan
<1>8. scan' = [scan EXCEPT ![k] = three]
  <2>1. scan' = [scan EXCEPT ![k].read = seen, ![k].graph[m] = file, ![k].step = step]
    BY <1>1
  <2> HIDE DEF seen, file, step
  <2> QED
    BY <2>1 DEF TypeOK
<1> HIDE DEF three
<1> QED
  BY <1>7, <1>8 DEF TypeOK

\* The rewrite of corroborations and the settlement leave every row open or
\* closed, with its copies.
Annotates(new) ==
  /\ new \in [Sources \X Advisories -> Seq(Episode)]
  /\ \A i \in Sources \X Advisories :
       /\ DOMAIN new[i] = DOMAIN episodes[i]
       /\ SoundRows(new[i])
       /\ \A n \in DOMAIN episodes[i] :
            /\ new[i][n].open <=> episodes[i][n].open
            /\ new[i][n].copies = episodes[i][n].copies

\* A rewrite that leaves a row's open mark and copies alone annotates the table.
LEMMA AnnotatesTable ==
  ASSUME IInv, NEW new,
         new = [i \in Sources \X Advisories |-> new[i]],
         \A i \in Sources \X Advisories :
           /\ new[i] \in [DOMAIN episodes[i] -> Episode]
           /\ \A n \in DOMAIN episodes[i] :
                /\ new[i][n].open <=> episodes[i][n].open
                /\ new[i][n].copies = episodes[i][n].copies
  PROVE  Annotates(new)
<1>1. \A i \in Sources \X Advisories : episodes[i] \in Seq(Episode) /\ SoundRows(episodes[i])
  BY DEF IInv, TypeOK, EpisodesSound
<1>2. \A i \in Sources \X Advisories :
        new[i] \in Seq(Episode) /\ DOMAIN new[i] = DOMAIN episodes[i] /\ SoundRows(new[i])
  BY <1>1, AnnotatedRows
<1>3. new \in [Sources \X Advisories -> Seq(Episode)]
  BY <1>2
<1> QED
  BY <1>2, <1>3 DEF Annotates

\* The corroborations are rewritten in place.
LEMMA CorroboratedTable ==
  ASSUME IInv, NEW k \in Slots
  PROVE  Annotates(applyFindingCorroborations(k))
<1> DEFINE new == applyFindingCorroborations(k)
<1>1. scan[k].found \in SUBSET Finding
  BY DEF IInv, TypeOK, ScanState
<1>2. ASSUME NEW row \in Episode, NEW f \in Finding
      PROVE  /\ Corroborated(row, f) \in Episode
             /\ Corroborated(row, f).open <=> row.open
             /\ Corroborated(row, f).copies = row.copies
  <2> DEFINE grade == IF f.agree = {} THEN row.severity ELSE Worst(f.source, f.agree)
  <2>1. f.agree \in SUBSET Sources /\ f.source \in Sources
    BY DEF Finding
  <2>2. grade \in Severities
    BY <2>1, WorstIsGraded DEF Episode
  <2>3. Corroborated(row, f) = [row EXCEPT !.corroborations = f.agree, !.severity = grade]
    BY DEF Corroborated, Episode
  <2> HIDE DEF grade
  <2> QED
    BY <2>1, <2>2, <2>3 DEF Episode
<1>3. ASSUME NEW i \in Sources \X Advisories, NEW n \in DOMAIN episodes[i]
      PROVE  /\ new[i][n] \in Episode
             /\ new[i][n].open <=> episodes[i][n].open
             /\ new[i][n].copies = episodes[i][n].copies
  <2> DEFINE mine == FoundIn(k, i, n)
             pick == CHOOSE f \in mine : TRUE
  <2>1. episodes[i][n] \in Episode
    BY RowsAreEpisodes DEF IInv, TypeOK
  <2>2. new[i][n] = IF mine = {} THEN episodes[i][n] ELSE Corroborated(episodes[i][n], pick)
    BY DEF applyFindingCorroborations
  <2>3. mine # {} => pick \in Finding
    BY <1>1 DEF FoundIn
  <2> HIDE DEF mine, pick, new
  <2> QED
    BY <1>2, <2>1, <2>2, <2>3
<1>4. new = [i \in Sources \X Advisories |-> new[i]]
  BY DEF applyFindingCorroborations
<1>5. \A i \in Sources \X Advisories : new[i] = [n \in DOMAIN episodes[i] |-> new[i][n]]
  BY DEF applyFindingCorroborations
<1> HIDE DEF new
<1>6. \A i \in Sources \X Advisories : new[i] \in [DOMAIN episodes[i] -> Episode]
  BY <1>3, <1>5
<1>7. Annotates(new)
  BY <1>3, <1>4, <1>6, AnnotatesTable
<1> QED
  BY <1>7 DEF new

\* The verdicts on the fixes are written in place.
LEMMA SettledTable ==
  ASSUME IInv, NEW k \in Slots
  PROVE  Annotates(applyFixSettlement(k))
<1> DEFINE new == applyFixSettlement(k)
<1>1. scan[k].found \in SUBSET Finding
  BY DEF IInv, TypeOK, ScanState
<1>2. ASSUME NEW row \in Episode, NEW f \in Finding
      PROVE  /\ Settled(row, f) \in Episode
             /\ Settled(row, f).open <=> row.open
             /\ Settled(row, f).copies = row.copies
  <2> DEFINE fix == [copies |-> f.copies, sources |-> {f.source} \cup f.agree]
  <2>1. fix \in Fix
    BY DEF Finding, Fix
  <2>2. Settled(row, f) = [row EXCEPT !.fix = fix]
    BY DEF Settled
  <2> HIDE DEF fix
  <2> QED
    BY <2>1, <2>2 DEF Episode
<1>3. ASSUME NEW i \in Sources \X Advisories, NEW n \in DOMAIN episodes[i]
      PROVE  /\ new[i][n] \in Episode
             /\ new[i][n].open <=> episodes[i][n].open
             /\ new[i][n].copies = episodes[i][n].copies
  <2> DEFINE mine == FoundIn(k, i, n)
             pick == CHOOSE f \in mine : TRUE
  <2>1. episodes[i][n] \in Episode
    BY RowsAreEpisodes DEF IInv, TypeOK
  <2>2. new[i][n] = IF mine = {} THEN episodes[i][n] ELSE Settled(episodes[i][n], pick)
    BY DEF applyFixSettlement
  <2>3. mine # {} => pick \in Finding
    BY <1>1 DEF FoundIn
  <2> HIDE DEF mine, pick, new
  <2> QED
    BY <1>2, <2>1, <2>2, <2>3
<1>4. new = [i \in Sources \X Advisories |-> new[i]]
  BY DEF applyFixSettlement
<1>5. \A i \in Sources \X Advisories : new[i] = [n \in DOMAIN episodes[i] |-> new[i][n]]
  BY DEF applyFixSettlement
<1> HIDE DEF new
<1>6. \A i \in Sources \X Advisories : new[i] \in [DOMAIN episodes[i] -> Episode]
  BY <1>3, <1>5
<1>7. Annotates(new)
  BY <1>3, <1>4, <1>6, AnnotatesTable
<1> QED
  BY <1>7 DEF new

\* A source's answer is merged in one transaction and its survivors are kept.
LEMMA AnswerTable ==
  ASSUME IInv, NEW k \in Slots, SourceAnswers(k)
  PROVE  /\ episodes' \in [Sources \X Advisories -> Seq(Episode)]
         /\ MergedBy(episodes', k, NextSource(k))
         /\ scan' \in [Slots -> ScanState]
<1> DEFINE s       == NextSource(k)
           matched == matchPackages(k)
           kept    == {a \in matched : \A f \in scan[k].found : f.advisory # a}
           new     == mergeFindingsForScan(k, s, kept)
<1>1. TypeOK /\ scan[k].next \in DOMAIN Order
  BY DEF IInv, SourceAnswers, Matching
<1>2. s \in Sources
  BY <1>1, ScanSets
<1>3. kept \in SUBSET Advisories
  BY <1>1, <1>2 DEF matchPackages, TypeOK
<1>4. episodes' = new /\ Advance(k, "ok", reconcileAgainstReported(k, s, matched, kept, new))
  BY DEF SourceAnswers
<1> HIDE DEF kept, matched, s
<1>b. new = mergeFindingsForScan(k, s, kept)
  OBVIOUS
<1> HIDE DEF new
<1>5. /\ new \in [Sources \X Advisories -> Seq(Episode)]
      /\ MergedBy(new, k, s)
      /\ \A a \in kept : OpenOnes(new[<<s, a>>]) # {}
  BY <1>2, <1>3, <1>b, MergedTable
<1>6. \A a \in kept : SoundRows(new[<<s, a>>]) /\ OpenOnes(new[<<s, a>>]) # {}
  <2>1. \A a \in kept : <<s, a>> \in Sources \X Advisories
    BY <1>2, <1>3
  <2> QED
    BY <1>5, <2>1 DEF MergedBy
<1>7. reconcileAgainstReported(k, s, matched, kept, new) \in SUBSET Finding
  BY <1>1, <1>2, <1>3, <1>5, <1>6, SurvivorsType
<1>8. "ok" \in Outcomes
  BY DEF Outcomes
<1>9. scan' \in [Slots -> ScanState]
  BY <1>1, <1>4, <1>7, <1>8, AdvanceType
<1> QED
  BY <1>4, <1>5, <1>9 DEF s

\* A step of one scan that leaves the findings alone keeps the invariant.
LEMMA QuietStep ==
  ASSUME IInv, scan' \in [Slots -> ScanState],
         UNCHANGED <<disk, knows, enabled, episodes, changes>>,
         faults' \in 0..MaxFaults
  PROVE  IInv'
  BY DEF IInv, TypeOK, EpisodesSound

\* The last steps of a scan keep its type.
LEMMA EndTypes ==
  ASSUME TypeOK, NEW k \in Slots
  PROVE  /\ [scan EXCEPT ![k].step = "settle"] \in [Slots -> ScanState]
         /\ [scan EXCEPT ![k] = Idle] \in [Slots -> ScanState]
         /\ \A K : [j \in Slots |-> IF j \in K THEN Idle ELSE scan[j]] \in [Slots -> ScanState]
<1>1. Idle \in ScanState
  BY DEF Idle, ScanState, Absent, Lockfile, Outcomes
<1> DEFINE done == [scan[k] EXCEPT !.step = "settle"]
<1>2. scan[k] \in ScanState
  BY DEF TypeOK
<1>3. done \in ScanState
  BY <1>2, EditedScan
<1>4. [scan EXCEPT ![k].step = "settle"] = [scan EXCEPT ![k] = done]
  BY DEF TypeOK
<1> HIDE DEF done
<1>5. [scan EXCEPT ![k].step = "settle"] \in [Slots -> ScanState]
  BY <1>3, <1>4 DEF TypeOK
<1> QED
  BY <1>1, <1>5 DEF TypeOK

\* Every step of the world and of a scan keeps the invariant.
LEMMA NextInv == IInv /\ [Next]_vars => IInv'
<1> SUFFICES ASSUME IInv, [Next]_vars PROVE IInv'
  OBVIOUS
<1>a. TypeOK /\ EpisodesSound
  BY DEF IInv
<1>1. CASE DiskChanges
  <2>1. disk' \in [Manifests -> Lockfile]
    BY <1>1, <1>a DEF DiskChanges, TypeOK, Possible
  <2>2. changes' \in 0..MaxChanges
    BY <1>1, <1>a, ConstantsAssumption DEF DiskChanges, Changed, TypeOK
  <2> QED
    BY <1>1, <1>a, <2>1, <2>2 DEF DiskChanges, IInv, TypeOK, EpisodesSound
<1>2. CASE FeedChanges
  <2>1. knows' \in [Sources -> SUBSET Advisories]
    BY <1>2, <1>a DEF FeedChanges, TypeOK
  <2>2. changes' \in 0..MaxChanges
    BY <1>2, <1>a, ConstantsAssumption DEF FeedChanges, Changed, TypeOK
  <2> QED
    BY <1>2, <1>a, <2>1, <2>2 DEF FeedChanges, IInv, TypeOK, EpisodesSound
<1>3. CASE writeSourceCell
  <2>1. enabled' \in SUBSET Sources
    BY <1>3, <1>a DEF writeSourceCell, TypeOK
  <2>2. changes' \in 0..MaxChanges
    BY <1>3, <1>a, ConstantsAssumption DEF writeSourceCell, Changed, TypeOK
  <2> QED
    BY <1>3, <1>a, <2>1, <2>2 DEF writeSourceCell, IInv, TypeOK, EpisodesSound
<1>4. faults \in 0..MaxFaults /\ (faults < MaxFaults /\ faults' = faults + 1 => faults' \in 0..MaxFaults)
  BY <1>a, ConstantsAssumption DEF TypeOK
<1>5. ASSUME NEW k \in Slots, Begin(k) PROVE IInv'
  <2>1. scan' \in [Slots -> ScanState]
    BY <1>5, <1>a, BeginType
  <2> QED
    BY <1>5, <1>4, <2>1, QuietStep DEF Begin
<1>6. ASSUME NEW k \in Slots, resolveManifest(k) PROVE IInv'
  <2>1. scan' \in [Slots -> ScanState]
    BY <1>6, <1>a, ResolveType
  <2> QED
    BY <1>6, <1>4, <2>1, QuietStep DEF resolveManifest
<1>7. ASSUME NEW k \in Slots, NEW outcome \in Outcomes, scan[k].next \in DOMAIN Order,
             Advance(k, outcome, scan[k].found)
      PROVE  scan' \in [Slots -> ScanState]
  <2>1. scan[k].found \in SUBSET Finding
    BY <1>a DEF TypeOK, ScanState
  <2> QED
    BY <1>7, <1>a, <2>1, AdvanceType
<1>8. ASSUME NEW k \in Slots, SkipSource(k) PROVE IInv'
  <2>1. scan' \in [Slots -> ScanState]
    BY <1>8, <1>7 DEF SkipSource, Matching, Outcomes
  <2> QED
    BY <1>8, <1>4, <2>1, QuietStep DEF SkipSource
<1>9. ASSUME NEW k \in Slots, NoGraph(k) PROVE IInv'
  <2>1. unresolvedGraphReason(k) \in Outcomes
    BY DEF unresolvedGraphReason, Outcomes
  <2>2. scan' \in [Slots -> ScanState]
    BY <1>9, <1>7, <2>1 DEF NoGraph, Matching
  <2> QED
    BY <1>9, <1>4, <2>2, QuietStep DEF NoGraph
<1>10. ASSUME NEW k \in Slots, SourceFails(k) PROVE IInv'
  <2>1. scan' \in [Slots -> ScanState]
    BY <1>10, <1>7 DEF SourceFails, Matching, Outcomes
  <2> QED
    BY <1>10, <1>4, <2>1, QuietStep DEF SourceFails
<1>11. ASSUME NEW k \in Slots, SourceAnswers(k) PROVE IInv'
  <2>1. /\ episodes' \in [Sources \X Advisories -> Seq(Episode)]
        /\ \A i \in Sources \X Advisories : SoundRows(episodes'[i])
        /\ scan' \in [Slots -> ScanState]
    BY <1>11, AnswerTable DEF MergedBy
  <2> QED
    BY <1>11, <1>a, <2>1 DEF SourceAnswers, IInv, TypeOK, EpisodesSound
<1>12. ASSUME NEW k \in Slots, recordCorroborations(k) PROVE IInv'
  <2>1. Annotates(episodes')
    BY <1>12, CorroboratedTable DEF recordCorroborations
  <2>2. scan' \in [Slots -> ScanState]
    BY <1>12, <1>a, EndTypes DEF recordCorroborations
  <2> QED
    BY <1>12, <1>a, <2>1, <2>2 DEF Annotates, recordCorroborations, IInv, TypeOK, EpisodesSound
<1>13. ASSUME NEW k \in Slots, verifyFixes(k) PROVE IInv'
  <2>1. Annotates(episodes')
    BY <1>13, SettledTable DEF verifyFixes
  <2>2. scan' \in [Slots -> ScanState]
    BY <1>13, <1>a, EndTypes DEF verifyFixes
  <2> QED
    BY <1>13, <1>a, <2>1, <2>2 DEF Annotates, verifyFixes, IInv, TypeOK, EpisodesSound
<1>14. ASSUME NEW k \in Slots, SettlementFails(k) PROVE IInv'
  <2>1. scan' \in [Slots -> ScanState]
    BY <1>14, <1>a, EndTypes DEF SettlementFails
  <2> QED
    BY <1>14, <1>4, <2>1, QuietStep DEF SettlementFails
<1>15. ASSUME NEW K, Interrupted(K), K \subseteq Slots PROVE IInv'
  <2>1. scan' \in [Slots -> ScanState]
    BY <1>15, <1>a, EndTypes DEF Interrupted
  <2> QED
    BY <1>15, <1>4, <2>1, QuietStep DEF Interrupted
<1>16. CASE UNCHANGED vars
  BY <1>16, <1>a DEF vars, IInv, TypeOK, EpisodesSound
<1> QED
  BY <1>1, <1>2, <1>3, <1>5, <1>6, <1>8, <1>9, <1>10, <1>11, <1>12, <1>13, <1>14,
     <1>15, <1>16 DEF Next, ScanStep

-----------------------------------------------------------------------------
(* The theorems. *)

\* Types and soundness of the rows hold in every behaviour.
LEMMA Invariant == Spec => []IInv
  BY InitInv, NextInv, PTL DEF Spec

\* The table, the feeds and every running scan keep their types.
THEOREM FindingTypes == Spec => []TypeOK
<1>1. IInv => TypeOK
  BY DEF IInv
<1> QED
  BY <1>1, Invariant, PTL

\* However scans overlap, fail or are cut short, no identity ever gets a second
\* open episode, whatever the number of sources, manifests and scans.
THEOREM SingleEpisodes == Spec => []NewEpisodesAreSingle
<1>1. IInv => NewEpisodesAreSingle
  BY DEF IInv, EpisodesSound, SoundRows, NewEpisodesAreSingle
<1> QED
  BY <1>1, Invariant, PTL

\* The steps that change the findings, and how.
LEMMA FindingSteps ==
  ASSUME IInv, [Next]_vars
  PROVE  \/ episodes' = episodes
         \/ Annotates(episodes')
         \/ \E k \in Slots : SourceAnswers(k)
<1>1. ASSUME NEW k \in Slots, recordCorroborations(k) \/ verifyFixes(k)
      PROVE  Annotates(episodes')
  BY <1>1, CorroboratedTable, SettledTable DEF recordCorroborations, verifyFixes
<1> QED
  BY <1>1 DEF Next, ScanStep, vars, DiskChanges, FeedChanges, writeSourceCell, Begin,
     resolveManifest, SkipSource, NoGraph, SourceFails, SettlementFails, Interrupted

\* A copy an open row knew is given up only by a scan that read its manifest.
LEMMA UnreadStep ==
  ASSUME IInv, [Next]_vars, NEW i \in Sources \X Advisories, NEW n \in DOMAIN episodes[i],
         NEW m \in episodes[i][n].copies, episodes[i][n].open,
         ~(episodes'[i][n].open /\ m \in episodes'[i][n].copies)
  PROVE  \E k \in Slots : m \notin unreadOf(k) /\ scan[k].step = "match"
<1>1. ~Annotates(episodes') /\ episodes' # episodes
  BY DEF Annotates
<1>2. PICK k \in Slots : SourceAnswers(k)
  BY <1>1, FindingSteps
<1>3. UnreadKept(episodes[i], episodes'[i], unreadOf(k))
  BY <1>2, AnswerTable DEF MergedBy
<1>4. n \in OpenOnes(episodes[i])
  BY DEF OpenOnes
<1>5. m \notin unreadOf(k)
  BY <1>3, <1>4 DEF UnreadKept, OpenOnes
<1>6. scan[k].step = "match"
  BY <1>2 DEF SourceAnswers, Matching
<1> QED
  BY <1>5, <1>6

\* While a manifest cannot be read, what was found in it stays open, although the
\* source that owns the row no longer reports it.
THEOREM UnreadStays == Spec => UnreadCopiesStay
<1>1. IInv /\ [Next]_vars =>
        [\A i \in Sources \X Advisories : \A n \in DOMAIN episodes[i] :
           \A m \in episodes[i][n].copies :
             (episodes[i][n].open /\ ~(episodes'[i][n].open /\ m \in episodes'[i][n].copies))
             => \E k \in Slots : m \notin unreadOf(k) /\ scan[k].step = "match"]_vars
  BY UnreadStep
<1> QED
  BY <1>1, Invariant, PTL DEF Spec, UnreadCopiesStay

\* A scan is started with the switches as they are, and keeps its copy of them.
LEMMA RunnableStep == IInv /\ RunsWhatIsOn /\ [Next]_vars => RunsWhatIsOn'
<1> SUFFICES ASSUME IInv, RunsWhatIsOn, [Next]_vars, ~MidScan, NEW j \in Slots,
                    scan'[j].step # "idle"
             PROVE  scan'[j].runnable = enabled'
  BY DEF RunsWhatIsOn
<1>1. scan \in [Slots -> ScanState] /\ (scan[j].step # "idle" => scan[j].runnable = enabled)
  BY DEF IInv, TypeOK, RunsWhatIsOn
<1>2. CASE UNCHANGED <<scan, enabled>>
  BY <1>1, <1>2
<1>3. CASE writeSourceCell
  BY <1>1, <1>3 DEF writeSourceCell, Quiet
<1>4. ASSUME NEW k \in Slots, Begin(k) PROVE scan'[j].runnable = enabled'
  BY <1>1, <1>4 DEF Begin, getRunnableSourceCells, Idle, ScanState
<1>5. ASSUME NEW k \in Slots, resolveManifest(k) PROVE scan'[j].runnable = enabled'
  BY <1>1, <1>5 DEF resolveManifest, ScanState
<1>6. ASSUME NEW k \in Slots, SkipSource(k) \/ NoGraph(k) \/ SourceFails(k) \/ SourceAnswers(k)
      PROVE  scan'[j].runnable = enabled'
  <2>1. PICK outcome, found : Advance(k, outcome, found) /\ enabled' = enabled
    BY <1>6 DEF SkipSource, NoGraph, SourceFails, SourceAnswers
  <2>2. scan[k].step = "match"
    BY <1>6 DEF SkipSource, NoGraph, SourceFails, SourceAnswers, Matching
  <2> QED
    BY <1>1, <2>1, <2>2 DEF Advance, ScanState
<1>7. ASSUME NEW k \in Slots, recordCorroborations(k) \/ verifyFixes(k) \/ SettlementFails(k)
      PROVE  scan'[j].runnable = enabled'
  BY <1>1, <1>7 DEF recordCorroborations, verifyFixes, SettlementFails, Idle, ScanState
<1>8. ASSUME NEW K, Interrupted(K) PROVE scan'[j].runnable = enabled'
  BY <1>1, <1>8 DEF Interrupted, Idle
<1> QED
  BY <1>2, <1>3, <1>4, <1>5, <1>6, <1>7, <1>8
     DEF Next, ScanStep, vars, DiskChanges, FeedChanges

\* A source that is off answers no scan.
LEMMA DisabledStep ==
  ASSUME IInv, RunsWhatIsOn, ~MidScan, [Next]_vars,
         NEW i \in Sources \X Advisories, NEW n \in DOMAIN episodes[i],
         i[1] \notin enabled, episodes[i][n].open
  PROVE  episodes'[i][n].open /\ episodes'[i][n].copies = episodes[i][n].copies
<1>1. CASE episodes' = episodes
  BY <1>1
<1>2. CASE Annotates(episodes')
  BY <1>2 DEF Annotates
<1>3. ASSUME NEW k \in Slots, SourceAnswers(k) PROVE episodes'[i] = episodes[i]
  <2>1. NextSource(k) \in scan[k].runnable /\ scan[k].step = "match"
    BY <1>3 DEF SourceAnswers, Matching
  <2>2. scan[k].runnable = enabled
    BY <2>1 DEF RunsWhatIsOn
  <2> QED
    BY <1>3, <2>1, <2>2, AnswerTable DEF MergedBy
<1> QED
  BY <1>1, <1>2, <1>3, FindingSteps

\* If no cell is switched while a scan runs, the open findings of a source that
\* is off are neither resolved nor moved, whatever the other sources do.
THEOREM DisabledKept == ~MidScan => (Spec => DisabledKeepsFindings)
<1> SUFFICES ASSUME ~MidScan PROVE Spec => DisabledKeepsFindings
  OBVIOUS
<1>1. Init => RunsWhatIsOn
  BY DEF Init, RunsWhatIsOn, Idle
<1>2. IInv /\ RunsWhatIsOn /\ [Next]_vars =>
        [\A i \in Sources \X Advisories : \A n \in DOMAIN episodes[i] :
           (i[1] \notin enabled /\ episodes[i][n].open) =>
             (episodes'[i][n].open /\ episodes'[i][n].copies = episodes[i][n].copies)]_vars
  BY DisabledStep
<1> QED
  BY <1>1, <1>2, RunnableStep, Invariant, PTL DEF Spec, DisabledKeepsFindings

-----------------------------------------------------------------------------
(* What a lone scan knows of the table and of the world. *)

\* Scans of the project never overlap.
OneScan == \A j, k \in Slots : j = k

RowOf(f)    == episodes[<<f.source, f.advisory>>][f.episode]
Done(k)     == {Order[j] : j \in {x \in DOMAIN Order : x < scan[k].next}}
Answered(k) == {s \in Sources : scan[k].outcome[s] = "ok"}

\* A finding in memory stands for the only open row of its identity, as the
\* merge, and then the rewrite of the corroborations, left it.
HoldsItsRow(k, f) ==
  /\ f.source \in Done(k)
  /\ OpenOnes(episodes[<<f.source, f.advisory>>]) = {f.episode}
  /\ RowOf(f).copies = f.copies
  /\ RowOf(f).fix = Unsettled
  /\ scan[k].step = "match" => RowOf(f).severity = Grade[f.source]
  /\ scan[k].step = "settle" => /\ RowOf(f).corroborations = f.agree
                                /\ RowOf(f).severity = Worst(f.source, f.agree)

\* One finding per advisory, each from a source that had its turn.
FoundIsHeld(k) ==
  /\ scan[k].step \in {"idle", "read"} => scan[k].found = {} /\ Answered(k) = {}
  /\ Answered(k) \subseteq Done(k)
  /\ \A f \in scan[k].found : HoldsItsRow(k, f)
  /\ \A f, g \in scan[k].found : f.advisory = g.advisory => f = g

\* Nothing has changed since the scan began.
Fresh(k) == scan[k].step # "idle" /\ scan[k].since = changes

\* What the scan took from the world is what the world still holds.
SeesTheWorld(k) ==
  /\ scan[k].runnable = enabled
  /\ scan[k].inventory = {m \in Manifests : disk[m].is # "gone"}
  /\ scan[k].read \subseteq scan[k].inventory
  /\ scan[k].graph = [m \in Manifests |-> IF m \in scan[k].read THEN disk[m] ELSE Absent]
  /\ scan[k].step # "read" => scan[k].read = scan[k].inventory

Knowing(k, a) == {s \in Answered(k) : a \in knows[s]}

\* The findings are exactly the installed advisories the sources that answered
\* know of; with every manifest read, an open row of such a source is a finding's.
FindsWhatIsKnown(k) ==
  /\ Answered(k) \subseteq enabled
  /\ \A f \in scan[k].found :
       /\ f.source \in Knowing(k, f.advisory)
       /\ CopiesSeen(k, f.advisory) # {}
       /\ CopiesSeen(k, f.advisory) \subseteq f.copies
       /\ f.agree = Knowing(k, f.advisory) \ {f.source}
  /\ \A a \in Advisories : (Knowing(k, a) # {} /\ CopiesSeen(k, a) # {}) =>
       \E f \in scan[k].found : f.advisory = a
  /\ unreadOf(k) = {} =>
       \A s \in Answered(k), a \in Advisories : OpenOnes(episodes[<<s, a>>]) # {} =>
         \E f \in scan[k].found : f.source = s /\ f.advisory = a

Current(k) ==
  /\ scan[k].step # "idle" => scan[k].since <= changes
  /\ Fresh(k) => SeesTheWorld(k) /\ FindsWhatIsKnown(k)

LoneInv ==
  /\ SettledOnItsEvidence
  /\ \A k \in Slots : FoundIsHeld(k) /\ Current(k)

-----------------------------------------------------------------------------
(* One identity's rows and the evidence of their verdicts. *)

OnEvidence(s, rows) ==
  \A n \in DOMAIN rows : (rows[n].open /\ rows[n].fix # Unsettled) =>
    rows[n].fix = [copies |-> rows[n].copies, sources |-> {s} \cup rows[n].corroborations]

\* A report leaves one open row: graded by its source, with the copies seen, and
\* with no verdict on its fix.
LEMMA ReportedRow ==
  ASSUME NEW rows \in Seq(Episode), SoundRows(rows), NEW s \in Sources,
         NEW seen \in SUBSET Manifests, NEW unread \in SUBSET Manifests,
         NEW new, new = MergeReported(rows, s, seen, unread),
         NEW own, own = pickOldestRow(OpenOnes(new))
  PROVE  /\ OpenOnes(new) = {own}
         /\ new[own].severity = Grade[s] /\ new[own].fix = Unsettled
         /\ seen \subseteq new[own].copies
         /\ OnEvidence(s, new)
<1>1. \A n : pickOldestRow({n}) = n
  BY DEF pickOldestRow
<1>2. ASSUME NEW n, OpenOnes(new) = {n}, new[n].severity = Grade[s], new[n].fix = Unsettled,
             seen \subseteq new[n].copies
      PROVE  /\ OpenOnes(new) = {own}
             /\ new[own].severity = Grade[s] /\ new[own].fix = Unsettled
             /\ seen \subseteq new[own].copies
             /\ OnEvidence(s, new)
  <2>1. own = n
    BY <1>1, <1>2, Zenon
  <2>2. \A x \in DOMAIN new : new[x].open => x = n
    BY <1>2 DEF OpenOnes
  <2>3. OnEvidence(s, new)
    BY <1>2, <2>2, Zenon DEF OnEvidence
  <2> QED
    BY <1>2, <2>1, <2>3, Zenon
<1>3. CASE OpenOnes(rows) = {}
  <2> DEFINE row == Opened(s, seen)
             n   == Len(rows) + 1
  <2>1. new = Append(rows, row)
    BY <1>3 DEF MergeReported
  <2>2. row.open /\ row.severity = Grade[s] /\ row.fix = Unsettled /\ row.copies = seen
    BY DEF Opened
  <2> HIDE DEF row
  <2>3. Len(rows) \in Nat /\ DOMAIN rows = 1..Len(rows)
    OBVIOUS
  <2>4. DOMAIN new = 1..n /\ new[n] = row /\ \A x \in DOMAIN rows : new[x] = rows[x]
    BY <2>1, <2>3
  <2>5. OpenOnes(new) = {n}
    BY <1>3, <2>2, <2>3, <2>4 DEF OpenOnes
  <2> HIDE DEF n
  <2> QED
    BY <1>2, <2>2, <2>4, <2>5
<1>4. CASE OpenOnes(rows) # {}
  <2> DEFINE open == OpenOnes(rows)
             old  == pickOldestRow(open)
  <2>1. old \in open /\ old \in DOMAIN rows
    BY <1>4, OldestIsOpen DEF OpenOnes
  <2>2. new = [x \in DOMAIN rows |->
                 IF x \notin open THEN rows[x]
                 ELSE IF x = old THEN Continued(rows[x], s, seen, unread)
                 ELSE resolveFindingRow(rows[x])]
    BY <1>4 DEF MergeReported
  <2>3. rows[old] \in Episode /\ new[old] = Continued(rows[old], s, seen, unread)
    BY <2>1, <2>2, RowsAreEpisodes
  <2>4. new[old].severity = Grade[s] /\ new[old].fix = Unsettled /\ seen \subseteq new[old].copies
    BY <2>3 DEF Continued, withRetainedCopies, Episode
  <2>5. OpenOnes(new) # {} /\ OpenOnes(new) \subseteq {old}
    <3>1. OpenOnes(new) # {}
      BY ReportedRows
    <3>2. \A x \in DOMAIN rows : x \in open <=> rows[x].open
      BY DEF OpenOnes
    <3>3. \A x \in DOMAIN rows : ~resolveFindingRow(rows[x]).open
      BY RowsAreEpisodes, RowSteps
    <3>4. DOMAIN new = DOMAIN rows
      BY <2>2
    <3>5. ASSUME NEW x \in DOMAIN rows, x # old PROVE ~new[x].open
      BY <2>2, <3>2, <3>3, <3>5
    <3> HIDE DEF open, old
    <3> QED
      BY <3>1, <3>4, <3>5 DEF OpenOnes
  <2> HIDE DEF old
  <2>6. OpenOnes(new) = {old}
    BY <2>5
  <2> QED
    BY <1>2, <2>4, <2>6
<1> QED
  BY <1>3, <1>4

\* Silence gives no verdict, and with nothing unread it leaves no row open.
LEMMA AbsentRow ==
  ASSUME NEW rows \in Seq(Episode), NEW s \in Sources, OnEvidence(s, rows),
         NEW unread \in SUBSET Manifests, NEW new, new = MergeAbsent(rows, unread)
  PROVE  OnEvidence(s, new) /\ (unread = {} => OpenOnes(new) = {})
<1>1. new = [n \in DOMAIN rows |->
               IF rows[n].open /\ ~installedThroughUnread(rows[n], unread)
               THEN resolveFindingRow(rows[n]) ELSE rows[n]]
  BY DEF MergeAbsent
<1>2. \A n \in DOMAIN rows : ~resolveFindingRow(rows[n]).open
  BY RowsAreEpisodes, RowSteps
<1>3. DOMAIN new = DOMAIN rows /\ \A n \in DOMAIN rows : new[n].open => new[n] = rows[n]
  BY <1>1, <1>2
<1>4. OnEvidence(s, new)
  BY <1>3, Zenon DEF OnEvidence
<1>5. unread = {} => \A n \in DOMAIN rows : ~new[n].open
  BY <1>1, <1>2 DEF installedThroughUnread
<1> QED
  BY <1>3, <1>4, <1>5 DEF OpenOnes

\* A lone grade is the worst of itself.
LEMMA WorstAlone == \A s \in Sources : Worst(s, {}) = Grade[s]
<1> SUFFICES ASSUME NEW s \in Sources PROVE Worst(s, {}) = Grade[s]
  OBVIOUS
<1>1. Grade[s] <= Grade[s]
  BY ConstantsAssumption DEF Severities
<1>2. Worst(s, {}) = CHOOSE g \in {Grade[s]} : Grade[s] <= g
  BY DEF Worst
<1> QED
  BY <1>1, <1>2
-----------------------------------------------------------------------------
(* The scan's own state, step by step. *)

\* A scan that is not running knows nothing.
LEMMA IdleKeeps ==
  ASSUME NEW k \in Slots, scan' \in [Slots -> ScanState], scan'[k] = Idle
  PROVE  FoundIsHeld(k)' /\ Current(k)'
<1>1. /\ scan'[k].step = "idle" /\ scan'[k].found = {}
      /\ \A s \in Sources : scan'[k].outcome[s] = "none"
  BY DEF Idle
<1>2. Answered(k)' = {}
  BY <1>1 DEF Answered
<1> QED
  BY <1>1, <1>2 DEF FoundIsHeld, Current, Fresh

\* A change of the world leaves the scan holding its rows, and no longer fresh.
LEMMA WorldKeeps ==
  ASSUME TypeOK, NEW k \in Slots, FoundIsHeld(k), Current(k),
         scan' = scan, episodes' = episodes, changes' = changes + 1
  PROVE  FoundIsHeld(k)' /\ Current(k)'
<1>1. FoundIsHeld(k)'
  BY DEF FoundIsHeld, HoldsItsRow, RowOf, Done, Answered
<1>2. changes \in Nat /\ scan[k].since \in Nat
  BY ConstantsAssumption DEF TypeOK, ScanState
<1>3. scan'[k].step # "idle" => scan'[k].since <= changes' /\ scan'[k].since # changes'
  BY <1>2 DEF Current
<1> QED
  BY <1>1, <1>3 DEF Current, Fresh

\* A scan no step touched, in a world that held still, knows what it knew.
LEMMA StillKeeps ==
  ASSUME NEW k \in Slots, FoundIsHeld(k), Current(k), scan'[k] = scan[k],
         UNCHANGED <<disk, knows, enabled, episodes, changes>>
  PROVE  FoundIsHeld(k)' /\ Current(k)'
<1>1. FoundIsHeld(k)'
  BY DEF FoundIsHeld, HoldsItsRow, RowOf, Done, Answered
<1>3. /\ \A a : CopiesSeen(k, a)' = CopiesSeen(k, a)
      /\ \A a : Knowing(k, a)' = Knowing(k, a)
      /\ unreadOf(k)' = unreadOf(k) /\ Answered(k)' = Answered(k)
  BY DEF CopiesSeen, Knowing, unreadOf, Answered
<1>4. SeesTheWorld(k) => SeesTheWorld(k)'
  BY DEF SeesTheWorld
<1>5. FindsWhatIsKnown(k) => FindsWhatIsKnown(k)'
  BY <1>3 DEF FindsWhatIsKnown
<1> QED
  BY <1>1, <1>4, <1>5 DEF Current, Fresh

\* A scan begins with the world as it is, and nothing found.
LEMMA BeginKeeps ==
  ASSUME TypeOK, NEW k \in Slots, Begin(k)
  PROVE  FoundIsHeld(k)' /\ Current(k)'
<1> DEFINE there == {m \in Manifests : disk[m].is # "gone"}
<1>1. scan'[k] = [Idle EXCEPT !.step = IF there = {} THEN "match" ELSE "read",
                              !.since = changes, !.runnable = getRunnableSourceCells,
                              !.inventory = there]
  BY DEF Begin, TypeOK
<1>2. /\ scan'[k].step = (IF there = {} THEN "match" ELSE "read")
      /\ scan'[k].since = changes /\ scan'[k].runnable = enabled
      /\ scan'[k].inventory = there /\ scan'[k].read = {} /\ scan'[k].found = {}
      /\ scan'[k].graph = [m \in Manifests |-> Absent]
      /\ \A s \in Sources : scan'[k].outcome[s] = "none"
  BY <1>1 DEF Idle, getRunnableSourceCells
<1>3. UNCHANGED <<disk, knows, enabled, episodes, changes>> /\ changes \in Nat
  BY ConstantsAssumption DEF Begin, TypeOK
<1>4. Answered(k)' = {} /\ \A a : Knowing(k, a)' = {}
  BY <1>2 DEF Answered, Knowing
<1>5. FoundIsHeld(k)'
  BY <1>2, <1>4 DEF FoundIsHeld
<1>6. SeesTheWorld(k)'
  BY <1>2, <1>3 DEF SeesTheWorld
<1>7. FindsWhatIsKnown(k)'
  BY <1>2, <1>4 DEF FindsWhatIsKnown
<1> QED
  BY <1>2, <1>3, <1>5, <1>6, <1>7 DEF Current, Fresh

\* One more manifest is read, as it stands on disk.
LEMMA ReadKeeps ==
  ASSUME TypeOK, NEW k \in Slots, FoundIsHeld(k), Current(k), resolveManifest(k)
  PROVE  FoundIsHeld(k)' /\ Current(k)'
<1>1. PICK m \in scan[k].inventory \ scan[k].read :
        LET read == scan[k].read \cup {m}
            file == IF disk[m].is = "gone" THEN [is |-> "broken", has |-> {}] ELSE disk[m]
        IN  scan' = [scan EXCEPT ![k].read = read, ![k].graph[m] = file,
                                 ![k].step = IF read = scan[k].inventory
                                             THEN "match" ELSE "read"]
  BY DEF resolveManifest
<1> DEFINE seen == scan[k].read \cup {m}
           file == IF disk[m].is = "gone" THEN [is |-> "broken", has |-> {}] ELSE disk[m]
           step == IF seen = scan[k].inventory THEN "match" ELSE "read"
<1>2. /\ scan[k] \in ScanState /\ scan[k].step = "read"
      /\ UNCHANGED <<disk, knows, enabled, episodes, changes>>
  BY DEF TypeOK, resolveManifest
<1>3. /\ scan'[k].step = step /\ scan'[k].read = seen
      /\ scan'[k].graph = [scan[k].graph EXCEPT ![m] = file]
      /\ scan'[k].since = scan[k].since /\ scan'[k].runnable = scan[k].runnable
      /\ scan'[k].inventory = scan[k].inventory /\ scan'[k].found = scan[k].found
      /\ scan'[k].outcome = scan[k].outcome /\ scan'[k].next = scan[k].next
  <2>1. scan' = [scan EXCEPT ![k].read = seen, ![k].graph[m] = file, ![k].step = step]
    BY <1>1
  <2> HIDE DEF seen, file, step
  <2> QED
    BY <2>1, <1>2 DEF TypeOK, ScanState
<1> HIDE DEF seen, file, step
<1>4. scan[k].found = {} /\ Answered(k) = {}
  BY <1>2 DEF FoundIsHeld
<1>5. Answered(k)' = {} /\ \A a : Knowing(k, a)' = {}
  BY <1>3, <1>4 DEF Answered, Knowing
<1>6. FoundIsHeld(k)'
  BY <1>3, <1>4, <1>5 DEF FoundIsHeld
<1>7. FindsWhatIsKnown(k)'
  BY <1>3, <1>4, <1>5 DEF FindsWhatIsKnown
<1>8. SeesTheWorld(k) => SeesTheWorld(k)'
  <2> SUFFICES ASSUME SeesTheWorld(k) PROVE SeesTheWorld(k)'
    OBVIOUS
  <2>1. m \in Manifests /\ file = disk[m]
    BY DEF SeesTheWorld, file
  <2>2. scan'[k].graph = [x \in Manifests |-> IF x \in seen THEN disk[x] ELSE Absent]
    BY <1>3, <2>1 DEF SeesTheWorld, seen
  <2>3. seen \subseteq scan[k].inventory
    BY DEF SeesTheWorld, seen
  <2>4. step # "read" => seen = scan[k].inventory
    BY DEF step
  <2> QED
    BY <1>2, <1>3, <2>2, <2>3, <2>4 DEF SeesTheWorld
<1>9. scan[k].step # "idle"
  BY <1>2
<1> QED
  BY <1>2, <1>3, <1>6, <1>7, <1>8, <1>9 DEF Current, Fresh

-----------------------------------------------------------------------------
(* The sources in turn. *)

\* The fields a source's turn leaves alone and the ones it sets.
LEMMA AdvanceFields ==
  ASSUME TypeOK, NEW k \in Slots, Matching(k), NEW outcome, NEW found,
         Advance(k, outcome, found)
  PROVE  /\ NextSource(k) \in Sources \ Done(k)
         /\ Done(k)' = Done(k) \cup {NextSource(k)}
         /\ scan'[k].step = "match" /\ scan'[k].found = found
         /\ scan'[k].outcome = [scan[k].outcome EXCEPT ![NextSource(k)] = outcome]
         /\ scan'[k].since = scan[k].since /\ scan'[k].runnable = scan[k].runnable
         /\ scan'[k].inventory = scan[k].inventory /\ scan'[k].read = scan[k].read
         /\ scan'[k].graph = scan[k].graph
<1>1. scan[k] \in ScanState /\ scan[k].step = "match" /\ scan[k].next \in DOMAIN Order
  BY DEF TypeOK, Matching
<1>2. DOMAIN Order \subseteq Nat
  BY ConstantsAssumption
<1>3. NextSource(k) \in Sources
  BY <1>1 DEF NextSource, Sources
<1>4. /\ scan'[k].step = "match" /\ scan'[k].found = found
      /\ scan'[k].outcome = [scan[k].outcome EXCEPT ![NextSource(k)] = outcome]
      /\ scan'[k].since = scan[k].since /\ scan'[k].runnable = scan[k].runnable
      /\ scan'[k].inventory = scan[k].inventory /\ scan'[k].read = scan[k].read
      /\ scan'[k].graph = scan[k].graph
      /\ scan'[k].next = scan[k].next + 1
  BY <1>1 DEF Advance, TypeOK, ScanState
<1>5. NextSource(k) \notin Done(k)
  <2>1. \A i, j \in DOMAIN Order : Order[i] = Order[j] => i = j
    BY ConstantsAssumption
  <2>2. scan[k].next \in Nat /\ ~(scan[k].next < scan[k].next)
    BY <1>1, <1>2
  <2> QED
    BY <1>1, <2>1, <2>2 DEF NextSource, Done
<1>6. Done(k)' = Done(k) \cup {NextSource(k)}
  <2>1. \A x \in DOMAIN Order : x < scan'[k].next <=> (x < scan[k].next \/ x = scan[k].next)
    BY <1>1, <1>2, <1>4
  <2>2. Done(k)' = {Order[j] : j \in {x \in DOMAIN Order : x < scan'[k].next}}
    BY DEF Done
  <2> QED
    BY <1>1, <2>1, <2>2 DEF Done, NextSource
<1> QED
  BY <1>3, <1>4, <1>5, <1>6

\* A source that gives no answer leaves everything the scan knows as it was.
LEMMA SilentKeeps ==
  ASSUME TypeOK, NEW k \in Slots, FoundIsHeld(k), Current(k), Matching(k),
         NEW outcome, outcome # "ok", Advance(k, outcome, scan[k].found),
         UNCHANGED <<disk, knows, enabled, episodes, changes>>
  PROVE  FoundIsHeld(k)' /\ Current(k)'
<1> DEFINE s == NextSource(k)
<1>1. /\ s \in Sources \ Done(k) /\ Done(k)' = Done(k) \cup {s}
      /\ scan'[k].step = "match" /\ scan'[k].found = scan[k].found
      /\ scan'[k].outcome = [scan[k].outcome EXCEPT ![s] = outcome]
      /\ scan'[k].since = scan[k].since /\ scan'[k].runnable = scan[k].runnable
      /\ scan'[k].inventory = scan[k].inventory /\ scan'[k].read = scan[k].read
      /\ scan'[k].graph = scan[k].graph
  BY AdvanceFields
<1>2. scan[k].step = "match" /\ scan[k].outcome \in [Sources -> Outcomes]
  BY DEF Matching, TypeOK, ScanState
<1> HIDE DEF s
<1>3. Answered(k)' = Answered(k)
  <2>1. s \notin Answered(k)
    BY <1>1 DEF FoundIsHeld
  <2> QED
    BY <1>1, <1>2, <2>1 DEF Answered
<1>4. FoundIsHeld(k)'
  BY <1>1, <1>2, <1>3 DEF FoundIsHeld, HoldsItsRow, RowOf
<1>5. SeesTheWorld(k) => SeesTheWorld(k)'
  BY <1>1, <1>2 DEF SeesTheWorld
<1>6. /\ \A a : CopiesSeen(k, a)' = CopiesSeen(k, a)
      /\ \A a : Knowing(k, a)' = Knowing(k, a)
      /\ unreadOf(k)' = unreadOf(k)
  BY <1>1, <1>3 DEF CopiesSeen, Knowing, unreadOf
<1>7. FindsWhatIsKnown(k) => FindsWhatIsKnown(k)'
  BY <1>1, <1>3, <1>6 DEF FindsWhatIsKnown
<1> QED
  BY <1>1, <1>2, <1>4, <1>5, <1>7 DEF Current, Fresh

\* The advisories a source reports that nobody reported before it.
NewHere(k) == {a \in matchPackages(k) : \A f \in scan[k].found : f.advisory # a}

\* A finding after a later source's answer, and a finding of that source's own.
Agreed(f, s, matched) == IF f.advisory \in matched THEN [f EXCEPT !.agree = @ \cup {s}] ELSE f
OwnFinding(s, a, rows) ==
  [source |-> s, advisory |-> a, episode |-> pickOldestRow(OpenOnes(rows)),
   copies |-> rows[pickOldestRow(OpenOnes(rows))].copies, agree |-> {}]

\* What is known of an identity after its source's answer.
AnsweredRows(k, s, a, rows) ==
  /\ OnEvidence(s, rows)
  /\ a \in NewHere(k) =>
       LET own == pickOldestRow(OpenOnes(rows))
       IN  /\ OpenOnes(rows) = {own}
           /\ rows[own].severity = Grade[s] /\ rows[own].fix = Unsettled
           /\ CopiesSeen(k, a) \subseteq rows[own].copies
  /\ (a \notin NewHere(k) /\ unreadOf(k) = {}) => OpenOnes(rows) = {}

\* The merge of one answer, identity by identity, and the findings it leaves.
LEMMA AnswerFacts ==
  ASSUME IInv, SettledOnItsEvidence, NEW k \in Slots, SourceAnswers(k)
  PROVE  LET s == NextSource(k)
         IN  /\ \A i \in Sources \X Advisories : i[1] # s => episodes'[i] = episodes[i]
             /\ \A a \in Advisories : AnsweredRows(k, s, a, episodes'[<<s, a>>])
             /\ NewHere(k) \subseteq Advisories
             /\ Advance(k, "ok", {Agreed(f, s, matchPackages(k)) : f \in scan[k].found}
                                   \cup {OwnFinding(s, a, episodes'[<<s, a>>]) : a \in NewHere(k)})
<1> DEFINE s       == NextSource(k)
           matched == matchPackages(k)
           new     == mergeFindingsForScan(k, s, NewHere(k))
<1>1. TypeOK /\ Matching(k)
  BY DEF IInv, SourceAnswers
<1>2. s \in Sources
  BY <1>1, ScanSets DEF Matching
<1>3. episodes' = new /\ Advance(k, "ok", reconcileAgainstReported(k, s, matched, NewHere(k), new))
  BY DEF SourceAnswers, NewHere
<1>4. NewHere(k) \subseteq Advisories
  BY <1>1, <1>2 DEF NewHere, matchPackages, TypeOK
<1>5. reconcileAgainstReported(k, s, matched, NewHere(k), new) =
        {Agreed(f, s, matched) : f \in scan[k].found}
          \cup {OwnFinding(s, a, new[<<s, a>>]) : a \in NewHere(k)}
  BY DEF reconcileAgainstReported, Agreed, OwnFinding
<1>6. \A i \in Sources \X Advisories : i[1] # s => new[i] = episodes[i]
  BY DEF mergeFindingsForScan
<1>7. ASSUME NEW a \in Advisories PROVE AnsweredRows(k, s, a, new[<<s, a>>])
  <2> DEFINE rows == episodes[<<s, a>>]
  <2>1. <<s, a>> \in Sources \X Advisories /\ <<s, a>>[1] = s /\ <<s, a>>[2] = a
    BY <1>2
  <2>2. rows \in Seq(Episode) /\ SoundRows(rows) /\ OnEvidence(s, rows)
    <3>1. rows \in Seq(Episode) /\ SoundRows(rows)
      BY <2>1 DEF IInv, TypeOK, EpisodesSound
    <3>2. \A n \in DOMAIN rows : LET row == rows[n]
            IN  row.open /\ row.fix # Unsettled =>
                  row.fix = [copies |-> row.copies, sources |-> {s} \cup row.corroborations]
      BY <2>1 DEF SettledOnItsEvidence
    <3>3. OnEvidence(s, rows)
      BY <3>2, Zenon DEF OnEvidence
    <3> QED
      BY <3>1, <3>3
  <2>3. unreadOf(k) \in SUBSET Manifests /\ CopiesSeen(k, a) \in SUBSET Manifests
    BY <1>1, ScanSets
  <2>4. CASE a \in NewHere(k)
    <3>1. new[<<s, a>>] = MergeReported(rows, s, CopiesSeen(k, a), unreadOf(k))
      BY <2>1, <2>4 DEF mergeFindingsForScan
    <3> HIDE DEF rows, new
    <3> DEFINE own == pickOldestRow(OpenOnes(new[<<s, a>>]))
    <3>2. /\ OpenOnes(new[<<s, a>>]) = {own}
          /\ new[<<s, a>>][own].severity = Grade[s] /\ new[<<s, a>>][own].fix = Unsettled
          /\ CopiesSeen(k, a) \subseteq new[<<s, a>>][own].copies
          /\ OnEvidence(s, new[<<s, a>>])
      BY <1>2, <2>2, <2>3, <3>1, ReportedRow
    <3> QED
      BY <2>4, <3>2 DEF AnsweredRows
  <2>5. CASE a \notin NewHere(k)
    <3>1. new[<<s, a>>] = MergeAbsent(rows, unreadOf(k))
      BY <2>1, <2>5 DEF mergeFindingsForScan
    <3> HIDE DEF rows, new
    <3>2. OnEvidence(s, new[<<s, a>>]) /\ (unreadOf(k) = {} => OpenOnes(new[<<s, a>>]) = {})
      BY <1>2, <2>2, <2>3, <3>1, AbsentRow
    <3> QED
      BY <2>5, <3>2 DEF AnsweredRows
  <2> QED
    BY <2>4, <2>5
<1> HIDE DEF new, matched
<1> QED
  BY <1>3, <1>4, <1>5, <1>6, <1>7 DEF matched

\* A source's answer leaves every finding holding its row.
LEMMA AnswerHolds ==
  ASSUME IInv, SettledOnItsEvidence, NEW k \in Slots, FoundIsHeld(k), SourceAnswers(k)
  PROVE  FoundIsHeld(k)' /\ SettledOnItsEvidence'
<1> DEFINE s       == NextSource(k)
           matched == matchPackages(k)
           older   == {Agreed(f, s, matched) : f \in scan[k].found}
           newer   == {OwnFinding(s, a, episodes'[<<s, a>>]) : a \in NewHere(k)}
<1>1. TypeOK /\ Matching(k) /\ scan[k].step = "match"
  BY DEF IInv, SourceAnswers, Matching
<1>2. /\ \A i \in Sources \X Advisories : i[1] # s => episodes'[i] = episodes[i]
      /\ \A a \in Advisories : AnsweredRows(k, s, a, episodes'[<<s, a>>])
      /\ NewHere(k) \subseteq Advisories
      /\ Advance(k, "ok", older \cup newer)
  BY AnswerFacts
<1>3. /\ s \in Sources \ Done(k) /\ Done(k)' = Done(k) \cup {s}
      /\ scan'[k].step = "match" /\ scan'[k].found = older \cup newer
      /\ scan'[k].outcome = [scan[k].outcome EXCEPT ![s] = "ok"]
  <2> HIDE DEF older, newer
  <2> QED
    BY <1>1, <1>2, AdvanceFields
<1>4. scan[k].found \in SUBSET Finding /\ scan[k].outcome \in [Sources -> Outcomes]
  BY <1>1 DEF TypeOK, ScanState
<1>5. \A f \in Finding : LET g == Agreed(f, s, matched)
        IN  /\ g.source = f.source /\ g.advisory = f.advisory
            /\ g.episode = f.episode /\ g.copies = f.copies
  BY DEF Agreed, Finding
<1> HIDE DEF s, matched
<1>6. Answered(k)' \subseteq Done(k)'
  BY <1>3, <1>4 DEF Answered, FoundIsHeld
<1>7. ASSUME NEW f \in scan[k].found, NEW g, g = Agreed(f, s, matched)
      PROVE  HoldsItsRow(k, g)'
  <2> DEFINE i == <<f.source, f.advisory>>
  <2>1. /\ g.source = f.source /\ g.advisory = f.advisory
        /\ g.episode = f.episode /\ g.copies = f.copies
    BY <1>4, <1>5, <1>7
  <2>2. HoldsItsRow(k, f) /\ f.source \in Done(k)
    BY DEF FoundIsHeld, HoldsItsRow
  <2>3. i \in Sources \X Advisories /\ i[1] = f.source
    BY <1>4 DEF Finding
  <2>4. episodes'[i] = episodes[i]
    BY <1>2, <1>3, <2>2, <2>3
  <2>5. RowOf(g)' = RowOf(f) /\ episodes'[<<g.source, g.advisory>>] = episodes[i]
    BY <2>1, <2>4 DEF RowOf
  <2> QED
    BY <1>1, <1>3, <2>1, <2>2, <2>5 DEF HoldsItsRow
<1>8. ASSUME NEW a \in NewHere(k), NEW g, g = OwnFinding(s, a, episodes'[<<s, a>>])
      PROVE  HoldsItsRow(k, g)'
  <2> DEFINE rows == episodes'[<<s, a>>]
             own  == pickOldestRow(OpenOnes(rows))
  <2>1. AnsweredRows(k, s, a, rows)
    BY <1>2
  <2>2. OpenOnes(rows) = {own} /\ rows[own].severity = Grade[s] /\ rows[own].fix = Unsettled
    BY <2>1 DEF AnsweredRows
  <2>3. g.source = s /\ g.advisory = a /\ g.episode = own /\ g.copies = rows[own].copies
    BY <1>8 DEF OwnFinding
  <2> HIDE DEF own
  <2>4. RowOf(g)' = rows[own] /\ episodes'[<<g.source, g.advisory>>] = rows
    BY <2>3 DEF RowOf
  <2> QED
    BY <1>3, <2>2, <2>3, <2>4 DEF HoldsItsRow
<1>9. ASSUME NEW f \in older \cup newer, NEW g \in older \cup newer, f.advisory = g.advisory
      PROVE  f = g
  <2>1. \A x, y \in scan[k].found : x.advisory = y.advisory => x = y
    BY DEF FoundIsHeld
  <2>2. \A x \in older : \E y \in scan[k].found :
           x = Agreed(y, s, matched) /\ x.advisory = y.advisory
    BY <1>4, <1>5
  <2>a. \A a \in NewHere(k) : OwnFinding(s, a, episodes'[<<s, a>>]).advisory = a
    BY DEF OwnFinding
  <2>3. \A x \in newer : \E a \in NewHere(k) :
           x = OwnFinding(s, a, episodes'[<<s, a>>]) /\ x.advisory = a
    BY <2>a
  <2>4. \A y \in scan[k].found : \A a \in NewHere(k) : y.advisory # a
    BY DEF NewHere
  <2> HIDE DEF older, newer
  <2>5. CASE f \in older /\ g \in older
    BY <1>9, <2>1, <2>2, <2>5
  <2>6. CASE f \in newer /\ g \in newer
    BY <1>9, <2>3, <2>6
  <2>7. CASE (f \in older /\ g \in newer) \/ (f \in newer /\ g \in older)
    <3>1. \A x \in older, y \in newer : x.advisory # y.advisory
      <4> SUFFICES ASSUME NEW x \in older, NEW y \in newer PROVE x.advisory # y.advisory
        OBVIOUS
      <4>1. PICK h \in scan[k].found : x.advisory = h.advisory
        BY <2>2
      <4>2. PICK a \in NewHere(k) : y.advisory = a
        BY <2>3
      <4> QED
        BY <2>4, <4>1, <4>2
    <3> QED
      BY <1>9, <2>7, <3>1
  <2> QED
    BY <2>5, <2>6, <2>7
<1>10. \A f \in scan'[k].found : HoldsItsRow(k, f)'
  BY <1>3, <1>7, <1>8
<1>11. FoundIsHeld(k)'
  <2> HIDE DEF older, newer
  <2> QED
    BY <1>3, <1>6, <1>9, <1>10 DEF FoundIsHeld
<1>12. SettledOnItsEvidence'
  <2> SUFFICES ASSUME NEW i \in Sources \X Advisories, NEW n \in DOMAIN episodes'[i],
                      episodes'[i][n].open, episodes'[i][n].fix # Unsettled
               PROVE  episodes'[i][n].fix = [copies |-> episodes'[i][n].copies,
                                 sources |-> {i[1]} \cup episodes'[i][n].corroborations]
    BY DEF SettledOnItsEvidence
  <2>1. CASE i[1] # s
    BY <1>2, <2>1 DEF SettledOnItsEvidence
  <2>2. CASE i[1] = s
    <3>1. i = <<s, i[2]>> /\ i[2] \in Advisories
      BY <2>2
    <3>2. OnEvidence(s, episodes'[i])
      BY <1>2, <3>1 DEF AnsweredRows
    <3> QED
      BY <2>2, <3>2, Zenon DEF OnEvidence
  <2> QED
    BY <2>1, <2>2
<1> QED
  BY <1>11, <1>12

\* What a source answers about the world as it stands is what the world holds.
LEMMA AnswerFinds ==
  ASSUME IInv, SettledOnItsEvidence, NEW k \in Slots, FoundIsHeld(k),
         SeesTheWorld(k), FindsWhatIsKnown(k), SourceAnswers(k)
  PROVE  SeesTheWorld(k)' /\ FindsWhatIsKnown(k)'
<1> DEFINE s       == NextSource(k)
           matched == matchPackages(k)
           older   == {Agreed(f, s, matched) : f \in scan[k].found}
           newer   == {OwnFinding(s, a, episodes'[<<s, a>>]) : a \in NewHere(k)}
<1>1. /\ TypeOK /\ Matching(k) /\ scan[k].step = "match" /\ s \in scan[k].runnable
      /\ UNCHANGED <<disk, knows, enabled, changes>>
  BY DEF IInv, SourceAnswers, Matching
<1>2. /\ \A i \in Sources \X Advisories : i[1] # s => episodes'[i] = episodes[i]
      /\ \A a \in Advisories : AnsweredRows(k, s, a, episodes'[<<s, a>>])
      /\ NewHere(k) \subseteq Advisories
      /\ Advance(k, "ok", older \cup newer)
  BY AnswerFacts
<1>3. /\ s \in Sources \ Done(k)
      /\ scan'[k].step = "match" /\ scan'[k].found = older \cup newer
      /\ scan'[k].outcome = [scan[k].outcome EXCEPT ![s] = "ok"]
      /\ scan'[k].runnable = scan[k].runnable
      /\ scan'[k].inventory = scan[k].inventory /\ scan'[k].read = scan[k].read
      /\ scan'[k].graph = scan[k].graph
  <2> HIDE DEF older, newer
  <2> QED
    BY <1>1, <1>2, AdvanceFields
<1>4. scan[k].found \in SUBSET Finding /\ scan[k].outcome \in [Sources -> Outcomes]
  BY <1>1 DEF TypeOK, ScanState
<1>5. SeesTheWorld(k)'
  BY <1>1, <1>3 DEF SeesTheWorld
<1>6. s \in enabled /\ knows \in [Sources -> SUBSET Advisories]
  BY <1>1 DEF SeesTheWorld, TypeOK
<1>7. \A a : a \in matched <=> a \in knows[s] /\ CopiesSeen(k, a) # {}
  BY <1>6 DEF matchPackages
<1>8. Answered(k)' = Answered(k) \cup {s}
  BY <1>3, <1>4 DEF Answered
<1>9. /\ \A a : CopiesSeen(k, a)' = CopiesSeen(k, a)
      /\ unreadOf(k)' = unreadOf(k)
  BY <1>3 DEF CopiesSeen, unreadOf
<1>10. \A a : Knowing(k, a)' = Knowing(k, a) \cup (IF a \in knows[s] THEN {s} ELSE {})
  BY <1>1, <1>8 DEF Knowing
<1>11. \A f \in scan[k].found : f \in Finding /\ f.source \in Done(k) /\ f.source # s
  BY <1>3, <1>4 DEF FoundIsHeld, HoldsItsRow
<1>12. ASSUME NEW f \in scan[k].found, NEW g, g = Agreed(f, s, matched)
       PROVE  /\ g.source = f.source /\ g.advisory = f.advisory /\ g.copies = f.copies
              /\ g.agree = f.agree \cup (IF f.advisory \in matched THEN {s} ELSE {})
  BY <1>11, <1>12 DEF Agreed, Finding
<1>13. ASSUME NEW a, NEW g, g = OwnFinding(s, a, episodes'[<<s, a>>])
       PROVE  LET own == pickOldestRow(OpenOnes(episodes'[<<s, a>>]))
              IN  /\ g.source = s /\ g.advisory = a /\ g.agree = {}
                  /\ g.copies = episodes'[<<s, a>>][own].copies
  BY <1>13 DEF OwnFinding
<1> HIDE DEF s, matched
<1>14. ASSUME NEW g \in older \cup newer
       PROVE  /\ g.source \in Knowing(k, g.advisory)'
              /\ CopiesSeen(k, g.advisory)' # {}
              /\ CopiesSeen(k, g.advisory)' \subseteq g.copies
              /\ g.agree = Knowing(k, g.advisory)' \ {g.source}
  <2>1. ASSUME NEW f \in scan[k].found, g = Agreed(f, s, matched)
        PROVE  /\ g.source \in Knowing(k, g.advisory)'
               /\ CopiesSeen(k, g.advisory)' # {}
               /\ CopiesSeen(k, g.advisory)' \subseteq g.copies
               /\ g.agree = Knowing(k, g.advisory)' \ {g.source}
    <3>1. /\ f.source \in Knowing(k, f.advisory) /\ CopiesSeen(k, f.advisory) # {}
          /\ CopiesSeen(k, f.advisory) \subseteq f.copies
          /\ f.agree = Knowing(k, f.advisory) \ {f.source}
      BY DEF FindsWhatIsKnown
    <3>2. f.advisory \in matched <=> f.advisory \in knows[s]
      BY <1>7, <3>1
    <3>3. /\ g.source = f.source /\ g.advisory = f.advisory /\ g.copies = f.copies
          /\ g.agree = f.agree \cup (IF f.advisory \in matched THEN {s} ELSE {})
      BY <1>12, <2>1
    <3>4. f.source # s
      BY <1>11
    <3> QED
      BY <1>9, <1>10, <3>1, <3>2, <3>3, <3>4
  <2>2. ASSUME NEW a \in NewHere(k), g = OwnFinding(s, a, episodes'[<<s, a>>])
        PROVE  /\ g.source \in Knowing(k, g.advisory)'
               /\ CopiesSeen(k, g.advisory)' # {}
               /\ CopiesSeen(k, g.advisory)' \subseteq g.copies
               /\ g.agree = Knowing(k, g.advisory)' \ {g.source}
    <3> DEFINE own == pickOldestRow(OpenOnes(episodes'[<<s, a>>]))
    <3>1. /\ g.source = s /\ g.advisory = a /\ g.agree = {}
          /\ g.copies = episodes'[<<s, a>>][own].copies
      BY <1>13, <2>2
    <3>2. CopiesSeen(k, a) \subseteq episodes'[<<s, a>>][own].copies
      BY <1>2 DEF AnsweredRows
    <3>3. /\ a \in Advisories /\ a \in knows[s] /\ CopiesSeen(k, a) # {}
          /\ \A f \in scan[k].found : f.advisory # a
      BY <1>2, <1>7 DEF NewHere, matched
    <3>4. Knowing(k, a) = {}
      BY <3>3 DEF FindsWhatIsKnown
    <3> HIDE DEF own
    <3> QED
      BY <1>9, <1>10, <3>1, <3>2, <3>3, <3>4
  <2> QED
    BY <2>1, <2>2
<1>15. ASSUME NEW a \in Advisories, Knowing(k, a)' # {}, CopiesSeen(k, a)' # {}
       PROVE  \E g \in older \cup newer : g.advisory = a
  <2>1. CASE \E f \in scan[k].found : f.advisory = a
    BY <1>12, <2>1
  <2>2. CASE \A f \in scan[k].found : f.advisory # a
    <3>1. Knowing(k, a) = {}
      BY <1>9, <1>15, <2>2 DEF FindsWhatIsKnown
    <3>2. a \in matched
      BY <1>7, <1>9, <1>10, <1>15, <3>1
    <3>3. a \in NewHere(k)
      BY <2>2, <3>2 DEF NewHere, matched
    <3>4. OwnFinding(s, a, episodes'[<<s, a>>]) \in newer
      BY <3>3
    <3> QED
      BY <1>13, <3>4
  <2> QED
    BY <2>1, <2>2
<1>16. ASSUME unreadOf(k)' = {}, NEW t \in Answered(k)', NEW a \in Advisories,
              OpenOnes(episodes'[<<t, a>>]) # {}
       PROVE  \E g \in older \cup newer : g.source = t /\ g.advisory = a
  <2>1. CASE t = s
    <3>1. a \in NewHere(k)
      BY <1>2, <1>9, <1>16, <2>1 DEF AnsweredRows
    <3>2. OwnFinding(s, a, episodes'[<<s, a>>]) \in newer
      BY <3>1
    <3> QED
      BY <1>13, <2>1, <3>2
  <2>2. CASE t # s
    <3>1. t \in Answered(k) /\ t \in Sources
      BY <1>8, <2>2 DEF Answered
    <3>2. episodes'[<<t, a>>] = episodes[<<t, a>>]
      BY <1>2, <2>2, <3>1
    <3>3. PICK f \in scan[k].found : f.source = t /\ f.advisory = a
      BY <1>9, <1>16, <3>1, <3>2 DEF FindsWhatIsKnown
    <3> QED
      BY <1>12, <3>3
  <2> QED
    BY <2>1, <2>2
<1>17. Answered(k)' \subseteq enabled'
  BY <1>1, <1>6, <1>8 DEF FindsWhatIsKnown
<1> HIDE DEF older, newer
<1>18. FindsWhatIsKnown(k)'
  BY <1>3, <1>14, <1>15, <1>16, <1>17 DEF FindsWhatIsKnown
<1> QED
  BY <1>5, <1>18

\* A source's answer keeps what a lone scan knows.
LEMMA AnswerKeeps ==
  ASSUME IInv, SettledOnItsEvidence, NEW k \in Slots, FoundIsHeld(k), Current(k),
         SourceAnswers(k)
  PROVE  FoundIsHeld(k)' /\ Current(k)' /\ SettledOnItsEvidence'
<1>1. FoundIsHeld(k)' /\ SettledOnItsEvidence'
  BY AnswerHolds
<1>2. TypeOK /\ Matching(k) /\ scan[k].step = "match" /\ changes' = changes
  BY DEF IInv, SourceAnswers, Matching
<1>3. scan'[k].step = "match" /\ scan'[k].since = scan[k].since
  BY <1>2, AnswerFacts, AdvanceFields
<1>4. Current(k)'
  BY <1>2, <1>3, AnswerFinds DEF Current, Fresh
<1> QED
  BY <1>1, <1>4

-----------------------------------------------------------------------------
(* The end of a lone scan. *)

\* What a scan found in a row is one finding, the row's own.
LEMMA FoundAlone ==
  ASSUME IInv, NEW k \in Slots, FoundIsHeld(k),
         NEW i \in Sources \X Advisories, NEW n, FoundIn(k, i, n) # {}
  PROVE  \E f \in scan[k].found : /\ f \in Finding /\ FoundIn(k, i, n) = {f}
                                  /\ i = <<f.source, f.advisory>> /\ n = f.episode
<1>1. PICK f \in scan[k].found : <<f.source, f.advisory>> = i /\ f.episode = n
  BY DEF FoundIn
<1>2. f \in Finding
  BY DEF IInv, TypeOK, ScanState
<1>3. ASSUME NEW g \in FoundIn(k, i, n) PROVE g = f
  <2>1. g \in scan[k].found /\ <<g.source, g.advisory>> = i
    BY DEF FoundIn
  <2>2. g.advisory = f.advisory
    BY <1>1, <2>1
  <2> QED
    BY <2>1, <2>2 DEF FoundIsHeld
<1>4. f \in FoundIn(k, i, n)
  BY <1>1 DEF FoundIn
<1> QED
  BY <1>1, <1>2, <1>3, <1>4

\* A finding's row is there, typed, and is what the scan found in it.
LEMMA HeldRow ==
  ASSUME IInv, NEW k \in Slots, FoundIsHeld(k), NEW f \in scan[k].found,
         NEW i, i = <<f.source, f.advisory>>
  PROVE  /\ f \in Finding /\ i \in Sources \X Advisories /\ f.episode \in DOMAIN episodes[i]
         /\ RowOf(f) = episodes[i][f.episode] /\ RowOf(f) \in Episode /\ RowOf(f).open
         /\ FoundIn(k, i, f.episode) = {f}
<1>1. f \in Finding /\ i \in Sources \X Advisories
  BY DEF IInv, TypeOK, ScanState, Finding
<1>2. HoldsItsRow(k, f)
  BY DEF FoundIsHeld
<1>3. OpenOnes(episodes[i]) = {f.episode}
  BY <1>2 DEF HoldsItsRow
<1>4. f.episode \in DOMAIN episodes[i] /\ episodes[i][f.episode].open
  BY <1>3 DEF OpenOnes
<1>5. RowOf(f) = episodes[i][f.episode]
  BY DEF RowOf
<1>6. episodes[i][f.episode] \in Episode
  BY <1>1, <1>4, RowsAreEpisodes DEF IInv, TypeOK
<1>7. f \in FoundIn(k, i, f.episode)
  BY DEF FoundIn
<1>8. FoundIn(k, i, f.episode) = {f}
  BY <1>1, <1>7, FoundAlone
<1> QED
  BY <1>1, <1>4, <1>5, <1>6, <1>8

\* What the rewrite of the corroborations and the settlement write in a row.
LEMMA WrittenRows ==
  ASSUME NEW row \in Episode, NEW f \in Finding
  PROVE  /\ LET c == Corroborated(row, f)
            IN  /\ c.open = row.open /\ c.copies = row.copies /\ c.fix = row.fix
                /\ c.corroborations = f.agree
                /\ row.severity = Grade[f.source] => c.severity = Worst(f.source, f.agree)
         /\ LET d == Settled(row, f)
            IN  /\ d.copies = row.copies /\ d.corroborations = row.corroborations
                /\ d.fix = [copies |-> f.copies, sources |-> {f.source} \cup f.agree]
<1>1. f.source \in Sources
  BY DEF Finding
<1>2. f.agree = {} => Worst(f.source, f.agree) = Grade[f.source]
  BY <1>1, WorstAlone
<1>3. Corroborated(row, f) = [row EXCEPT !.corroborations = f.agree,
         !.severity = IF f.agree = {} THEN row.severity ELSE Worst(f.source, f.agree)]
  BY DEF Corroborated, Episode
<1>4. LET c == Corroborated(row, f)
      IN  /\ c.open = row.open /\ c.copies = row.copies /\ c.fix = row.fix
          /\ c.corroborations = f.agree
          /\ c.severity = IF f.agree = {} THEN row.severity ELSE Worst(f.source, f.agree)
  BY <1>3 DEF Episode
<1>5. LET d == Settled(row, f)
      IN  /\ d.copies = row.copies /\ d.corroborations = row.corroborations
          /\ d.fix = [copies |-> f.copies, sources |-> {f.source} \cup f.agree]
  BY DEF Settled, Episode
<1> QED
  BY <1>2, <1>4, <1>5

\* The rewrite gives every finding's row its agreements and the worst grade.
LEMMA RecordKeeps ==
  ASSUME IInv, SettledOnItsEvidence, NEW k \in Slots, FoundIsHeld(k), Current(k),
         recordCorroborations(k)
  PROVE  FoundIsHeld(k)' /\ Current(k)' /\ SettledOnItsEvidence'
<1>1. /\ scan[k] \in ScanState /\ scan[k].step = "match" /\ TypeOK
      /\ episodes' = applyFindingCorroborations(k)
      /\ scan' = [scan EXCEPT ![k].step = "settle"]
      /\ UNCHANGED <<disk, knows, enabled, changes>>
  BY DEF IInv, TypeOK, recordCorroborations
<1>2. /\ scan'[k].step = "settle" /\ scan'[k].since = scan[k].since
      /\ scan'[k].next = scan[k].next /\ scan'[k].runnable = scan[k].runnable
      /\ scan'[k].inventory = scan[k].inventory /\ scan'[k].read = scan[k].read
      /\ scan'[k].graph = scan[k].graph /\ scan'[k].outcome = scan[k].outcome
      /\ scan'[k].found = scan[k].found
  BY <1>1 DEF TypeOK, ScanState
<1>3. \A i \in Sources \X Advisories :
        /\ DOMAIN episodes'[i] = DOMAIN episodes[i]
        /\ OpenOnes(episodes'[i]) = OpenOnes(episodes[i])
  <2>1. Annotates(episodes')
    BY <1>1, CorroboratedTable
  <2> QED
    BY <2>1 DEF Annotates, OpenOnes
<1>4. \A i \in Sources \X Advisories : \A n \in DOMAIN episodes[i] :
        episodes'[i][n] = IF FoundIn(k, i, n) = {} THEN episodes[i][n]
                          ELSE Corroborated(episodes[i][n], CHOOSE f \in FoundIn(k, i, n) : TRUE)
  BY <1>1 DEF applyFindingCorroborations
<1>5. ASSUME NEW f \in scan[k].found
      PROVE  HoldsItsRow(k, f)' /\ RowOf(f)'.fix = Unsettled
  <2> DEFINE i == <<f.source, f.advisory>>
  <2>1. /\ f \in Finding /\ i \in Sources \X Advisories /\ f.episode \in DOMAIN episodes[i]
        /\ RowOf(f) = episodes[i][f.episode] /\ RowOf(f) \in Episode
        /\ FoundIn(k, i, f.episode) = {f}
    BY HeldRow
  <2>2. HoldsItsRow(k, f)
    BY DEF FoundIsHeld
  <2>3. RowOf(f)' = Corroborated(RowOf(f), f)
    <3>1. episodes'[i][f.episode] = Corroborated(RowOf(f), CHOOSE g \in {f} : TRUE)
      BY <1>4, <2>1
    <3>2. (CHOOSE g \in {f} : TRUE) = f
      OBVIOUS
    <3>3. RowOf(f)' = episodes'[i][f.episode]
      BY DEF RowOf
    <3> QED
      BY <3>1, <3>2, <3>3
  <2>4. /\ RowOf(f)'.copies = RowOf(f).copies /\ RowOf(f)'.fix = RowOf(f).fix
        /\ RowOf(f)'.corroborations = f.agree
        /\ RowOf(f)'.severity = Worst(f.source, f.agree)
    <3>1. RowOf(f).severity = Grade[f.source]
      BY <1>1, <2>2 DEF HoldsItsRow
    <3> QED
      BY <2>1, <2>3, <3>1, WrittenRows
  <2>5. OpenOnes(episodes'[i]) = {f.episode} /\ f.source \in Done(k)'
    BY <1>2, <1>3, <2>1, <2>2 DEF HoldsItsRow, Done
  <2> QED
    BY <1>2, <2>2, <2>4, <2>5 DEF HoldsItsRow
<1>6. FoundIsHeld(k)'
  BY <1>2, <1>5 DEF FoundIsHeld, Answered, Done
<1>7. SettledOnItsEvidence'
  <2> SUFFICES ASSUME NEW i \in Sources \X Advisories, NEW n \in DOMAIN episodes'[i],
                      episodes'[i][n].open, episodes'[i][n].fix # Unsettled
               PROVE  episodes'[i][n].fix = [copies |-> episodes'[i][n].copies,
                                 sources |-> {i[1]} \cup episodes'[i][n].corroborations]
    BY DEF SettledOnItsEvidence
  <2>1. n \in DOMAIN episodes[i]
    BY <1>3
  <2>2. FoundIn(k, i, n) = {}
    <3> SUFFICES ASSUME FoundIn(k, i, n) # {} PROVE FALSE
      OBVIOUS
    <3>1. PICK f \in scan[k].found : i = <<f.source, f.advisory>> /\ n = f.episode
      BY FoundAlone
    <3>2. episodes'[i][n] = RowOf(f)'
      BY <3>1 DEF RowOf
    <3> QED
      BY <1>5, <3>2
  <2>3. episodes'[i][n] = episodes[i][n]
    BY <1>4, <2>1, <2>2
  <2> QED
    BY <2>1, <2>3 DEF SettledOnItsEvidence
<1>8. SeesTheWorld(k) => SeesTheWorld(k)'
  BY <1>1, <1>2 DEF SeesTheWorld
<1>9. /\ \A a : CopiesSeen(k, a)' = CopiesSeen(k, a)
      /\ \A a : Knowing(k, a)' = Knowing(k, a)
      /\ unreadOf(k)' = unreadOf(k) /\ Answered(k)' = Answered(k)
  BY <1>1, <1>2 DEF CopiesSeen, Knowing, unreadOf, Answered
<1>10. \A s \in Answered(k), a \in Advisories :
         OpenOnes(episodes'[<<s, a>>]) = OpenOnes(episodes[<<s, a>>])
  <2>1. \A s \in Answered(k), a \in Advisories : <<s, a>> \in Sources \X Advisories
    BY DEF Answered
  <2> QED
    BY <1>3, <2>1
<1>11. FindsWhatIsKnown(k) => FindsWhatIsKnown(k)'
  <2> SUFFICES ASSUME FindsWhatIsKnown(k) PROVE FindsWhatIsKnown(k)'
    OBVIOUS
  <2>1. unreadOf(k)' = {} =>
          \A s \in Answered(k)', a \in Advisories : OpenOnes(episodes'[<<s, a>>]) # {} =>
            \E f \in scan[k].found : f.source = s /\ f.advisory = a
    BY <1>9, <1>10 DEF FindsWhatIsKnown
  <2> QED
    BY <1>1, <1>2, <1>9, <2>1 DEF FindsWhatIsKnown
<1> QED
  BY <1>1, <1>2, <1>6, <1>7, <1>8, <1>11 DEF Current, Fresh

\* The verdicts name what their rows hold.
LEMMA SettleKeeps ==
  ASSUME IInv, SettledOnItsEvidence, NEW k \in Slots, FoundIsHeld(k), verifyFixes(k)
  PROVE  SettledOnItsEvidence'
<1> SUFFICES ASSUME NEW i \in Sources \X Advisories, NEW n \in DOMAIN episodes'[i],
                    episodes'[i][n].open, episodes'[i][n].fix # Unsettled
             PROVE  episodes'[i][n].fix = [copies |-> episodes'[i][n].copies,
                               sources |-> {i[1]} \cup episodes'[i][n].corroborations]
  BY DEF SettledOnItsEvidence
<1>1. scan[k].step = "settle" /\ episodes' = applyFixSettlement(k)
  BY DEF verifyFixes
<1>2. n \in DOMAIN episodes[i]
  BY <1>1 DEF applyFixSettlement
<1>3. episodes'[i][n] = IF FoundIn(k, i, n) = {} THEN episodes[i][n]
                        ELSE Settled(episodes[i][n], CHOOSE f \in FoundIn(k, i, n) : TRUE)
  BY <1>1, <1>2 DEF applyFixSettlement
<1>4. CASE FoundIn(k, i, n) = {}
  <2>1. episodes'[i][n] = episodes[i][n]
    BY <1>3, <1>4
  <2> QED
    BY <1>2, <2>1 DEF SettledOnItsEvidence
<1>5. CASE FoundIn(k, i, n) # {}
  <2>1. PICK f \in scan[k].found : /\ f \in Finding /\ FoundIn(k, i, n) = {f}
                                   /\ i = <<f.source, f.advisory>> /\ n = f.episode
    BY <1>5, FoundAlone
  <2>2. RowOf(f) = episodes[i][n] /\ RowOf(f) \in Episode
    BY <2>1, HeldRow
  <2>3. episodes'[i][n] = Settled(RowOf(f), f)
    <3>1. (CHOOSE g \in {f} : TRUE) = f
      OBVIOUS
    <3> QED
      BY <1>3, <1>5, <2>1, <2>2, <3>1
  <2>4. RowOf(f).copies = f.copies /\ RowOf(f).corroborations = f.agree
    BY <1>1 DEF FoundIsHeld, HoldsItsRow
  <2>5. /\ episodes'[i][n].copies = RowOf(f).copies
        /\ episodes'[i][n].corroborations = RowOf(f).corroborations
        /\ episodes'[i][n].fix = [copies |-> f.copies, sources |-> {f.source} \cup f.agree]
    BY <2>1, <2>2, <2>3, WrittenRows
  <2>6. i[1] = f.source
    BY <2>1
  <2> QED
    BY <2>4, <2>5, <2>6
<1> QED
  BY <1>4, <1>5

-----------------------------------------------------------------------------
(* A lone scan, step by step. *)

\* At first no scan runs and no verdict was given.
LEMMA LoneInit == Init => LoneInv
<1> SUFFICES ASSUME Init PROVE LoneInv
  OBVIOUS
<1>1. ASSUME NEW k \in Slots PROVE FoundIsHeld(k) /\ Current(k)
  <2>1. /\ scan[k].step = "idle" /\ scan[k].found = {}
        /\ \A s \in Sources : scan[k].outcome[s] = "none"
    BY DEF Init, Idle
  <2>2. Answered(k) = {}
    BY <2>1 DEF Answered
  <2> QED
    BY <2>1, <2>2 DEF FoundIsHeld, Current, Fresh
<1>2. ASSUME NEW i \in Sources \X Advisories, NEW n \in DOMAIN episodes[i]
      PROVE  episodes[i][n].fix = Unsettled
  <2>1. PICK twice \in SUBSET (IF Legacy THEN Sources \X Advisories ELSE {}) :
          episodes = [j \in Sources \X Advisories |->
                        IF j \in twice THEN <<LegacyEpisode(j[1]), LegacyEpisode(j[1])>>
                                       ELSE <<>>]
    BY DEF Init
  <2>2. episodes[i] = <<LegacyEpisode(i[1]), LegacyEpisode(i[1])>>
    BY <2>1
  <2>3. LegacyEpisode(i[1]).fix = Unsettled
    BY DEF LegacyEpisode
  <2> QED
    BY <2>2, <2>3
<1>3. SettledOnItsEvidence
  BY <1>2 DEF SettledOnItsEvidence
<1> QED
  BY <1>1, <1>3 DEF LoneInv

\* While scans never overlap, every step keeps what the scan knows.
LEMMA LoneStep == OneScan /\ IInv /\ LoneInv /\ [Next]_vars => LoneInv'
<1> SUFFICES ASSUME OneScan, IInv, LoneInv, [Next]_vars PROVE LoneInv'
  OBVIOUS
<1> DEFINE Kept == SettledOnItsEvidence' /\ \A k \in Slots : FoundIsHeld(k)' /\ Current(k)'
<1>1. /\ TypeOK /\ TypeOK' /\ SettledOnItsEvidence
      /\ \A k \in Slots : FoundIsHeld(k) /\ Current(k)
  BY NextInv DEF IInv, LoneInv
<1>2. episodes' = episodes => SettledOnItsEvidence'
  BY <1>1 DEF SettledOnItsEvidence
<1>3. ASSUME NEW k \in Slots, FoundIsHeld(k)' /\ Current(k)'
      PROVE  \A j \in Slots : FoundIsHeld(j)' /\ Current(j)'
  <2> SUFFICES ASSUME NEW j \in Slots PROVE FoundIsHeld(j)' /\ Current(j)'
    OBVIOUS
  <2>1. j = k
    BY DEF OneScan
  <2> QED
    BY <1>3, <2>1
<1>4. ASSUME DiskChanges \/ FeedChanges \/ writeSourceCell PROVE Kept
  <2>1. scan' = scan /\ episodes' = episodes /\ changes' = changes + 1
    BY <1>4 DEF DiskChanges, FeedChanges, writeSourceCell, Changed
  <2>2. \A k \in Slots : FoundIsHeld(k)' /\ Current(k)'
    BY <1>1, <2>1, WorldKeeps
  <2> QED
    BY <1>2, <2>1, <2>2
<1>5. ASSUME NEW k \in Slots, Begin(k) PROVE Kept
  BY <1>1, <1>2, <1>3, <1>5, BeginKeeps DEF Begin
<1>6. ASSUME NEW k \in Slots, resolveManifest(k) PROVE Kept
  BY <1>1, <1>2, <1>3, <1>6, ReadKeeps DEF resolveManifest
<1>7. ASSUME NEW k \in Slots, SkipSource(k) \/ NoGraph(k) \/ SourceFails(k) PROVE Kept
  <2>1. PICK outcome : outcome # "ok" /\ Advance(k, outcome, scan[k].found)
    BY <1>7 DEF SkipSource, NoGraph, SourceFails, unresolvedGraphReason
  <2>2. Matching(k) /\ UNCHANGED <<disk, knows, enabled, episodes, changes>>
    BY <1>7 DEF SkipSource, NoGraph, SourceFails
  <2> QED
    BY <1>1, <1>2, <1>3, <2>1, <2>2, SilentKeeps
<1>8. ASSUME NEW k \in Slots, SourceAnswers(k) PROVE Kept
  BY <1>1, <1>3, <1>8, AnswerKeeps
<1>9. ASSUME NEW k \in Slots, recordCorroborations(k) PROVE Kept
  BY <1>1, <1>3, <1>9, RecordKeeps
<1>10. ASSUME NEW k \in Slots, verifyFixes(k) \/ SettlementFails(k) PROVE Kept
  <2>1. scan'[k] = Idle
    BY <1>1, <1>10 DEF verifyFixes, SettlementFails, TypeOK
  <2>2. FoundIsHeld(k)' /\ Current(k)'
    BY <1>1, <2>1, IdleKeeps DEF TypeOK
  <2>3. SettledOnItsEvidence'
    BY <1>1, <1>2, <1>10, SettleKeeps DEF SettlementFails
  <2> QED
    BY <1>3, <2>2, <2>3
<1>11. ASSUME NEW K, Interrupted(K) PROVE Kept
  <2>1. UNCHANGED <<disk, knows, enabled, episodes, changes>>
    BY <1>11 DEF Interrupted
  <2>2. ASSUME NEW k \in Slots PROVE FoundIsHeld(k)' /\ Current(k)'
    <3>1. scan'[k] = Idle \/ scan'[k] = scan[k]
      BY <1>11 DEF Interrupted
    <3> QED
      BY <1>1, <2>1, <3>1, IdleKeeps, StillKeeps DEF TypeOK
  <2> QED
    BY <1>2, <2>1, <2>2
<1>12. ASSUME UNCHANGED vars PROVE Kept
  <2>1. UNCHANGED <<disk, knows, enabled, episodes, scan, changes>>
    BY <1>12 DEF vars
  <2>2. \A k \in Slots : FoundIsHeld(k)' /\ Current(k)'
    BY <1>1, <2>1, StillKeeps
  <2> QED
    BY <1>2, <2>1, <2>2
<1>13. Kept
  <2> HIDE DEF Kept
  <2> QED
    BY <1>4, <1>5, <1>6, <1>7, <1>8, <1>9, <1>10, <1>11, <1>12 DEF Next, ScanStep
<1> QED
  BY <1>13 DEF LoneInv

\* What an enabled source reports of a project that held still.
LEMMA TruthHolds == IInv /\ LoneInv => TruthAfterScan
<1> SUFFICES ASSUME IInv, LoneInv, NEW k \in Slots, Complete(k), NEW a \in Advisories
             PROVE  /\ (Copies(a) # {} /\ Reporters(a) # {}) =>
                         \E i \in Visible(a) :
                            /\ Copies(a) \subseteq RowAt(a, i).copies
                            /\ RowAt(a, i).severity = Worst(i[1], Reporters(a))
                    /\ Readable =>
                         Cardinality(Visible(a)) =
                           IF Copies(a) # {} /\ Reporters(a) # {} THEN 1 ELSE 0
  BY DEF TruthAfterScan
<1>1. /\ TypeOK /\ FoundIsHeld(k) /\ scan[k].step = "settle"
      /\ SeesTheWorld(k) /\ FindsWhatIsKnown(k)
      /\ \A s \in enabled : scan[k].outcome[s] = "ok"
  BY DEF IInv, LoneInv, Complete, Current, Fresh
<1>2. Answered(k) = enabled
  BY <1>1 DEF TypeOK, Answered, FindsWhatIsKnown
<1>3. Knowing(k, a) = Reporters(a)
  BY <1>2 DEF Knowing, Reporters
<1>4. scan[k].graph = [m \in Manifests |-> IF disk[m].is # "gone" THEN disk[m] ELSE Absent]
  BY <1>1 DEF SeesTheWorld
<1>5. CopiesSeen(k, a) = Copies(a)
  <2>1. \A m \in Manifests : disk[m] \in Lockfile
    BY <1>1 DEF TypeOK
  <2>2. \A m \in Manifests : a \in disk[m].has => disk[m].is # "gone"
    BY <2>1 DEF Lockfile
  <2>3. \A m \in Manifests : disk[m].is # "gone" => scan[k].graph[m] = disk[m]
    BY <1>4
  <2>4. scan[k].inventory = {m \in Manifests : disk[m].is # "gone"}
    BY <1>1 DEF SeesTheWorld
  <2> QED
    BY <2>2, <2>3, <2>4 DEF CopiesSeen, Copies
<1>6. Readable => unreadOf(k) = {}
  BY <1>1, <1>4 DEF Readable, unreadOf, SeesTheWorld
<1>7. \A i : i \in Visible(a) <=> \E s \in enabled : \E n \in OpenOnes(episodes[<<s, a>>]) : i = <<s, n>>
  <2>1. enabled \subseteq Sources
    BY <1>1 DEF TypeOK
  <2> QED
    <3>1. \A i : i \in OpenRows(a) <=>
            \E s \in Sources : \E n \in OpenOnes(episodes[<<s, a>>]) : i = <<s, n>>
      BY DEF OpenRows
    <3>2. \A i : i \in Visible(a) <=> i \in OpenRows(a) /\ i[1] \in enabled
      BY DEF Visible
    <3>3. \A s, n : <<s, n>>[1] = s
      OBVIOUS
    <3>4. ASSUME NEW i, i \in Visible(a)
          PROVE  \E s \in enabled : \E n \in OpenOnes(episodes[<<s, a>>]) : i = <<s, n>>
      <4>1. PICK s \in Sources : \E n \in OpenOnes(episodes[<<s, a>>]) : i = <<s, n>>
        BY <3>1, <3>2, <3>4
      <4>2. s \in enabled
        BY <3>2, <3>4, <4>1
      <4> QED
        BY <4>1, <4>2
    <3>5. ASSUME NEW s \in enabled, NEW n \in OpenOnes(episodes[<<s, a>>])
          PROVE  <<s, n>> \in Visible(a)
      BY <2>1, <3>1, <3>2, <3>3
    <3> QED
      BY <3>4, <3>5
<1>8. ASSUME NEW f \in scan[k].found, f.advisory = a
      PROVE  /\ <<f.source, f.episode>> \in Visible(a)
             /\ Copies(a) # {} /\ Reporters(a) # {}
             /\ Copies(a) \subseteq RowAt(a, <<f.source, f.episode>>).copies
             /\ RowAt(a, <<f.source, f.episode>>).severity = Worst(f.source, Reporters(a))
  <2>1. /\ f.source \in Reporters(a) /\ f.source \in enabled
        /\ Copies(a) # {} /\ Copies(a) \subseteq f.copies
        /\ f.agree = Reporters(a) \ {f.source}
    BY <1>1, <1>2, <1>3, <1>5, <1>8 DEF FindsWhatIsKnown, Knowing
  <2>2. /\ OpenOnes(episodes[<<f.source, a>>]) = {f.episode}
        /\ RowOf(f).copies = f.copies /\ RowOf(f).severity = Worst(f.source, f.agree)
    BY <1>1, <1>8 DEF FoundIsHeld, HoldsItsRow
  <2>3. RowAt(a, <<f.source, f.episode>>) = RowOf(f)
    BY <1>8 DEF RowAt, RowOf
  <2>4. {f.source} \cup f.agree = {f.source} \cup Reporters(a)
    BY <2>1
  <2>5. Worst(f.source, f.agree) = Worst(f.source, Reporters(a))
    BY <2>4 DEF Worst
  <2>6. <<f.source, f.episode>> \in Visible(a)
    BY <1>7, <2>1, <2>2
  <2> QED
    BY <2>1, <2>2, <2>3, <2>5, <2>6
<1>9. ASSUME Copies(a) # {}, Reporters(a) # {}
      PROVE  \E f \in scan[k].found : f.advisory = a
  BY <1>1, <1>3, <1>5, <1>9 DEF FindsWhatIsKnown
<1>10. ASSUME Readable, NEW i \in Visible(a)
       PROVE  \E f \in scan[k].found : f.advisory = a /\ i = <<f.source, f.episode>>
  <2>1. PICK s \in enabled : \E n \in OpenOnes(episodes[<<s, a>>]) : i = <<s, n>>
    BY <1>7
  <2>2. PICK f \in scan[k].found : f.source = s /\ f.advisory = a
    BY <1>1, <1>2, <1>6, <1>10, <2>1 DEF FindsWhatIsKnown
  <2>3. OpenOnes(episodes[<<s, a>>]) = {f.episode}
    BY <1>1, <2>2 DEF FoundIsHeld, HoldsItsRow
  <2> QED
    BY <2>1, <2>2, <2>3
<1>11. (Copies(a) # {} /\ Reporters(a) # {}) =>
         \E i \in Visible(a) : /\ Copies(a) \subseteq RowAt(a, i).copies
                               /\ RowAt(a, i).severity = Worst(i[1], Reporters(a))
  <2> SUFFICES ASSUME Copies(a) # {}, Reporters(a) # {}
               PROVE  \E i \in Visible(a) : /\ Copies(a) \subseteq RowAt(a, i).copies
                                            /\ RowAt(a, i).severity = Worst(i[1], Reporters(a))
    OBVIOUS
  <2>1. PICK f \in scan[k].found : f.advisory = a
    BY <1>9
  <2> DEFINE i == <<f.source, f.episode>>
  <2>2. /\ i \in Visible(a) /\ i[1] = f.source /\ Copies(a) \subseteq RowAt(a, i).copies
        /\ RowAt(a, i).severity = Worst(f.source, Reporters(a))
    BY <1>8, <2>1
  <2> HIDE DEF i
  <2> QED
    BY <2>2
<1>12. ASSUME Readable
       PROVE  Cardinality(Visible(a)) = IF Copies(a) # {} /\ Reporters(a) # {} THEN 1 ELSE 0
  <2>1. CASE Copies(a) # {} /\ Reporters(a) # {}
    <3>1. PICK f \in scan[k].found : f.advisory = a
      BY <1>9, <2>1
    <3>2. \A g \in scan[k].found : g.advisory = a => g = f
      BY <1>1, <3>1 DEF FoundIsHeld
    <3>3. Visible(a) = {<<f.source, f.episode>>}
      BY <1>8, <1>10, <1>12, <3>1, <3>2
    <3> QED
      BY <2>1, <3>3, FS_Singleton
  <2>2. CASE ~(Copies(a) # {} /\ Reporters(a) # {})
    <3>1. Visible(a) = {}
      BY <1>8, <1>10, <1>12, <2>2
    <3> QED
      BY <2>2, <3>1, FS_EmptySet
  <2> QED
    BY <2>1, <2>2
<1> QED
  BY <1>11, <1>12

\* While scans of the project never overlap: whatever failed, was switched or
\* was left half done before, after a scan every enabled source answered in an
\* unchanged world, the portal shows each affected package once, with all its
\* readable copies, at the worst grade given.
THEOREM TruthTold == OneScan => (Spec => []TruthAfterScan)
<1> SUFFICES ASSUME OneScan PROVE Spec => []TruthAfterScan
  OBVIOUS
<1>1. IInv /\ LoneInv /\ [Next]_vars => LoneInv'
  BY LoneStep
<1> QED
  BY <1>1, LoneInit, Invariant, TruthHolds, PTL DEF Spec

\* While scans of the project never overlap, no verdict on a fix outlives the
\* copies and the agreements it was given on, however scans fail or are cut short.
THEOREM EvidenceKept == OneScan => (Spec => []SettledOnItsEvidence)
<1> SUFFICES ASSUME OneScan PROVE Spec => []SettledOnItsEvidence
  OBVIOUS
<1>1. IInv /\ LoneInv /\ [Next]_vars => LoneInv'
  BY LoneStep
<1>2. LoneInv => SettledOnItsEvidence
  BY DEF LoneInv
<1> QED
  BY <1>1, <1>2, LoneInit, Invariant, PTL DEF Spec
=============================================================================
