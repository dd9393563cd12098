---------------------------- MODULE OsvSyncProofs ----------------------------
(***************************************************************************)
(* Theorems about OsvSync, for any advisories, any course of upstream and  *)
(* any faults, with one database handle.  A cache is clean up to b if each *)
(* advisory's rows are of a time between the cursor and b: a pass that     *)
(* mixed times leaves it clean up to the present, and the next pass, whose *)
(* list is of that present, re-reads all that is not of the cursor.        *)
(***************************************************************************)
EXTENDS OsvSync, TLAPS

OneHandle == \A g, h \in Handles : g = h

\* Nothing changed upstream after s and up to t.
Still(a, s, t) == \A u \in Times : s < u /\ u <= t => history[u][a] = history[u - 1][a]

\* What does not change stays equal, in a form that grows with time.
HistoryInv ==
    \A a \in Advisories : \A s, t \in 0..time : s <= t /\ Still(a, s, t) => history[s][a] = history[t][a]

Clean(b) == \A a \in Advisories : \E t \in cursor..b : rows[a] = history[t][a]

\* What the ETag names differs from what the cursor names by nothing.
EtagInv == \A a \in Advisories : Still(a, cursor, etag)

AskingOk(f) == f.step = "asking" => f.since = cursor /\ f.tag = etag

\* The documents listed are those changed since the cursor; each re-read one is
\* of a later time; what is not listed is clean up to the list.
PassOk(f) ==
    f.step = "pass" =>
        /\ f.snap \in cursor + 1 .. time
        /\ f.todo \subseteq f.ids
        /\ \A a \in Advisories \ f.ids : Still(a, cursor, f.snap)
        /\ \A a \in f.ids \ f.todo : \E t \in f.snap .. time : f.staged[a] = history[t][a]
        /\ Usable /\ ~torn => Clean(f.snap)

\* A cache that is being filled is hidden and holds what the stream has brought.
StreamOk(f) ==
    f.step = "stream" =>
        /\ ~seedComplete
        /\ f.snap \in 1..time
        /\ \A a \in Advisories \ f.todo : rows[a] = history[f.snap][a]

FlightInv == \A h \in Handles : AskingOk(flight[h]) /\ PassOk(flight[h]) /\ StreamOk(flight[h])

\* What readers see is clean, and of one time unless a pass has mixed times.
WholeInv ==
    Usable /\ ~torn =>
        /\ Clean(time)
        /\ ~mixed => \A a \in Advisories : rows[a] = history[cursor][a]

IInv == TypeOK /\ version <= build /\ HistoryInv /\ EtagInv /\ FlightInv /\ WholeInv

-----------------------------------------------------------------------------

\* A sync's record has the types of its fields.
LEMMA FlightType ==
  ASSUME TypeOK, NEW h \in Handles
  PROVE  /\ flight[h] \in Flights
         /\ flight[h].step \in Steps /\ flight[h].since \in Times /\ flight[h].tag \in Times
         /\ flight[h].snap \in Times /\ flight[h].ids \subseteq Advisories
         /\ flight[h].todo \subseteq Advisories /\ flight[h].staged \in Rows
BY DEF TypeOK, Flights

\* No sync at all is a record of the right type.
LEMMA IdleType == Idle \in Flights
BY TimeAssumption DEF Idle, Flights, Steps, NoRows, Rows, Absent, Times

\* The one flight there is becomes f.
LEMMA OneFlight ==
  ASSUME OneHandle, TypeOK, NEW h \in Handles, NEW f \in Flights, Goes(h, f)
  PROVE  /\ flight' \in [Handles -> Flights]
         /\ \A g \in Handles : flight'[g] = f
<1>1. \A g \in Handles : g = h
  BY DEF OneHandle
<1> QED
  BY <1>1 DEF Goes, TypeOK

-----------------------------------------------------------------------------
(* Upstream. *)

\* Upstream's next revision of a document disturbs neither the rows nor what a sync has listed.
LEMMA FeedStep ==
  ASSUME IInv, FeedChanges
  PROVE  IInv'
<1> USE DEF IInv
<1>1. /\ time \in Nat /\ time < MaxTime /\ time' = time + 1
      /\ UNCHANGED <<exported, cache, control, flight, flaws>>
      /\ MaxTime \in Nat
  BY TimeAssumption DEF FeedChanges, TypeOK, Times
<1>2. /\ history' \in [Times -> Rows]
      /\ \A s \in 0..time : history'[s] = history[s]
  <2>1. PICK docs \in [Advisories -> Times] : history' = [history EXCEPT ![time + 1] = docs]
    <3>1. PICK changed \in SUBSET Advisories : \E removed \in SUBSET changed :
            history' = [history EXCEPT ![time + 1] = [a \in Advisories |->
                IF a \in removed THEN Absent ELSE IF a \in changed THEN time + 1 ELSE Docs[a]]]
      BY DEF FeedChanges
    <3> PICK removed \in SUBSET changed :
            history' = [history EXCEPT ![time + 1] = [a \in Advisories |->
                IF a \in removed THEN Absent ELSE IF a \in changed THEN time + 1 ELSE Docs[a]]]
      BY <3>1
    <3> DEFINE docs == [a \in Advisories |->
                IF a \in removed THEN Absent ELSE IF a \in changed THEN time + 1 ELSE Docs[a]]
    <3>2. \A a \in Advisories : Docs[a] \in Times
      BY <1>1 DEF Docs, TypeOK, Rows, Times
    <3>3. docs \in [Advisories -> Times]
      BY <1>1, <3>2 DEF Absent, Times
    <3> HIDE DEF docs
    <3> QED
      BY <3>3 DEF docs
  <2> QED
    BY <1>1, <2>1 DEF TypeOK, Times, Rows
<1>3. \A a \in Advisories, s, t \in 0..time : Still(a, s, t)' <=> Still(a, s, t)
  <2> SUFFICES ASSUME NEW a \in Advisories, NEW s \in 0..time, NEW t \in 0..time,
                      NEW u \in Times, s < u, u <= t
               PROVE  history'[u] = history[u] /\ history'[u - 1] = history[u - 1]
    BY DEF Still
  <2>1. u \in 0..time /\ u - 1 \in 0..time
    BY <1>1 DEF Times
  <2> QED
    BY <1>2, <2>1
<1>4. TypeOK'
  BY <1>1, <1>2 DEF TypeOK, Times, cache, meta, control, flaws
<1>5. HistoryInv'
  <2> SUFFICES ASSUME NEW a \in Advisories, NEW s \in 0..time + 1, NEW t \in 0..time + 1, s <= t, Still(a, s, t)'
               PROVE  history'[s][a] = history'[t][a]
    BY <1>1 DEF HistoryInv
  <2>1. CASE t \in 0..time
    <3>1. s \in 0..time
      BY <1>1, <2>1
    <3>2. history[s][a] = history[t][a]
      BY <1>3, <2>1, <3>1 DEF HistoryInv
    <3> QED
      BY <1>2, <2>1, <3>1, <3>2
  <2>2. CASE t = time + 1 /\ s # t
    <3>1. s \in 0..time /\ time \in 0..time /\ time + 1 \in Times
      BY <1>1, <2>2 DEF Times
    <3>2. ASSUME NEW u \in Times, s < u, u <= time PROVE history[u][a] = history[u - 1][a]
      <4>1. u \in 0..time /\ u - 1 \in 0..time /\ u <= t
        BY <1>1, <2>2, <3>1, <3>2 DEF Times
      <4>2. history'[u][a] = history'[u - 1][a]
        BY <3>2, <4>1 DEF Still
      <4> QED
        BY <1>2, <4>1, <4>2
    <3>3. history[s][a] = history[time][a]
      <4>1. Still(a, s, time)
        BY <3>2 DEF Still
      <4> QED
        BY <3>1, <4>1 DEF HistoryInv
    <3>4. history'[time + 1][a] = history'[time][a]
      <4>1. s < time + 1 /\ time + 1 <= t /\ (time + 1) - 1 = time
        BY <1>1, <2>2, <3>1
      <4> QED
        BY <2>2, <3>1, <4>1 DEF Still
    <3> QED
      BY <1>2, <2>2, <3>1, <3>3, <3>4
  <2> QED
    BY <1>1, <2>1, <2>2
<1>6. EtagInv'
  BY <1>1, <1>3 DEF EtagInv, TypeOK, cache, meta
<1>7. ASSUME NEW b \in 0..time, Clean(b) PROVE Clean(b)'
  BY <1>1, <1>2, <1>7 DEF Clean, cache, meta, TypeOK
<1>8. FlightInv'
  <2> SUFFICES ASSUME NEW h \in Handles
               PROVE  AskingOk(flight[h])' /\ PassOk(flight[h])' /\ StreamOk(flight[h])'
    BY DEF FlightInv
  <2>1. AskingOk(flight[h])'
    BY <1>1 DEF FlightInv, AskingOk, cache, meta
  <2>2. PassOk(flight[h])'
    <3> SUFFICES ASSUME flight[h].step = "pass"
                 PROVE  /\ flight[h].snap \in cursor + 1 .. time + 1
                        /\ flight[h].todo \subseteq flight[h].ids
                        /\ \A a \in Advisories \ flight[h].ids : Still(a, cursor, flight[h].snap)'
                        /\ \A a \in flight[h].ids \ flight[h].todo :
                             \E t \in flight[h].snap .. time + 1 : flight[h].staged[a] = history'[t][a]
                        /\ Usable /\ ~torn => Clean(flight[h].snap)'
      BY <1>1 DEF PassOk, Usable, cache, meta, control, flaws
    <3>1. flight[h].snap \in cursor + 1 .. time /\ cursor \in 0..time
      BY DEF FlightInv, PassOk, TypeOK
    <3>2. ASSUME NEW a \in Advisories \ flight[h].ids PROVE Still(a, cursor, flight[h].snap)'
      BY <1>1, <1>3, <3>1 DEF FlightInv, PassOk, cache, meta
    <3>3. ASSUME NEW a \in flight[h].ids \ flight[h].todo
          PROVE  \E t \in flight[h].snap .. time + 1 : flight[h].staged[a] = history'[t][a]
      <4>1. PICK t \in flight[h].snap .. time : flight[h].staged[a] = history[t][a]
        BY <3>3 DEF FlightInv, PassOk
      <4>2. t \in 0..time /\ t \in flight[h].snap .. time + 1
        BY <1>1, <3>1
      <4> QED
        BY <1>2, <4>1, <4>2
    <3>4. ASSUME Usable, ~torn PROVE Clean(flight[h].snap)'
      <4>1. flight[h].snap \in 0..time /\ Clean(flight[h].snap)
        BY <1>1, <3>1, <3>4 DEF FlightInv, PassOk
      <4> QED
        BY <1>1, <1>7, <4>1 DEF Clean
    <3> QED
      BY <1>1, <3>1, <3>2, <3>3, <3>4 DEF FlightInv, PassOk
  <2>3. StreamOk(flight[h])'
    <3> SUFFICES ASSUME flight[h].step = "stream"
                 PROVE  /\ ~seedComplete /\ flight[h].snap \in 1..time + 1
                        /\ \A a \in Advisories \ flight[h].todo : rows[a] = history'[flight[h].snap][a]
      BY <1>1 DEF StreamOk, cache, meta
    <3> QED
      BY <1>1, <1>2 DEF FlightInv, StreamOk
  <2> QED
    BY <2>1, <2>2, <2>3
<1>9. WholeInv'
  <2> SUFFICES ASSUME Usable, ~torn
               PROVE  (Clean(time))' /\ (~mixed => \A a \in Advisories : rows[a] = history'[cursor][a])
    BY <1>1 DEF WholeInv, Usable, cache, meta, control, flaws
  <2>1. cursor \in 0..time
    BY DEF TypeOK
  <2>2. (Clean(time))'
    <3>1. Clean(time)
      BY DEF WholeInv
    <3> QED
      BY <1>1, <1>2, <2>1, <3>1 DEF Clean, cache, meta
  <2> QED
    BY <1>1, <1>2, <2>1, <2>2 DEF WholeInv
<1> QED
  BY <1>1, <1>4, <1>5, <1>6, <1>8, <1>9 DEF control, cache, meta

-----------------------------------------------------------------------------
(* Steps that write nothing to the cache. *)

\* While upstream is quiet, what the invariant says of history stands.
LEMMA HistoryKept ==
  ASSUME IInv, UNCHANGED <<time, history>>
  PROVE  HistoryInv' /\ (\A a, s, t : Still(a, s, t)' <=> Still(a, s, t)) /\ (\A b : Clean(b)' <=>
            \A a \in Advisories : \E t \in cursor'..b : rows'[a] = history[t][a])
BY DEF IInv, HistoryInv, Still, Clean

\* A step of the sync that leaves the cache alone, or one of the export and the switch.
LEMMA CacheKept ==
  ASSUME IInv, TypeOK', UNCHANGED <<time, history, cache, flaws, build>>
  PROVE  /\ HistoryInv' /\ EtagInv' /\ WholeInv' /\ version' <= build'
         /\ \A f : /\ AskingOk(f)' <=> AskingOk(f)
                   /\ PassOk(f)' <=> PassOk(f)
                   /\ StreamOk(f)' <=> StreamOk(f)
<1>1. UNCHANGED <<time, history, rows, seedComplete, version, cursor, etag, failing, mixed, torn, build>>
  BY DEF cache, meta, flaws
<1>2. HistoryInv' /\ EtagInv'
  BY <1>1, HistoryKept DEF IInv, EtagInv
<1>3. WholeInv'
  BY <1>1 DEF IInv, WholeInv, Usable, Clean
<1>4. ASSUME NEW f
      PROVE  /\ AskingOk(f)' <=> AskingOk(f)
             /\ PassOk(f)' <=> PassOk(f)
             /\ StreamOk(f)' <=> StreamOk(f)
  BY <1>1 DEF AskingOk, PassOk, StreamOk, Usable, Clean, Still
<1> QED
  BY <1>1, <1>2, <1>3, <1>4 DEF IInv

\* A step of a sync (a request sent, answered or failed, a document re-read) that writes
\* nothing to the cache keeps the invariant if the sync's new record satisfies it.
LEMMA FlightStep ==
  ASSUME OneHandle, IInv, NEW h \in Handles, NEW f \in Flights, Goes(h, f),
         UNCHANGED <<time, history, exported, cache, flaws, build, limit>>,
         current' \in Handles \cup {NoHandle}, faults' \in 0..MaxFaults,
         AskingOk(f), PassOk(f), StreamOk(f)
  PROVE  IInv'
<1>1. flight' \in [Handles -> Flights] /\ \A g \in Handles : flight'[g] = f
  BY OneFlight DEF IInv
<1>2. TypeOK'
  BY <1>1 DEF IInv, TypeOK, cache, meta, flaws
<1>3. HistoryInv' /\ EtagInv' /\ WholeInv' /\ version' <= build' /\ AskingOk(f)' /\ PassOk(f)' /\ StreamOk(f)'
  BY <1>2, CacheKept
<1>4. FlightInv'
  BY <1>1, <1>3 DEF FlightInv, AskingOk, PassOk, StreamOk
<1> QED
  BY <1>2, <1>3, <1>4 DEF IInv

\* A sync of a usable cache asks with the cursor and the ETag of that moment.
LEMMA BeginStep ==
  ASSUME OneHandle, IInv, NEW h \in Handles, Begin(h)
  PROVE  IInv'
<1> DEFINE f == IF Usable THEN [Idle EXCEPT !.step = "asking", !.since = cursor, !.tag = etag]
                ELSE [Idle EXCEPT !.step = "seed"]
<1>1. f \in Flights /\ f.step \in {"asking", "seed"} /\ (f.step = "asking" => f.since = cursor /\ f.tag = etag)
  <2>1. cursor \in Times /\ etag \in Times
    BY TimeAssumption DEF IInv, TypeOK, Times
  <2> QED
    BY <2>1, IdleType DEF Idle, Flights, Steps
<1>2. AskingOk(f) /\ PassOk(f) /\ StreamOk(f)
  BY <1>1 DEF AskingOk, PassOk, StreamOk
<1>3. Goes(h, f) /\ UNCHANGED <<time, history, exported, cache, flaws, build, limit, current, faults>>
  BY DEF Begin, upstream, control
<1> HIDE DEF f
<1> QED
  BY <1>1, <1>2, <1>3, FlightStep DEF IInv, TypeOK

\* The list of changed ids is complete from the cursor up to the time it names.
LEMMA IdsArriveStep ==
  ASSUME OneHandle, IInv, NEW h \in Handles, IdsArrive(h)
  PROVE  IInv'
<1> DEFINE ids == ChangedSince(flight[h].since)
           f == IF Cardinality(ids) > limit THEN [Idle EXCEPT !.step = "seed"]
                ELSE [Idle EXCEPT !.step = "pass", !.snap = time, !.ids = ids, !.todo = ids]
<1>1. flight[h].since = cursor /\ ids # {}
  BY DEF IdsArrive, IInv, FlightInv, AskingOk
<1>2. cursor \in 0..time /\ time \in Times
  BY DEF IInv, TypeOK
<1>3. ids \subseteq Advisories /\ cursor < time
  BY <1>1, <1>2 DEF ChangedSince, Times
<1>4. \A a \in Advisories \ ids : Still(a, cursor, time)
  BY <1>1 DEF ChangedSince, Still
<1> HIDE DEF ids
<1>5. /\ f \in Flights /\ f.step \in {"pass", "seed"}
      /\ f.step = "pass" => f.snap = time /\ f.ids = ids /\ f.todo = ids
  BY <1>2, <1>3, IdleType DEF Idle, Flights, Steps
<1>6. Goes(h, f) /\ UNCHANGED <<time, history, exported, cache, flaws, build, limit, current, faults>>
  BY DEF IdsArrive, ids, upstream, control
<1> HIDE DEF f
<1>7. AskingOk(f) /\ StreamOk(f)
  BY <1>5 DEF AskingOk, StreamOk
<1>8. PassOk(f)
  BY <1>2, <1>3, <1>4, <1>5 DEF PassOk, IInv, WholeInv, Times
<1> QED
  BY <1>5, <1>6, <1>7, <1>8, FlightStep DEF IInv, TypeOK

\* A failed request, seed or stream leaves the cache as it stands.
LEMMA FailStep ==
  ASSUME OneHandle, IInv, NEW h \in Handles, IdsFail(h) \/ SeedFails(h)
  PROVE  IInv'
<1>1. Goes(h, Idle) /\ UNCHANGED <<time, history, exported, cache, flaws, build, limit, current>>
  BY DEF IdsFail, SeedFails, upstream
<1>2. faults' \in 0..MaxFaults
  BY BoundsAssumption DEF IdsFail, SeedFails, IInv, TypeOK
<1>3. AskingOk(Idle) /\ PassOk(Idle) /\ StreamOk(Idle)
  BY DEF Idle, AskingOk, PassOk, StreamOk
<1> QED
  BY <1>1, <1>2, <1>3, IdleType, FlightStep DEF IInv, TypeOK

\* A document re-read during a pass is of the list's time or later.
LEMMA RereadStep ==
  ASSUME OneHandle, IInv, NEW h \in Handles, Reread(h)
  PROVE  IInv'
<1> USE DEF IInv
<1>1. PICK a \in flight[h].todo :
        Goes(h, [flight[h] EXCEPT !.todo = @ \ {a}, !.staged[a] = Docs[a]])
  BY DEF Reread
<1> DEFINE f == [flight[h] EXCEPT !.todo = @ \ {a}, !.staged[a] = Docs[a]]
<1>2. flight[h] \in Flights /\ flight[h].step = "pass" /\ PassOk(flight[h]) /\ a \in Advisories
  BY FlightType DEF Reread, FlightInv
<1>3. time \in Times /\ history[time] \in Rows /\ history[time][a] \in Times
  BY <1>2 DEF TypeOK, Rows
<1>4. /\ f \in Flights /\ f.step = "pass" /\ f.snap = flight[h].snap /\ f.ids = flight[h].ids
      /\ f.todo = flight[h].todo \ {a}
      /\ f.staged = [flight[h].staged EXCEPT ![a] = history[time][a]]
      /\ flight[h].staged \in [Advisories -> Times]
  BY <1>2, <1>3 DEF Flights, Docs, Rows
<1>5. Goes(h, f) /\ UNCHANGED <<time, history, exported, cache, flaws, build, limit, current, faults>>
  BY <1>1 DEF Reread, upstream, control
<1> HIDE DEF f
<1>6. AskingOk(f) /\ StreamOk(f)
  BY <1>4 DEF AskingOk, StreamOk
<1>7. PassOk(f)
  <2>1. ASSUME NEW b \in f.ids \ f.todo PROVE \E t \in f.snap .. time : f.staged[b] = history[t][b]
    <3>1. CASE b = a
      <4>1. time \in f.snap .. time
        BY <1>2, <1>3, <1>4 DEF PassOk, TypeOK, Times
      <4> QED
        BY <1>2, <1>4, <3>1, <4>1
    <3>2. CASE b # a
      <4>1. b \in flight[h].ids \ flight[h].todo /\ b \in Advisories
        BY <1>2, <1>4, <2>1, <3>2 DEF Flights
      <4>2. PICK t \in f.snap .. time : flight[h].staged[b] = history[t][b]
        BY <1>2, <1>4, <4>1 DEF PassOk
      <4>3. f.staged[b] = flight[h].staged[b]
        BY <1>4, <3>2, <4>1
      <4> QED
        BY <4>2, <4>3
    <3> QED
      BY <3>1, <3>2
  <2> QED
    BY <1>2, <1>4, <2>1 DEF PassOk
<1> QED
  BY <1>4, <1>5, <1>6, <1>7, FlightStep DEF TypeOK

-----------------------------------------------------------------------------
(* Steps that write to the cache. *)

\* A sync that has ended, or is about to seed, owes nothing.
LEMMA NoFlight ==
  ASSUME OneHandle, TypeOK, NEW h \in Handles, NEW f \in Flights, Goes(h, f), f.step \in {"idle", "seed"}
  PROVE  flight' \in [Handles -> Flights] /\ FlightInv'
<1>1. flight' \in [Handles -> Flights] /\ \A g \in Handles : flight'[g] = f
  BY OneFlight
<1> QED
  BY <1>1 DEF FlightInv, AskingOk, PassOk, StreamOk

\* A 304, or a list with nothing after the cursor, may move the ETag only.
LEMMA NothingNewStep ==
  ASSUME OneHandle, IInv, NEW h \in Handles, NothingNew(h)
  PROVE  IInv'
<1> USE DEF IInv
<1>1. /\ etag' = IF Unchanged(h) THEN etag ELSE time
      /\ failing' = FALSE /\ Goes(h, Idle)
      /\ UNCHANGED <<time, history, exported, build, limit, current, faults, mixed, torn,
                     rows, seedComplete, version, cursor>>
  BY DEF NothingNew, upstream, control, flaws
<1>2. Idle.step = "idle"
  BY DEF Idle
<1>3. flight' \in [Handles -> Flights] /\ FlightInv'
  BY <1>1, <1>2, IdleType, NoFlight
<1>4. TypeOK'
  <2>1. etag' \in 0..time
    <3>1. time \in 0..time /\ etag \in 0..time
      BY TimeAssumption DEF TypeOK, Times
    <3> QED
      BY <1>1, <3>1
  <2> QED
    BY <1>1, <1>3, <2>1 DEF TypeOK
<1>5. HistoryInv' /\ \A a, s, t : Still(a, s, t)' <=> Still(a, s, t)
  BY <1>1, HistoryKept
<1>6. EtagInv'
  <2>1. CASE Unchanged(h)
    BY <1>1, <1>5, <2>1 DEF EtagInv
  <2>2. CASE ~Unchanged(h)
    <3>1. ChangedSince(cursor) = {}
      BY <2>2 DEF NothingNew, FlightInv, AskingOk
    <3>2. \A a \in Advisories : Still(a, cursor, time)
      BY <3>1 DEF ChangedSince, Still
    <3> QED
      BY <1>1, <1>5, <2>2, <3>2 DEF EtagInv
  <2> QED
    BY <2>1, <2>2
<1>7. WholeInv'
  BY <1>1 DEF WholeInv, Usable, Clean
<1> QED
  BY <1>1, <1>3, <1>4, <1>5, <1>6, <1>7

\* A failed re-read drops the pass and the ETag, and may turn to a seed.
LEMMA RereadFailsStep ==
  ASSUME OneHandle, IInv, NEW h \in Handles, RereadFails(h)
  PROVE  IInv'
<1> USE DEF IInv
<1>1. /\ etag' = 0 /\ faults' \in 0..MaxFaults /\ failing' \in BOOLEAN
      /\ UNCHANGED <<time, history, exported, build, limit, current, mixed, torn,
                     rows, seedComplete, version, cursor>>
  <2>1. /\ etag' = 0 /\ faults < MaxFaults /\ faults' = faults + 1
        /\ UNCHANGED <<time, history, exported, build, limit, current, mixed, torn,
                       rows, seedComplete, version, cursor>>
    BY DEF RereadFails, upstream, flaws, Absent
  <2>2. faults' \in 0..MaxFaults
    BY <2>1, BoundsAssumption DEF TypeOK
  <2>3. failing' \in BOOLEAN
    BY DEF RereadFails, TypeOK
  <2> QED
    BY <2>1, <2>2, <2>3
<1>2. PICK f \in Flights : Goes(h, f) /\ f.step \in {"idle", "seed"}
  <2>1. Idle \in Flights /\ Idle.step = "idle"
    BY IdleType DEF Idle
  <2>2. [Idle EXCEPT !.step = "seed"] \in Flights /\ [Idle EXCEPT !.step = "seed"].step = "seed"
    BY <2>1 DEF Flights, Steps
  <2> QED
    BY <2>1, <2>2 DEF RereadFails
<1>3. flight' \in [Handles -> Flights] /\ FlightInv'
  BY <1>2, NoFlight
<1>4. TypeOK'
  BY <1>1, <1>3, TimeAssumption DEF TypeOK, Times
<1>5. HistoryInv'
  BY <1>1, HistoryKept
<1>6. EtagInv'
  BY <1>1 DEF EtagInv, Still, TypeOK, Times
<1>7. WholeInv'
  BY <1>1 DEF WholeInv, Usable, Clean
<1> QED
  BY <1>1, <1>3, <1>4, <1>5, <1>6, <1>7

\* Publishing a pass brings the rows it lists to the list's time or later; the others
\* have not changed since the cursor, so they are of the list's time too.
LEMMA PublishStep ==
  ASSUME OneHandle, IInv, NEW h \in Handles, PublishPass(h)
  PROVE  IInv'
<1> USE DEF IInv
<1> DEFINE f == flight[h]
<1>1. /\ f.step = "pass" /\ f.todo = {} /\ f \in Flights /\ PassOk(f)
      /\ f.ids \subseteq Advisories /\ f.staged \in [Advisories -> Times]
  BY FlightType DEF PublishPass, FlightInv, Rows
<1>2. /\ rows' = [a \in Advisories |-> IF a \in f.ids THEN f.staged[a] ELSE rows[a]]
      /\ cursor' = f.snap /\ etag' = f.snap /\ failing' = FALSE
      /\ mixed' = \E a \in f.ids : f.staged[a] # history[f.snap][a]
      /\ Goes(h, Idle)
      /\ UNCHANGED <<time, history, exported, build, limit, current, faults, torn, seedComplete, version>>
  BY DEF PublishPass, upstream, control
<1>3. time \in Nat /\ cursor \in 0..time /\ f.snap \in cursor + 1 .. time /\ f.snap \in 0..time
  BY <1>1 DEF PassOk, TypeOK, Times
<1>4. \A a \in f.ids : \E t \in f.snap .. time : f.staged[a] = history[t][a]
  BY <1>1 DEF PassOk
<1>5. \A a \in Advisories \ f.ids : Still(a, cursor, f.snap)
  BY <1>1 DEF PassOk
<1>6. Usable /\ ~torn => Clean(f.snap)
  BY <1>1 DEF PassOk
<1> HIDE DEF f
<1>7. flight' \in [Handles -> Flights] /\ FlightInv'
  <2>1. Idle.step = "idle"
    BY DEF Idle
  <2> QED
    BY <1>2, <2>1, IdleType, NoFlight
<1>8. TypeOK'
  <2>1. rows' \in Rows
    BY <1>1, <1>2 DEF TypeOK, Rows
  <2>2. mixed' \in BOOLEAN
    BY <1>2
  <2> QED
    BY <1>2, <1>3, <1>7, <2>1, <2>2 DEF TypeOK
<1>9. HistoryInv'
  BY <1>2, HistoryKept
<1>10. EtagInv'
  <2>1. \A u \in Times : ~(cursor' < u /\ u <= etag')
    BY <1>2, <1>3 DEF Times
  <2> QED
    BY <2>1 DEF EtagInv, Still
<1>11. WholeInv'
  <2> SUFFICES ASSUME Usable, ~torn
               PROVE  /\ \A a \in Advisories : \E t \in f.snap .. time : rows'[a] = history[t][a]
                      /\ ~mixed' => \A a \in Advisories : rows'[a] = history[f.snap][a]
    BY <1>2 DEF WholeInv, Usable, Clean
  <2>1. ASSUME NEW a \in Advisories \ f.ids PROVE rows'[a] = history[f.snap][a]
    <3>1. PICK t \in cursor .. f.snap : rows[a] = history[t][a]
      BY <1>6, <2>1 DEF Clean
    <3>2. t \in 0..time /\ t <= f.snap
      BY <1>3, <3>1
    <3>3. Still(a, t, f.snap)
      BY <1>3, <1>5, <2>1, <3>1 DEF Still, Times
    <3>4. history[t][a] = history[f.snap][a]
      BY <1>3, <2>1, <3>2, <3>3 DEF HistoryInv
    <3> QED
      BY <1>2, <2>1, <3>1, <3>4
  <2>2. f.snap \in f.snap .. time
    BY <1>3
  <2> QED
    BY <1>2, <1>4, <2>1, <2>2
<1> QED
  BY <1>2, <1>7, <1>8, <1>9, <1>10, <1>11

\* The first batch of a seed hides the cache before it empties it.
LEMMA FirstBatchStep ==
  ASSUME OneHandle, IInv, NEW h \in Handles, FirstBatch(h)
  PROVE  IInv'
<1> USE DEF IInv
<1> DEFINE content == {a \in Advisories : history[exported][a] # Absent}
<1>1. PICK batch \in SUBSET content \ {{}} :
        /\ rows' = Batch(NoRows, batch, exported)
        /\ Goes(h, [Idle EXCEPT !.step = "stream", !.snap = exported, !.todo = content \ batch])
  BY DEF FirstBatch
<1> DEFINE f == [Idle EXCEPT !.step = "stream", !.snap = exported, !.todo = content \ batch]
<1>2. /\ seedComplete' = FALSE
      /\ UNCHANGED <<time, history, exported, build, limit, current, faults, mixed, torn, version, cursor, etag, failing>>
  BY DEF FirstBatch, upstream, control, flaws
<1>3. exported \in 1..time /\ exported \in Times /\ history[exported] \in [Advisories -> Times]
  BY TimeAssumption DEF TypeOK, Times, Rows
<1>4. /\ f \in Flights /\ f.step = "stream" /\ f.snap = exported /\ f.todo = content \ batch
      /\ content \subseteq Advisories
  BY <1>3, IdleType DEF Idle, Flights, Steps
<1>5. \A a \in Advisories \ f.todo : rows'[a] = history[exported][a]
  BY <1>1, <1>4 DEF Batch, NoRows
<1>6. rows' \in Rows
  BY <1>1, <1>3, TimeAssumption DEF Batch, NoRows, Absent, Rows, Times
<1>7. Goes(h, f)
  BY <1>1
<1> HIDE DEF f, content
<1>8. flight' \in [Handles -> Flights] /\ \A g \in Handles : flight'[g] = f
  BY <1>4, <1>7, OneFlight
<1>9. TypeOK'
  BY <1>2, <1>6, <1>8 DEF TypeOK
<1>10. FlightInv'
  BY <1>2, <1>3, <1>4, <1>5, <1>8 DEF FlightInv, AskingOk, PassOk, StreamOk
<1>11. HistoryInv' /\ EtagInv'
  BY <1>2, HistoryKept DEF EtagInv
<1>12. WholeInv'
  BY <1>2 DEF WholeInv, Usable
<1> QED
  BY <1>2, <1>9, <1>10, <1>11, <1>12

\* Each further batch lessens what a hidden cache still lacks of the export.
LEMMA NextBatchStep ==
  ASSUME OneHandle, IInv, NEW h \in Handles, NextBatch(h)
  PROVE  IInv'
<1> USE DEF IInv
<1>1. PICK batch \in SUBSET flight[h].todo \ {{}} :
        /\ rows' = Batch(rows, batch, flight[h].snap)
        /\ Goes(h, [flight[h] EXCEPT !.todo = @ \ batch])
  BY DEF NextBatch
<1> DEFINE f == [flight[h] EXCEPT !.todo = @ \ batch]
<1>2. UNCHANGED <<time, history, exported, build, limit, current, faults, mixed, torn,
                  seedComplete, version, cursor, etag, failing>>
  BY DEF NextBatch, upstream, control, meta, flaws
<1>3. flight[h] \in Flights /\ flight[h].step = "stream" /\ StreamOk(flight[h])
  BY FlightType DEF NextBatch, FlightInv
<1>4. /\ f \in Flights /\ f.step = "stream" /\ f.snap = flight[h].snap
      /\ f.todo = flight[h].todo \ batch
  BY <1>3 DEF Flights
<1>5. f.snap \in 1..time /\ f.snap \in Times /\ history[f.snap] \in [Advisories -> Times] /\ ~seedComplete
  BY <1>3, <1>4, FlightType DEF StreamOk, TypeOK, Rows
<1>6. \A a \in Advisories \ f.todo : rows'[a] = history[f.snap][a]
  BY <1>1, <1>3, <1>4 DEF Batch, StreamOk
<1>7. rows' \in Rows
  BY <1>1, <1>4, <1>5 DEF Batch, Rows, TypeOK
<1>8. Goes(h, f)
  BY <1>1
<1> HIDE DEF f
<1>9. flight' \in [Handles -> Flights] /\ \A g \in Handles : flight'[g] = f
  BY <1>4, <1>8, OneFlight
<1>10. TypeOK'
  BY <1>2, <1>7, <1>9 DEF TypeOK
<1>11. FlightInv'
  BY <1>2, <1>4, <1>5, <1>6, <1>9 DEF FlightInv, AskingOk, PassOk, StreamOk
<1>12. HistoryInv' /\ EtagInv'
  BY <1>2, HistoryKept DEF EtagInv
<1>13. WholeInv'
  BY <1>2, <1>5 DEF WholeInv, Usable
<1> QED
  BY <1>2, <1>10, <1>11, <1>12, <1>13

\* A whole stamp shows a cache that holds the export of the time it names.
LEMMA FinishSeedStep ==
  ASSUME OneHandle, IInv, NEW h \in Handles, FinishSeed(h)
  PROVE  IInv'
<1> USE DEF IInv
<1> DEFINE f == flight[h]
<1>1. /\ seedComplete' = TRUE /\ version' = build /\ etag' = 0 /\ failing' \in BOOLEAN /\ cursor' = f.snap
      /\ mixed' = FALSE /\ torn' = FALSE
      /\ Goes(h, Idle)
      /\ UNCHANGED <<time, history, exported, build, limit, current, faults, rows>>
      /\ f.step = "stream" /\ f.todo = {}
  <2>1. 4 >= 2 /\ 4 >= 3 /\ 4 >= 4
    OBVIOUS
  <2>2. failing' \in BOOLEAN
    BY DEF FinishSeed, Stamp
  <2>3. seedComplete' = TRUE /\ mixed' = FALSE /\ torn' = FALSE
    BY DEF FinishSeed, Stamp
  <2> QED
    BY <2>1, <2>2, <2>3 DEF FinishSeed, Stamp, upstream, control, Absent
<1>2. f.snap \in 1..time /\ \A a \in Advisories : rows[a] = history[f.snap][a]
  BY <1>1 DEF FlightInv, StreamOk
<1>3. time \in Nat /\ build \in Nat /\ build \in 0..MaxBuild /\ 0 \in 0..time
  BY TimeAssumption, BoundsAssumption DEF TypeOK, Times
<1> HIDE DEF f
<1>4. flight' \in [Handles -> Flights] /\ FlightInv'
  <2>1. Idle.step = "idle"
    BY DEF Idle
  <2> QED
    BY <1>1, <2>1, IdleType, NoFlight
<1>5. TypeOK'
  <2>1. f.snap \in 0..time
    BY <1>2, <1>3
  <2> QED
    BY <1>1, <1>3, <1>4, <2>1 DEF TypeOK
<1>6. HistoryInv'
  BY <1>1, HistoryKept
<1>7. EtagInv'
  <2>1. \A u \in Times : ~(cursor' < u /\ u <= etag')
    BY <1>1, <1>2, <1>3, TimeAssumption DEF Times
  <2> QED
    BY <2>1 DEF EtagInv, Still
<1>8. WholeInv'
  <2>1. f.snap \in f.snap .. time
    BY <1>2, <1>3
  <2> QED
    BY <1>1, <1>2, <2>1 DEF WholeInv, Clean
<1> QED
  BY <1>1, <1>3, <1>4, <1>5, <1>6, <1>7, <1>8

\* A stamp without a cursor leaves the one before, with no ETag to skip the list by.
LEMMA FinishUndatedStep ==
  ASSUME OneHandle, IInv, NEW h \in Handles, FinishUndated(h)
  PROVE  IInv'
<1> USE DEF IInv
<1>1. /\ seedComplete' = TRUE /\ version' = build /\ etag' = 0 /\ failing' \in BOOLEAN /\ cursor' = cursor
      /\ torn' = TRUE /\ Goes(h, Idle) /\ faults' = faults + 1 /\ faults < MaxFaults
      /\ UNCHANGED <<time, history, exported, build, limit, current, rows, mixed>>
  BY DEF FinishUndated, Stamp, upstream, Absent
<1>2. time \in Nat /\ build \in Nat /\ build \in 0..MaxBuild /\ 0 \in 0..time /\ faults' \in 0..MaxFaults
  BY <1>1, TimeAssumption, BoundsAssumption DEF TypeOK, Times
<1>3. flight' \in [Handles -> Flights] /\ FlightInv'
  <2>1. Idle.step = "idle"
    BY DEF Idle
  <2> QED
    BY <1>1, <2>1, IdleType, NoFlight
<1>4. TypeOK'
  BY <1>1, <1>2, <1>3 DEF TypeOK
<1>5. HistoryInv'
  BY <1>1, HistoryKept
<1>6. EtagInv'
  <2>1. \A u \in Times : ~(cursor' < u /\ u <= etag')
    BY <1>1, <1>2, TimeAssumption DEF Times, TypeOK
  <2> QED
    BY <2>1 DEF EtagInv, Still
<1>7. WholeInv'
  BY <1>1 DEF WholeInv
<1> QED
  BY <1>1, <1>2, <1>3, <1>4, <1>5, <1>6, <1>7

-----------------------------------------------------------------------------
(* The process and the switch. *)

\* A restart ends the sync and may bring a newer normalizer, never an older one.
LEMMA RestartStep ==
  ASSUME IInv, Restart
  PROVE  /\ UNCHANGED <<time, history, exported, limit>>
         /\ current' = NoHandle /\ faults' \in 0..MaxFaults
         /\ build' \in 1..MaxBuild /\ build' >= build
         /\ flight' \in [Handles -> Flights] /\ FlightInv'
<1>1. /\ UNCHANGED <<time, history, exported, limit>>
      /\ current' = NoHandle /\ faults' \in 0..MaxFaults
      /\ flight' = [h \in Handles |-> Idle]
  BY BoundsAssumption DEF Restart, upstream, IInv, TypeOK
<1>2. build' \in 1..MaxBuild /\ build' >= build
  BY BoundsAssumption DEF Restart, IInv, TypeOK
<1>3. flight' \in [Handles -> Flights] /\ FlightInv'
  BY <1>1, IdleType DEF FlightInv, AskingOk, PassOk, StreamOk, Idle
<1> QED
  BY <1>1, <1>2, <1>3

\* A crash keeps the cache; under a newer normalizer it is unusable.
LEMMA CrashStep ==
  ASSUME IInv, Crash
  PROVE  IInv'
<1> USE DEF IInv
<1>1. UNCHANGED <<rows, seedComplete, version, cursor, etag, failing, mixed, torn>>
  BY DEF Crash, cache, meta, flaws
<1>2. /\ UNCHANGED <<time, history, exported, limit>>
      /\ current' = NoHandle /\ faults' \in 0..MaxFaults
      /\ build' \in 1..MaxBuild /\ build' >= build
      /\ flight' \in [Handles -> Flights] /\ FlightInv'
  BY RestartStep DEF Crash
<1>3. TypeOK'
  BY <1>1, <1>2 DEF TypeOK
<1>4. HistoryInv' /\ EtagInv'
  BY <1>1, <1>2, HistoryKept DEF EtagInv
<1>5. version' <= build' /\ (Usable' => Usable)
  BY <1>1, <1>2, BoundsAssumption DEF TypeOK, Usable
<1>6. WholeInv'
  BY <1>1, <1>2, <1>5 DEF WholeInv, Clean
<1> QED
  BY <1>2, <1>3, <1>4, <1>5, <1>6

\* A crash between the writes of a stamp moves the ETag back at most, and the cursor not at all.
LEMMA CrashMidStampStep ==
  ASSUME IInv, CrashMidStamp
  PROVE  IInv'
<1> USE DEF IInv
<1>1. /\ seedComplete' = TRUE /\ version' \in {version, build} /\ etag' \in {0, etag}
      /\ failing' \in BOOLEAN /\ cursor' = cursor
      /\ UNCHANGED <<rows, mixed>> /\ torn' = TRUE
  BY DEF CrashMidStamp, Stamp, Absent, TypeOK
<1>2. /\ UNCHANGED <<time, history, exported, limit>>
      /\ current' = NoHandle /\ faults' \in 0..MaxFaults
      /\ build' \in 1..MaxBuild /\ build' >= build
      /\ flight' \in [Handles -> Flights] /\ FlightInv'
  BY RestartStep DEF CrashMidStamp
<1>3. time \in Nat /\ version \in Nat /\ build \in Nat /\ build \in 0..MaxBuild /\ cursor \in Nat
  BY TimeAssumption, BoundsAssumption DEF TypeOK, Times
<1>4. TypeOK'
  <2>1. etag' \in 0..time /\ version' \in 0..MaxBuild
    BY <1>1, <1>3 DEF TypeOK
  <2> QED
    BY <1>1, <1>2, <2>1 DEF TypeOK
<1>5. HistoryInv'
  BY <1>2, HistoryKept
<1>6. EtagInv'
  <2>1. CASE etag' = etag
    BY <1>1, <1>2, <2>1 DEF EtagInv, Still
  <2>2. CASE etag' = 0
    <3>1. \A u \in Times : ~(cursor' < u /\ u <= etag')
      BY <1>1, <1>3, <2>2, TimeAssumption DEF Times
    <3> QED
      BY <3>1 DEF EtagInv, Still
  <2> QED
    BY <1>1, <2>1, <2>2
<1>7. version' <= build'
  BY <1>1, <1>2, <1>3
<1>8. WholeInv'
  BY <1>1 DEF WholeInv
<1> QED
  BY <1>2, <1>4, <1>5, <1>6, <1>7, <1>8

\* A new export and the operator's switch leave the cache and the sync alone.
LEMMA OtherStep ==
  ASSUME IInv, ExportIsCut \/ SwitchOn \/ SwitchOff \/ UNCHANGED vars
  PROVE  IInv'
<1> USE DEF IInv
<1>1. UNCHANGED <<time, history, cache, build, limit, flight, flaws>>
  BY DEF ExportIsCut, SwitchOn, SwitchOff, vars, upstream, control
<1>2. exported' \in 1..time
  BY TimeAssumption DEF ExportIsCut, SwitchOn, SwitchOff, vars, upstream, TypeOK, Times
<1>3. current' \in Handles \cup {NoHandle}
  BY DEF ExportIsCut, SwitchOn, SwitchOff, vars, control, TypeOK
<1>4. faults' \in 0..MaxFaults
  BY BoundsAssumption DEF ExportIsCut, SwitchOn, SwitchOff, vars, control, TypeOK
<1>5. TypeOK'
  BY <1>1, <1>2, <1>3, <1>4 DEF TypeOK, cache, meta, flaws
<1>6. HistoryInv' /\ EtagInv' /\ WholeInv' /\ version' <= build'
  BY <1>1, <1>5, CacheKept
<1>7. FlightInv'
  <2>1. \A f : /\ AskingOk(f)' <=> AskingOk(f)
               /\ PassOk(f)' <=> PassOk(f)
               /\ StreamOk(f)' <=> StreamOk(f)
    BY <1>1, <1>5, CacheKept
  <2>2. \A h \in Handles : AskingOk(flight[h])' /\ PassOk(flight[h])' /\ StreamOk(flight[h])'
    BY <1>1 DEF FlightInv, AskingOk, PassOk, StreamOk, Usable, Clean, Still, cache, meta, flaws
  <2> QED
    BY <2>2 DEF FlightInv
<1> QED
  BY <1>5, <1>6, <1>7

\* An empty cache satisfies the invariant.
LEMMA InitIInv ==
  ASSUME Init
  PROVE  IInv
<1> USE TimeAssumption, BoundsAssumption DEF Init
<1>1. TypeOK
  <2>1. time \in Times \ {0} /\ exported \in 1..time /\ build \in 1..MaxBuild /\ limit \in IdLimits
    BY DEF Times
  <2>2. NoRows \in Rows /\ [a \in Advisories |-> 1] \in Rows
    BY DEF Rows, NoRows, Absent, Times
  <2>3. history \in [Times -> Rows] /\ rows \in Rows
    BY <2>2
  <2>4. /\ version \in 0..MaxBuild /\ cursor \in 0..time /\ etag \in 0..time /\ faults \in 0..MaxFaults
        /\ current \in Handles \cup {NoHandle}
    BY DEF Absent
  <2>5. flight \in [Handles -> Flights]
    BY IdleType
  <2>6. seedComplete \in BOOLEAN /\ failing \in BOOLEAN /\ mixed \in BOOLEAN /\ torn \in BOOLEAN
    OBVIOUS
  <2> QED
    BY <2>1, <2>3, <2>4, <2>5, <2>6 DEF TypeOK
<1>2. version <= build
  OBVIOUS
<1>3. HistoryInv
  <2> SUFFICES ASSUME NEW a \in Advisories, NEW s \in 0..1, NEW t \in 0..1, s <= t, Still(a, s, t), s # t
               PROVE  FALSE
    BY DEF HistoryInv
  <2>1. s = 0 /\ t = 1
    OBVIOUS
  <2>2. 0 \in Times /\ 1 \in Times
    BY DEF Times
  <2>3. history[1][a] = history[1 - 1][a]
    BY <2>1, <2>2 DEF Still
  <2>4. history[1][a] = 1 /\ history[0][a] = 0
    BY <2>2 DEF NoRows, Absent
  <2> QED
    BY <2>3, <2>4
<1>4. EtagInv
  BY DEF EtagInv, Still, Absent, Times
<1>5. FlightInv
  BY DEF FlightInv, AskingOk, PassOk, StreamOk, Idle
<1>6. WholeInv
  BY DEF WholeInv, Usable
<1> QED
  BY <1>1, <1>2, <1>3, <1>4, <1>5, <1>6 DEF IInv

\* Every step keeps it.
LEMMA NextIInv ==
  ASSUME OneHandle, IInv, [Next]_vars
  PROVE  IInv'
<1>1. CASE FeedChanges
  BY <1>1, FeedStep
<1>2. ASSUME NEW h \in Handles, Sync(h) PROVE IInv'
  BY <1>2, BeginStep, NothingNewStep, IdsArriveStep, FailStep, RereadStep, RereadFailsStep,
     PublishStep, FirstBatchStep, NextBatchStep, FinishSeedStep, FinishUndatedStep DEF Sync
<1>3. CASE Crash
  BY <1>3, CrashStep
<1>4. CASE CrashMidStamp
  BY <1>4, CrashMidStampStep
<1>5. CASE ExportIsCut \/ SwitchOn \/ SwitchOff \/ UNCHANGED vars
  BY <1>5, OtherStep
<1> QED
  BY <1>1, <1>2, <1>3, <1>4, <1>5 DEF Next

-----------------------------------------------------------------------------
(* What follows from the invariant. *)

\* Rows older than the ETag but not than the cursor are as good as the ETag's: nothing
\* changed in between.
LEMMA IInvNothingMissed ==
  ASSUME IInv
  PROVE  NothingMissed
<1> USE DEF IInv
<1> SUFFICES ASSUME Usable, ~torn, NEW a \in Advisories
             PROVE  \E t \in Newest(cursor, etag) .. time : rows[a] = history[t][a]
  BY DEF NothingMissed
<1>1. time \in Nat /\ cursor \in 0..time /\ etag \in 0..time
  BY TimeAssumption DEF TypeOK, Times
<1>2. PICK t \in cursor..time : rows[a] = history[t][a]
  BY DEF WholeInv, Clean
<1>3. CASE Newest(cursor, etag) <= t
  BY <1>1, <1>2, <1>3 DEF Newest
<1>4. CASE ~(Newest(cursor, etag) <= t)
  <2>1. cursor < etag /\ t < etag /\ Newest(cursor, etag) = etag
    BY <1>1, <1>2, <1>4 DEF Newest
  <2>2. Still(a, t, etag)
    BY <1>1, <1>2 DEF EtagInv, Still, Times
  <2>3. history[t][a] = history[etag][a]
    BY <1>1, <1>2, <2>1, <2>2 DEF HistoryInv
  <2> QED
    BY <1>1, <1>2, <2>1, <2>3
<1> QED
  BY <1>3, <1>4

Whole == Usable /\ ~mixed /\ ~torn

\* Only a pass moves a cache that stays in view, and it moves it forward.
LEMMA Moves ==
  ASSUME IInv, [Next]_vars, ~FeedChanges
  PROVE  /\ UNCHANGED <<time, history>>
         /\ Whole /\ Whole' => UNCHANGED <<rows, cursor>> \/ cursor' \in cursor + 1 .. time
<1> USE DEF IInv
<1>1. ASSUME NEW h \in Handles, PublishPass(h)
      PROVE  UNCHANGED <<time, history>> /\ cursor' \in cursor + 1 .. time
  BY <1>1 DEF PublishPass, upstream, FlightInv, PassOk
<1>2. ASSUME NEW h \in Handles, FirstBatch(h)
      PROVE  UNCHANGED <<time, history>> /\ ~Whole'
  BY <1>2 DEF FirstBatch, upstream, Whole, Usable
<1>3. ASSUME NEW h \in Handles, NextBatch(h) \/ FinishSeed(h) \/ FinishUndated(h)
      PROVE  UNCHANGED <<time, history>> /\ ~Whole
  BY <1>3 DEF NextBatch, FinishSeed, FinishUndated, Stamp, upstream, Whole, Usable, FlightInv, StreamOk
<1>4. ASSUME NEW h \in Handles,
             Begin(h) \/ NothingNew(h) \/ IdsArrive(h) \/ IdsFail(h) \/ Reread(h) \/ RereadFails(h) \/ SeedFails(h)
      PROVE  UNCHANGED <<time, history, rows, cursor>>
  BY <1>4 DEF Begin, NothingNew, IdsArrive, IdsFail, Reread, RereadFails, SeedFails, upstream, cache, meta
<1>5. CASE CrashMidStamp
  BY <1>5 DEF CrashMidStamp, Restart, upstream, Whole
<1>6. CASE ExportIsCut \/ Crash \/ SwitchOn \/ SwitchOff \/ UNCHANGED vars
  BY <1>6 DEF ExportIsCut, Crash, Restart, SwitchOn, SwitchOff, vars, upstream, cache, meta
<1> QED
  BY <1>1, <1>2, <1>3, <1>4, <1>5, <1>6 DEF Next, Sync

\* A cache that was never filled shows nothing.
LEMMA InitShown ==
  ASSUME Init
  PROVE  Shown!Init
BY TimeAssumption DEF Init, Shown!Init, Shown!States, Usable, NoRows, Absent, Times

\* A change upstream changes nothing that is shown.
LEMMA FeedShown ==
  ASSUME IInv, FeedChanges
  PROVE  Shown!Change
<1>1. /\ time \in Nat /\ time < MaxTime /\ time' = time + 1 /\ MaxTime \in Nat
      /\ UNCHANGED <<rows, seedComplete, version, cursor, build, mixed, torn>>
  BY TimeAssumption DEF FeedChanges, cache, meta, control, flaws, IInv, TypeOK, Times
<1>2. PICK changed \in SUBSET Advisories : \E removed \in SUBSET changed :
        history' = [history EXCEPT ![time + 1] = [a \in Advisories |->
            IF a \in removed THEN Absent ELSE IF a \in changed THEN time + 1 ELSE Docs[a]]]
  BY DEF FeedChanges
<1>3. PICK removed \in SUBSET changed :
        history' = [history EXCEPT ![time + 1] = [a \in Advisories |->
            IF a \in removed THEN Absent ELSE IF a \in changed THEN time + 1 ELSE Docs[a]]]
  BY <1>2
<1> DEFINE docs == [a \in Advisories |->
            IF a \in removed THEN Absent ELSE IF a \in changed THEN time + 1 ELSE Docs[a]]
<1>4. \A a \in Advisories : Docs[a] \in 0..MaxTime
  BY <1>1 DEF Docs, IInv, TypeOK, Rows, Times
<1>5. docs \in [Advisories -> 0..MaxTime]
  BY <1>1, <1>4 DEF Absent
<1>6. history' = [history EXCEPT ![time + 1] = docs]
  BY <1>3
<1> HIDE DEF docs
<1> QED
  BY <1>1, <1>5, <1>6 DEF Shown!Change, Shown!States, Usable

\* Every step shows, hides or advances the snapshot, or changes nothing of it.
LEMMA StepShown ==
  ASSUME IInv, IInv', [Next]_vars
  PROVE  [Shown!Next]_(Shown!vars)
<1>1. CASE FeedChanges
  BY <1>1, FeedShown DEF Shown!Next
<1>2. CASE ~FeedChanges
  <2>1. UNCHANGED <<time, history>>
    BY <1>2, Moves
  <2>2. CASE ~Whole /\ ~Whole'
    BY <2>1, <2>2 DEF Whole, Shown!vars, Usable
  <2>3. CASE Whole /\ ~Whole'
    <3>1. rows # Hidden
      BY HiddenAssumption DEF IInv, TypeOK, Rows, Times
    <3> QED
      BY <2>1, <2>3, <3>1 DEF Whole, Usable, Shown!Next, Shown!Hide
  <2>4. ASSUME Whole' PROVE cursor' \in 0..time /\ rows' = history'[cursor']
    <3>1. TypeOK' /\ WholeInv'
      BY DEF IInv
    <3>2. cursor' \in 0..time /\ cursor' \in Times
      BY <2>1, <3>1, TimeAssumption DEF TypeOK, Times
    <3>3. rows' \in [Advisories -> Times] /\ history'[cursor'] \in [Advisories -> Times]
      BY <3>1, <3>2 DEF TypeOK, Rows
    <3>4. \A a \in Advisories : rows'[a] = history'[cursor'][a]
      BY <2>4, <3>1 DEF Whole, WholeInv
    <3> QED
      BY <3>2, <3>3, <3>4
  <2>5. CASE ~Whole /\ Whole'
    BY <2>1, <2>4, <2>5 DEF Whole, Usable, Shown!Next, Shown!Show
  <2>6. CASE Whole /\ Whole'
    <3>1. CASE UNCHANGED <<rows, cursor>>
      BY <2>1, <2>6, <3>1 DEF Whole, Usable, Shown!vars
    <3>2. CASE cursor' \in cursor + 1 .. time
      <4>1. rows # Hidden
        BY HiddenAssumption DEF IInv, TypeOK, Rows, Times
      <4> QED
        BY <2>1, <2>4, <2>6, <3>2, <4>1 DEF Whole, Usable, Shown!Next, Shown!Advance
    <3> QED
      BY <1>2, <2>6, <3>1, <3>2, Moves
  <2> QED
    BY <2>2, <2>3, <2>5, <2>6
<1> QED
  BY <1>1, <1>2

-----------------------------------------------------------------------------

\* The cache, its metadata and the running sync keep their types, whatever the
\* upstream, the operator and the crashes do (osv-sync.ts, osv-runtime.ts).
THEOREM TypeCorrect == OneHandle => (Spec => []TypeOK)
<1> SUFFICES ASSUME OneHandle
             PROVE  Spec => []TypeOK
  OBVIOUS
<1>1. Init => IInv
  BY InitIInv
<1>2. IInv /\ [Next]_vars => IInv'
  BY NextIInv
<1>3. IInv => TypeOK
  BY DEF IInv
<1> QED
  BY <1>1, <1>2, <1>3, PTL DEF Spec

\* A usable cache whose last stamp got as far as the cursor holds each advisory at least as new as
\* its cursor and its ETag say: neither "modified after the cursor" nor a 304 hides
\* a change for good (incrementalSyncOsv).
THEOREM NothingIsMissed == OneHandle => (Spec => []NothingMissed)
<1> SUFFICES ASSUME OneHandle
             PROVE  Spec => []NothingMissed
  OBVIOUS
<1>1. Init => IInv
  BY InitIInv
<1>2. IInv /\ [Next]_vars => IInv'
  BY NextIInv
<1>3. IInv => NothingMissed
  BY IInvNothingMissed
<1> QED
  BY <1>1, <1>2, <1>3, PTL DEF Spec

\* The cache implements AdvisorySnapshot: readers see one complete upstream state or
\* nothing, and only move forward (seedOsv, incrementalSyncOsv, osvCacheUsable), but
\* for mixed passes and stamps that stopped short of the cursor.
THEOREM OnlySnapshotsAreShown == OneHandle => (Spec => SnapshotsOnly)
<1> SUFFICES ASSUME OneHandle
             PROVE  Spec => SnapshotsOnly
  OBVIOUS
<1>1. Init => IInv
  BY InitIInv
<1>2. IInv /\ [Next]_vars => IInv'
  BY NextIInv
<1>3. Init => Shown!Init
  BY InitShown
<1>4. IInv /\ IInv' /\ [Next]_vars => [Shown!Next]_(Shown!vars)
  BY StepShown
<1> QED
  BY <1>1, <1>2, <1>3, <1>4, PTL DEF Spec, SnapshotsOnly, Shown!Spec
=============================================================================
