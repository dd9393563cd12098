------------------------ MODULE RegistryClientProofs ------------------------
(***************************************************************************)
(* Theorems about RegistryClient, for any packages, clients, settlements   *)
(* and limits.                                                             *)
(*                                                                         *)
(* A client's limiter is a function of requests, a queue and a count.  The *)
(* lemmas follow it through what a client does with it; the theorems       *)
(* then go through the actions of all clients.                             *)
(*                                                                         *)
(* That answers are true needs no such order: rows, requests, replies and  *)
(* settlements each say something of the registry at a time, and what was  *)
(* true of it then stays true of it.                                       *)
(***************************************************************************)
EXTENDS RegistryClient, FiniteSetTheorems, SequenceTheorems, TLAPS

Running(f) == {job \in DOMAIN f : f[job].sent}

IsRequest(r) ==
    /\ r = [field \in {"sent", "prev", "reply", "late"} |-> r[field]]
    /\ r.sent \in BOOLEAN
    /\ r.reply # None => r.sent

\* The count is of what runs, the queue holds all that waits, each once, and no one
\* waits while there is a slot.
Limiter(f, q, k) ==
    /\ DOMAIN f \subseteq Jobs
    /\ f = [job \in DOMAIN f |-> f[job]]
    /\ \A job \in DOMAIN f : IsRequest(f[job])
    /\ k \in 0..Concurrency
    /\ Cardinality(Running(f)) = k
    /\ q \in Seq(DOMAIN f)
    /\ \A i, j \in 1..Len(q) : q[i] = q[j] => i = j
    /\ \A i \in 1..Len(q) : ~f[q[i]].sent
    /\ \A job \in DOMAIN f : ~f[job].sent => \E i \in 1..Len(q) : q[i] = job
    /\ q # <<>> => k = Concurrency

LimiterInv ==
    /\ flight = [c \in Clients |-> flight[c]]
    /\ queue = [c \in Clients |-> queue[c]]
    /\ slots = [c \in Clients |-> slots[c]]
    /\ \A c \in Clients : Limiter(flight[c], queue[c], slots[c])

\* The requests of a client are finitely many.
LEMMA FewRequests ==
    ASSUME NEW S \in SUBSET Jobs
    PROVE  IsFiniteSet(S) /\ Cardinality(S) \in Nat
BY JobsAssumption, FS_Subset, FS_CardinalityType

LEMMA SeqInto ==
    ASSUME NEW S, NEW T, NEW q \in Seq(S), \A i \in 1..Len(q) : q[i] \in T
    PROVE  q \in Seq(T)
<1>1. Len(q) \in Nat /\ q \in [1..Len(q) -> S]
  BY LenProperties
<1>2. q \in [1..Len(q) -> T]
  BY <1>1
<1> QED
  BY <1>1, <1>2, SeqDef

LEMMA SentIsRequest ==
    ASSUME NEW r, IsRequest(r), NEW b \in BOOLEAN, b \/ r.reply = None
    PROVE  IsRequest([r EXCEPT !.sent = b]) /\ [r EXCEPT !.sent = b].sent = b
BY DEF IsRequest

\* Answers and the passing of time leave the limiter as it is.
LEMMA SameRequests ==
    ASSUME NEW f, NEW q, NEW k, Limiter(f, q, k),
           NEW g, g = [job \in DOMAIN f |-> g[job]],
           \A job \in DOMAIN f : IsRequest(g[job]) /\ g[job].sent = f[job].sent
    PROVE  Limiter(g, q, k)
<1>1. DOMAIN g = DOMAIN f
  OBVIOUS
<1>2. Running(g) = Running(f)
  BY <1>1 DEF Running
<1>3. q \in Seq(DOMAIN f)
  BY DEF Limiter
<1>4. \A i \in 1..Len(q) : q[i] \in DOMAIN f
  BY <1>3
<1> QED
  BY <1>1, <1>2, <1>4 DEF Limiter

\* A request that ends leaves its slot to the first that waits, or frees it.
LEMMA FinishKeepsLimiter ==
    ASSUME NEW f, NEW q, NEW k, Limiter(f, q, k), NEW job \in DOMAIN f, f[job].sent,
           NEW rest, rest = [j \in DOMAIN f \ {job} |-> f[j]]
    PROVE  IF q = <<>> THEN Limiter(rest, q, k - 1)
           ELSE Limiter([rest EXCEPT ![Head(q)].sent = TRUE], Tail(q), k)
<1> USE LimitsAssumption
<1>1. /\ IsFiniteSet(Running(f))
      /\ Cardinality(Running(f) \ {job}) = k - 1
      /\ job \in Running(f) /\ k \in 1..Concurrency
  <2>1. IsFiniteSet(Running(f)) /\ job \in Running(f)
    BY FewRequests DEF Limiter, Running
  <2>2. Cardinality(Running(f) \ {job}) \in Nat
    BY <2>1, FewRequests DEF Limiter, Running
  <2>3. Cardinality(Running(f) \ {job}) = Cardinality(Running(f)) - 1
    BY <2>1, FS_RemoveElement
  <2> QED
    BY <2>1, <2>2, <2>3 DEF Limiter
<1>2. DOMAIN rest = DOMAIN f \ {job} /\ rest = [j \in DOMAIN rest |-> rest[j]]
  OBVIOUS
<1>3. \A i \in 1..Len(q) : q[i] \in DOMAIN rest
  BY <1>2 DEF Limiter
<1>4. CASE q = <<>>
  <2>1. Running(rest) = Running(f) \ {job}
    BY <1>2 DEF Running
  <2>2. Len(q) = 0 /\ q \in Seq(DOMAIN rest)
    BY <1>4, EmptySeq
  <2>3. \A j \in DOMAIN rest : IsRequest(rest[j])
    BY <1>2 DEF Limiter
  <2>4. \A j \in DOMAIN rest : rest[j].sent
    BY <1>2, <2>2 DEF Limiter, IsRequest
  <2>5. DOMAIN rest \subseteq Jobs /\ k - 1 \in 0..Concurrency /\ Cardinality(Running(rest)) = k - 1
    <3>1. DOMAIN rest \subseteq Jobs
      BY <1>2 DEF Limiter
    <3>2. k - 1 \in 0..Concurrency
      BY <1>1
    <3>3. Cardinality(Running(rest)) = k - 1
      BY <1>1, <2>1
    <3> QED
      BY <3>1, <3>2, <3>3
  <2>6. \A i \in 1..Len(q) : FALSE
    BY <2>2
  <2>7. Limiter(rest, q, k - 1)
    BY <1>2, <1>4, <2>2, <2>3, <2>4, <2>5, <2>6 DEF Limiter
  <2> QED
    BY <1>4, <2>7
<1>5. CASE q # <<>>
  <2> DEFINE next == Head(q)
             g == [rest EXCEPT ![next].sent = TRUE]
  <2>1. /\ q \in Seq(DOMAIN f) /\ Len(q) \in Nat \ {0} /\ next = q[1]
        /\ Tail(q) \in Seq(DOMAIN f) /\ Len(Tail(q)) = Len(q) - 1
        /\ \A i \in 1..Len(Tail(q)) : Tail(q)[i] = q[i + 1]
    BY <1>5 DEF Limiter
  <2>2. next \in DOMAIN rest /\ ~f[next].sent /\ next # job
    BY <1>3, <2>1 DEF Limiter
  <2>3. /\ g = [j \in DOMAIN g |-> g[j]] /\ DOMAIN g = DOMAIN rest
        /\ \A j \in DOMAIN rest \ {next} : g[j] = f[j]
        /\ g[next] = [f[next] EXCEPT !.sent = TRUE]
    BY <1>2, <2>2
  <2>4. IsRequest(g[next]) /\ g[next].sent
    <3>1. IsRequest(f[next])
      BY <1>2, <2>2 DEF Limiter
    <3>2. IsRequest([f[next] EXCEPT !.sent = TRUE]) /\ [f[next] EXCEPT !.sent = TRUE].sent
      BY <3>1, SentIsRequest
    <3> QED
      BY <2>3, <3>2
  <2>5. Running(g) = (Running(f) \ {job}) \cup {next}
    BY <1>2, <2>2, <2>3, <2>4 DEF Running
  <2>6. Cardinality(Running(g)) = k
    <3>1. IsFiniteSet(Running(f) \ {job})
      BY <1>1, FS_RemoveElement
    <3>2. next \notin Running(f) \ {job}
      BY <2>2 DEF Running
    <3>3. Cardinality(Running(g)) = (k - 1) + 1
      BY <1>1, <2>5, <3>1, <3>2, FS_AddElement
    <3> QED
      BY <1>1, <3>3
  <2>7. Tail(q) \in Seq(DOMAIN g)
    <3>1. \A i \in 1..Len(Tail(q)) : Tail(q)[i] \in DOMAIN g
      BY <1>3, <2>1, <2>3
    <3> QED
      BY <2>1, <3>1, SeqInto
  <2>8. /\ \A i \in 1..Len(Tail(q)) : Tail(q)[i] # next /\ ~g[Tail(q)[i]].sent
        /\ \A i, j \in 1..Len(Tail(q)) : Tail(q)[i] = Tail(q)[j] => i = j
    <3>1. \A i \in 1..Len(Tail(q)) : i + 1 \in 1..Len(q) /\ i + 1 # 1
      BY <2>1
    <3>2. \A i \in 1..Len(Tail(q)) : Tail(q)[i] # next
      BY <2>1, <3>1 DEF Limiter
    <3>3. \A i \in 1..Len(Tail(q)) : ~g[Tail(q)[i]].sent
      BY <1>2, <1>3, <2>1, <2>3, <3>1, <3>2 DEF Limiter
    <3>4. \A i, j \in 1..Len(Tail(q)) : Tail(q)[i] = Tail(q)[j] => i = j
      BY <2>1, <3>1 DEF Limiter
    <3> QED
      BY <3>2, <3>3, <3>4
  <2>9. \A j \in DOMAIN g : ~g[j].sent => \E i \in 1..Len(Tail(q)) : Tail(q)[i] = j
    <3> SUFFICES ASSUME NEW j \in DOMAIN g, ~g[j].sent
                 PROVE  \E i \in 1..Len(Tail(q)) : Tail(q)[i] = j
      OBVIOUS
    <3>1. j # next /\ ~f[j].sent /\ j \in DOMAIN f
      BY <1>2, <2>3, <2>4
    <3>2. PICK i \in 1..Len(q) : q[i] = j
      BY <3>1 DEF Limiter
    <3>3. i # 1
      BY <2>1, <3>1, <3>2
    <3>4. i - 1 \in 1..Len(Tail(q)) /\ Tail(q)[i - 1] = j
      BY <2>1, <3>2, <3>3
    <3> QED
      BY <3>4
  <2>10. k = Concurrency
    BY <1>5 DEF Limiter
  <2>11. \A j \in DOMAIN g : IsRequest(g[j])
    BY <1>2, <2>3, <2>4 DEF Limiter
  <2> QED
    BY <1>1, <1>2, <1>5, <2>3, <2>6, <2>7, <2>8, <2>9, <2>10, <2>11 DEF Limiter
<1> QED
  BY <1>4, <1>5

LEMMA MinOfTwo ==
    ASSUME NEW a \in Int, NEW b \in Int
    PROVE  Min({a, b}) \in {a, b} /\ Min({a, b}) <= a /\ Min({a, b}) <= b
<1>1. \E x \in {a, b} : \A y \in {a, b} : x =< y
  OBVIOUS
<1> QED
  BY <1>1 DEF Min

\* A finite set is listed with each of its elements once.
LEMMA ListedOnce ==
    ASSUME NEW S, IsFiniteSet(S)
    PROVE  /\ SetToSeq(S) \in Seq(S) /\ Len(SetToSeq(S)) = Cardinality(S) /\ Cardinality(S) \in Nat
           /\ \A i, j \in 1..Cardinality(S) : SetToSeq(S)[i] = SetToSeq(S)[j] => i = j
           /\ \A x \in S : \E i \in 1..Cardinality(S) : SetToSeq(S)[i] = x
<1> DEFINE n == Cardinality(S)
           seq == SetToSeq(S)
<1>1. n \in Nat /\ ExistsBijection(1..n, S)
  BY FS_CardinalityType
<1>2. PICK b : b \in [1..n -> S] /\ IsInjective(b)
  BY <1>1 DEF ExistsBijection, Bijection, Injection
<1>3. seq \in [1..n -> S] /\ IsInjective(seq)
  BY <1>2 DEF SetToSeq
<1>4. seq \in Injection(1..n, S)
  BY <1>3 DEF Injection
<1>5. Cardinality(1..n) = n
  BY <1>1, FS_Interval
<1>6. seq \in Surjection(1..n, S)
  BY <1>4, <1>5, FS_Injection
<1>7. seq \in Seq(S) /\ Len(seq) = n
  BY <1>1, <1>3, SeqDef
<1> QED
  BY <1>1, <1>3, <1>6, <1>7 DEF IsInjective, Surjection

\* The first of them are as many as one takes.
LEMMA FirstOfThem ==
    ASSUME NEW S, NEW seq \in Seq(S), \A i, j \in 1..Len(seq) : seq[i] = seq[j] => i = j,
           NEW go \in 0..Len(seq)
    PROVE  Cardinality({seq[i] : i \in 1..go}) = go
<1> DEFINE T == {seq[i] : i \in 1..go}
           b == [i \in 1..go |-> seq[i]]
<1>1. go \in Nat /\ 1..go \subseteq 1..Len(seq)
  BY LenProperties
<1>2. b \in [1..go -> T] /\ (\A i, j \in 1..go : b[i] = b[j] => i = j) /\ \A x \in T : \E i \in 1..go : b[i] = x
  BY <1>1
<1>3. b \in Bijection(1..go, T)
  BY <1>2 DEF Bijection, Injection, Surjection, IsInjective
<1> QED
  BY <1>1, <1>3, FS_CountingElements DEF ExistsBijection

\* New requests take the slots there are, and the others wait behind those that do.
LEMMA SubmitKeepsLimiter ==
    ASSUME NEW f, NEW q, NEW k, Limiter(f, q, k),
           NEW P, DOMAIN P \subseteq Jobs, DOMAIN P \cap DOMAIN f = {}
    PROVE  LET seq == SetToSeq(DOMAIN P)
               go  == Min({Len(seq), Concurrency - k})
               Opened(job) == [Sent(P[job]) EXCEPT !.sent = \E i \in 1..go : seq[i] = job]
           IN  Limiter([job \in DOMAIN P \cup DOMAIN f |-> IF job \in DOMAIN P THEN Opened(job) ELSE f[job]],
                       q \o SubSeq(seq, go + 1, Len(seq)), k + go)
<1> DEFINE seq == SetToSeq(DOMAIN P)
           n   == Len(seq)
           go  == Min({n, Concurrency - k})
           Opened(job) == [Sent(P[job]) EXCEPT !.sent = \E i \in 1..go : seq[i] = job]
           g   == [job \in DOMAIN P \cup DOMAIN f |-> IF job \in DOMAIN P THEN Opened(job) ELSE f[job]]
           T   == {seq[i] : i \in 1..go}
           w   == SubSeq(seq, go + 1, n)
           r   == q \o w
<1>1. /\ seq \in Seq(DOMAIN P) /\ n \in Nat
      /\ \A i, j \in 1..n : seq[i] = seq[j] => i = j
      /\ \A x \in DOMAIN P : \E i \in 1..n : seq[i] = x
  BY FewRequests, ListedOnce
<1>2. \A i \in 1..n : seq[i] \in DOMAIN P
  BY <1>1
<1> HIDE DEF seq, n
<1>3. /\ k \in 0..Concurrency /\ Concurrency \in Nat
      /\ go \in 0..n /\ go \in Nat /\ go <= n /\ k + go \in 0..Concurrency
      /\ \A i \in 1..go : i \in 1..n
      /\ go = n \/ k + go = Concurrency
  <2>1. k \in 0..Concurrency /\ Concurrency \in Nat
    BY LimitsAssumption DEF Limiter
  <2>2. go \in {n, Concurrency - k} /\ go <= n /\ go <= Concurrency - k
    <3>1. n \in Int /\ Concurrency - k \in Int
      BY <1>1, <2>1
    <3> QED
      BY <3>1, MinOfTwo
  <2> HIDE DEF go
  <2> QED
    BY <1>1, <2>1, <2>2
<1> HIDE DEF go
<1>4. /\ DOMAIN g = DOMAIN P \cup DOMAIN f
      /\ g = [job \in DOMAIN g |-> g[job]]
      /\ \A job \in DOMAIN f : g[job] = f[job]
      /\ \A job \in DOMAIN P : g[job] = Opened(job)
  OBVIOUS
<1>5. \A job \in DOMAIN P : IsRequest(Opened(job)) /\ (Opened(job).sent <=> job \in T)
  <2> SUFFICES ASSUME NEW job \in DOMAIN P
               PROVE  IsRequest(Opened(job)) /\ (Opened(job).sent <=> job \in T)
    OBVIOUS
  <2>1. Opened(job) = [Sent(P[job]) EXCEPT !.sent = \E i \in 1..go : seq[i] = job]
    OBVIOUS
  <2>2. IsRequest(Sent(P[job])) /\ Sent(P[job]).reply = None
    BY DEF IsRequest, Sent
  <2>3. PICK b \in BOOLEAN : b = \E i \in 1..go : seq[i] = job
    OBVIOUS
  <2>4. IsRequest([Sent(P[job]) EXCEPT !.sent = b]) /\ [Sent(P[job]) EXCEPT !.sent = b].sent = b
    BY <2>2, SentIsRequest
  <2>5. b <=> job \in T
    BY <2>3
  <2> QED
    BY <2>1, <2>3, <2>4, <2>5
<1> HIDE DEF g
<1>5a. \A job \in DOMAIN P : IsRequest(g[job]) /\ (g[job].sent <=> job \in T)
  <2> HIDE DEF Opened, T
  <2> QED
    BY <1>4, <1>5
<1> HIDE DEF Opened
<1>6. /\ Running(g) = T \cup Running(f) /\ T \cap Running(f) = {}
      /\ IsFiniteSet(T) /\ IsFiniteSet(Running(f))
  <2>1. T \subseteq DOMAIN P
    BY <1>2, <1>3
  <2>2. Running(g) = T \cup Running(f)
    <3> HIDE DEF T
    <3> QED
      BY <1>4, <1>5a, <2>1 DEF Running
  <2> QED
    BY <2>1, <2>2, FewRequests DEF Running, Limiter
<1>7. Cardinality(Running(g)) = k + go
  <2>1. Cardinality(T) = go /\ Cardinality(Running(f)) = k
    BY <1>1, <1>3, FirstOfThem DEF Limiter, n
  <2>2. Cardinality(Running(g)) = go + k - 0
    BY <1>6, <2>1, FS_Union, FS_EmptySet
  <2> QED
    BY <1>3, <2>2
<1>8. /\ q \in Seq(DOMAIN g) /\ Len(q) \in Nat
      /\ w \in Seq(DOMAIN g) /\ Len(w) = n - go
      /\ \A i \in 1..Len(w) : w[i] = seq[go + i]
  <2>1. q \in Seq(DOMAIN f) /\ DOMAIN f \subseteq DOMAIN g
    BY <1>4 DEF Limiter
  <2>2. q \in Seq(DOMAIN g) /\ Len(q) \in Nat
    BY <2>1, SeqMonotonic, LenProperties
  <2>3. \A i \in go + 1..n : seq[i] \in DOMAIN g
    BY <1>1, <1>2, <1>3, <1>4
  <2>4. /\ w \in Seq(DOMAIN g)
        /\ Len(w) = IF go + 1 <= n THEN n - (go + 1) + 1 ELSE 0
        /\ \A i \in 1..n - (go + 1) + 1 : w[i] = seq[go + 1 + i - 1]
    BY <1>1, <1>3, <2>3, SubSeqProperties
  <2>5. Len(w) = n - go
    BY <1>1, <1>3, <2>4
  <2>6. n - (go + 1) + 1 = n - go /\ \A i \in 1..n - go : go + 1 + i - 1 = go + i
    BY <1>1, <1>3
  <2>7. \A i \in 1..n - go : w[i] = seq[go + i]
    BY <2>4, <2>6
  <2> QED
    BY <2>2, <2>4, <2>5, <2>7
<1> HIDE DEF w
<1>9. /\ r \in Seq(DOMAIN g) /\ Len(r) = Len(q) + Len(w)
      /\ \A i \in 1..Len(q) : r[i] = q[i]
      /\ \A i \in 1..Len(w) : r[Len(q) + i] = w[i]
      /\ \A i \in 1..Len(r) : i \in 1..Len(q) \/ \E j \in 1..Len(w) : i = Len(q) + j
  <2>1. /\ r \in Seq(DOMAIN g) /\ Len(r) = Len(q) + Len(w)
        /\ \A i \in 1..Len(q) + Len(w) : r[i] = IF i <= Len(q) THEN q[i] ELSE w[i - Len(q)]
    BY <1>8, ConcatProperties
  <2>2. Len(w) \in Nat
    BY <1>1, <1>3, <1>8
  <2>3. \A i \in 1..Len(q) : i \in 1..Len(q) + Len(w) /\ i <= Len(q)
    BY <1>8, <2>2
  <2>4. \A i \in 1..Len(w) : Len(q) + i \in 1..Len(q) + Len(w) /\ ~(Len(q) + i <= Len(q)) /\ (Len(q) + i) - Len(q) = i
    BY <1>8, <2>2
  <2>5. \A i \in 1..Len(r) : i \in 1..Len(q) \/ (i - Len(q) \in 1..Len(w) /\ i = Len(q) + (i - Len(q)))
    BY <1>8, <2>1, <2>2
  <2> QED
    BY <2>1, <2>3, <2>4, <2>5
<1> HIDE DEF r
<1>10. \A i \in 1..Len(q) : q[i] \in DOMAIN f /\ ~f[q[i]].sent
  <2>1. q \in Seq(DOMAIN f)
    BY DEF Limiter
  <2> QED
    BY <2>1, ElementOfSeq DEF Limiter
<1>11. \A i \in 1..Len(w) : w[i] \in DOMAIN P /\ w[i] \notin T
  <2> SUFFICES ASSUME NEW i \in 1..Len(w)
               PROVE  w[i] \in DOMAIN P /\ w[i] \notin T
    OBVIOUS
  <2>1. go + i \in 1..n /\ w[i] = seq[go + i] /\ \A j \in 1..go : j \in 1..n /\ j # go + i
    BY <1>1, <1>3, <1>8
  <2> QED
    BY <1>1, <1>2, <2>1
<1> HIDE DEF T
<1>12. \A i \in 1..Len(r) : ~g[r[i]].sent
  <2> SUFFICES ASSUME NEW i \in 1..Len(r)
               PROVE  ~g[r[i]].sent
    OBVIOUS
  <2>1. CASE i \in 1..Len(q)
    BY <1>4, <1>9, <1>10, <2>1
  <2>2. ASSUME NEW j \in 1..Len(w), i = Len(q) + j
        PROVE  ~g[r[i]].sent
    BY <1>5a, <1>9, <1>11, <2>2
  <2> QED
    BY <1>9, <2>1, <2>2
<1>13. \A i, j \in 1..Len(r) : r[i] = r[j] => i = j
  <2>1. \A i, j \in 1..Len(q) : q[i] = q[j] => i = j
    BY DEF Limiter
  <2>2. \A i, j \in 1..Len(w) : w[i] = w[j] => i = j
    <3> SUFFICES ASSUME NEW i \in 1..Len(w), NEW j \in 1..Len(w), w[i] = w[j]
                 PROVE  i = j
      OBVIOUS
    <3>1. i \in Int /\ j \in Int /\ go \in Int /\ go + i \in 1..n /\ go + j \in 1..n
      BY <1>1, <1>3, <1>8
    <3>2. seq[go + i] = seq[go + j]
      BY <1>8
    <3>3. go + i = go + j
      BY <1>1, <3>1, <3>2
    <3> QED
      BY <3>1, <3>3
  <2>3. \A i \in 1..Len(q), j \in 1..Len(w) : q[i] # w[j]
    BY <1>10, <1>11
  <2> SUFFICES ASSUME NEW i \in 1..Len(r), NEW j \in 1..Len(r), r[i] = r[j]
               PROVE  i = j
    OBVIOUS
  <2>4. CASE i \in 1..Len(q) /\ j \in 1..Len(q)
    BY <1>9, <2>1, <2>4
  <2>5. ASSUME NEW a \in 1..Len(w), NEW b \in 1..Len(w), i = Len(q) + a, j = Len(q) + b
        PROVE  i = j
    <3>1. r[i] = w[a] /\ r[j] = w[b]
      BY <1>9, <2>5
    <3>2. a = b
      BY <2>2, <3>1
    <3> QED
      BY <2>5, <3>2
  <2>6. ASSUME NEW a \in 1..Len(w), i = Len(q) + a, j \in 1..Len(q)
        PROVE  i = j
    BY <1>9, <2>3, <2>6
  <2>7. ASSUME NEW b \in 1..Len(w), j = Len(q) + b, i \in 1..Len(q)
        PROVE  i = j
    BY <1>9, <2>3, <2>7
  <2> QED
    BY <1>9, <2>4, <2>5, <2>6, <2>7
<1>14. \A job \in DOMAIN g : ~g[job].sent => \E i \in 1..Len(r) : r[i] = job
  <2> SUFFICES ASSUME NEW job \in DOMAIN g, ~g[job].sent
               PROVE  \E i \in 1..Len(r) : r[i] = job
    OBVIOUS
  <2>0. /\ Len(w) \in Nat
        /\ \A i \in 1..Len(q) : i \in 1..Len(r)
        /\ \A i \in 1..Len(w) : Len(q) + i \in 1..Len(r)
    BY <1>1, <1>3, <1>8, <1>9
  <2>1. CASE job \in DOMAIN f
    <3>1. PICK i \in 1..Len(q) : q[i] = job
      BY <1>4, <2>1 DEF Limiter
    <3> QED
      BY <1>9, <2>0, <3>1
  <2>2. CASE job \in DOMAIN P
    <3>1. job \notin T
      BY <1>5a, <2>2
    <3>2. PICK i \in 1..n : seq[i] = job /\ i \notin 1..go
      BY <1>1, <2>2, <3>1 DEF T
    <3>3. i - go \in 1..Len(w) /\ go + (i - go) = i
      BY <1>1, <1>3, <1>8, <3>1, <3>2
    <3>4. r[Len(q) + (i - go)] = job
      BY <1>8, <1>9, <3>2, <3>3
    <3> QED
      BY <2>0, <3>3, <3>4
  <2> QED
    BY <1>4, <2>1, <2>2
<1>15. r # <<>> => k + go = Concurrency
  <2>1. CASE q # <<>>
    BY <1>1, <1>3, <2>1 DEF Limiter
  <2>2. CASE q = <<>> /\ r # <<>>
    <3>1. Len(w) # 0
      BY <1>8, <1>9, <2>2, EmptySeq
    <3> QED
      BY <1>1, <1>3, <1>8, <3>1
  <2> QED
    BY <2>1, <2>2
<1>16. DOMAIN g \subseteq Jobs /\ \A job \in DOMAIN g : IsRequest(g[job])
  BY <1>4, <1>5a DEF Limiter
<1>17. Limiter(g, r, k + go)
  BY <1>3, <1>4, <1>7, <1>9, <1>12, <1>13, <1>14, <1>15, <1>16 DEF Limiter
<1> QED
  BY <1>17 DEF seq, n, go, g, w, r, Opened, T

-----------------------------------------------------------------------------
\* A settlement that starts or looks further asks for what is not under way.
LEMMA SubmitStep ==
    ASSUME LimiterInv, NEW c \in Clients, NEW P, DOMAIN P \subseteq Jobs \ DOMAIN flight[c], Submit(c, P)
    PROVE  LimiterInv'
<1> DEFINE seq == SetToSeq(DOMAIN P)
           go  == Min({Len(seq), Concurrency - slots[c]})
           Opened(job) == [Sent(P[job]) EXCEPT !.sent = \E i \in 1..go : seq[i] = job]
           g   == [job \in DOMAIN P \cup DOMAIN flight[c] |-> IF job \in DOMAIN P THEN Opened(job) ELSE flight[c][job]]
           r   == queue[c] \o SubSeq(seq, go + 1, Len(seq))
<1>1. Limiter(g, r, slots[c] + go)
  BY SubmitKeepsLimiter DEF LimiterInv
<1>2. /\ flight' = [flight EXCEPT ![c] = g]
      /\ queue' = [queue EXCEPT ![c] = r]
      /\ slots' = [slots EXCEPT ![c] = slots[c] + go]
  BY DEF Submit
<1> HIDE DEF g, r, go
<1> QED
  BY <1>1, <1>2 DEF LimiterInv

LEMMA FinishStep ==
    ASSUME LimiterInv, NEW c \in Clients, NEW job \in DOMAIN flight[c], flight[c][job].sent, Finish(c, job)
    PROVE  LimiterInv'
<1> DEFINE rest == [j \in DOMAIN flight[c] \ {job} |-> flight[c][j]]
           next == [rest EXCEPT ![Head(queue[c])].sent = TRUE]
<1>1. IF queue[c] = <<>> THEN Limiter(rest, queue[c], slots[c] - 1)
      ELSE Limiter(next, Tail(queue[c]), slots[c])
  BY FinishKeepsLimiter DEF LimiterInv
<1>2. CASE queue[c] = <<>>
  <2>1. /\ flight' = [flight EXCEPT ![c] = rest]
        /\ slots' = [slots EXCEPT ![c] = slots[c] - 1]
        /\ queue' = queue
    BY <1>2 DEF Finish
  <2> HIDE DEF rest
  <2> QED
    BY <1>1, <1>2, <2>1 DEF LimiterInv
<1>3. CASE queue[c] # <<>>
  <2>1. /\ flight' = [flight EXCEPT ![c] = next]
        /\ queue' = [queue EXCEPT ![c] = Tail(queue[c])]
        /\ slots' = slots
    BY <1>3 DEF Finish
  <2> HIDE DEF next
  <2> QED
    BY <1>1, <1>3, <2>1 DEF LimiterInv
<1> QED
  BY <1>2, <1>3

\* Whatever happens, each limiter stays right.
LEMMA LimiterStep == LimiterInv /\ [Next]_vars => LimiterInv'
<1> SUFFICES ASSUME LimiterInv, [Next]_vars
             PROVE  LimiterInv'
  OBVIOUS
<1>1. ASSUME NEW c \in Clients, NEW n \in Names, Arrive(c, n)
      PROVE  LimiterInv'
  <2>1. <<n, None>> \in DOMAIN flight[c] /\ flight[c][<<n, None>>].sent
    BY <1>1 DEF Arrive, LimiterInv, Limiter, IsRequest
  <2> QED
    BY <1>1, <2>1, FinishStep DEF Arrive
<1>2. ASSUME NEW c \in Clients, NEW n \in Names, Unreachable(c, n)
      PROVE  LimiterInv'
  BY <1>2, FinishStep DEF Unreachable
<1>3. ASSUME NEW c \in Clients, NEW job \in Infos, Checked(c, job)
      PROVE  LimiterInv'
  BY <1>3, FinishStep DEF Checked
<1>4. ASSUME NEW c \in Clients, NEW job \in Jobs, Serve(c, job)
      PROVE  LimiterInv'
  <2>1. PICK reply : flight' = [flight EXCEPT ![c][job].reply = reply]
    BY <1>4 DEF Serve
  <2>2. job \in DOMAIN flight[c] /\ flight[c][job].sent /\ UNCHANGED <<queue, slots>>
    BY <1>4 DEF Serve
  <2> DEFINE g == [flight[c] EXCEPT ![job].reply = reply]
  <2>3. flight' = [flight EXCEPT ![c] = g]
    BY <2>1 DEF LimiterInv
  <2>4. g = [j \in DOMAIN flight[c] |-> g[j]]
    BY DEF LimiterInv, Limiter
  <2>5. \A j \in DOMAIN flight[c] : IsRequest(flight[c][j])
    BY DEF LimiterInv, Limiter
  <2>6. \A j \in DOMAIN flight[c] : j # job => g[j] = flight[c][j]
    OBVIOUS
  <2>7. g[job] = [flight[c][job] EXCEPT !.reply = reply]
    BY <2>2
  <2>8. IsRequest(g[job]) /\ g[job].sent = flight[c][job].sent
    BY <2>2, <2>5, <2>7 DEF IsRequest
  <2> HIDE DEF g
  <2>9. Limiter(g, queue[c], slots[c])
    BY <2>4, <2>5, <2>6, <2>8, SameRequests DEF LimiterInv
  <2> QED
    BY <2>2, <2>3, <2>9 DEF LimiterInv
<1>5. ASSUME NEW s \in Scans, Lookup(s)
      PROVE  LimiterInv'
  <2>1. ClientOf[s] \in Clients
    BY MapsAssumption
  <2>2. PICK names \in SUBSET Names :
            Submit(ClientOf[s],
                   [job \in {<<n, None>> : n \in {m \in names : ~Serves(store[m], clock)}} \ DOMAIN flight[ClientOf[s]] |->
                       store[job[1]]])
    BY <1>5 DEF Lookup
  <2>3. {<<n, None>> : n \in {m \in names : ~Serves(store[m], clock)}} \subseteq Jobs
    BY DEF Jobs, Lists
  <2> QED
    BY <2>1, <2>2, <2>3, SubmitStep
<1>6. ASSUME NEW s \in Scans, Look(s)
      PROVE  LimiterInv'
  <2>1. ClientOf[s] \in Clients
    BY MapsAssumption
  <2>2. PICK J \in SUBSET Infos : Submit(ClientOf[s], [job \in J \ DOMAIN flight[ClientOf[s]] |-> None])
    BY <1>6 DEF Look
  <2>3. J \subseteq Jobs
    BY DEF Jobs
  <2> QED
    BY <2>1, <2>2, <2>3, SubmitStep
<1>7. ASSUME Tick
      PROVE  LimiterInv'
  <2> SUFFICES ASSUME NEW c \in Clients
               PROVE  Limiter(flight'[c], queue'[c], slots'[c])
    BY <1>7 DEF Tick, LimiterInv
  <2> DEFINE g == [job \in DOMAIN flight[c] |-> [flight[c][job] EXCEPT !.late = flight[c][job].sent]]
  <2>1. flight'[c] = g /\ UNCHANGED <<queue, slots>>
    BY <1>7 DEF Tick
  <2>2. \A job \in DOMAIN flight[c] : IsRequest(flight[c][job])
    BY DEF LimiterInv, Limiter
  <2>3. \A job \in DOMAIN flight[c] : IsRequest(g[job]) /\ g[job].sent = flight[c][job].sent
    BY <2>2 DEF IsRequest
  <2>4. g = [job \in DOMAIN flight[c] |-> g[job]]
    OBVIOUS
  <2> HIDE DEF g
  <2>5. Limiter(g, queue[c], slots[c])
    BY <2>3, <2>4, SameRequests DEF LimiterInv
  <2> QED
    BY <2>1, <2>5
<1>8. CASE UNCHANGED client
  BY <1>8 DEF client, LimiterInv
<1>9. \A s \in Scans : Settle(s) \/ (\E n \in Names : Record(s, n)) => UNCHANGED client
  BY DEF Settle, Record
<1>10. \A n \in Names : Release(n) \/ (\E v \in Stated[n] : Push(n, v)) => UNCHANGED client
  BY DEF Release, Push
<1> QED
  BY <1>1, <1>2, <1>3, <1>4, <1>5, <1>6, <1>7, <1>8, <1>9, <1>10 DEF Next, Ends, Step, vars

LEMMA LimiterInit == Init => LimiterInv
<1> SUFFICES ASSUME Init
             PROVE  LimiterInv
  OBVIOUS
<1>1. \A c \in Clients : flight[c] = [job \in {} |-> None] /\ queue[c] = <<>> /\ slots[c] = 0
  BY DEF Init
<1>2. ASSUME NEW f, f = [job \in {} |-> None]
      PROVE  Limiter(f, <<>>, 0)
  <2>1. DOMAIN f = {} /\ Running(f) = {}
    BY <1>2 DEF Running
  <2>2. <<>> \in Seq(DOMAIN f) /\ Len(<<>>) = 0
    BY EmptySeq
  <2>3. f = [job \in DOMAIN f |-> f[job]]
    BY <1>2
  <2>4. Cardinality(Running(f)) = 0
    BY <2>1, FS_EmptySet
  <2> QED
    BY <2>1, <2>2, <2>3, <2>4, LimitsAssumption DEF Limiter
<1> QED
  BY <1>1, <1>2 DEF Init, LimiterInv

\* "At most REGISTRY_FETCH_CONCURRENCY requests in flight" (createLimiter), for any
\* number of clients, settlements and packages.
THEOREM LimitIsKept == Spec => []LimitHolds
<1>1. LimiterInv => LimitHolds
  BY LimitsAssumption DEF LimiterInv, Limiter, Running, LimitHolds
<1> QED
  BY <1>1, LimiterInit, LimiterStep, PTL DEF Spec

\* No request waits while the limiter has a slot, and none is forgotten: what is not
\* running is in the queue (createLimiter's release hands a slot over).
NothingWaitsIdly ==
    \A c \in Clients : \A job \in DOMAIN flight[c] : ~flight[c][job].sent =>
        slots[c] = Concurrency /\ \E i \in 1..Len(queue[c]) : queue[c][i] = job

THEOREM NoIdleSlot == Spec => []NothingWaitsIdly
<1>1. LimiterInv => NothingWaitsIdly
  <2> SUFFICES ASSUME LimiterInv, NEW c \in Clients, NEW job \in DOMAIN flight[c], ~flight[c][job].sent
               PROVE  slots[c] = Concurrency /\ \E i \in 1..Len(queue[c]) : queue[c][i] = job
    BY DEF NothingWaitsIdly
  <2>1. PICK i \in 1..Len(queue[c]) : queue[c][i] = job
    BY DEF LimiterInv, Limiter
  <2>2. queue[c] # <<>>
    BY <2>1, EmptySeq
  <2> QED
    BY <2>1, <2>2 DEF LimiterInv, Limiter
<1> QED
  BY <1>1, LimiterInit, LimiterStep, PTL DEF Spec

-----------------------------------------------------------------------------
(* The store, with one client: two of them fetch apart. *)

OneClient == \A c, d \in Clients : c = d

IsRow(row) ==
    /\ row = [field \in {"rev", "at", "read", "info"} |-> row[field]]
    /\ row.rev \in Nat

NoneIsNoRow == ~IsRow(None)

\* What a request started from is still the row, and what it was answered is no older.
Current(row, now, r) ==
    /\ r.prev = None <=> row = None
    /\ row # None => r.prev.rev = row.rev
    /\ r.reply # None =>
        /\ r.reply.rev \in Nat /\ r.reply.rev <= now
        /\ r.reply.same => r.prev # None
        /\ row # None => row.rev <= r.reply.rev

\* What a registry holds at a time is known by the greatest of its revisions.
HeldInv ==
    /\ clock \in Times
    /\ held = [n \in Names |-> held[n]]
    /\ \A n \in Names : /\ held[n] = [t \in Times |-> held[n][t]]
                        /\ held[n][clock] \subseteq Nat
                        /\ Now(n) \in held[n][clock] /\ \A rev \in held[n][clock] : rev <= Now(n)

StoreInv ==
    /\ HeldInv
    /\ store = [n \in Names |-> store[n]]
    /\ \A n \in Names : store[n] # None => IsRow(store[n]) /\ store[n].rev <= Now(n)
    /\ \A c \in Clients, n \in Names : <<n, None>> \in DOMAIN flight[c] => Current(store[n], Now(n), flight[c][<<n, None>>])

LEMMA GreatestIsMax ==
    ASSUME NEW S \in SUBSET Nat, NEW m \in S, \A x \in S : x <= m
    PROVE  Max(S) = m
<1>1. \A x \in S : (\A y \in S : x >= y) <=> x = m
  OBVIOUS
<1> QED
  BY <1>1 DEF Max

\* What a client does with its limiter leaves what was asked and answered alone.
LEMMA SubmitFlights ==
    ASSUME LimiterInv, NEW c \in Clients, NEW P, Submit(c, P),
           NEW d \in Clients, NEW job \in DOMAIN flight'[d]
    PROVE  \/ job \in DOMAIN flight[d] /\ job \notin DOMAIN P /\ flight'[d][job] = flight[d][job]
           \/ job \in DOMAIN flight[d] /\ d # c /\ flight'[d][job] = flight[d][job]
           \/ /\ d = c /\ job \in DOMAIN P
              /\ flight'[d][job].prev = P[job] /\ flight'[d][job].reply = None /\ ~flight'[d][job].late
<1> DEFINE seq == SetToSeq(DOMAIN P)
           go  == Min({Len(seq), Concurrency - slots[c]})
           Opened(j) == [Sent(P[j]) EXCEPT !.sent = \E i \in 1..go : seq[i] = j]
           g   == [j \in DOMAIN P \cup DOMAIN flight[c] |-> IF j \in DOMAIN P THEN Opened(j) ELSE flight[c][j]]
<1>1. flight' = [flight EXCEPT ![c] = g]
  BY DEF Submit
<1>2. \A j : Opened(j).prev = P[j] /\ Opened(j).reply = None /\ Opened(j).late = FALSE
  BY DEF Sent
<1>3. CASE d # c
  <2> HIDE DEF g
  <2> QED
    BY <1>1, <1>3 DEF LimiterInv
<1>4. CASE d = c
  <2>1. flight'[d] = g
    <3> HIDE DEF g
    <3> QED
      BY <1>1, <1>4 DEF LimiterInv
  <2> HIDE DEF Opened
  <2> QED
    BY <1>2, <1>4, <2>1
<1> QED
  BY <1>3, <1>4

LEMMA FinishFlights ==
    ASSUME LimiterInv, NEW c \in Clients, NEW job \in DOMAIN flight[c], flight[c][job].sent, Finish(c, job),
           NEW d \in Clients, NEW j \in DOMAIN flight'[d]
    PROVE  /\ j \in DOMAIN flight[d] /\ (d = c => j # job)
           /\ flight'[d][j].prev = flight[d][j].prev /\ flight'[d][j].reply = flight[d][j].reply
           /\ flight'[d][j].late = flight[d][j].late
<1> DEFINE rest == [i \in DOMAIN flight[c] \ {job} |-> flight[c][i]]
           next == [rest EXCEPT ![Head(queue[c])].sent = TRUE]
<1>1. \/ flight' = [flight EXCEPT ![c] = rest]
      \/ flight' = [flight EXCEPT ![c] = next]
  BY DEF Finish
<1>2. CASE d # c
  <2> HIDE DEF rest, next
  <2> QED
    BY <1>1, <1>2 DEF LimiterInv
<1>3. CASE d = c
  <2>1. flight'[c] = rest \/ flight'[c] = next
    <3> HIDE DEF rest, next
    <3> QED
      BY <1>1 DEF LimiterInv
  <2>2. DOMAIN next = DOMAIN flight[c] \ {job} /\ DOMAIN rest = DOMAIN flight[c] \ {job}
    OBVIOUS
  <2>3. \A i \in DOMAIN rest : /\ rest[i] = flight[c][i]
                               /\ next[i] = flight[c][i] \/ next[i] = [flight[c][i] EXCEPT !.sent = TRUE]
    OBVIOUS
  <2>4. \A i \in DOMAIN flight[c] : IsRequest(flight[c][i])
    BY DEF LimiterInv, Limiter
  <2>5. \A i \in DOMAIN flight[c] : /\ [flight[c][i] EXCEPT !.sent = TRUE].prev = flight[c][i].prev
                                    /\ [flight[c][i] EXCEPT !.sent = TRUE].reply = flight[c][i].reply
                                    /\ [flight[c][i] EXCEPT !.sent = TRUE].late = flight[c][i].late
    BY <2>4 DEF IsRequest
  <2> HIDE DEF rest, next
  <2> QED
    <3>1. flight'[d] = flight'[c] /\ j \in DOMAIN flight'[c]
      BY <1>3
    <3>2. j \in DOMAIN rest /\ j \in DOMAIN flight[c] /\ j # job
      BY <2>1, <2>2, <3>1
    <3>3. flight'[c][j] = flight[c][j] \/ flight'[c][j] = [flight[c][j] EXCEPT !.sent = TRUE]
      BY <2>1, <2>3, <3>2
    <3>4. /\ flight'[c][j].prev = flight[c][j].prev /\ flight'[c][j].reply = flight[c][j].reply
          /\ flight'[c][j].late = flight[c][j].late
      BY <2>5, <3>2, <3>3
    <3> QED
      BY <1>3, <3>2, <3>4
<1> QED
  BY <1>2, <1>3

LEMMA StoreInit == Init => StoreInv
<1> SUFFICES ASSUME Init
             PROVE  StoreInv
  OBVIOUS
<1>1. PICK r \in {0, 1} : held = [n \in Names |-> [t \in Times |-> IF t = 0 THEN {r} ELSE {}]]
  BY DEF Init
<1>2. clock = 0 /\ 0 \in Times
  BY BoundsAssumption DEF Init, Times
<1>3. \A n \in Names : held[n][clock] = {r} /\ held[n] = [t \in Times |-> held[n][t]]
  BY <1>1, <1>2
<1>4. \A n \in Names : Now(n) = r
  <2>1. Max({r}) = r
    BY GreatestIsMax
  <2> QED
    BY <1>3, <2>1 DEF Now
<1>5. \/ store = [n \in Names |-> None]
      \/ \E read \in BOOLEAN : store = [n \in Names |-> [rev |-> Now(n), at |-> 0, read |-> read, info |-> NoChecks(n)]]
  BY DEF Init
<1>6. store = [n \in Names |-> store[n]] /\ \A n \in Names : store[n] # None => IsRow(store[n]) /\ store[n].rev = r
  BY <1>4, <1>5 DEF IsRow
<1>7. \A c \in Clients : DOMAIN flight[c] = {}
  BY DEF Init
<1> QED
  BY <1>1, <1>2, <1>3, <1>4, <1>6, <1>7 DEF StoreInv, HeldInv

\* The world moves on: what a registry holds only grows.
LEMMA StoreWorld ==
    ASSUME HeldInv, Tick \/ (\E n \in Names : Release(n)) \/ UNCHANGED <<clock, held>>
    PROVE  /\ clock' \in Times
           /\ held' = [n \in Names |-> held'[n]]
           /\ \A n \in Names : /\ held'[n] = [t \in Times |-> held'[n][t]]
                               /\ held'[n][clock'] \subseteq Nat
                               /\ Now(n)' \in held'[n][clock'] /\ \A rev \in held'[n][clock'] : rev <= Now(n)'
                               /\ Now(n) \in Nat /\ Now(n)' \in Nat /\ Now(n) <= Now(n)'
<1>1. CASE UNCHANGED <<clock, held>>
  BY <1>1 DEF HeldInv, Now
<1>2. CASE Tick
  <2>1. clock' = clock + 1 /\ clock + 1 \in Times /\ clock # clock + 1
    BY <1>2, BoundsAssumption DEF Tick, HeldInv, Times
  <2>2. held' = [n \in Names |-> [held[n] EXCEPT ![clock + 1] = {Now(n)}]]
    BY <1>2 DEF Tick
  <2>3. \A n \in Names : /\ held'[n][clock'] = {Now(n)} /\ Now(n) \in Nat
                         /\ held'[n] = [t \in Times |-> held'[n][t]]
    BY <2>1, <2>2 DEF HeldInv
  <2>4. \A n \in Names : Now(n)' = Now(n)
    <3> TAKE n \in Names
    <3>1. ASSUME NEW rev \in Nat
          PROVE  Max({rev}) = rev
      BY GreatestIsMax
    <3>2. Max({Now(n)}) = Now(n)
      BY <2>3, <3>1
    <3> QED
      BY <2>3, <3>2 DEF Now
  <2> QED
    BY <2>1, <2>2, <2>3, <2>4
<1>3. ASSUME NEW m \in Names, Release(m)
      PROVE  /\ clock' = clock
             /\ held' = [n \in Names |-> held'[n]]
             /\ \A n \in Names : /\ held'[n] = [t \in Times |-> held'[n][t]]
                                 /\ held'[n][clock] \subseteq Nat
                                 /\ Now(n)' \in held'[n][clock] /\ \A rev \in held'[n][clock] : rev <= Now(n)'
                                 /\ Now(n) \in Nat /\ Now(n)' \in Nat /\ Now(n) <= Now(n)'
  <2>1. /\ clock' = clock /\ clock \in Times
        /\ held' = [held EXCEPT ![m][clock] = held[m][clock] \cup {Now(m) + 1}]
    BY <1>3 DEF Release, HeldInv
  <2>2. \A n \in Names : Now(n) \in Nat /\ held[n][clock] \subseteq Nat /\ \A rev \in held[n][clock] : rev <= Now(n)
    BY DEF HeldInv
  <2>3. /\ held' = [n \in Names |-> held'[n]]
        /\ held'[m] = [held[m] EXCEPT ![clock] = held[m][clock] \cup {Now(m) + 1}]
        /\ \A n \in Names \ {m} : held'[n] = held[n]
    BY <2>1 DEF HeldInv
  <2>4. /\ held'[m][clock] = held[m][clock] \cup {Now(m) + 1}
        /\ held'[m] = [t \in Times |-> held'[m][t]]
    BY <2>1, <2>3 DEF HeldInv
  <2>5. Now(m)' = Now(m) + 1
    <3> DEFINE S == held[m][clock] \cup {Now(m) + 1}
    <3>1. S \in SUBSET Nat /\ Now(m) + 1 \in S /\ \A x \in S : x <= Now(m) + 1
      BY <2>2
    <3>2. Max(S) = Now(m) + 1
      BY <3>1, GreatestIsMax
    <3> QED
      BY <2>1, <2>4, <3>2 DEF Now
  <2>6. \A n \in Names \ {m} : Now(n)' = Now(n)
    BY <2>1, <2>3 DEF Now
  <2>7. \A n \in Names \ {m} : held[n] = [t \in Times |-> held[n][t]] /\ Now(n) \in held[n][clock]
    BY DEF HeldInv
  <2>8. ASSUME NEW n \in Names
        PROVE  /\ held'[n] = [t \in Times |-> held'[n][t]]
               /\ held'[n][clock] \subseteq Nat
               /\ Now(n)' \in held'[n][clock] /\ \A rev \in held'[n][clock] : rev <= Now(n)'
               /\ Now(n) \in Nat /\ Now(n)' \in Nat /\ Now(n) <= Now(n)'
    <3>1. CASE n = m
      <4> HIDE DEF Now
      <4>1. held'[m][clock] \subseteq Nat /\ Now(m) + 1 \in held'[m][clock] /\ \A rev \in held'[m][clock] : rev <= Now(m) + 1
        BY <2>2, <2>4
      <4>2. Now(m) \in Nat /\ Now(m) + 1 \in Nat /\ Now(m) <= Now(m) + 1
        BY <2>2
      <4>3. /\ held'[m][clock] \subseteq Nat
            /\ Now(m)' \in held'[m][clock] /\ \A rev \in held'[m][clock] : rev <= Now(m)'
        BY <2>5, <4>1
      <4>4. Now(m)' \in Nat /\ Now(m) <= Now(m)'
        BY <2>5, <4>2
      <4> QED
        BY <2>4, <3>1, <4>2, <4>3, <4>4
    <3>2. CASE n # m
      BY <2>2, <2>3, <2>6, <2>7, <3>2
    <3> QED
      BY <3>1, <3>2
  <2> QED
    BY <2>1, <2>3, <2>8
<1> QED
  BY <1>1, <1>2, <1>3 DEF HeldInv

LEMMA CurrentLater ==
    ASSUME NEW row, NEW now \in Nat, NEW later \in Nat, now <= later,
           NEW r, Current(row, now, r), NEW t, t.prev = r.prev, t.reply = r.reply
    PROVE  Current(row, later, t)
BY DEF Current

\* What leaves the row of n alone leaves n's part of the invariant to its requests.
LEMMA RowStays ==
    ASSUME NEW row, row # None => IsRow(row), NEW now \in Nat, NEW later \in Nat, now <= later, row # None => row.rev <= now
    PROVE  row # None => IsRow(row) /\ row.rev <= later
BY DEF IsRow

\* The row an answer leaves is no older than the one it replaces.
LEMMA ArriveRow ==
    ASSUME LimiterInv, StoreInv, NEW c \in Clients, NEW n \in Names, Arrive(c, n)
    PROVE  /\ <<n, None>> \in DOMAIN flight[c] /\ flight[c][<<n, None>>].sent /\ Finish(c, <<n, None>>)
           /\ UNCHANGED world
           /\ \E row : /\ store' = [store EXCEPT ![n] = row]
                       /\ IsRow(row) /\ row.rev <= Now(n)
                       /\ store[n] # None => row.rev >= store[n].rev
<1> DEFINE r == flight[c][<<n, None>>]
           rev == IF r.reply.same THEN r.prev.rev ELSE r.reply.rev
           row == [rev |-> rev, at |-> clock, read |-> TRUE,
                   info |-> IF Held(r.prev) /\ r.reply.rev # 0 THEN r.prev.info ELSE NoChecks(n)]
<1>1. /\ <<n, None>> \in DOMAIN flight[c] /\ r.reply # None
      /\ store' = [store EXCEPT ![n] = row]
      /\ Finish(c, <<n, None>>)
      /\ UNCHANGED world
  BY DEF Arrive
<1>2. r.sent
  BY <1>1 DEF LimiterInv, Limiter, IsRequest
<1>3. Current(store[n], Now(n), r) /\ Now(n) \in Nat /\ (store[n] # None => IsRow(store[n]) /\ store[n].rev <= Now(n))
  BY <1>1 DEF StoreInv, HeldInv
<1>4. row.rev = rev /\ row = [field \in {"rev", "at", "read", "info"} |-> row[field]]
  OBVIOUS
<1>5. rev \in Nat /\ rev <= Now(n) /\ (store[n] # None => rev >= store[n].rev)
  <2> HIDE DEF Now, r
  <2> QED
    BY <1>1, <1>3 DEF Current, IsRow
<1> HIDE DEF row, rev, Now
<1>6. IsRow(row) /\ row.rev <= Now(n) /\ (store[n] # None => row.rev >= store[n].rev)
  BY <1>4, <1>5 DEF IsRow
<1> QED
  BY <1>1, <1>2, <1>6

\* Recording the checks of a package leaves its row of the same revision.
LEMMA RecordRow ==
    ASSUME StoreInv, NoneIsNoRow, NEW s \in Scans, NEW n \in Names, Record(s, n), store' # store
    PROVE  \E row : /\ store' = [store EXCEPT ![n] = row] /\ store[n] # None
                    /\ IsRow(row) /\ row.rev = store[n].rev
<1>1. PICK info : store' = [store EXCEPT ![n].info = info] /\ Held(store[n])
  BY DEF Record
<1> DEFINE row == [store[n] EXCEPT !.info = info]
<1>2. row.rev = store[n].rev /\ IsRow(row) /\ store[n] # None
  BY <1>1 DEF IsRow, Held, StoreInv, HeldInv
<1>3. store' = [store EXCEPT ![n] = row]
  BY <1>1
<1> QED
  BY <1>2, <1>3

LEMMA StoreStep == LimiterInv /\ StoreInv /\ OneClient /\ NoneIsNoRow /\ [Next]_vars => StoreInv'
<1> SUFFICES ASSUME LimiterInv, StoreInv, OneClient, NoneIsNoRow, [Next]_vars
             PROVE  StoreInv'
  OBVIOUS
<1> DEFINE Asks(n) == <<n, None>>
<1>1. \A n \in Names : Now(n) \in Nat /\ (store[n] # None => IsRow(store[n]) /\ store[n].rev <= Now(n))
  BY DEF StoreInv, HeldInv
\* A step that leaves the store alone: what is asked stays current.
<1>2. ASSUME Tick \/ (\E n \in Names : Release(n)) \/ UNCHANGED <<clock, held>>, UNCHANGED store,
             \A d \in Clients, n \in Names : Asks(n) \in DOMAIN flight'[d] => Current(store[n], Now(n)', flight'[d][Asks(n)])
      PROVE  StoreInv'
  <2>1. /\ clock' \in Times
        /\ held' = [n \in Names |-> held'[n]]
        /\ \A n \in Names : /\ held'[n] = [t \in Times |-> held'[n][t]]
                            /\ held'[n][clock'] \subseteq Nat
                            /\ Now(n)' \in held'[n][clock'] /\ \A rev \in held'[n][clock'] : rev <= Now(n)'
                            /\ Now(n) \in Nat /\ Now(n)' \in Nat /\ Now(n) <= Now(n)'
    BY <1>2, StoreWorld DEF StoreInv
  <2>2. store' = store /\ store = [n \in Names |-> store[n]]
    BY <1>2 DEF StoreInv, HeldInv
  <2> HIDE DEF Now
  <2>3. ASSUME NEW n \in Names
        PROVE  store[n] # None => IsRow(store[n]) /\ store[n].rev <= Now(n)'
    BY <1>1, <2>1, RowStays
  <2> QED
    BY <1>2, <2>1, <2>2, <2>3 DEF StoreInv, HeldInv
\* A request that ends without an answer to store.
<1>3. ASSUME NEW c \in Clients, NEW job \in DOMAIN flight[c], flight[c][job].sent, Finish(c, job), UNCHANGED <<world, store>>
      PROVE  StoreInv'
  <2>1. \A d \in Clients : \A j \in DOMAIN flight'[d] :
            j \in DOMAIN flight[d] /\ flight'[d][j].prev = flight[d][j].prev /\ flight'[d][j].reply = flight[d][j].reply
    BY <1>3, FinishFlights
  <2>2. \A n \in Names : Now(n)' = Now(n)
    BY <1>3 DEF world, Now
  <2> HIDE DEF Now
  <2>3. ASSUME NEW d \in Clients, NEW n \in Names, Asks(n) \in DOMAIN flight'[d]
        PROVE  Current(store[n], Now(n)', flight'[d][Asks(n)])
    <3>1. Asks(n) \in DOMAIN flight[d] /\ Current(store[n], Now(n), flight[d][Asks(n)])
      BY <2>1, <2>3 DEF StoreInv, HeldInv
    <3> QED
      BY <1>1, <2>1, <2>2, <2>3, <3>1 DEF Current
  <2> QED
    BY <1>2, <1>3, <2>3 DEF world
\* New requests start from the rows there are.
<1>4. ASSUME NEW c \in Clients, NEW P, Submit(c, P), UNCHANGED <<world, store>>,
             \A n \in Names : Asks(n) \in DOMAIN P => P[Asks(n)] = store[n]
      PROVE  StoreInv'
  <2>2. \A n \in Names : Now(n)' = Now(n)
    BY <1>4 DEF world, Now
  <2> HIDE DEF Now
  <2>3. ASSUME NEW d \in Clients, NEW n \in Names, Asks(n) \in DOMAIN flight'[d]
        PROVE  Current(store[n], Now(n)', flight'[d][Asks(n)])
    <3>1. \/ Asks(n) \in DOMAIN flight[d] /\ flight'[d][Asks(n)] = flight[d][Asks(n)]
          \/ Asks(n) \in DOMAIN P /\ flight'[d][Asks(n)].prev = P[Asks(n)] /\ flight'[d][Asks(n)].reply = None
      <4>1. \/ Asks(n) \in DOMAIN flight[d] /\ Asks(n) \notin DOMAIN P /\ flight'[d][Asks(n)] = flight[d][Asks(n)]
            \/ Asks(n) \in DOMAIN flight[d] /\ d # c /\ flight'[d][Asks(n)] = flight[d][Asks(n)]
            \/ /\ d = c /\ Asks(n) \in DOMAIN P
               /\ flight'[d][Asks(n)].prev = P[Asks(n)] /\ flight'[d][Asks(n)].reply = None
               /\ ~flight'[d][Asks(n)].late
        BY <1>4, <2>3, SubmitFlights
      <4> QED
        BY <4>1
    <3>2. CASE Asks(n) \in DOMAIN flight[d] /\ flight'[d][Asks(n)] = flight[d][Asks(n)]
      BY <2>2, <3>2 DEF StoreInv, HeldInv
    <3>3. CASE Asks(n) \in DOMAIN P /\ flight'[d][Asks(n)].prev = P[Asks(n)] /\ flight'[d][Asks(n)].reply = None
      BY <1>4, <3>3 DEF Current
    <3> QED
      BY <3>1, <3>2, <3>3
  <2> QED
    BY <1>2, <1>4, <2>3 DEF world
<1>5. \A job \in Infos, n \in Names : job # Asks(n)
  BY NamesAssumption DEF Infos
<1>6. \A d \in Clients : \A job \in DOMAIN flight[d] : IsRequest(flight[d][job])
  BY DEF LimiterInv, Limiter
<1>7. ASSUME NEW c \in Clients, NEW n \in Names, Arrive(c, n)
      PROVE  StoreInv'
  <2>1. /\ Asks(n) \in DOMAIN flight[c] /\ flight[c][Asks(n)].sent
        /\ Finish(c, Asks(n)) /\ UNCHANGED world
    BY <1>7, ArriveRow
  <2>2. PICK row : store' = [store EXCEPT ![n] = row] /\ IsRow(row) /\ row.rev <= Now(n)
    BY <1>7, ArriveRow
  <2>4. /\ store' = [m \in Names |-> store'[m]] /\ store'[n] = row
        /\ \A m \in Names \ {n} : store'[m] = store[m]
    BY <2>2 DEF StoreInv, HeldInv
  <2>5. \A m \in Names : Now(m)' = Now(m)
    BY <2>1 DEF world, Now
  <2>6. UNCHANGED <<clock, held>>
    BY <2>1 DEF world
  <2> HIDE DEF Now
  <2>7. \A m \in Names : store'[m] # None => IsRow(store'[m]) /\ store'[m].rev <= Now(m)'
    BY <1>1, <2>2, <2>4, <2>5 DEF IsRow
  <2>8. ASSUME NEW d \in Clients, NEW m \in Names, Asks(m) \in DOMAIN flight'[d]
        PROVE  Current(store'[m], Now(m)', flight'[d][Asks(m)])
    <3>1. /\ Asks(m) \in DOMAIN flight[d] /\ (d = c => Asks(m) # Asks(n))
          /\ flight'[d][Asks(m)].prev = flight[d][Asks(m)].prev /\ flight'[d][Asks(m)].reply = flight[d][Asks(m)].reply
      BY <2>1, <2>8, FinishFlights
    <3>2. m # n
      BY <3>1 DEF OneClient
    <3>3. Current(store[m], Now(m), flight[d][Asks(m)])
      BY <3>1 DEF StoreInv, HeldInv
    <3> QED
      BY <2>4, <2>5, <3>1, <3>2, <3>3 DEF Current
  <2>9. /\ clock \in Times /\ held = [m \in Names |-> held[m]]
        /\ \A m \in Names : /\ held[m] = [t \in Times |-> held[m][t]]
                            /\ held[m][clock] \subseteq Nat
                            /\ Now(m) \in held[m][clock] /\ \A rev \in held[m][clock] : rev <= Now(m)
    BY DEF StoreInv, HeldInv
  <2> QED
    BY <2>4, <2>5, <2>6, <2>7, <2>8, <2>9 DEF StoreInv, HeldInv
<1>8. ASSUME NEW c \in Clients, NEW n \in Names, Unreachable(c, n)
      PROVE  StoreInv'
  BY <1>3, <1>8 DEF Unreachable
<1>9. ASSUME NEW c \in Clients, NEW job \in Infos, Checked(c, job)
      PROVE  StoreInv'
  BY <1>3, <1>9 DEF Checked
<1>10. ASSUME NEW c \in Clients, NEW job \in Jobs, Serve(c, job)
       PROVE  StoreInv'
  <2> DEFINE prev == flight[c][job].prev
             reply == IF job \in Infos THEN [published |-> pushed[job[1]][job[2]] # None]
                      ELSE [rev |-> Now(job[1]), same |-> Held(prev) /\ prev.rev = Now(job[1])]
  <2>1. /\ job \in DOMAIN flight[c] /\ UNCHANGED <<world, store>>
        /\ flight' = [flight EXCEPT ![c][job].reply = reply]
    BY <1>10 DEF Serve
  <2>2. \A n \in Names : Now(n)' = Now(n)
    BY <2>1 DEF world, Now
  <2>3. ASSUME NEW n \in Names, job = Asks(n)
        PROVE  reply.rev = Now(n) /\ (reply.same => prev # None)
    <3>1. reply = [rev |-> Now(n), same |-> Held(prev) /\ prev.rev = Now(n)]
      BY <1>5, <2>3
    <3> QED
      BY <3>1 DEF Held
  <2> HIDE DEF reply, Now
  <2> DEFINE g == [flight[c] EXCEPT ![job].reply = reply]
  <2>4. flight' = [flight EXCEPT ![c] = g]
    BY <2>1
  <2>5. /\ \A j \in DOMAIN flight[c] : j # job => g[j] = flight[c][j]
        /\ DOMAIN g = DOMAIN flight[c] /\ g[job] = [flight[c][job] EXCEPT !.reply = reply]
    BY <2>1
  <2>6. g[job].prev = prev /\ g[job].reply = reply
    BY <1>6, <2>1, <2>5 DEF IsRequest
  <2> HIDE DEF g
  <2>7. ASSUME NEW d \in Clients, NEW n \in Names, Asks(n) \in DOMAIN flight'[d]
        PROVE  Current(store[n], Now(n)', flight'[d][Asks(n)])
    <3>1. flight'[d] = IF d = c THEN g ELSE flight[d]
      BY <2>4 DEF LimiterInv
    <3>2. Asks(n) \in DOMAIN flight[d] /\ Current(store[n], Now(n), flight[d][Asks(n)])
      BY <2>5, <2>7, <3>1 DEF StoreInv, HeldInv
    <3>3. CASE d = c /\ job = Asks(n)
      <4>1. flight'[d][Asks(n)] = g[job]
        BY <3>1, <3>3
      <4> QED
        BY <1>1, <2>2, <2>3, <2>6, <3>2, <3>3, <4>1 DEF Current
    <3>4. CASE ~(d = c /\ job = Asks(n))
      BY <2>2, <2>5, <3>1, <3>2, <3>4
    <3> QED
      BY <3>3, <3>4
  <2> QED
    BY <1>2, <2>1, <2>7 DEF world
<1>11. ASSUME NEW s \in Scans, Lookup(s)
       PROVE  StoreInv'
  <2>1. ClientOf[s] \in Clients /\ UNCHANGED <<world, store>>
    BY <1>11, MapsAssumption DEF Lookup
  <2>2. PICK names \in SUBSET Names :
            Submit(ClientOf[s],
                   [job \in {<<n, None>> : n \in {m \in names : ~Serves(store[m], clock)}} \ DOMAIN flight[ClientOf[s]] |->
                       store[job[1]]])
    BY <1>11 DEF Lookup
  <2> QED
    BY <1>4, <2>1, <2>2
<1>12. ASSUME NEW s \in Scans, Look(s)
       PROVE  StoreInv'
  <2>1. ClientOf[s] \in Clients /\ UNCHANGED <<world, store>>
    BY <1>12, MapsAssumption DEF Look
  <2>2. PICK J \in SUBSET Infos : Submit(ClientOf[s], [job \in J \ DOMAIN flight[ClientOf[s]] |-> None])
    BY <1>12 DEF Look
  <2>3. \A n \in Names : Asks(n) \notin J
    BY <1>5
  <2> QED
    BY <1>4, <2>1, <2>2, <2>3
<1>13. ASSUME NEW s \in Scans, NEW n \in Names, Record(s, n)
       PROVE  StoreInv'
  <2>1. UNCHANGED <<clock, held, flight>> /\ \A m \in Names : Now(m)' = Now(m)
    BY <1>13 DEF Record, world, client, Now
  <2> HIDE DEF Now
  <2>2. CASE store' = store
    BY <1>2, <2>1, <2>2 DEF StoreInv, HeldInv
  <2>3. CASE store' # store
    <3>1. PICK row : /\ store' = [store EXCEPT ![n] = row] /\ store[n] # None
                     /\ IsRow(row) /\ row.rev = store[n].rev
      BY <1>13, <2>3, RecordRow
    <3>2. /\ store' = [m \in Names |-> store'[m]] /\ store'[n] = row /\ row # None
          /\ \A m \in Names \ {n} : store'[m] = store[m]
      BY <3>1 DEF StoreInv, HeldInv, NoneIsNoRow
    <3>3. \A m \in Names : store'[m] # None => IsRow(store'[m]) /\ store'[m].rev <= Now(m)'
      BY <1>1, <2>1, <3>1, <3>2
    <3>4. ASSUME NEW d \in Clients, NEW m \in Names, Asks(m) \in DOMAIN flight'[d]
          PROVE  Current(store'[m], Now(m)', flight'[d][Asks(m)])
      <4>1. Current(store[m], Now(m), flight'[d][Asks(m)])
        BY <2>1, <3>4 DEF StoreInv, HeldInv
      <4> QED
        BY <2>1, <3>1, <3>2, <4>1 DEF Current
    <3>5. /\ clock \in Times /\ held = [m \in Names |-> held[m]]
          /\ \A m \in Names : /\ held[m] = [t \in Times |-> held[m][t]]
                              /\ held[m][clock] \subseteq Nat
                              /\ Now(m) \in held[m][clock] /\ \A rev \in held[m][clock] : rev <= Now(m)
      BY DEF StoreInv, HeldInv
    <3> QED
      BY <2>1, <3>2, <3>3, <3>4, <3>5 DEF StoreInv, HeldInv
  <2> QED
    BY <2>2, <2>3
<1>14. ASSUME Tick
       PROVE  StoreInv'
  <2>1. /\ \A n \in Names : Now(n) \in Nat /\ Now(n)' \in Nat /\ Now(n) <= Now(n)'
        /\ UNCHANGED store
    BY <1>14, StoreWorld DEF Tick, StoreInv
  <2>2. flight' = [c \in Clients |-> [job \in DOMAIN flight[c] |-> [flight[c][job] EXCEPT !.late = flight[c][job].sent]]]
    BY <1>14 DEF Tick
  <2>3. \A c \in Clients : /\ DOMAIN flight'[c] = DOMAIN flight[c]
                           /\ \A job \in DOMAIN flight[c] : /\ flight'[c][job].prev = flight[c][job].prev
                                                            /\ flight'[c][job].reply = flight[c][job].reply
    BY <1>6, <2>2 DEF IsRequest
  <2> HIDE DEF Now
  <2>4. ASSUME NEW d \in Clients, NEW n \in Names, Asks(n) \in DOMAIN flight'[d]
        PROVE  Current(store[n], Now(n)', flight'[d][Asks(n)])
    <3>1. Asks(n) \in DOMAIN flight[d] /\ Current(store[n], Now(n), flight[d][Asks(n)])
      BY <2>3, <2>4 DEF StoreInv, HeldInv
    <3> QED
      BY <2>1, <2>3, <3>1, CurrentLater
  <2> QED
    BY <1>2, <1>14, <2>1, <2>4
<1>15. ASSUME NEW m \in Names, Release(m)
       PROVE  StoreInv'
  <2>1. /\ \A n \in Names : Now(n) \in Nat /\ Now(n)' \in Nat /\ Now(n) <= Now(n)'
        /\ UNCHANGED <<store, flight>>
    BY <1>15, StoreWorld DEF Release, StoreInv, client
  <2> HIDE DEF Now
  <2>2. ASSUME NEW d \in Clients, NEW n \in Names, Asks(n) \in DOMAIN flight'[d]
        PROVE  Current(store[n], Now(n)', flight'[d][Asks(n)])
    <3>1. Current(store[n], Now(n), flight'[d][Asks(n)])
      BY <2>1, <2>2 DEF StoreInv, HeldInv
    <3> QED
      BY <2>1, <3>1, CurrentLater
  <2> QED
    BY <1>2, <1>15, <2>1, <2>2
<1>16. ASSUME UNCHANGED <<clock, held, store, flight>>
       PROVE  StoreInv'
  BY <1>16 DEF StoreInv, HeldInv, Now
<1>17. ASSUME \/ \E s \in Scans : Settle(s)
              \/ \E n \in Names : \E v \in Stated[n] : Push(n, v)
              \/ UNCHANGED vars
       PROVE  StoreInv'
  BY <1>16, <1>17 DEF Settle, Push, vars, world, client
<1> QED
  BY <1>7, <1>8, <1>9, <1>10, <1>11, <1>12, <1>13, <1>14, <1>15, <1>17 DEF Next, Ends, Step

\* With one client per database, a package's row never goes back to an older revision:
\* the request that answers it is the only one, and began from the row it replaces
\* (inFlight, settleFetch).
THEOREM StoreNeverGoesBack == OneClient /\ NoneIsNoRow /\ Spec => StoreGoesForward
<1> SUFFICES ASSUME OneClient, NoneIsNoRow
             PROVE  Spec => StoreGoesForward
  OBVIOUS
<1> DEFINE Forward == \A n \in Names : store[n] # None => store'[n] # None /\ store'[n].rev >= store[n].rev
<1>1. ASSUME LimiterInv, StoreInv, NoneIsNoRow, Next, store' # store
      PROVE  Forward
  <2>1. store = [n \in Names |-> store[n]] /\ \A n \in Names : store[n] # None => store[n].rev \in Nat
    BY <1>1 DEF StoreInv, HeldInv, IsRow
  <2>2. ASSUME NEW n \in Names, NEW row, store' = [store EXCEPT ![n] = row], IsRow(row), store[n] # None => row.rev >= store[n].rev
        PROVE  Forward
    <3>1. row # None /\ store'[n] = row /\ \A m \in Names \ {n} : store'[m] = store[m]
      BY <1>1, <2>1, <2>2 DEF NoneIsNoRow
    <3> QED
      BY <2>1, <2>2, <3>1
  <2>3. ASSUME NEW c \in Clients, NEW n \in Names, Arrive(c, n)
        PROVE  Forward
    <3>1. PICK row : /\ store' = [store EXCEPT ![n] = row] /\ IsRow(row)
                     /\ store[n] # None => row.rev >= store[n].rev
      BY <1>1, <2>3, ArriveRow
    <3> HIDE DEF Forward
    <3> QED
      BY <2>2, <3>1
  <2>4. ASSUME NEW s \in Scans, NEW n \in Names, Record(s, n)
        PROVE  Forward
    <3>1. PICK row : /\ store' = [store EXCEPT ![n] = row] /\ store[n] # None
                     /\ IsRow(row) /\ row.rev = store[n].rev
      BY <1>1, <2>4, RecordRow
    <3>2. row.rev >= store[n].rev
      BY <2>1, <3>1
    <3> HIDE DEF Forward
    <3> QED
      BY <2>2, <3>1, <3>2
  <2> HIDE DEF Forward
  <2> QED
    BY <1>1, <2>3, <2>4 DEF Next, Ends, Step, Serve, Unreachable, Checked, Lookup, Look, Settle, Tick, Release, Push
<1>2. LimiterInv /\ StoreInv /\ [Next]_vars => [Forward]_store
  BY <1>1 DEF vars
<1>3. LimiterInv /\ StoreInv /\ [Next]_vars => StoreInv'
  BY StoreStep
<1>4. Spec => [][Forward]_store
  BY <1>2, <1>3, LimiterInit, LimiterStep, StoreInit, PTL DEF Spec
<1> QED
  BY <1>4 DEF StoreGoesForward

-----------------------------------------------------------------------------
(* What rows and answers say of the registry, with any number of clients.  *)
(* h and p are what the registry of one package held and was pushed, now   *)
(* the time.                                                               *)

DatedAt(h, rev, at) == rev \in UNION {h[t] : t \in {at, at - 1} \cap Times}

CheckTrue(p, now, v, check) ==
    /\ check.published \in BOOLEAN /\ check.at \in Nat /\ check.at <= now
    /\ check.published => p[v] # None
    /\ ~check.published /\ p[v] # None => p[v] >= check.at - 1

ChecksTrue(n, p, now, info) ==
    /\ info = [v \in Stated[n] |-> info[v]]
    /\ \A v \in Stated[n] : info[v] # None => CheckTrue(p, now, v, info[v])

RowTrue(n, h, p, now, row) ==
    /\ row = [field \in {"rev", "at", "read", "info"} |-> row[field]]
    /\ row.at \in Nat /\ row.at <= now /\ DatedAt(h, row.rev, row.at)
    /\ ChecksTrue(n, p, now, row.info)

\* A reply is what the registry holds, or held before the request's one tick.
ReplyTrue(h, p, now, job, r) ==
    IF job[2] = None
    THEN /\ r.reply.rev \in h[now] \/ (r.late /\ r.reply.rev \in h[now - 1])
         /\ r.reply.same => r.prev.rev = r.reply.rev
    ELSE /\ r.reply.published \in BOOLEAN
         /\ r.reply.published => p[job[2]] # None
         /\ ~r.reply.published /\ p[job[2]] # None => p[job[2]] >= now - (IF r.late THEN 1 ELSE 0)

RequestTrue(h, p, now, job, r) ==
    /\ job[2] = None /\ r.prev # None => RowTrue(job[1], h, p, now, r.prev)
    /\ r.late => now - 1 \in Times
    /\ r.reply # None => ReplyTrue(h, p, now, job, r)

EntryTrue(n, h, p, now, at, entry) ==
    /\ entry.at \in Nat /\ entry.at <= now /\ ChecksTrue(n, p, now, entry.info)
    /\ entry.status # "error" =>
        DatedAt(h, entry.rev, entry.at) /\ (entry.status # "stale" => Fresh(at, entry.at))

CheckedTrue(n, p, now, at, info, check) ==
    /\ check = [field \in {"outcome", "fresh", "recorded"} |-> check[field]]
    /\ DOMAIN check.fresh \subseteq Stated[n] /\ \A v \in DOMAIN check.fresh : CheckTrue(p, now, v, check.fresh[v])
    /\ check.outcome = [v \in Stated[n] |-> check.outcome[v]]
    /\ \A v \in Stated[n] :
        /\ check.outcome[v] = "published" => p[v] # None
        /\ check.outcome[v] = "absent" /\ p[v] # None => p[v] >= at - 1 - (IF info[v] = None THEN 0 ELSE Window)

ScanTrue(H, P, now, sc) ==
    /\ sc = [field \in {"pc", "at", "entry", "check"} |-> sc[field]]
    /\ sc.at \in Nat /\ sc.at <= now
    /\ DOMAIN sc.entry \subseteq Names
    /\ \A n \in DOMAIN sc.entry : sc.entry[n] # None => EntryTrue(n, H[n], P[n], now, sc.at, sc.entry[n])
    /\ sc.pc # "check" => DOMAIN sc.check = {}
    /\ \A n \in DOMAIN sc.check : n \in DOMAIN sc.entry /\ CheckedTrue(n, P[n], now, sc.at, sc.entry[n].info, sc.check[n])

PushedInv ==
    /\ pushed = [n \in Names |-> [v \in Stated[n] |-> pushed[n][v]]]
    /\ \A n \in Names : \A v \in Stated[n] : pushed[n][v] # None => pushed[n][v] \in Nat /\ pushed[n][v] <= clock

AnswerInv ==
    /\ HeldInv /\ PushedInv
    /\ store = [n \in Names |-> store[n]]
    /\ \A n \in Names : store[n] # None => RowTrue(n, held[n], pushed[n], clock, store[n])
    /\ \A c \in Clients : \A job \in DOMAIN flight[c] :
        RequestTrue(held[job[1]], pushed[job[1]], clock, job, flight[c][job])
    /\ scan = [s \in Scans |-> scan[s]]
    /\ \A s \in Scans : ScanTrue(held, pushed, clock, scan[s])

\* A registry goes on: what it held it held, and a version not pushed yet is
\* pushed from now on.
Later(n, h, p, now, h2, p2, now2) ==
    /\ now \in Times /\ now2 \in Times /\ now <= now2
    /\ \A t \in Times : t <= now => h[t] \subseteq h2[t]
    /\ \A v \in Stated[n] : /\ p[v] # None => p[v] \in Nat /\ p2[v] = p[v]
                            /\ p[v] = None /\ p2[v] # None => p2[v] \in Nat /\ p2[v] >= now

LEMMA TimesAreNumbers == Times \subseteq Nat /\ Window \in Nat /\ Window >= 1
BY BoundsAssumption, LimitsAssumption DEF Times

\* What was true of a registry stays true of it.
LEMMA CheckLater ==
    ASSUME NEW n, NEW h, NEW p, NEW now, NEW h2, NEW p2, NEW now2, Later(n, h, p, now, h2, p2, now2),
           NEW v \in Stated[n], NEW check, CheckTrue(p, now, v, check)
    PROVE  CheckTrue(p2, now2, v, check)
<1>1. now \in Nat /\ now2 \in Nat /\ now <= now2 /\ check.at \in Nat /\ check.at <= now
  BY TimesAreNumbers DEF Later, CheckTrue
<1>2. p[v] # None => p[v] \in Nat /\ p2[v] = p[v]
  BY DEF Later
<1>3. p[v] = None /\ p2[v] # None => p2[v] \in Nat /\ p2[v] >= now
  BY DEF Later
<1>4. check.published => p2[v] # None
  BY <1>2 DEF CheckTrue
<1>5. ~check.published /\ p2[v] # None => p2[v] >= check.at - 1
  BY <1>1, <1>2, <1>3 DEF CheckTrue
<1> QED
  BY <1>1, <1>4, <1>5 DEF CheckTrue

LEMMA ChecksLater ==
    ASSUME NEW n, NEW h, NEW p, NEW now, NEW h2, NEW p2, NEW now2, Later(n, h, p, now, h2, p2, now2),
           NEW info, ChecksTrue(n, p, now, info)
    PROVE  ChecksTrue(n, p2, now2, info)
BY CheckLater DEF ChecksTrue

LEMMA DatedLater ==
    ASSUME NEW n, NEW h, NEW p, NEW now, NEW h2, NEW p2, NEW now2, Later(n, h, p, now, h2, p2, now2),
           NEW rev, NEW at \in Nat, at <= now, DatedAt(h, rev, at)
    PROVE  DatedAt(h2, rev, at)
<1>1. PICK t \in {at, at - 1} \cap Times : rev \in h[t]
  BY DEF DatedAt
<1>2. t \in Times /\ t <= now
  BY <1>1, TimesAreNumbers DEF Later
<1>3. rev \in h2[t]
  BY <1>1, <1>2 DEF Later
<1> QED
  BY <1>1, <1>3 DEF DatedAt

LEMMA RowLater ==
    ASSUME NEW n, NEW h, NEW p, NEW now, NEW h2, NEW p2, NEW now2, Later(n, h, p, now, h2, p2, now2),
           NEW row, RowTrue(n, h, p, now, row)
    PROVE  RowTrue(n, h2, p2, now2, row)
<1>1. now \in Nat /\ now2 \in Nat /\ now <= now2 /\ row.at \in Nat /\ row.at <= now
  BY TimesAreNumbers DEF Later, RowTrue
<1>2. DatedAt(h2, row.rev, row.at)
  BY <1>1, DatedLater DEF RowTrue
<1>3. ChecksTrue(n, p2, now2, row.info)
  BY ChecksLater DEF RowTrue
<1>4. row.at <= now2
  BY <1>1
<1> QED
  BY <1>1, <1>2, <1>3, <1>4 DEF RowTrue

LEMMA EntryLater ==
    ASSUME NEW n, NEW h, NEW p, NEW now, NEW h2, NEW p2, NEW now2, Later(n, h, p, now, h2, p2, now2),
           NEW at, NEW entry, EntryTrue(n, h, p, now, at, entry)
    PROVE  EntryTrue(n, h2, p2, now2, at, entry)
<1>1. now \in Nat /\ now2 \in Nat /\ now <= now2 /\ entry.at \in Nat /\ entry.at <= now
  BY TimesAreNumbers DEF Later, EntryTrue
<1>2. entry.status # "error" => DatedAt(h2, entry.rev, entry.at)
  BY <1>1, DatedLater DEF EntryTrue
<1>3. ChecksTrue(n, p2, now2, entry.info)
  BY ChecksLater DEF EntryTrue
<1>4. entry.at <= now2
  BY <1>1
<1> QED
  BY <1>1, <1>2, <1>3, <1>4 DEF EntryTrue

LEMMA CheckedLater ==
    ASSUME NEW n, NEW h, NEW p, NEW now, NEW h2, NEW p2, NEW now2, Later(n, h, p, now, h2, p2, now2),
           NEW at \in Nat, at <= now, NEW info, NEW check, CheckedTrue(n, p, now, at, info, check)
    PROVE  CheckedTrue(n, p2, now2, at, info, check)
<1>1. now \in Nat /\ Window \in Nat
  BY TimesAreNumbers DEF Later
<1>2. ASSUME NEW v \in Stated[n]
      PROVE  /\ check.outcome[v] = "published" => p2[v] # None
             /\ check.outcome[v] = "absent" /\ p2[v] # None => p2[v] >= at - 1 - (IF info[v] = None THEN 0 ELSE Window)
  <2>1. p[v] # None => p2[v] = p[v]
    BY DEF Later
  <2>2. p[v] = None /\ p2[v] # None => p2[v] \in Nat /\ p2[v] >= now
    BY DEF Later
  <2>3. p[v] = None /\ p2[v] # None => p2[v] >= at - 1 - (IF info[v] = None THEN 0 ELSE Window)
    BY <1>1, <2>2
  <2> QED
    BY <2>1, <2>3 DEF CheckedTrue
<1>3. \A v \in DOMAIN check.fresh : CheckTrue(p2, now2, v, check.fresh[v])
  BY CheckLater DEF CheckedTrue
<1> QED
  BY <1>2, <1>3 DEF CheckedTrue

LEMMA ScanLater ==
    ASSUME NEW H, NEW P, NEW now, NEW H2, NEW P2, NEW now2,
           \A n \in Names : Later(n, H[n], P[n], now, H2[n], P2[n], now2),
           now \in Times, now2 \in Times, now <= now2,
           NEW sc, ScanTrue(H, P, now, sc)
    PROVE  ScanTrue(H2, P2, now2, sc)
<1>1. /\ sc.at \in Nat /\ sc.at <= now /\ sc.at <= now2
      /\ DOMAIN sc.entry \subseteq Names
  BY TimesAreNumbers DEF ScanTrue
<1>2. \A n \in DOMAIN sc.entry : sc.entry[n] # None => EntryTrue(n, H2[n], P2[n], now2, sc.at, sc.entry[n])
  BY <1>1, EntryLater DEF ScanTrue
<1>3. \A n \in DOMAIN sc.check : n \in DOMAIN sc.entry /\ CheckedTrue(n, P2[n], now2, sc.at, sc.entry[n].info, sc.check[n])
  BY <1>1, CheckedLater DEF ScanTrue
<1> QED
  BY <1>1, <1>2, <1>3 DEF ScanTrue

\* A request the clock did not overtake is still true.
LEMMA RequestLater ==
    ASSUME NEW h, NEW p, NEW now, NEW h2, NEW p2, NEW job, NEW r,
           job[2] # None => job[2] \in Stated[job[1]],
           Later(job[1], h, p, now, h2, p2, now), RequestTrue(h, p, now, job, r)
    PROVE  RequestTrue(h2, p2, now, job, r)
<1>1. now \in Times /\ now \in Nat
  BY TimesAreNumbers DEF Later
<1>2. job[2] = None /\ r.prev # None => RowTrue(job[1], h2, p2, now, r.prev)
  BY RowLater DEF RequestTrue
<1>3. ASSUME r.reply # None
      PROVE  ReplyTrue(h2, p2, now, job, r)
  <2>1. ReplyTrue(h, p, now, job, r)
    BY <1>3 DEF RequestTrue
  <2>2. CASE job[2] = None
    <3>1. h[now] \subseteq h2[now]
      BY <1>1 DEF Later
    <3>2. r.late => h[now - 1] \subseteq h2[now - 1]
      BY <1>1 DEF Later, RequestTrue
    <3> QED
      BY <2>1, <2>2, <3>1, <3>2 DEF ReplyTrue
  <2>3. CASE job[2] # None
    <3> DEFINE v == job[2]
    <3>1. p[v] # None => p[v] \in Nat /\ p2[v] = p[v]
      BY <2>3 DEF Later
    <3>2. p[v] = None /\ p2[v] # None => p2[v] \in Nat /\ p2[v] >= now
      BY <2>3 DEF Later
    <3>3. p[v] = None /\ p2[v] # None => p2[v] >= now - (IF r.late THEN 1 ELSE 0)
      BY <1>1, <3>2
    <3> QED
      BY <2>1, <2>3, <3>1, <3>3 DEF ReplyTrue
  <2> QED
    BY <2>2, <2>3
<1> QED
  BY <1>2, <1>3 DEF RequestTrue

\* The registry only goes on.
LEMMA WorldLater ==
    ASSUME HeldInv, PushedInv,
           Tick \/ (\E n \in Names : Release(n) \/ \E v \in Stated[n] : Push(n, v)) \/ UNCHANGED world
    PROVE  /\ HeldInv' /\ PushedInv'
           /\ clock \in Times /\ clock' \in Times /\ clock <= clock'
           /\ \A n \in Names : Later(n, held[n], pushed[n], clock, held'[n], pushed'[n], clock')
<1>1. Tick \/ (\E n \in Names : Release(n)) \/ UNCHANGED <<clock, held>>
  BY DEF Push, world
<1>2. /\ clock' \in Times
      /\ held' = [n \in Names |-> held'[n]]
      /\ \A n \in Names : /\ held'[n] = [t \in Times |-> held'[n][t]]
                          /\ held'[n][clock'] \subseteq Nat
                          /\ Now(n)' \in held'[n][clock'] /\ \A rev \in held'[n][clock'] : rev <= Now(n)'
  BY <1>1, StoreWorld
<1>3. HeldInv'
  BY <1>2 DEF HeldInv
<1>4. clock \in Times /\ clock \in Nat /\ clock' \in Nat
  BY <1>2, TimesAreNumbers DEF HeldInv
<1>5. clock <= clock'
  BY <1>4 DEF Tick, Release, Push, world
<1>6. ASSUME NEW n \in Names, NEW t \in Times, t <= clock
      PROVE  held[n][t] \subseteq held'[n][t]
  <2>0. /\ held = [m \in Names |-> held[m]] /\ held[n] = [u \in Times |-> held[n][u]]
        /\ t \in Nat /\ t # clock + 1
    BY <1>4, <1>6, TimesAreNumbers DEF HeldInv
  <2>1. CASE Tick
    <3>1. held' = [m \in Names |-> [held[m] EXCEPT ![clock + 1] = {Now(m)}]]
      BY <2>1 DEF Tick
    <3> HIDE DEF Now
    <3> QED
      BY <2>0, <3>1
  <2>2. ASSUME NEW m \in Names, Release(m)
        PROVE  held[n][t] \subseteq held'[n][t]
    <3>1. held' = [held EXCEPT ![m][clock] = @ \cup {Now(m) + 1}]
      BY <2>2 DEF Release
    <3> HIDE DEF Now
    <3> QED
      BY <2>0, <3>1
  <2> QED
    BY <1>1, <2>1, <2>2
<1> DEFINE Goes ==
      /\ pushed' = [n \in Names |-> [v \in Stated[n] |-> pushed'[n][v]]]
      /\ \A n \in Names : \A v \in Stated[n] :
            /\ pushed[n][v] # None => pushed'[n][v] = pushed[n][v]
            /\ pushed[n][v] = None /\ pushed'[n][v] # None => pushed'[n][v] = clock
<1>7. Goes
  <2>1. pushed = [n \in Names |-> [v \in Stated[n] |-> pushed[n][v]]]
    BY DEF PushedInv
  <2>2. CASE pushed' = pushed
    BY <2>1, <2>2
  <2>3. ASSUME NEW n \in Names, NEW v \in Stated[n], Push(n, v)
        PROVE  Goes
    <3>1. pushed[n][v] = None /\ pushed' = [pushed EXCEPT ![n][v] = clock]
      BY <2>3 DEF Push
    <3> QED
      BY <2>1, <3>1
  <2> QED
    BY <2>2, <2>3 DEF Tick, Release, world
<1>8. PushedInv'
  <2>1. ASSUME NEW n \in Names, NEW v \in Stated[n], pushed'[n][v] # None
        PROVE  pushed'[n][v] \in Nat /\ pushed'[n][v] <= clock'
    <3>1. CASE pushed[n][v] = None
      BY <1>4, <1>5, <1>7, <2>1, <3>1
    <3>2. CASE pushed[n][v] # None
      <4>1. pushed'[n][v] = pushed[n][v] /\ pushed[n][v] \in Nat /\ pushed[n][v] <= clock
        BY <1>7, <3>2 DEF PushedInv
      <4> QED
        BY <1>4, <1>5, <4>1
    <3> QED
      BY <3>1, <3>2
  <2> QED
    BY <1>7, <2>1 DEF PushedInv
<1>9. \A n \in Names : \A v \in Stated[n] : pushed[n][v] # None => pushed[n][v] \in Nat
  BY DEF PushedInv
<1>10. ASSUME NEW n \in Names
       PROVE  Later(n, held[n], pushed[n], clock, held'[n], pushed'[n], clock')
  BY <1>2, <1>4, <1>5, <1>6, <1>7, <1>9 DEF Later
<1> QED
  BY <1>2, <1>3, <1>4, <1>5, <1>8, <1>10

\* A request is what it asked from, what it was answered and whether a tick has passed.
LEMMA RequestSame ==
    ASSUME NEW h, NEW p, NEW now, NEW job, NEW r, RequestTrue(h, p, now, job, r),
           NEW t, t.prev = r.prev, t.reply = r.reply, t.late = r.late
    PROVE  RequestTrue(h, p, now, job, t)
BY DEF RequestTrue, ReplyTrue

\* An answer that the clock overtakes is of the tick before.
LEMMA RequestTicks ==
    ASSUME NEW h, NEW p, NEW now, NEW h2, NEW p2, NEW next, next = now + 1, NEW job, NEW r,
           job[2] # None => job[2] \in Stated[job[1]],
           IsRequest(r), r.sent => ~r.late,
           Later(job[1], h, p, now, h2, p2, next), p2 = p, RequestTrue(h, p, now, job, r),
           NEW t, t.prev = r.prev, t.reply = r.reply, t.late = r.sent
    PROVE  RequestTrue(h2, p2, next, job, t)
<1>1. now \in Times /\ now \in Nat /\ next \in Nat /\ next - 1 = now
  BY TimesAreNumbers DEF Later
<1>2. r.sent \in BOOLEAN /\ t.late \in BOOLEAN /\ (r.reply # None => r.sent)
  BY DEF IsRequest
<1>3. job[2] = None /\ t.prev # None => RowTrue(job[1], h2, p2, next, t.prev)
  BY RowLater DEF RequestTrue
<1>4. ASSUME t.reply # None
      PROVE  ReplyTrue(h2, p2, next, job, t)
  <2>1. ReplyTrue(h, p, now, job, r) /\ r.sent /\ ~r.late
    BY <1>2, <1>4 DEF RequestTrue
  <2>2. t.late
    BY <2>1
  <2>3. CASE job[2] = None
    <3>1. h[now] \subseteq h2[next - 1]
      BY <1>1 DEF Later
    <3>2. r.reply.rev \in h[now] /\ (r.reply.same => r.prev.rev = r.reply.rev)
      BY <2>1, <2>3 DEF ReplyTrue
    <3> QED
      BY <2>2, <2>3, <3>1, <3>2 DEF ReplyTrue
  <2>4. CASE job[2] # None
    <3>1. p[job[2]] # None => p[job[2]] \in Nat
      BY <2>4 DEF Later
    <3>2. /\ r.reply.published \in BOOLEAN
          /\ r.reply.published => p[job[2]] # None
          /\ ~r.reply.published /\ p[job[2]] # None => p[job[2]] >= now
      BY <1>1, <2>1, <2>4, <3>1 DEF ReplyTrue
    <3>3. next - (IF t.late THEN 1 ELSE 0) = now
      BY <1>1, <2>2
    <3> QED
      BY <2>4, <3>2, <3>3 DEF ReplyTrue
  <2> QED
    BY <2>3, <2>4
<1> QED
  BY <1>1, <1>2, <1>3, <1>4 DEF RequestTrue

\* An answer makes a row that is true.
LEMMA ArrivedRow ==
    ASSUME NEW n \in Names, NEW h, NEW p, NEW now \in Times, NEW job, job = <<n, None>>,
           NEW r, RequestTrue(h, p, now, job, r), r.reply # None,
           NEW row, row = [rev |-> IF r.reply.same THEN r.prev.rev ELSE r.reply.rev, at |-> now, read |-> TRUE,
                           info |-> IF Held(r.prev) /\ r.reply.rev # 0 THEN r.prev.info ELSE NoChecks(n)]
    PROVE  RowTrue(n, h, p, now, row)
<1>1. job[1] = n /\ job[2] = None /\ now \in Nat
  BY TimesAreNumbers
<1>2. row.rev = r.reply.rev /\ (r.reply.rev \in h[now] \/ (r.reply.rev \in h[now - 1] /\ now - 1 \in Times))
  BY <1>1 DEF RequestTrue, ReplyTrue
<1>3. DatedAt(h, row.rev, now)
  BY <1>2 DEF DatedAt
<1>4. ChecksTrue(n, p, now, row.info)
  BY <1>1 DEF RequestTrue, RowTrue, Held, ChecksTrue, NoChecks
<1>5. row.at = now /\ row = [field \in {"rev", "at", "read", "info"} |-> row[field]]
  OBVIOUS
<1> QED
  BY <1>1, <1>3, <1>4, <1>5 DEF RowTrue

\* What a settlement is told of a row that is true is.
LEMMA AnswerTrue ==
    ASSUME NEW n, NEW h, NEW p, NEW now, NEW row, RowTrue(n, h, p, now, row), NEW at, Fresh(at, row.at)
    PROVE  EntryTrue(n, h, p, now, at, Answer(row))
<1>1. /\ Answer(row).rev = row.rev /\ Answer(row).at = row.at /\ Answer(row).info = row.info
  BY DEF Answer, Entry
<1> QED
  BY <1>1 DEF EntryTrue, RowTrue

LEMMA StaleTrue ==
    ASSUME NEW n, NEW h, NEW p, NEW now, NEW row, RowTrue(n, h, p, now, row), NEW at
    PROVE  EntryTrue(n, h, p, now, at, Entry("stale", row))
<1>1. LET e == Entry("stale", row) IN e.rev = row.rev /\ e.at = row.at /\ e.info = row.info /\ e.status = "stale"
  BY DEF Entry
<1> QED
  BY <1>1 DEF EntryTrue, RowTrue

LEMMA NoAnswerTrue ==
    ASSUME NEW n, NEW h, NEW p, NEW now \in Nat, NEW at
    PROVE  EntryTrue(n, h, p, now, at, NoAnswer(n))
<1>1. NoAnswer(n).at = 0 /\ NoAnswer(n).status = "error" /\ NoAnswer(n).info = NoChecks(n)
  BY DEF NoAnswer
<1>2. ChecksTrue(n, p, now, NoChecks(n))
  BY DEF ChecksTrue, NoChecks
<1> QED
  BY <1>1, <1>2 DEF EntryTrue

LEMMA ToldScan ==
    ASSUME NEW H, NEW P, NEW now, NEW sc, ScanTrue(H, P, now, sc), sc.pc = "lookup",
           NEW n \in DOMAIN sc.entry, NEW entry, EntryTrue(n, H[n], P[n], now, sc.at, entry)
    PROVE  ScanTrue(H, P, now, [sc EXCEPT !.entry[n] = entry])
<1> DEFINE new == [sc EXCEPT !.entry[n] = entry]
<1>1. /\ new = [field \in {"pc", "at", "entry", "check"} |-> new[field]]
      /\ new.pc = sc.pc /\ new.at = sc.at /\ new.check = sc.check
      /\ DOMAIN new.entry = DOMAIN sc.entry
      /\ new.entry[n] = entry /\ \A m \in DOMAIN sc.entry \ {n} : new.entry[m] = sc.entry[m]
  BY DEF ScanTrue
<1> HIDE DEF new
<1>2. \A m \in DOMAIN new.entry : new.entry[m] # None => EntryTrue(m, H[m], P[m], now, new.at, new.entry[m])
  BY <1>1 DEF ScanTrue
<1>3. DOMAIN new.check = {}
  BY <1>1 DEF ScanTrue
<1>4. ScanTrue(H, P, now, new)
  BY <1>1, <1>2, <1>3 DEF ScanTrue
<1> QED
  BY <1>4 DEF new

\* A settlement that hears of a version.
Heard(sc, n, v, reply, now) ==
    [sc EXCEPT !.check[n].outcome[v] = CheckedAs(reply),
               !.check[n].fresh = IF reply = None THEN @
                                  ELSE Joined([w \in {v} |-> [published |-> reply.published, at |-> now]], @)]

\* An answer about a version, or none, is true of it.
LEMMA CheckedScan ==
    ASSUME NEW H, NEW P, NEW now \in Nat, NEW sc, ScanTrue(H, P, now, sc), sc.pc = "check",
           NEW n \in DOMAIN sc.check, NEW v \in Stated[n], P[n][v] # None => P[n][v] \in Nat,
           NEW reply,
           reply # None => /\ reply.published \in BOOLEAN
                           /\ reply.published => P[n][v] # None
                           /\ ~reply.published /\ P[n][v] # None => P[n][v] >= now - 1
    PROVE  ScanTrue(H, P, now, Heard(sc, n, v, reply, now))
<1> DEFINE old == sc.check[n]
           fresh == IF reply = None THEN old.fresh
                    ELSE Joined([w \in {v} |-> [published |-> reply.published, at |-> now]], old.fresh)
           check == [old EXCEPT !.outcome[v] = CheckedAs(reply), !.fresh = fresh]
           new == [sc EXCEPT !.check[n] = check]
           info == sc.entry[n].info
<1>1. CheckedTrue(n, P[n], now, sc.at, info, old) /\ n \in DOMAIN sc.entry /\ sc.at \in Nat /\ sc.at <= now
  BY DEF ScanTrue
<1>2. /\ check = [field \in {"outcome", "fresh", "recorded"} |-> check[field]]
      /\ check.fresh = fresh
      /\ check.outcome = [w \in Stated[n] |-> check.outcome[w]]
      /\ check.outcome[v] = CheckedAs(reply) /\ \A w \in Stated[n] \ {v} : check.outcome[w] = old.outcome[w]
  <2> HIDE DEF fresh, old
  <2> QED
    BY <1>1 DEF CheckedTrue
<1>3. ASSUME reply # None
      PROVE  CheckTrue(P[n], now, v, [published |-> reply.published, at |-> now])
  BY <1>3 DEF CheckTrue
<1>4. DOMAIN fresh \subseteq Stated[n] /\ \A w \in DOMAIN fresh : CheckTrue(P[n], now, w, fresh[w])
  <2>1. DOMAIN old.fresh \subseteq Stated[n] /\ \A w \in DOMAIN old.fresh : CheckTrue(P[n], now, w, old.fresh[w])
    BY <1>1 DEF CheckedTrue
  <2> HIDE DEF old
  <2> QED
    BY <1>3, <2>1 DEF Joined
<1>5. Window \in Nat
  BY TimesAreNumbers
<1>6. CheckedAs(reply) = "published" => P[n][v] # None
  BY DEF CheckedAs, Outcome
<1>7. CheckedAs(reply) = "absent" /\ P[n][v] # None => P[n][v] >= sc.at - 1 - (IF info[v] = None THEN 0 ELSE Window)
  <2>1. CheckedAs(reply) = "absent" => reply # None /\ ~reply.published
    BY DEF CheckedAs, Outcome
  <2>2. P[n][v] \in Nat /\ P[n][v] >= now - 1 => P[n][v] >= sc.at - 1 - (IF info[v] = None THEN 0 ELSE Window)
    BY <1>1, <1>5
  <2> QED
    BY <2>1, <2>2
<1> HIDE DEF check, fresh, old
<1>8. CheckedTrue(n, P[n], now, sc.at, info, check)
  BY <1>1, <1>2, <1>4, <1>6, <1>7 DEF CheckedTrue
<1>9. /\ new = [field \in {"pc", "at", "entry", "check"} |-> new[field]]
      /\ new.pc = sc.pc /\ new.at = sc.at /\ new.entry = sc.entry
      /\ DOMAIN new.check = DOMAIN sc.check
      /\ new.check[n] = check /\ \A m \in DOMAIN sc.check \ {n} : new.check[m] = sc.check[m]
  BY DEF ScanTrue
<1> HIDE DEF new
<1>10. \A m \in DOMAIN new.check : m \in DOMAIN new.entry /\ CheckedTrue(m, P[m], now, new.at, new.entry[m].info, new.check[m])
  BY <1>8, <1>9 DEF ScanTrue
<1>11. ScanTrue(H, P, now, new)
  BY <1>9, <1>10 DEF ScanTrue
<1>12. Heard(sc, n, v, reply, now) = new
  BY <1>1 DEF Heard, new, check, fresh, old, ScanTrue, CheckedTrue
<1> QED
  BY <1>11, <1>12

\* New checks leave a row as true as it was.
LEMMA RecordedRow ==
    ASSUME NEW n, NEW h, NEW p, NEW now, NEW row, RowTrue(n, h, p, now, row),
           NEW fresh, DOMAIN fresh \subseteq Stated[n], \A v \in DOMAIN fresh : CheckTrue(p, now, v, fresh[v])
    PROVE  RowTrue(n, h, p, now, [row EXCEPT !.info = Joined(fresh, @)])
<1> DEFINE info == Joined(fresh, row.info)
           new == [row EXCEPT !.info = info]
<1>1. /\ DOMAIN info = Stated[n]
      /\ info = [v \in Stated[n] |-> info[v]]
      /\ \A v \in Stated[n] : info[v] = IF v \in DOMAIN fresh THEN fresh[v] ELSE row.info[v]
  BY DEF RowTrue, ChecksTrue, Joined
<1> HIDE DEF info
<1>2. ChecksTrue(n, p, now, info)
  BY <1>1 DEF RowTrue, ChecksTrue
<1>3. /\ new = [field \in {"rev", "at", "read", "info"} |-> new[field]]
      /\ new.rev = row.rev /\ new.at = row.at /\ new.info = info
  BY DEF RowTrue
<1> HIDE DEF new
<1>4. RowTrue(n, h, p, now, new)
  BY <1>2, <1>3 DEF RowTrue
<1> QED
  BY <1>4 DEF new, info

\* A settlement that starts is told only of rows that are true.
LEMMA LookupScan ==
    ASSUME NEW H, NEW P, NEW now \in Nat, NEW names \in SUBSET Names, NEW rows,
           \A n \in names : rows[n] # None => RowTrue(n, H[n], P[n], now, rows[n])
    PROVE  ScanTrue(H, P, now,
               [Idle EXCEPT !.pc = "lookup", !.at = now,
                            !.entry = [n \in names |-> IF Serves(rows[n], now) THEN Answer(rows[n]) ELSE None]])
<1> DEFINE entry == [n \in names |-> IF Serves(rows[n], now) THEN Answer(rows[n]) ELSE None]
           new == [Idle EXCEPT !.pc = "lookup", !.at = now, !.entry = entry]
<1>1. ASSUME NEW n \in names, entry[n] # None
      PROVE  EntryTrue(n, H[n], P[n], now, now, entry[n])
  <2>1. rows[n] # None /\ Fresh(now, rows[n].at) /\ entry[n] = Answer(rows[n])
    BY <1>1 DEF Serves
  <2> HIDE DEF entry
  <2> QED
    BY <2>1, AnswerTrue
<1>2. DOMAIN entry = names
  OBVIOUS
<1> HIDE DEF entry
<1>3. /\ new = [field \in {"pc", "at", "entry", "check"} |-> new[field]]
      /\ new.pc = "lookup" /\ new.at = now /\ new.entry = entry /\ new.check = <<>>
  BY DEF Idle
<1>4. DOMAIN <<>> = {}
  OBVIOUS
<1> HIDE DEF new
<1>5. ScanTrue(H, P, now, new)
  BY <1>1, <1>2, <1>3, <1>4 DEF ScanTrue
<1> QED
  BY <1>5 DEF new, entry

LEMMA IdleScan ==
    ASSUME NEW H, NEW P, NEW now \in Nat
    PROVE  ScanTrue(H, P, now, Idle)
<1>1. /\ Idle = [field \in {"pc", "at", "entry", "check"} |-> Idle[field]]
      /\ Idle.pc = "idle" /\ Idle.at = 0 /\ Idle.entry = <<>> /\ Idle.check = <<>>
  BY DEF Idle
<1>2. DOMAIN <<>> = {}
  OBVIOUS
<1> QED
  BY <1>1, <1>2 DEF ScanTrue

\* A settlement that has its lists.
Looked(sc, listed, outcomes) ==
    [sc EXCEPT !.pc = "check",
               !.check = [n \in listed |-> [outcome |-> outcomes[n], fresh |-> <<>>, recorded |-> FALSE]]]

\* What a list and its checks say of the versions it does not have.
LEMMA LookScan ==
    ASSUME clock \in Nat, NEW H, NEW P, NEW sc, ScanTrue(H, P, clock, sc), None \notin Range(sc.entry),
           \A n \in Names : \A v \in Stated[n] : P[n][v] # None => P[n][v] \in Nat,
           NEW listed \in SUBSET DOMAIN sc.entry, NEW outcomes, \A n \in listed : outcomes[n] = Outcomes(sc.entry[n], n)
    PROVE  ScanTrue(H, P, clock, Looked(sc, listed, outcomes))
<1> DEFINE checks == [n \in listed |-> [outcome |-> outcomes[n], fresh |-> <<>>, recorded |-> FALSE]]
           new == [sc EXCEPT !.pc = "check", !.check = checks]
<1>1. /\ new = [field \in {"pc", "at", "entry", "check"} |-> new[field]]
      /\ new.pc = "check" /\ new.at = sc.at /\ new.entry = sc.entry /\ new.check = checks
  BY DEF ScanTrue
<1>2. Window \in Nat /\ sc.at \in Nat /\ sc.at <= clock
  BY TimesAreNumbers DEF ScanTrue
<1>3. ASSUME NEW n \in listed
      PROVE  CheckedTrue(n, P[n], clock, sc.at, sc.entry[n].info, checks[n])
  <2> DEFINE info == sc.entry[n].info
             check == checks[n]
  <2>1. ChecksTrue(n, P[n], clock, info) /\ n \in Names
    BY DEF ScanTrue, EntryTrue, Range
  <2>2. /\ check = [field \in {"outcome", "fresh", "recorded"} |-> check[field]]
        /\ check.fresh = <<>> /\ DOMAIN check.fresh = {}
        /\ check.outcome = Outcomes(sc.entry[n], n)
    OBVIOUS
  <2> HIDE DEF check, checks
  <2>3. check.outcome = [v \in Stated[n] |-> check.outcome[v]]
    BY <2>2 DEF Outcomes
  <2>4. ASSUME NEW v \in Stated[n]
        PROVE  /\ check.outcome[v] = "published" => Known(info[v], clock) /\ info[v].published
               /\ check.outcome[v] = "absent" => Known(info[v], clock) /\ ~info[v].published
    BY <2>2 DEF Outcomes, Outcome
  <2> HIDE DEF info
  <2>5. ASSUME NEW v \in Stated[n]
        PROVE  /\ check.outcome[v] = "published" => P[n][v] # None
               /\ check.outcome[v] = "absent" /\ P[n][v] # None =>
                     P[n][v] >= sc.at - 1 - (IF info[v] = None THEN 0 ELSE Window)
    <3>1. info[v] # None => CheckTrue(P[n], clock, v, info[v])
      BY <2>1 DEF ChecksTrue
    <3>2. check.outcome[v] = "published" => P[n][v] # None
      BY <2>4, <3>1 DEF Known, CheckTrue
    <3>3. ASSUME check.outcome[v] = "absent", P[n][v] # None
          PROVE  P[n][v] >= sc.at - 1 - Window /\ info[v] # None
      <4>1. /\ info[v] # None /\ info[v].at \in Nat /\ info[v].at >= clock - Window
            /\ P[n][v] >= info[v].at - 1
        BY <2>4, <3>1, <3>3 DEF Known, CheckTrue, Fresh
      <4>2. P[n][v] \in Nat
        BY <2>1, <3>3
      <4> QED
        BY <1>2, <4>1, <4>2
    <3> QED
      BY <3>2, <3>3
  <2> QED
    BY <2>2, <2>3, <2>5 DEF CheckedTrue, info, check
<1>4. DOMAIN checks = listed
  OBVIOUS
<1> HIDE DEF new, checks
<1>5. ScanTrue(H, P, clock, new)
  BY <1>1, <1>2, <1>3, <1>4 DEF ScanTrue
<1> QED
  BY <1>5 DEF Looked, new, checks

LEMMA AnswerInit == Init => AnswerInv
<1> SUFFICES ASSUME Init
             PROVE  AnswerInv
  OBVIOUS
<1>1. HeldInv
  BY StoreInit DEF StoreInv
<1>2. clock = 0 /\ 0 \in Times /\ 0 \in Nat
  BY <1>1 DEF Init, HeldInv
<1>3. pushed = [n \in Names |-> NoChecks(n)]
  BY DEF Init
<1>4. PushedInv
  BY <1>3 DEF PushedInv, NoChecks
<1>5. PICK read \in BOOLEAN :
          \/ store = [n \in Names |-> None]
          \/ store = [n \in Names |-> [rev |-> Now(n), at |-> 0, read |-> read, info |-> NoChecks(n)]]
  BY DEF Init
<1>6. ASSUME NEW n \in Names, store[n] # None
      PROVE  RowTrue(n, held[n], pushed[n], clock, store[n])
  <2>1. store[n] = [rev |-> Now(n), at |-> 0, read |-> read, info |-> NoChecks(n)]
    BY <1>5, <1>6
  <2>2. Now(n) \in held[n][0]
    BY <1>1, <1>2 DEF HeldInv
  <2> HIDE DEF Now
  <2>3. DatedAt(held[n], store[n].rev, 0)
    BY <1>2, <2>1, <2>2 DEF DatedAt
  <2>4. ChecksTrue(n, pushed[n], clock, store[n].info)
    BY <2>1 DEF ChecksTrue, NoChecks
  <2> QED
    BY <1>2, <2>1, <2>3, <2>4 DEF RowTrue
<1>7. \A c \in Clients : DOMAIN flight[c] = {}
  BY DEF Init
<1>8. scan = [s \in Scans |-> Idle]
  BY DEF Init
<1>9. \A s \in Scans : ScanTrue(held, pushed, clock, scan[s])
  BY <1>2, <1>8, IdleScan
<1> QED
  BY <1>1, <1>4, <1>5, <1>6, <1>7, <1>8, <1>9 DEF AnswerInv

LEMMA AnswerStep == LimiterInv /\ AnswerInv /\ [Next]_vars => AnswerInv'
<1> SUFFICES ASSUME LimiterInv, AnswerInv, [Next]_vars
             PROVE  AnswerInv'
  OBVIOUS
<1> DEFINE RowsTrue(st) == /\ st = [n \in Names |-> st[n]]
                           /\ \A n \in Names : st[n] # None => RowTrue(n, held[n], pushed[n], clock, st[n])
           RequestsTrue(f) == \A c \in Clients : \A job \in DOMAIN f[c] :
                                  RequestTrue(held[job[1]], pushed[job[1]], clock, job, f[c][job])
           ScansTrue(sc) == /\ sc = [s \in Scans |-> sc[s]]
                            /\ \A s \in Scans : ScanTrue(held, pushed, clock, sc[s])
<1>1. RowsTrue(store) /\ RequestsTrue(flight) /\ ScansTrue(scan) /\ HeldInv /\ PushedInv
  BY DEF AnswerInv
<1>2. clock \in Times /\ clock \in Nat
  BY TimesAreNumbers DEF AnswerInv, HeldInv
<1>3. \A job \in Jobs : job[1] \in Names /\ (job[2] # None => job[2] \in Stated[job[1]])
  BY DEF Jobs, Lists, Infos
<1>4. \A c \in Clients : \A job \in DOMAIN flight[c] : job \in Jobs /\ IsRequest(flight[c][job])
  BY DEF LimiterInv, Limiter
\* A step of a client or a settlement is taken under the registry as it is.
<1>5. ASSUME UNCHANGED world, RowsTrue(store'), RequestsTrue(flight'), ScansTrue(scan')
      PROVE  AnswerInv'
  <2>1. HeldInv' /\ PushedInv'
    BY <1>1, <1>5, WorldLater
  <2> QED
    BY <1>5, <2>1 DEF AnswerInv, world
<1>6. ASSUME NEW c \in Clients, NEW job \in DOMAIN flight[c], flight[c][job].sent, Finish(c, job)
      PROVE  RequestsTrue(flight')
  <2> TAKE d \in Clients
  <2> TAKE j \in DOMAIN flight'[d]
  <2>1. /\ j \in DOMAIN flight[d]
        /\ flight'[d][j].prev = flight[d][j].prev /\ flight'[d][j].reply = flight[d][j].reply
        /\ flight'[d][j].late = flight[d][j].late
    BY <1>6, FinishFlights
  <2>2. RequestTrue(held[j[1]], pushed[j[1]], clock, j, flight[d][j])
    BY <1>1, <2>1
  <2> QED
    BY <2>1, <2>2, RequestSame
<1>7. ASSUME NEW c \in Clients, NEW P, Submit(c, P),
             \A job \in DOMAIN P : job[2] = None /\ P[job] # None =>
                 RowTrue(job[1], held[job[1]], pushed[job[1]], clock, P[job])
      PROVE  RequestsTrue(flight')
  <2> TAKE d \in Clients
  <2> TAKE j \in DOMAIN flight'[d]
  <2>1. \/ j \in DOMAIN flight[d] /\ flight'[d][j] = flight[d][j]
        \/ /\ j \in DOMAIN P
           /\ flight'[d][j].prev = P[j] /\ flight'[d][j].reply = None /\ ~flight'[d][j].late
    <3>1. \/ j \in DOMAIN flight[d] /\ j \notin DOMAIN P /\ flight'[d][j] = flight[d][j]
          \/ j \in DOMAIN flight[d] /\ d # c /\ flight'[d][j] = flight[d][j]
          \/ /\ d = c /\ j \in DOMAIN P
             /\ flight'[d][j].prev = P[j] /\ flight'[d][j].reply = None /\ ~flight'[d][j].late
      BY <1>7, SubmitFlights
    <3> QED
      BY <3>1
  <2> QED
    BY <1>1, <1>7, <2>1 DEF RequestTrue
<1>8. ASSUME NEW c \in Clients, NEW n \in Names, NEW entry, Told(c, n, entry),
             \A at \in Nat : at <= clock => EntryTrue(n, held[n], pushed[n], clock, at, entry)
      PROVE  ScansTrue(scan')
  <2>1. scan' = [s \in Scans |-> scan'[s]]
    BY <1>8 DEF Told
  <2>2. ASSUME NEW s \in Scans
        PROVE  ScanTrue(held, pushed, clock, scan'[s])
    <3>1. ScanTrue(held, pushed, clock, scan[s])
      BY <1>1
    <3>2. \/ scan'[s] = scan[s]
          \/ scan[s].pc = "lookup" /\ n \in DOMAIN scan[s].entry /\ scan'[s] = [scan[s] EXCEPT !.entry[n] = entry]
      BY <1>8 DEF Told
    <3>3. EntryTrue(n, held[n], pushed[n], clock, scan[s].at, entry)
      BY <1>8, <3>1 DEF ScanTrue
    <3> QED
      BY <3>1, <3>2, <3>3, ToldScan
  <2> QED
    BY <2>1, <2>2
<1>9. ASSUME NEW s \in Scans, NEW sc, scan' = [scan EXCEPT ![s] = sc], ScanTrue(held, pushed, clock, sc)
      PROVE  ScansTrue(scan')
  BY <1>1, <1>9
<1> HIDE DEF RowsTrue, RequestsTrue, ScansTrue
<1>10. ASSUME NEW c \in Clients, NEW n \in Names, Arrive(c, n)
       PROVE  AnswerInv'
  <2> DEFINE job == <<n, None>>
             r == flight[c][job]
             row == [rev |-> IF r.reply.same THEN r.prev.rev ELSE r.reply.rev, at |-> clock, read |-> TRUE,
                     info |-> IF Held(r.prev) /\ r.reply.rev # 0 THEN r.prev.info ELSE NoChecks(n)]
  <2>1. /\ job \in DOMAIN flight[c] /\ r.reply # None /\ Finish(c, job) /\ UNCHANGED world
        /\ store' = [store EXCEPT ![n] = row] /\ Told(c, n, Answer(row))
    BY <1>10 DEF Arrive
  <2>2. r.sent /\ job[1] = n
    BY <1>4, <2>1 DEF IsRequest
  <2>3. RequestTrue(held[n], pushed[n], clock, job, r)
    BY <1>1, <2>1, <2>2 DEF RequestsTrue
  <2>4. row.at = clock
    OBVIOUS
  <2>5. RowTrue(n, held[n], pushed[n], clock, row)
    BY <1>2, <2>1, <2>3, ArrivedRow
  <2> HIDE DEF row, r
  <2>6. RowsTrue(store')
    BY <1>1, <2>1, <2>5 DEF RowsTrue
  <2>7. \A at \in Nat : at <= clock => Fresh(at, row.at)
    BY <1>2, <2>4, TimesAreNumbers DEF Fresh
  <2>8. ScansTrue(scan')
    BY <1>8, <2>1, <2>5, <2>7, AnswerTrue
  <2>9. RequestsTrue(flight')
    BY <1>6, <2>1, <2>2 DEF r
  <2> QED
    BY <1>5, <2>1, <2>6, <2>8, <2>9
<1>11. ASSUME NEW c \in Clients, NEW n \in Names, Unreachable(c, n)
       PROVE  AnswerInv'
  <2> DEFINE job == <<n, None>>
             prev == flight[c][job].prev
             entry == IF Held(prev) THEN Entry("stale", prev) ELSE NoAnswer(n)
  <2>1. /\ job \in DOMAIN flight[c] /\ flight[c][job].sent /\ Finish(c, job) /\ UNCHANGED <<world, store>>
        /\ Told(c, n, entry)
    BY <1>11 DEF Unreachable
  <2>2. prev # None => RowTrue(n, held[n], pushed[n], clock, prev)
    BY <1>1, <2>1 DEF RequestsTrue, RequestTrue
  <2>3. \A at \in Nat : EntryTrue(n, held[n], pushed[n], clock, at, entry)
    BY <1>2, <2>2, StaleTrue, NoAnswerTrue DEF Held
  <2> HIDE DEF entry
  <2>4. ScansTrue(scan')
    BY <1>8, <2>1, <2>3
  <2> QED
    BY <1>1, <1>5, <1>6, <2>1, <2>4
<1>12. ASSUME NEW c \in Clients, NEW job \in Infos, Checked(c, job)
       PROVE  AnswerInv'
  <2> DEFINE n == job[1]
             v == job[2]
             Waits(s) == /\ ClientOf[s] = c /\ scan[s].pc = "check" /\ n \in DOMAIN scan[s].check
                         /\ scan[s].check[n].outcome[v] = "asked"
  <2>1. /\ job \in DOMAIN flight[c] /\ flight[c][job].sent /\ Finish(c, job) /\ UNCHANGED <<world, store>>
    BY <1>12 DEF Checked
  <2>2. PICK reply \in {None, flight[c][job].reply} :
            scan' = [s \in Scans |-> IF Waits(s) THEN Heard(scan[s], n, v, reply, clock) ELSE scan[s]]
    BY <1>12 DEF Checked, Heard
  <2>3. n \in Names /\ v \in Stated[n] /\ v # None
    BY NamesAssumption DEF Infos
  <2>4. pushed[n][v] # None => pushed[n][v] \in Nat
    BY <1>1, <2>3 DEF PushedInv
  <2>5. reply # None => /\ reply.published \in BOOLEAN
                        /\ reply.published => pushed[n][v] # None
                        /\ ~reply.published /\ pushed[n][v] # None => pushed[n][v] >= clock - 1
    <3>1. RequestTrue(held[n], pushed[n], clock, job, flight[c][job])
      BY <1>1, <2>1 DEF RequestsTrue
    <3>2. ASSUME reply # None
          PROVE  ReplyTrue(held[n], pushed[n], clock, job, flight[c][job]) /\ reply = flight[c][job].reply
      BY <2>2, <3>1, <3>2 DEF RequestTrue
    <3> QED
      BY <1>2, <2>3, <2>4, <3>2 DEF ReplyTrue
  <2>6. ASSUME NEW s \in Scans
        PROVE  ScanTrue(held, pushed, clock, scan'[s])
    <3>1. ScanTrue(held, pushed, clock, scan[s])
      BY <1>1 DEF ScansTrue
    <3>2. CASE Waits(s)
      <4>1. ScanTrue(held, pushed, clock, Heard(scan[s], n, v, reply, clock))
        BY <1>2, <2>3, <2>4, <2>5, <3>1, <3>2, CheckedScan
      <4> QED
        BY <2>2, <3>2, <4>1
    <3>3. CASE ~Waits(s)
      BY <2>2, <3>1, <3>3
    <3> QED
      BY <3>2, <3>3
  <2>7. scan' = [s \in Scans |-> scan'[s]]
    <3> HIDE DEF Waits
    <3> QED
      BY <2>2
  <2>8. ScansTrue(scan')
    BY <2>6, <2>7 DEF ScansTrue
  <2> QED
    BY <1>1, <1>5, <1>6, <2>1, <2>8
<1>13. ASSUME NEW c \in Clients, NEW job \in Jobs, Serve(c, job)
       PROVE  AnswerInv'
  <2> DEFINE n == job[1]
             r == flight[c][job]
             reply == IF job \in Infos THEN [published |-> pushed[n][job[2]] # None]
                      ELSE [rev |-> Now(n), same |-> Held(r.prev) /\ r.prev.rev = Now(n)]
             t == [r EXCEPT !.reply = reply]
             g == [flight[c] EXCEPT ![job] = t]
  <2>1. /\ job \in DOMAIN flight[c] /\ UNCHANGED <<world, store, scan>>
        /\ flight' = [flight EXCEPT ![c][job].reply = reply]
    BY <1>13 DEF Serve
  <2>2. RequestTrue(held[n], pushed[n], clock, job, r) /\ IsRequest(r) /\ n \in Names
    BY <1>1, <1>3, <1>4, <2>1 DEF RequestsTrue
  <2>3. t.prev = r.prev /\ t.reply = reply /\ t.late = r.late
    <3> HIDE DEF reply
    <3> QED
      BY <2>2 DEF IsRequest
  <2>4. Now(n) \in held[n][clock]
    BY <1>1, <2>2 DEF HeldInv
  <2>5. ReplyTrue(held[n], pushed[n], clock, job, t)
    <3>1. CASE job \in Infos
      <4>1. job[2] # None /\ reply = [published |-> pushed[n][job[2]] # None]
        BY <3>1, NamesAssumption DEF Infos
      <4>2. reply.published \in BOOLEAN /\ (reply.published <=> pushed[n][job[2]] # None)
        BY <4>1
      <4> HIDE DEF reply, t
      <4> QED
        BY <2>3, <4>1, <4>2 DEF ReplyTrue
    <3>2. CASE job \notin Infos
      <4>1. job[2] = None
        BY <3>2 DEF Jobs, Lists
      <4> HIDE DEF Now
      <4>2. reply.rev = Now(n) /\ (reply.same => r.prev.rev = Now(n))
        BY <3>2
      <4> HIDE DEF reply, t, r
      <4> QED
        BY <2>3, <2>4, <4>1, <4>2 DEF ReplyTrue
    <3> QED
      BY <3>1, <3>2
  <2> HIDE DEF reply
  <2>6. flight' = [flight EXCEPT ![c] = g]
    BY <2>1
  <2> HIDE DEF t
  <2>7. RequestTrue(held[n], pushed[n], clock, job, t)
    BY <2>2, <2>3, <2>5 DEF RequestTrue
  <2> HIDE DEF r
  <2>8. /\ DOMAIN g = DOMAIN flight[c] /\ g[job] = t
        /\ \A j \in DOMAIN flight[c] \ {job} : g[j] = flight[c][j]
    BY <2>1
  <2>9. \A d \in Clients : flight'[d] = IF d = c THEN g ELSE flight[d]
    <3> HIDE DEF g
    <3> QED
      BY <2>6 DEF LimiterInv
  <2> HIDE DEF g
  <2>10. RequestsTrue(flight')
    BY <1>1, <2>7, <2>8, <2>9 DEF RequestsTrue
  <2> QED
    BY <1>1, <1>5, <2>1, <2>10
<1>14. ASSUME NEW s \in Scans, Lookup(s)
       PROVE  AnswerInv'
  <2>1. ClientOf[s] \in Clients /\ UNCHANGED <<world, store>>
    BY <1>14, MapsAssumption DEF Lookup
  <2>2. PICK names \in SUBSET Names :
          /\ scan' = [scan EXCEPT ![s] = [Idle EXCEPT !.pc = "lookup", !.at = clock,
                         !.entry = [n \in names |-> IF Serves(store[n], clock) THEN Answer(store[n]) ELSE None]]]
          /\ Submit(ClientOf[s],
                    [job \in {<<n, None>> : n \in {m \in names : ~Serves(store[m], clock)}} \ DOMAIN flight[ClientOf[s]] |->
                        store[job[1]]])
    BY <1>14 DEF Lookup
  <2>3. \A n \in Names : store[n] # None => RowTrue(n, held[n], pushed[n], clock, store[n])
    BY <1>1 DEF RowsTrue
  <2>4. ScansTrue(scan')
    BY <1>2, <1>9, <2>2, <2>3, LookupScan
  <2>5. RequestsTrue(flight')
    BY <1>7, <2>1, <2>2, <2>3
  <2> QED
    BY <1>1, <1>5, <2>1, <2>4, <2>5
<1>15. ASSUME NEW s \in Scans, Look(s)
       PROVE  AnswerInv'
  <2> DEFINE listed == {n \in DOMAIN scan[s].entry : scan[s].entry[n].status \in {"ok", "stale"}}
             outcomes == [n \in listed |-> Outcomes(scan[s].entry[n], n)]
             new == Looked(scan[s], listed, outcomes)
             asked == {i \in Infos : i[1] \in listed /\ outcomes[i[1]][i[2]] = "asked"} \ DOMAIN flight[ClientOf[s]]
  <2>1. /\ ClientOf[s] \in Clients /\ UNCHANGED <<world, store>> /\ None \notin Range(scan[s].entry)
        /\ Submit(ClientOf[s], [job \in asked |-> None])
    BY <1>15, MapsAssumption DEF Look
  <2>2. scan' = [scan EXCEPT ![s].pc = "check",
                     ![s].check = [n \in listed |-> [outcome |-> outcomes[n], fresh |-> <<>>, recorded |-> FALSE]]]
    BY <1>15 DEF Look
  <2>3. \A n \in listed : outcomes[n] = Outcomes(scan[s].entry[n], n)
    OBVIOUS
  <2>4. listed \in SUBSET DOMAIN scan[s].entry
    OBVIOUS
  <2>5. ScanTrue(held, pushed, clock, scan[s])
    BY <1>1 DEF ScansTrue
  <2>6. \A n \in Names : \A v \in Stated[n] : pushed[n][v] # None => pushed[n][v] \in Nat
    BY <1>1 DEF PushedInv
  <2> HIDE DEF listed, outcomes
  <2>7. ScanTrue(held, pushed, clock, new)
    BY <1>2, <2>1, <2>3, <2>4, <2>5, <2>6, LookScan
  <2>8. scan' = [scan EXCEPT ![s] = new]
    BY <2>2 DEF Looked
  <2> HIDE DEF new
  <2>9. ScansTrue(scan')
    BY <1>9, <2>7, <2>8
  <2> HIDE DEF asked
  <2>10. RequestsTrue(flight')
    BY <1>7, <2>1
  <2> QED
    BY <1>1, <1>5, <2>1, <2>9, <2>10
<1>16. ASSUME NEW s \in Scans, NEW n \in Names, Record(s, n)
       PROVE  AnswerInv'
  <2> DEFINE check == scan[s].check[n]
             fresh == check.fresh
             new == [scan[s] EXCEPT !.check[n].recorded = TRUE]
  <2>1. /\ scan[s].pc = "check" /\ n \in DOMAIN scan[s].check /\ UNCHANGED <<world, client>>
        /\ store' = IF Held(store[n]) /\ fresh # <<>> THEN [store EXCEPT ![n].info = Joined(fresh, @)] ELSE store
        /\ scan' = [scan EXCEPT ![s].check[n].recorded = TRUE]
    BY <1>16 DEF Record
  <2>2. ScanTrue(held, pushed, clock, scan[s])
    BY <1>1 DEF ScansTrue
  <2>3. CheckedTrue(n, pushed[n], clock, scan[s].at, scan[s].entry[n].info, check)
    BY <2>1, <2>2 DEF ScanTrue
  <2>4. DOMAIN fresh \subseteq Stated[n] /\ \A v \in DOMAIN fresh : CheckTrue(pushed[n], clock, v, fresh[v])
    BY <2>3 DEF CheckedTrue
  <2>5. RowsTrue(store')
    <3> DEFINE row == [store[n] EXCEPT !.info = Joined(fresh, @)]
    <3> HIDE DEF fresh
    <3>1. CASE Held(store[n]) /\ fresh # <<>>
      <4>1. store' = [store EXCEPT ![n] = row]
        BY <2>1, <3>1
      <4>2. RowTrue(n, held[n], pushed[n], clock, store[n])
        BY <1>1, <3>1 DEF RowsTrue, Held
      <4>3. RowTrue(n, held[n], pushed[n], clock, row)
        BY <2>4, <4>2, RecordedRow
      <4> HIDE DEF row
      <4> QED
        BY <1>1, <4>1, <4>3 DEF RowsTrue
    <3>2. CASE ~(Held(store[n]) /\ fresh # <<>>)
      BY <1>1, <2>1, <3>2
    <3> QED
      BY <3>1, <3>2
  <2>6. ScanTrue(held, pushed, clock, new)
    <3> DEFINE rec == [check EXCEPT !.recorded = TRUE]
    <3>1. /\ rec = [field \in {"outcome", "fresh", "recorded"} |-> rec[field]]
          /\ rec.outcome = check.outcome /\ rec.fresh = check.fresh
      BY <2>3 DEF CheckedTrue
    <3> HIDE DEF rec
    <3>2. CheckedTrue(n, pushed[n], clock, scan[s].at, scan[s].entry[n].info, rec)
      BY <2>3, <3>1 DEF CheckedTrue
    <3>3. /\ new = [field \in {"pc", "at", "entry", "check"} |-> new[field]]
          /\ new.pc = scan[s].pc /\ new.at = scan[s].at /\ new.entry = scan[s].entry
          /\ DOMAIN new.check = DOMAIN scan[s].check
          /\ new.check[n] = rec /\ \A m \in DOMAIN scan[s].check \ {n} : new.check[m] = scan[s].check[m]
      BY <2>1, <2>2 DEF ScanTrue, rec
    <3> HIDE DEF new
    <3> QED
      BY <2>1, <2>2, <3>2, <3>3 DEF ScanTrue
  <2>7. scan' = [scan EXCEPT ![s] = new]
    BY <2>1
  <2> HIDE DEF new
  <2>8. ScansTrue(scan')
    BY <1>9, <2>6, <2>7
  <2> QED
    BY <1>1, <1>5, <2>1, <2>5, <2>8 DEF client, RequestsTrue
<1>17. ASSUME NEW s \in Scans, Settle(s)
       PROVE  AnswerInv'
  <2>1. UNCHANGED <<world, store, client>> /\ scan' = [scan EXCEPT ![s] = Idle]
    BY <1>17 DEF Settle
  <2>2. ScansTrue(scan')
    BY <1>2, <1>9, <2>1, IdleScan
  <2> QED
    BY <1>1, <1>5, <2>1, <2>2 DEF client, RequestsTrue
\* The registry goes on, and what was said of it stays true.
<1>18. ASSUME Tick \/ (\E n \in Names : Release(n) \/ \E v \in Stated[n] : Push(n, v)) \/ UNCHANGED vars
       PROVE  AnswerInv'
  <2>1. /\ HeldInv' /\ PushedInv' /\ clock' \in Times /\ clock <= clock'
        /\ \A n \in Names : Later(n, held[n], pushed[n], clock, held'[n], pushed'[n], clock')
    BY <1>1, <1>18, WorldLater DEF vars
  <2>2. UNCHANGED <<store, scan>>
    BY <1>18 DEF Tick, Release, Push, vars
  <2>3. \A n \in Names : store'[n] # None => RowTrue(n, held'[n], pushed'[n], clock', store'[n])
    BY <1>1, <2>1, <2>2, RowLater DEF RowsTrue
  <2>4. \A s \in Scans : ScanTrue(held', pushed', clock', scan'[s])
    BY <1>1, <1>2, <2>1, <2>2, ScanLater DEF ScansTrue
  <2>5. ASSUME NEW c \in Clients, NEW job \in DOMAIN flight'[c]
        PROVE  RequestTrue(held'[job[1]], pushed'[job[1]], clock', job, flight'[c][job])
    <3>1. CASE Tick
      <4>1. /\ clock' = clock + 1 /\ pushed' = pushed
            /\ flight' = [d \in Clients |-> [j \in DOMAIN flight[d] |-> [flight[d][j] EXCEPT !.late = flight[d][j].sent]]]
        BY <3>1 DEF Tick
      <4>2. job \in DOMAIN flight[c] /\ flight'[c][job] = [flight[c][job] EXCEPT !.late = flight[c][job].sent]
        BY <4>1
      <4>3. flight[c][job].sent => ~flight[c][job].late
        BY <3>1, <4>2 DEF Tick
      <4>4. /\ flight'[c][job].prev = flight[c][job].prev /\ flight'[c][job].reply = flight[c][job].reply
            /\ flight'[c][job].late = flight[c][job].sent
        BY <1>4, <4>2 DEF IsRequest
      <4>5. /\ RequestTrue(held[job[1]], pushed[job[1]], clock, job, flight[c][job]) /\ IsRequest(flight[c][job])
            /\ job[1] \in Names /\ (job[2] # None => job[2] \in Stated[job[1]])
        BY <1>1, <1>3, <1>4, <4>2 DEF RequestsTrue
      <4>6. pushed'[job[1]] = pushed[job[1]]
        BY <4>1
      <4>7. Later(job[1], held[job[1]], pushed[job[1]], clock, held'[job[1]], pushed'[job[1]], clock')
        BY <2>1, <4>5
      <4>8. clock' = clock + 1
        BY <4>1
      <4> QED
        BY <1>2, <4>3, <4>4, <4>5, <4>6, <4>7, <4>8, RequestTicks
    <3>2. CASE ~Tick
      <4>1. clock' = clock /\ flight' = flight
        BY <1>18, <3>2 DEF Release, Push, vars, client, world
      <4>2. /\ RequestTrue(held[job[1]], pushed[job[1]], clock, job, flight[c][job])
            /\ job[1] \in Names /\ (job[2] # None => job[2] \in Stated[job[1]])
        BY <1>1, <1>3, <1>4, <4>1 DEF RequestsTrue
      <4>3. Later(job[1], held[job[1]], pushed[job[1]], clock, held'[job[1]], pushed'[job[1]], clock)
        BY <2>1, <4>1, <4>2
      <4>4. RequestTrue(held'[job[1]], pushed'[job[1]], clock, job, flight[c][job])
        BY <4>2, <4>3, RequestLater
      <4> QED
        BY <4>1, <4>4
    <3> QED
      BY <3>1, <3>2
  <2>6. store' = [n \in Names |-> store'[n]] /\ scan' = [s \in Scans |-> scan'[s]]
    BY <1>1, <2>2 DEF RowsTrue, ScansTrue
  <2> QED
    BY <2>1, <2>3, <2>4, <2>5, <2>6 DEF AnswerInv
<1> QED
  BY <1>10, <1>11, <1>12, <1>13, <1>14, <1>15, <1>16, <1>17, <1>18 DEF Next, Ends, Step

\* What a settlement is told of a registry is true of it, with any number of clients
\* and of settlements: every row and every answer is what the registry held at its
\* time, or the one tick of a request before, an answer served as current is in the
\* window, and a version read as published or absent is, or was when it was asked
\* about or in the window before (registry-client.ts, go-registry.ts).
THEOREM AnswersTrue == Spec => []AnswersAreTrue
<1>1. ASSUME AnswerInv
      PROVE  AnswersAreTrue
  <2>1. ASSUME NEW n \in Names, store[n] # None
        PROVE  store[n].rev \in UNION {held[n][t] : t \in {store[n].at, store[n].at - 1} \cap Times}
    BY <1>1, <2>1 DEF AnswerInv, RowTrue, DatedAt
  <2>2. ASSUME NEW s \in Scans, NEW n \in DOMAIN scan[s].entry,
               scan[s].entry[n] # None, scan[s].entry[n].status # "error"
        PROVE  /\ scan[s].entry[n].rev \in UNION {held[n][t] : t \in {scan[s].entry[n].at, scan[s].entry[n].at - 1} \cap Times}
               /\ scan[s].entry[n].status # "stale" => Fresh(scan[s].at, scan[s].entry[n].at)
    <3>1. EntryTrue(n, held[n], pushed[n], clock, scan[s].at, scan[s].entry[n])
      BY <1>1, <2>2 DEF AnswerInv, ScanTrue
    <3> QED
      BY <2>2, <3>1 DEF EntryTrue, DatedAt
  <2>3. AnswersAreDated
    BY <2>1, <2>2 DEF AnswersAreDated
  <2>4. ASSUME NEW s \in Scans, NEW n \in DOMAIN scan[s].check
        PROVE  CheckedTrue(n, pushed[n], clock, scan[s].at, scan[s].entry[n].info, scan[s].check[n])
    BY <1>1 DEF AnswerInv, ScanTrue
  <2>5. VersionsAreTrue
    BY <2>4 DEF VersionsAreTrue, CheckedTrue
  <2> QED
    BY <2>3, <2>5 DEF AnswersAreTrue
<1>2. LimiterInv /\ AnswerInv /\ [Next]_vars => (LimiterInv /\ AnswerInv)'
  BY LimiterStep, AnswerStep
<1> QED
  BY <1>1, <1>2, LimiterInit, AnswerInit, PTL DEF Spec
=============================================================================
