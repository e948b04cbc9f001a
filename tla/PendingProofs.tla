--------------------------- MODULE PendingProofs ---------------------------
(* Proofs about PendingWrites, for any set of users and any bounds.        *)
EXTENDS PendingWrites, SequenceTheorems, FiniteSetTheorems, WellFoundedInduction,
        TLAPS

(* A set of naturals that is not empty has a least element. *)
LEMMA LeastNatural ==
  ASSUME NEW T, T \subseteq Nat, T # {}
  PROVE  \E x \in T : \A y \in T : x <= y
<1>1. IsWellFoundedOn(OpToRel(<, Nat), Nat)
  BY NatLessThanWellFounded
<1>2. \E x \in T : \A y \in T : ~ (<<y, x>> \in OpToRel(<, Nat))
  BY <1>1, WFMin
<1>3. PICK x \in T : \A y \in T : ~ (<<y, x>> \in OpToRel(<, Nat))
  BY <1>2
<1>4. \A y \in T : ~(y < x)
  BY <1>3 DEF OpToRel
<1> QED BY <1>4

(* PlaceAfter finds the place there is. *)
LEMMA PlaceIs ==
  ASSUME NEW q \in Seq(Batch), NEW id \in Nat, NEW k \in 1..(Len(q) + 1),
         \A i \in 1..(k-1) : q[i].id <= id,
         k <= Len(q) => q[k].id > id
  PROVE  PlaceAfter(q, id) = k
<1>1. Len(q) \in Nat /\ \A i \in 1..Len(q) : q[i].id \in Nat
  <2>1. \A i \in 1..Len(q) : q[i] \in Batch
    BY ElementOfSeq
  <2> QED BY <2>1 DEF Batch
<1>2. ASSUME NEW j \in 1..(Len(q) + 1),
             \A i \in 1..(j-1) : q[i].id <= id,
             j <= Len(q) => q[j].id > id
      PROVE  j = k
  <2>1. ~(j < k)
    <3> SUFFICES ASSUME j < k PROVE FALSE
      OBVIOUS
    <3> QED BY <1>1, <1>2
  <2>2. ~(k < j)
    <3> SUFFICES ASSUME k < j PROVE FALSE
      OBVIOUS
    <3> QED BY <1>1, <1>2
  <2> QED BY <1>1, <2>1, <2>2
<1> QED BY <1>2 DEF PlaceAfter

(* The ids of a queue grow. *)
Growing(q) ==
  /\ \A i \in 1..Len(q) : q[i].id \in Nat \ {0}
  /\ \A i, j \in 1..Len(q) : i < j => q[i].id < q[j].id

(* What is added to a pipeline that starts the queue goes on where it ends, *)
(* up to the limit.                                                         *)
LEMMA FetchedIs ==
  ASSUME NEW q \in Seq(Batch), Growing(q),
         NEW p \in Seq(Batch), Within(p, q, 0), Len(p) <= MaxPending
  PROVE  /\ Fetched(q, p) \in Seq(Batch)
         /\ Len(p) + Len(Fetched(q, p)) = Lesser(Len(q), MaxPending)
         /\ \A i \in 1..Len(Fetched(q, p)) : Fetched(q, p)[i] = q[Len(p) + i]
<1> DEFINE m == Len(p)
           n == Len(q)
           h == Lesser(n, MaxPending)
<1>1. /\ m \in Nat /\ n \in Nat /\ m <= n
      /\ MaxPending \in Nat \ {0}
      /\ \A i \in 1..m : p[i] = q[i]
  BY BoundsAssumption DEF Within
<1>2. PlaceAfter(q, LastId(p)) = m + 1
  <2>1. LastId(p) = IF m = 0 THEN 0 ELSE q[m].id
    BY <1>1, EmptySeq DEF LastId
  <2>2. LastId(p) \in Nat
    BY <1>1, <2>1 DEF Growing
  <2>3. \A i \in 1..((m + 1) - 1) : q[i].id <= LastId(p)
    BY <1>1, <2>1 DEF Growing
  <2>4. m + 1 <= n => q[m + 1].id > LastId(p)
    BY <1>1, <2>1 DEF Growing
  <2>5. m + 1 \in 1..(Len(q) + 1)
    BY <1>1
  <2> QED BY <2>2, <2>3, <2>4, <2>5, PlaceIs
<1>3. h \in Nat /\ h <= n /\ m <= h
  BY <1>1 DEF Lesser
<1>4. Lesser(n, (m + 1) + MaxPending - m - 1) = h
  BY <1>1
<1>5. Fetched(q, p) = SubSeq(q, m + 1, h)
  BY <1>2, <1>4 DEF Fetched
<1>6. \A i \in (m + 1)..h : q[i] \in Batch
  <2>1. \A i \in 1..n : q[i] \in Batch
    BY ElementOfSeq
  <2> QED BY <1>1, <1>3, <2>1
<1>7. /\ SubSeq(q, m + 1, h) \in Seq(Batch)
      /\ Len(SubSeq(q, m + 1, h)) = IF m + 1 <= h THEN h - (m + 1) + 1 ELSE 0
      /\ \A i \in 1..(h - (m + 1) + 1) : SubSeq(q, m + 1, h)[i] = q[(m + 1) + i - 1]
  <2> HIDE DEF h
  <2> QED BY <1>1, <1>3, <1>6, SubSeqProperties
<1>8. Len(SubSeq(q, m + 1, h)) = h - m
  <2> HIDE DEF h
  <2> QED BY <1>1, <1>3, <1>7
<1>9. \A i \in 1..(h - m) : SubSeq(q, m + 1, h)[i] = q[m + i]
  <2> HIDE DEF h
  <2> QED BY <1>1, <1>3, <1>7
<1>10. m + (h - m) = h
  BY <1>1, <1>3
<1> QED BY <1>5, <1>7, <1>8, <1>9, <1>10

(* A filled pipeline is as much of the start of the queue as may be. *)
Front(p, q) == Within(p, q, 0) /\ Len(p) = Lesser(Len(q), MaxPending)

LEMMA FilledIs ==
  ASSUME NEW q \in Seq(Batch), Growing(q),
         NEW p \in Seq(Batch), Within(p, q, 0), Len(p) <= MaxPending
  PROVE  /\ p \o Fetched(q, p) \in Seq(Batch)
         /\ Front(p \o Fetched(q, p), q)
         /\ Len(p \o Fetched(q, p)) = Len(p) + Len(Fetched(q, p))
         /\ \A i \in 1..Len(p) : (p \o Fetched(q, p))[i] = p[i]
         /\ \A i \in 1..Len(Fetched(q, p)) :
              (p \o Fetched(q, p))[Len(p) + i] = Fetched(q, p)[i]
<1> DEFINE f == Fetched(q, p)
<1>1. /\ f \in Seq(Batch)
      /\ Len(p) + Len(f) = Lesser(Len(q), MaxPending)
      /\ \A i \in 1..Len(f) : f[i] = q[Len(p) + i]
  BY FetchedIs
<1> HIDE DEF f
<1>2. /\ p \o f \in Seq(Batch)
      /\ Len(p \o f) = Len(p) + Len(f)
      /\ \A i \in 1..Len(p) + Len(f) : (p \o f)[i] = IF i <= Len(p) THEN p[i] ELSE f[i - Len(p)]
  BY <1>1, ConcatProperties
<1>3. Len(p) \in Nat /\ Len(f) \in Nat /\ Len(q) \in Nat
  BY <1>1
<1>4. Len(p) + Len(f) <= Len(q)
  BY <1>1, <1>3, BoundsAssumption DEF Lesser
<1>5. \A i \in 1..Len(p) : (p \o f)[i] = p[i]
  BY <1>2, <1>3
<1>6. \A i \in 1..Len(f) : (p \o f)[Len(p) + i] = f[i]
  BY <1>2, <1>3
<1>7. Within(p \o f, q, 0)
  <2>1. ASSUME NEW i \in 1..Len(p \o f)
        PROVE  (p \o f)[i] = q[0 + i]
    <3>1. CASE i <= Len(p)
      BY <1>2, <1>3, <3>1 DEF Within
    <3>2. CASE i > Len(p)
      <4>1. i - Len(p) \in 1..Len(f) /\ Len(p) + (i - Len(p)) = i
        BY <1>2, <1>3, <3>2
      <4> QED BY <1>1, <1>2, <1>3, <3>2, <4>1
    <3> QED BY <1>2, <1>3, <3>1, <3>2
  <2> QED BY <1>2, <1>3, <1>4, <2>1 DEF Within
<1> QED BY <1>1, <1>2, <1>5, <1>6, <1>7 DEF Front, f

(* Taking the oldest batch out of a queue leaves its tail. *)
LEMMA WithoutHead ==
  ASSUME NEW q \in Seq(Batch), Growing(q), q # << >>
  PROVE  /\ Without(q, q[1]) = Tail(q)
         /\ Tail(q) \in Seq(Batch)
         /\ Len(q) \in Nat \ {0}
         /\ Len(Tail(q)) = Len(q) - 1
         /\ \A i \in 1..Len(Tail(q)) : Tail(q)[i] = q[i + 1]
         /\ Growing(Tail(q))
<1>1. Len(q) \in Nat \ {0}
  BY EmptySeq
<1>2. /\ Tail(q) \in Seq(Batch)
      /\ Len(Tail(q)) = Len(q) - 1
      /\ \A i \in 1..Len(Tail(q)) : Tail(q)[i] = q[i + 1]
  BY HeadTailProperties
<1>3. PlaceAfter(q, q[1].id - 1) = 1
  <2>1. q[1].id \in Nat \ {0}
    BY <1>1 DEF Growing
  <2>2. q[1].id - 1 \in Nat /\ q[1].id > q[1].id - 1
    BY <2>1
  <2>3. \A i \in 1..(1 - 1) : q[i].id <= q[1].id - 1
    OBVIOUS
  <2> QED BY <1>1, <2>2, <2>3, PlaceIs
<1>4. Without(q, q[1]) = SubSeq(q, 1, 0) \o SubSeq(q, 2, Len(q))
  BY <1>3 DEF Without
<1>5. SubSeq(q, 1, 0) = << >>
  BY SubSeqEmpty
<1>6. SubSeq(q, 2, Len(q)) = Tail(q)
  BY TailIsSubSeq
<1>7. << >> \o Tail(q) = Tail(q)
  BY <1>2, ConcatEmptySeq
<1>8. Growing(Tail(q))
  BY <1>1, <1>2 DEF Growing
<1> QED BY <1>1, <1>2, <1>4, <1>5, <1>6, <1>7, <1>8

-----------------------------------------------------------------------------
(* What the steps use of the invariant.                                    *)
LEMMA EffectType ==
  ASSUME NEW d \in Doc, NEW op \in Ops, NEW n \in Nat
  PROVE  Attempt(d, op, n) \in Doc /\ Effect(d, op, n) \in Doc
<1>1. CASE op = "set"
  BY <1>1 DEF Effect, Attempt, Doc
<1>2. CASE op = "update"
  BY <1>2 DEF Effect, Attempt, Doc
<1>3. CASE op = "like"
  BY <1>3 DEF Effect, Attempt, Doc
<1>4. CASE op = "delete"
  BY <1>4 DEF Effect, Attempt, Doc, Absent
<1> QED BY <1>1, <1>2, <1>3, <1>4, OpsAssumption

AllAscending == \A u \in User : Ascending(queue[u])

LEMMA QueueGrows ==
  ASSUME Paired, NEW u \in User
  PROVE  /\ queue[u] \in Seq(Batch)
         /\ Len(queue[u]) \in Nat
         /\ DOMAIN queue[u] = 1..Len(queue[u])
         /\ Growing(queue[u])
<1>1. queue[u] \in Seq(Batch)
  BY DEF Paired, TypeOK
<1>2. Len(queue[u]) \in Nat /\ DOMAIN queue[u] = 1..Len(queue[u])
  BY <1>1
<1>3. Growing(queue[u])
  <2>1. Ascending(queue[u]) /\ nextId \in Nat
    BY DEF Paired, TypeOK
  <2> QED BY <1>2, <2>1 DEF Ascending, Growing
<1> QED BY <1>1, <1>2, <1>3

LEMMA Known ==
  ASSUME Paired
  PROVE  /\ user \in User
         /\ pipeline \in Seq(Batch)
         /\ Len(pipeline) \in Nat
         /\ Within(pipeline, queue[user], 0)
         /\ Len(pipeline) <= MaxPending
         /\ Len(pipeline) <= Len(queue[user])
         /\ pipeline # << >> => /\ queue[user] # << >>
                                /\ Head(pipeline) = queue[user][1]
                                /\ pipeline[1] = queue[user][1]
                                /\ Head(pipeline) \in Batch
                                /\ Len(pipeline) > 0
         /\ queue[user] # << >> => pipeline # << >>
<1>1. user \in User /\ pipeline \in Seq(Batch) /\ Filled
  BY DEF Paired, TypeOK
<1>2. queue[user] \in Seq(Batch) /\ Len(queue[user]) \in Nat /\ Len(pipeline) \in Nat
  BY <1>1, QueueGrows
<1>3. /\ Within(pipeline, queue[user], 0)
      /\ Len(pipeline) = Lesser(Len(queue[user]), MaxPending)
  BY <1>1 DEF Filled
<1>4. Len(pipeline) <= MaxPending /\ Len(pipeline) <= Len(queue[user])
  BY <1>2, <1>3, BoundsAssumption DEF Lesser
<1>5. ASSUME pipeline # << >>
      PROVE  /\ queue[user] # << >>
             /\ Head(pipeline) = queue[user][1]
             /\ pipeline[1] = queue[user][1]
             /\ Head(pipeline) \in Batch
             /\ Len(pipeline) > 0
  <2>1. Len(pipeline) > 0
    BY <1>1, <1>5, EmptySeq
  <2>2. pipeline[1] = queue[user][1]
    BY <1>2, <1>3, <2>1 DEF Within
  <2>3. queue[user] # << >>
    BY <1>2, <1>4, <2>1
  <2>4. Head(pipeline) = pipeline[1]
    OBVIOUS
  <2>5. Head(pipeline) \in Batch
    BY <1>1, <1>5, HeadTailProperties
  <2> QED BY <2>1, <2>2, <2>3, <2>4, <2>5
<1>6. ASSUME queue[user] # << >> PROVE pipeline # << >>
  <2>1. Len(queue[user]) > 0
    BY <1>2, <1>6, EmptySeq
  <2>2. Len(pipeline) > 0
    BY <1>2, <1>3, <2>1, BoundsAssumption DEF Lesser
  <2> QED BY <2>2
<1> QED BY <1>1, <1>2, <1>3, <1>4, <1>5, <1>6

(* What FillWritePipeline adds to the pipeline and sends keeps the two in  *)
(* step.                                                                   *)
LEMMA Filling ==
  ASSUME NEW q \in Seq(Batch), Growing(q),
         NEW p \in Seq(Batch), Within(p, q, 0), Len(p) <= MaxPending,
         NEW sent \in Seq(Batch)
  PROVE  /\ sent \o Fetched(q, p) \in Seq(Batch)
         /\ \A d \in Nat :
              Within(sent, p, d) /\ Len(sent) + d = Len(p)
              => /\ Within(sent \o Fetched(q, p), p \o Fetched(q, p), d)
                 /\ Len(sent \o Fetched(q, p)) + d = Len(p \o Fetched(q, p))
<1> DEFINE f == Fetched(q, p)
           r == p \o f
           u == sent \o f
<1>1. f \in Seq(Batch)
  BY FetchedIs
<1>2. /\ r \in Seq(Batch)
      /\ Len(r) = Len(p) + Len(f)
      /\ \A i \in 1..Len(p) : r[i] = p[i]
      /\ \A i \in 1..Len(f) : r[Len(p) + i] = f[i]
  BY FilledIs
<1> HIDE DEF f, r
<1>4. Len(p) \in Nat /\ Len(f) \in Nat /\ Len(sent) \in Nat
  BY <1>1
<1>5. /\ u \in Seq(Batch)
      /\ Len(u) = Len(sent) + Len(f)
      /\ \A i \in 1..Len(sent) + Len(f) :
           u[i] = IF i <= Len(sent) THEN sent[i] ELSE f[i - Len(sent)]
  BY <1>1, ConcatProperties
<1> HIDE DEF u
<1>7. ASSUME NEW d \in Nat, Within(sent, p, d), Len(sent) + d = Len(p)
      PROVE  Within(u, r, d) /\ Len(u) + d = Len(r)
  <2>0. Len(u) = Len(sent) + Len(f) /\ Len(r) = Len(p) + Len(f) /\ Len(sent) + d = Len(p)
    BY <1>2, <1>5, <1>7
  <2>1. Len(u) + d = Len(r) /\ Len(u) \in Nat /\ Len(r) \in Nat
    BY ONLY <1>4, <2>0, d \in Nat, SMTT(30)
  <2>2. ASSUME NEW i \in 1..Len(u)
        PROVE  u[i] = r[d + i]
    <3>1. CASE i <= Len(sent)
      <4>1. i \in 1..Len(sent) /\ d + i \in 1..Len(p)
        BY <1>4, <1>7, <3>1
      <4>2. u[i] = sent[i]
        BY <1>4, <1>5, <3>1, <4>1
      <4>3. sent[i] = p[d + i]
        BY <1>7, <4>1 DEF Within
      <4>4. r[d + i] = p[d + i]
        BY <1>2, <4>1
      <4> QED BY <4>2, <4>3, <4>4
    <3>2. CASE i > Len(sent)
      <4>1. i - Len(sent) \in 1..Len(f) /\ d + i = Len(p) + (i - Len(sent))
        <5>1. i \in 1..(Len(sent) + Len(f))
          BY <2>0
        <5>2. Len(sent) + d = Len(p)
          BY <1>7
        <5>3. ASSUME NEW a \in Nat, NEW b \in Nat, NEW c \in Nat, a + d = c,
                     NEW k \in 1..(a + b), k > a
              PROVE  k - a \in 1..b /\ d + k = c + (k - a)
          BY <1>7, <5>3
        <5> QED BY <1>4, <3>2, <5>1, <5>2, <5>3
      <4>2. u[i] = f[i - Len(sent)]
        BY <1>4, <1>5, <3>2
      <4>3. r[Len(p) + (i - Len(sent))] = f[i - Len(sent)]
        BY <1>2, <4>1
      <4> QED BY <4>1, <4>2, <4>3
    <3> QED BY <1>4, <2>1, <3>1, <3>2
  <2> QED BY <2>1, <2>2 DEF Within
<1> QED BY <1>5, <1>7 DEF u, r, f

-----------------------------------------------------------------------------
(* The inductive invariant.                                                *)
LEMMA Start ==
  ASSUME Init
  PROVE  Paired
<1> USE DEF Init
<1>1. \A u \in User : queue[u] = << >>
  OBVIOUS
<1>2. TypeOK
  <2>1. [u \in User |-> << >>] \in [User -> Seq(Batch)]
    OBVIOUS
  <2>2. Absent \in Doc
    BY DEF Absent, Doc
  <2>3. [u \in User |-> Absent] \in [User -> Doc]
    BY <2>2
  <2> HIDE DEF Init
  <2>4. /\ user \in User /\ queue \in [User -> Seq(Batch)]
        /\ saved \in [User -> {"none", "given"}]
        /\ docs \in [User -> Doc] /\ wanted \in [User -> Doc]
    BY <2>1, <2>3 DEF Init
  <2>5. /\ pipeline \in Seq(Batch) /\ up \in Seq(Batch) /\ down \in Seq(Batch)
        /\ told \in Seq([n: Nat, ok: BOOLEAN])
    BY DEF Init
  <2>6. /\ nextId \in Nat \ {0} /\ count \in Nat /\ faults \in Nat
        /\ callbacks \subseteq [user: User, id: Nat, n: Nat]
        /\ reached \subseteq Nat /\ applied \subseteq Nat
        /\ stream \in {"initial", "starting", "open", "error", "backoff"}
        /\ shake \in {"no", "asked", "answered", "complete"}
        /\ token \in {"none", "given"}
    BY DEF Init
  <2>7. idle \in BOOLEAN /\ ended \in BOOLEAN
    BY DEF Init
  <2> QED BY <2>4, <2>5, <2>6, <2>7 DEF TypeOK
<1>3. \A u \in User : Ascending(queue[u])
  BY <1>1 DEF Ascending
<1>4. Filled
  <2>1. queue[user] = << >> /\ pipeline = << >> /\ Len(pipeline) = 0
    BY <1>1
  <2>2. Within(pipeline, queue[user], 0)
    BY <2>1 DEF Within
  <2>3. Lesser(Len(queue[user]), MaxPending) = 0
    BY <2>1, BoundsAssumption DEF Lesser
  <2> QED BY <2>1, <2>2, <2>3 DEF Filled
<1>5. Awaited
  BY DEF Awaited
<1>6. Matched /\ Coherent /\ Answered
  <2>1. token = saved[user]
    OBVIOUS
  <2> QED BY <2>1 DEF Matched, Coherent, Answered, IsStarted
<1> QED BY <1>2, <1>3, <1>4, <1>5, <1>6 DEF Paired

(* On a call whose handshake is complete: results, refusal and requests.   *)
LEMMA OnCall ==
  ASSUME Paired, shake = "complete"
  PROVE  /\ Gone \in Nat /\ Len(down) \in Nat /\ Len(up) \in Nat
         /\ stream = "open"
         /\ Within(down, pipeline, 0)
         /\ Within(up, pipeline, Gone)
         /\ Len(up) + Gone = Len(pipeline)
         /\ ended => Gone = Len(down) + 1 /\ Len(down) + 1 <= Len(pipeline)
         /\ ~ended => Gone = Len(down)
<1>1. /\ down \in Seq(Batch) /\ up \in Seq(Batch) /\ pipeline \in Seq(Batch)
      /\ Matched /\ Coherent
  BY DEF Paired, TypeOK
<1>2. Len(down) \in Nat /\ Len(up) \in Nat /\ Len(pipeline) \in Nat
  BY <1>1
<1>3. Gone \in Nat /\ (ended => Gone = Len(down) + 1) /\ (~ended => Gone = Len(down))
  BY <1>2 DEF Gone
<1>4. /\ Within(down, pipeline, 0) /\ Within(up, pipeline, Gone)
      /\ Gone + Len(up) = Len(pipeline)
  BY <1>1 DEF Matched, Gone
<1>5. stream = "open"
  BY <1>1 DEF Coherent
<1> QED BY <1>2, <1>3, <1>4, <1>5

LEMMA OffCall ==
  ASSUME Paired, shake # "complete"
  PROVE  up = << >> /\ down = << >> /\ ~ended
BY DEF Paired, Coherent

(* What does not depend on the call.                                       *)
LEMMA QueuesFramed ==
  ASSUME Paired, UNCHANGED <<user, queue, nextId, callbacks, pipeline, count>>
  PROVE  AllAscending' /\ Filled' /\ Awaited'
<1>1. AllAscending /\ Filled /\ Awaited
  BY DEF Paired, AllAscending
<1>2. AllAscending'
  BY <1>1 DEF AllAscending, Ascending
<1>3. Filled'
  BY <1>1 DEF Filled, Within
<1>4. Awaited'
  BY <1>1 DEF Awaited
<1> QED BY <1>2, <1>3, <1>4

LEMMA ResumeStep ==
  ASSUME Paired, ResumeStartWithCredentials
  PROVE  Paired'
<1>1. /\ stream = "starting" /\ stream' = "open" /\ shake' = "asked" /\ idle' = FALSE
      /\ UNCHANGED <<user, durable, session, pipeline, token, up, down, ended,
                     server, count, wanted, told, faults>>
  BY DEF ResumeStartWithCredentials
<1>2. AllAscending' /\ Filled' /\ Awaited'
  BY <1>1, QueuesFramed DEF durable, session
<1>3. Coherent
  BY DEF Paired
<1>4. shake = "no" /\ pipeline # << >>
  BY <1>1, <1>3 DEF Coherent
<1>5. up' = << >> /\ down' = << >> /\ ~ended'
  BY <1>1, <1>4, OffCall
<1>6. TypeOK'
  BY <1>1 DEF Paired, TypeOK, durable, session, server
<1>7. Matched'
  BY <1>1 DEF Matched
<1>8. Coherent'
  BY <1>1, <1>3, <1>4, <1>5 DEF Coherent, IsStarted, durable
<1>9. Answered'
  BY <1>1, <1>5 DEF Paired, Answered, server
<1> QED BY <1>2, <1>6, <1>7, <1>8, <1>9 DEF Paired, AllAscending

LEMMA BackoffStep ==
  ASSUME Paired, BackoffElapsed
  PROVE  Paired'
<1>1. /\ stream = "backoff" /\ stream' = "starting"
      /\ UNCHANGED <<user, durable, session, pipeline, token, idle, call,
                     server, count, wanted, told, faults>>
  BY DEF BackoffElapsed
<1>2. AllAscending' /\ Filled' /\ Awaited'
  BY <1>1, QueuesFramed DEF durable, session
<1>3. Coherent
  BY DEF Paired
<1>4. shake = "no"
  BY <1>1, <1>3 DEF Coherent
<1>5. TypeOK'
  BY <1>1 DEF Paired, TypeOK, durable, session, server, call
<1>6. Matched'
  BY <1>1, <1>4 DEF Matched, call
<1>7. Coherent'
  BY <1>1, <1>3, <1>4 DEF Coherent, IsStarted, durable, call
<1>8. Answered'
  BY <1>1, <1>4, OffCall DEF Paired, Answered, server, call
<1> QED BY <1>2, <1>5, <1>6, <1>7, <1>8 DEF Paired, AllAscending

LEMMA AnswerHandshakeStep ==
  ASSUME Paired, AnswerHandshake
  PROVE  Paired'
<1>1. /\ stream = "open" /\ shake = "asked" /\ shake' = "answered"
      /\ UNCHANGED <<user, durable, session, pipeline, stream, token, idle, up,
                     down, ended, server, count, wanted, told, faults>>
  BY DEF AnswerHandshake, Serving
<1>2. AllAscending' /\ Filled' /\ Awaited'
  BY <1>1, QueuesFramed DEF durable, session
<1>3. Coherent
  BY DEF Paired
<1>5. TypeOK'
  BY <1>1 DEF Paired, TypeOK, durable, session, server
<1>6. Matched'
  BY <1>1 DEF Matched
<1>7. Coherent'
  BY <1>1, <1>3 DEF Coherent, IsStarted, durable
<1>8. Answered'
  BY <1>1, OffCall DEF Paired, Answered, server
<1> QED BY <1>2, <1>5, <1>6, <1>7, <1>8 DEF Paired, AllAscending

LEMMA OnHandshakeStep ==
  ASSUME Paired, OnHandshakeResponse
  PROVE  Paired'
<1>1. /\ stream = "open" /\ shake = "answered" /\ shake' = "complete"
      /\ token' = "given"
      /\ saved' = [saved EXCEPT ![user] = "given"]
      /\ up' = pipeline
      /\ idle' = IF pipeline = << >> THEN idle ELSE FALSE
      /\ UNCHANGED <<user, queue, session, pipeline, stream, down, ended,
                     server, count, wanted, told, faults>>
  BY DEF OnHandshakeResponse
<1>2. AllAscending' /\ Filled' /\ Awaited'
  BY <1>1, QueuesFramed DEF session
<1>3. Coherent /\ user \in User /\ saved \in [User -> {"none", "given"}]
      /\ pipeline \in Seq(Batch)
  BY DEF Paired, TypeOK
<1>4. pipeline # << >> /\ idle' = FALSE /\ pipeline' # << >>
  BY <1>1, <1>3 DEF Coherent
<1>5. down' = << >> /\ ~ended'
  BY <1>1, OffCall
<1>6. TypeOK'
  <2>1. saved' \in [User -> {"none", "given"}]
    BY <1>1, <1>3
  <2>2. idle' \in BOOLEAN
    BY <1>4
  <2> QED BY <1>1, <1>3, <2>1, <2>2 DEF Paired, TypeOK, session, server
<1>7. Matched'
  <2>1. Within(down', pipeline', 0)
    BY <1>1, <1>3, <1>5 DEF Within
  <2>2. Within(up', pipeline', 0)
    BY <1>1, <1>3 DEF Within
  <2>3. Len(down') + (IF ended' THEN 1 ELSE 0) = 0
    BY <1>5
  <2>4. Len(up') = Len(pipeline') /\ Len(up') \in Nat
    BY <1>1, <1>3
  <2> QED BY <2>1, <2>2, <2>3, <2>4 DEF Matched
<1>8. Coherent'
  <2>1. saved'[user'] = "given" /\ token' = "given"
    BY <1>1, <1>3
  <2> QED BY <1>1, <1>3, <1>4, <1>5, <2>1 DEF Coherent, IsStarted
<1>9. Answered'
  BY <1>1, <1>5 DEF Paired, Answered, server
<1> QED BY <1>2, <1>6, <1>7, <1>8, <1>9 DEF Paired, AllAscending

LEMMA AnswerBatchStep ==
  ASSUME Paired, AnswerBatch
  PROVE  Paired'
<1> DEFINE b == Head(up)
<1>1. /\ stream = "open" /\ ~ended /\ up # << >>
      /\ up' = Tail(up)
      /\ reached' = reached \cup {b.n}
      /\ UNCHANGED <<user, durable, session, pipeline, stream, shake, token, idle,
                     count, wanted, told, faults>>
  BY DEF AnswerBatch, Serving
<1>2. \/ /\ docs' = [docs EXCEPT ![user] = Effect(@, b.op, b.n)]
         /\ applied' = applied \cup {b.n}
         /\ down' = Append(down, b)
         /\ ended' = ended
      \/ ended' = TRUE /\ UNCHANGED <<docs, applied, down>>
  BY DEF AnswerBatch
<1>3. AllAscending' /\ Filled' /\ Awaited'
  BY <1>1, QueuesFramed DEF durable, session
<1>4. shake = "complete"
  BY <1>1, OffCall
<1>5. /\ Len(down) \in Nat /\ Len(up) \in Nat
      /\ Within(down, pipeline, 0)
      /\ Within(up, pipeline, Len(down))
      /\ Len(up) + Len(down) = Len(pipeline)
  BY <1>1, <1>4, OnCall
<1>6. /\ up \in Seq(Batch) /\ down \in Seq(Batch) /\ pipeline \in Seq(Batch)
      /\ user \in User /\ docs \in [User -> Doc]
  BY DEF Paired, TypeOK
<1>7. /\ Tail(up) \in Seq(Batch) /\ Len(up) >= 1 /\ Len(Tail(up)) = Len(up) - 1
      /\ \A i \in 1..Len(Tail(up)) : Tail(up)[i] = up[i + 1]
      /\ b \in Batch /\ b = up[1]
  BY <1>1, <1>6, HeadTailProperties, EmptySeq
<1>8. b = pipeline[Len(down) + 1]
  BY <1>5, <1>7 DEF Within
<1>9. b.n \in Nat /\ b.op \in Ops
  BY <1>7 DEF Batch
<1>10. /\ Append(down, b) \in Seq(Batch)
       /\ Len(Append(down, b)) = Len(down) + 1
       /\ \A i \in 1..Len(down) : Append(down, b)[i] = down[i]
       /\ Append(down, b)[Len(down) + 1] = b
  BY <1>6, <1>7, AppendProperties
<1> HIDE DEF b
<1>11. TypeOK'
  <2>1. docs' \in [User -> Doc]
    <3>1. Effect(docs[user], b.op, b.n) \in Doc
      BY <1>6, <1>9, EffectType
    <3> QED BY <1>2, <1>6, <3>1
  <2>2. reached' \subseteq Nat /\ applied' \subseteq Nat
    BY <1>1, <1>2, <1>9 DEF Paired, TypeOK
  <2>3. up' \in Seq(Batch) /\ down' \in Seq(Batch)
    BY <1>1, <1>2, <1>6, <1>7, <1>10
  <2>4. ended' \in BOOLEAN
    BY <1>2 DEF Paired, TypeOK
  <2> QED BY <1>1, <2>1, <2>2, <2>3, <2>4 DEF Paired, TypeOK, durable, session
<1>12. Within(Tail(up), pipeline, Len(down) + 1)
  BY <1>5, <1>6, <1>7 DEF Within
<1>13. Len(Tail(up)) + (Len(down) + 1) = Len(pipeline) /\ Len(down) + 1 <= Len(pipeline)
  BY <1>5, <1>7
<1>14. Matched'
  <2>1. CASE down' = Append(down, b) /\ ~ended'
    <3>1. Within(Append(down, b), pipeline, 0)
      BY <1>5, <1>6, <1>8, <1>10, <1>13 DEF Within
    <3> QED BY <1>1, <1>5, <1>10, <1>12, <1>13, <2>1, <3>1 DEF Matched
  <2>2. CASE ended' /\ down' = down
    BY <1>1, <1>5, <1>12, <1>13, <2>2 DEF Matched
  <2> QED BY <1>1, <1>2, <2>1, <2>2
<1>15. Coherent'
  BY <1>1, <1>4 DEF Paired, Coherent, IsStarted, durable
<1>16. Answered'
  <2>0. /\ \A i \in 1..Len(down) : down[i].n \in applied
        /\ applied \subseteq reached
    BY <1>6 DEF Paired, Answered
  <2>1. CASE down' = Append(down, b) /\ ~ended' /\ applied' = applied \cup {b.n}
    <3>1. \A i \in 1..Len(down') : down'[i].n \in applied'
      <4> TAKE i \in 1..Len(down')
      <4>1. CASE i \in 1..Len(down)
        BY <1>10, <2>0, <2>1, <4>1
      <4>2. CASE i = Len(down) + 1
        BY <1>10, <2>1, <4>2
      <4> QED BY <1>5, <1>10, <2>1, <4>1, <4>2
    <3>2. DOMAIN down' = 1..Len(down')
      BY <1>10, <2>1
    <3> QED BY <1>1, <2>0, <2>1, <3>1, <3>2 DEF Answered
  <2>2. CASE ended' /\ down' = down /\ applied' = applied
    <3>1. pipeline'[Len(down') + 1].n \in reached'
      BY <1>1, <1>8, <2>2
    <3>2. DOMAIN down' = 1..Len(down)
      BY <1>6, <2>2
    <3> QED BY <1>1, <2>0, <2>2, <3>1, <3>2 DEF Answered
  <2> QED BY <1>1, <1>2, <2>1, <2>2
<1> QED BY <1>3, <1>11, <1>14, <1>15, <1>16 DEF Paired, AllAscending

LEMMA WriteStep ==
  ASSUME Paired, NEW op \in Ops, WriteMutations(op)
  PROVE  Paired'
<1> DEFINE b == [id |-> nextId, n |-> count + 1, op |-> op]
           c == [user |-> user, id |-> b.id, n |-> b.n]
           q == Append(queue[user], b)
<1>1. /\ count' = count + 1
      /\ queue' = [queue EXCEPT ![user] = q]
      /\ callbacks' = callbacks \cup {c}
      /\ wanted' = [wanted EXCEPT ![user] = Attempt(@, op, b.n)]
      /\ nextId' = nextId + 1
      /\ FillWritePipeline(queue'[user], pipeline, stream, shake, up)
      /\ UNCHANGED <<user, saved, token, shake, down, ended, server, told, faults>>
  BY DEF WriteMutations
<1>2. /\ user \in User /\ queue \in [User -> Seq(Batch)]
      /\ nextId \in Nat \ {0} /\ count \in Nat
      /\ pipeline \in Seq(Batch) /\ up \in Seq(Batch) /\ down \in Seq(Batch)
      /\ callbacks \subseteq [user: User, id: Nat, n: Nat]
      /\ wanted \in [User -> Doc]
      /\ AllAscending /\ Coherent /\ Awaited /\ Matched /\ Answered
  BY DEF Paired, TypeOK, AllAscending
<1>3. /\ b \in Batch /\ b.id = nextId /\ b.n = count + 1
      /\ c \in [user: User, id: Nat, n: Nat]
      /\ c.user = user /\ c.id = nextId /\ c.n = count + 1
  BY <1>2 DEF Batch
<1> HIDE DEF b, c
<1>4. /\ q \in Seq(Batch) /\ q # << >>
      /\ Len(queue[user]) \in Nat
      /\ Len(q) = Len(queue[user]) + 1
      /\ \A i \in 1..Len(queue[user]) : q[i] = queue[user][i]
      /\ q[Len(q)] = b
  BY <1>2, <1>3, AppendProperties
<1> HIDE DEF q
<1>5. queue'[user] = q /\ \A u \in User \ {user} : queue'[u] = queue[u]
  BY <1>1, <1>2
<1>50. /\ \A i \in 1..Len(queue[user]) :
            queue[user][i].id \in 1..(nextId - 1) /\ queue[user][i].n \in 1..count
       /\ \A i, j \in 1..Len(queue[user]) : i < j =>
            queue[user][i].id < queue[user][j].id /\ queue[user][i].n < queue[user][j].n
  <2>1. Ascending(queue[user]) /\ DOMAIN queue[user] = 1..Len(queue[user])
    BY <1>2 DEF AllAscending
  <2> QED BY <2>1 DEF Ascending
<1>51. \A i \in 1..Len(q) : q[i].id \in 1..(nextId' - 1) /\ q[i].n \in 1..count'
  <2> TAKE i \in 1..Len(q)
  <2>1. CASE i \in 1..Len(queue[user])
    <3>1. q[i].id \in 1..(nextId - 1) /\ q[i].n \in 1..count
      BY <1>4, <1>50, <2>1
    <3> QED BY <1>1, <1>2, <3>1
  <2>2. CASE i = Len(q)
    <3>1. q[i].id = nextId /\ q[i].n = count + 1
      BY <1>3, <1>4, <2>2
    <3> QED BY <1>1, <1>2, <3>1
  <2> QED BY <1>4, <2>1, <2>2
<1>52. \A i, j \in 1..Len(q) : i < j => q[i].id < q[j].id /\ q[i].n < q[j].n
  <2> SUFFICES ASSUME NEW i \in 1..Len(q), NEW j \in 1..Len(q), i < j
               PROVE  q[i].id < q[j].id /\ q[i].n < q[j].n
    OBVIOUS
  <2>0. i \in 1..Len(queue[user])
    BY <1>4
  <2>1. CASE j \in 1..Len(queue[user])
    BY <1>4, <1>50, <2>0, <2>1
  <2>2. CASE j = Len(q)
    <3>1. q[i].id \in 1..(nextId - 1) /\ q[i].n \in 1..count
      BY <1>4, <1>50, <2>0
    <3> QED BY <1>2, <1>3, <1>4, <2>2, <3>1
  <2> QED BY <1>4, <2>1, <2>2
<1>6. AllAscending'
  <2>1. ASSUME NEW u \in User, u # user PROVE Ascending(queue[u])'
    BY <1>1, <1>2, <1>5, <2>1 DEF AllAscending, Ascending
  <2>2. Ascending(queue[user])'
    <3>1. queue'[user'] = q /\ DOMAIN q = 1..Len(q)
      BY <1>1, <1>4, <1>5
    <3> QED BY <1>51, <1>52, <3>1 DEF Ascending
  <2> QED BY <1>1, <2>1, <2>2 DEF AllAscending
<1>7. Growing(q)
  BY <1>1, <1>2, <1>51, <1>52 DEF Growing
<1>8. Within(pipeline, q, 0) /\ Len(pipeline) <= MaxPending /\ Len(pipeline) \in Nat
  BY <1>4, Known DEF Within
<1>9. /\ pipeline' \in Seq(Batch)
      /\ Front(pipeline', q)
      /\ Len(pipeline) <= Len(pipeline')
      /\ \A i \in 1..Len(pipeline) : pipeline'[i] = pipeline[i]
      /\ stream' = IF ~IsStarted(stream) /\ pipeline' # << >> THEN Started(stream) ELSE stream
      /\ up' \in Seq(Batch)
      /\ ~(stream = "open" /\ shake = "complete") => up' = up
      /\ \A d \in Nat :
           /\ stream = "open" /\ shake = "complete"
           /\ Within(up, pipeline, d) /\ Len(up) + d = Len(pipeline)
           => Within(up', pipeline', d) /\ Len(up') + d = Len(pipeline')
      /\ pipeline' # << >> /\ pipeline = << >> /\ stream = "open" /\ shake = "complete" => ~idle'
      /\ pipeline' # << >> => idle' = FALSE \/ idle' = idle
  <2> DEFINE f == Fetched(q, pipeline)
  <2>1. FillWritePipeline(q, pipeline, stream, shake, up)
    BY <1>1, <1>5
  <2>2. /\ pipeline' = pipeline \o f
        /\ stream' = IF ~IsStarted(stream) /\ pipeline' # << >> THEN Started(stream) ELSE stream
        /\ up' = IF stream = "open" /\ shake = "complete" THEN up \o f ELSE up
        /\ idle' = IF pipeline' = << >> THEN stream = "open"
                   ELSE IF (stream = "open" /\ shake = "complete") /\ f # << >> THEN FALSE ELSE idle
    BY <2>1 DEF FillWritePipeline
  <2>20. /\ q \in Seq(Batch) /\ pipeline \in Seq(Batch) /\ up \in Seq(Batch)
         /\ Growing(q) /\ Within(pipeline, q, 0) /\ Len(pipeline) <= MaxPending
    BY <1>2, <1>4, <1>7, <1>8
  <2>21. /\ pipeline \o f \in Seq(Batch)
         /\ Front(pipeline \o f, q)
         /\ Len(pipeline \o f) = Len(pipeline) + Len(f)
         /\ f \in Seq(Batch)
         /\ \A i \in 1..Len(pipeline) : (pipeline \o f)[i] = pipeline[i]
    BY <2>20, FilledIs, FetchedIs
  <2>22. /\ up \o f \in Seq(Batch)
         /\ \A d \in Nat :
              Within(up, pipeline, d) /\ Len(up) + d = Len(pipeline)
              => /\ Within(up \o f, pipeline \o f, d)
                 /\ Len(up \o f) + d = Len(pipeline \o f)
    BY <2>20, Filling
  <2> HIDE DEF f
  <2>3. /\ pipeline' \in Seq(Batch)
        /\ Front(pipeline', q)
        /\ Len(pipeline) <= Len(pipeline')
        /\ \A i \in 1..Len(pipeline) : pipeline'[i] = pipeline[i]
        /\ pipeline' # << >> /\ pipeline = << >> => f # << >>
    <3>1. Len(f) \in Nat
      BY <2>21
    <3> QED BY <1>8, <2>2, <2>21, <3>1, EmptySeq
  <2>30. /\ up' \in Seq(Batch)
         /\ ~(stream = "open" /\ shake = "complete") => up' = up
         /\ \A d \in Nat :
              /\ stream = "open" /\ shake = "complete"
              /\ Within(up, pipeline, d) /\ Len(up) + d = Len(pipeline)
              => Within(up', pipeline', d) /\ Len(up') + d = Len(pipeline')
    BY <1>2, <2>2, <2>22
  <2>4. /\ pipeline' # << >> /\ pipeline = << >> /\ stream = "open" /\ shake = "complete" => ~idle'
        /\ pipeline' # << >> => idle' = FALSE \/ idle' = idle
    BY <2>2, <2>3
  <2> QED BY <2>2, <2>3, <2>30, <2>4
<1>10. pipeline' # << >>
  <2>1. Len(pipeline') >= 1
    BY <1>4, <1>9, BoundsAssumption DEF Front, Lesser
  <2> QED BY <2>1
<1>11. TypeOK'
  <2>1. Attempt(wanted[user], op, b.n) \in Doc
    BY <1>2, <1>3, EffectType
  <2>2. wanted' \in [User -> Doc]
    BY <1>1, <1>2, <2>1
  <2>3. queue' \in [User -> Seq(Batch)]
    BY <1>1, <1>2, <1>4
  <2>4. stream' \in {"initial", "starting", "open", "error", "backoff"}
    BY <1>9 DEF Paired, TypeOK, Started
  <2>5. idle' \in BOOLEAN
    BY <1>9, <1>10 DEF Paired, TypeOK
  <2>6. callbacks' \subseteq [user: User, id: Nat, n: Nat]
    BY <1>1, <1>2, <1>3
  <2>7. nextId' \in Nat \ {0} /\ count' \in Nat
    BY <1>1, <1>2
  <2> QED BY <1>1, <1>9, <2>2, <2>3, <2>4, <2>5, <2>6, <2>7 DEF Paired, TypeOK, server
<1>12. Filled'
  BY <1>1, <1>5, <1>9 DEF Filled, Front
<1>13. Awaited'
  <2>1. \A u \in User : DOMAIN queue'[u] = 1..Len(queue'[u])
    BY <1>11 DEF TypeOK
  <2>2. ASSUME NEW k \in callbacks
        PROVE  \E i \in DOMAIN queue'[k.user] :
                 queue'[k.user][i].id = k.id /\ queue'[k.user][i].n = k.n
    <3>1. PICK i \in DOMAIN queue[k.user] :
                 queue[k.user][i].id = k.id /\ queue[k.user][i].n = k.n
      BY <1>2 DEF Awaited
    <3>2. k.user \in User
      BY <1>2
    <3>3. CASE k.user = user
      <4>1. i \in 1..Len(queue[user]) /\ i \in 1..Len(q) /\ q[i] = queue[user][i]
        BY <1>2, <1>4, <3>1, <3>3
      <4> QED BY <1>5, <2>1, <3>1, <3>2, <3>3, <4>1
    <3>4. CASE k.user # user
      BY <1>5, <3>1, <3>2, <3>4
    <3> QED BY <3>3, <3>4
  <2>3. \E i \in DOMAIN queue'[c.user] :
          queue'[c.user][i].id = c.id /\ queue'[c.user][i].n = c.n
    <3>1. Len(q) \in DOMAIN queue'[user]
      BY <1>2, <1>4, <1>5, <2>1
    <3> QED BY <1>3, <1>4, <1>5, <3>1
  <2> QED BY <1>1, <2>2, <2>3 DEF Awaited
<1>14. Matched'
  <2> SUFFICES ASSUME shake = "complete" PROVE Matched'
    BY <1>1 DEF Matched
  <2>1. /\ Gone \in Nat /\ stream = "open"
        /\ Within(down, pipeline, 0) /\ Within(up, pipeline, Gone)
        /\ Len(up) + Gone = Len(pipeline) /\ Len(down) \in Nat
    BY OnCall
  <2>2. Within(up', pipeline', Gone) /\ Len(up') + Gone = Len(pipeline')
    BY <1>9, <2>1
  <2>3. Within(down', pipeline', 0)
    BY <1>1, <1>8, <1>9, <2>1 DEF Within
  <2>4. Len(up') \in Nat
    BY <1>9
  <2> QED BY <1>1, <2>1, <2>2, <2>3, <2>4 DEF Matched, Gone
<1>15. Coherent'
  <2>1. idle' = FALSE
    <3>1. CASE pipeline = << >> /\ shake = "complete"
      BY <1>2, <1>9, <1>10, <1>11, <3>1 DEF Coherent, TypeOK
    <3>2. CASE ~(pipeline = << >> /\ shake = "complete")
      BY <1>2, <1>9, <1>10, <1>11, <3>2 DEF Coherent, TypeOK
    <3> QED BY <3>1, <3>2
  <2>2. stream' = "open" <=> shake' # "no"
    BY <1>1, <1>2, <1>9, <1>10 DEF Coherent, IsStarted, Started
  <2>3. IsStarted(stream')
    BY <1>9, <1>10 DEF IsStarted, Started
  <2>4. shake # "complete" => up' = << >> /\ down' = << >> /\ ~ended'
    BY <1>1, <1>2, <1>9 DEF Coherent
  <2> QED BY <1>1, <1>2, <1>10, <2>1, <2>2, <2>3, <2>4 DEF Coherent
<1>16. Answered'
  <2>1. ended => pipeline'[Len(down) + 1] = pipeline[Len(down) + 1]
    <3> SUFFICES ASSUME ended PROVE Len(down) + 1 \in 1..Len(pipeline)
      BY <1>9
    <3>1. shake = "complete"
      BY OffCall
    <3> QED BY <1>8, <3>1, OnCall
  <2> QED BY <1>1, <1>2, <2>1 DEF Answered, server
<1> QED BY <1>6, <1>11, <1>12, <1>13, <1>14, <1>15, <1>16 DEF Paired, AllAscending

(* The oldest batch leaves the queue, and whoever waited for it is told.   *)
LEMMA Dropping ==
  ASSUME Paired, pipeline # << >>,
         queue' = [queue EXCEPT ![user] = Without(@, Head(pipeline))],
         callbacks' = callbacks \ Mine(Head(pipeline)),
         UNCHANGED <<user, nextId, count>>
  PROVE  /\ AllAscending' /\ Awaited'
         /\ queue' \in [User -> Seq(Batch)]
         /\ callbacks' \subseteq [user: User, id: Nat, n: Nat]
         /\ queue'[user] = Tail(queue[user])
         /\ Tail(queue[user]) \in Seq(Batch) /\ Growing(Tail(queue[user]))
         /\ Tail(pipeline) \in Seq(Batch)
         /\ Len(Tail(pipeline)) = Len(pipeline) - 1
         /\ \A i \in 1..Len(Tail(pipeline)) : Tail(pipeline)[i] = pipeline[i + 1]
         /\ Within(Tail(pipeline), Tail(queue[user]), 0)
         /\ Len(Tail(pipeline)) <= MaxPending
<1> DEFINE q == Tail(queue[user])
           p == Tail(pipeline)
<1>1. /\ user \in User /\ queue \in [User -> Seq(Batch)]
      /\ nextId \in Nat \ {0} /\ count \in Nat
      /\ pipeline \in Seq(Batch)
      /\ callbacks \subseteq [user: User, id: Nat, n: Nat]
      /\ AllAscending /\ Awaited
  BY DEF Paired, TypeOK, AllAscending
<1>2. /\ queue[user] # << >> /\ Head(pipeline) = queue[user][1]
      /\ Within(pipeline, queue[user], 0)
      /\ Len(pipeline) <= MaxPending
      /\ Len(pipeline) \in Nat /\ Len(pipeline) > 0
      /\ queue[user] \in Seq(Batch) /\ Growing(queue[user])
      /\ DOMAIN queue[user] = 1..Len(queue[user])
  BY <1>1, Known, QueueGrows
<1>3. /\ Without(queue[user], queue[user][1]) = q
      /\ q \in Seq(Batch)
      /\ Len(queue[user]) \in Nat \ {0}
      /\ Len(q) = Len(queue[user]) - 1
      /\ \A i \in 1..Len(q) : q[i] = queue[user][i + 1]
      /\ Growing(q)
  BY <1>2, WithoutHead
<1>4. /\ p \in Seq(Batch)
      /\ Len(p) = Len(pipeline) - 1
      /\ \A i \in 1..Len(p) : p[i] = pipeline[i + 1]
  BY <1>1, HeadTailProperties
<1> HIDE DEF q, p
<1>5. queue'[user] = q /\ \A u \in User \ {user} : queue'[u] = queue[u]
  BY <1>1, <1>2, <1>3
<1>6. queue' \in [User -> Seq(Batch)]
  BY <1>1, <1>2, <1>3
<1>7. Within(p, q, 0)
  <2>1. Len(p) + 0 <= Len(q)
    BY <1>2, <1>3, <1>4 DEF Within
  <2>2. ASSUME NEW i \in 1..Len(p) PROVE p[i] = q[0 + i]
    <3>1. /\ i \in Nat /\ i + 1 \in 1..Len(pipeline) /\ i \in 1..Len(q)
          /\ 0 + (i + 1) = i + 1 /\ 0 + i = i
      BY <1>2, <1>3, <1>4, <2>1
    <3>2. pipeline[i + 1] = queue[user][i + 1]
      BY <1>2, <3>1 DEF Within
    <3> QED BY <1>3, <1>4, <3>1, <3>2
  <2> QED BY <2>1, <2>2 DEF Within
<1>8. Len(p) <= MaxPending
  BY <1>2, <1>4, BoundsAssumption
<1>9. AllAscending'
  <2>1. ASSUME NEW u \in User, u # user PROVE Ascending(queue[u])'
    BY <1>1, <1>5, <2>1 DEF AllAscending, Ascending
  <2>2. Ascending(queue[user])'
    <3>1. /\ \A i \in 1..Len(queue[user]) :
               queue[user][i].id \in 1..(nextId - 1) /\ queue[user][i].n \in 1..count
          /\ \A i, j \in 1..Len(queue[user]) : i < j =>
               queue[user][i].id < queue[user][j].id /\ queue[user][i].n < queue[user][j].n
      BY <1>1, <1>2 DEF AllAscending, Ascending
    <3>2. queue'[user'] = q /\ DOMAIN q = 1..Len(q) /\ nextId' = nextId /\ count' = count
      BY <1>3, <1>5
    <3>0. \A i \in 1..Len(q) : i \in Nat /\ i + 1 \in 1..Len(queue[user])
      BY <1>3
    <3>3. \A i \in 1..Len(q) : q[i].id \in 1..(nextId - 1) /\ q[i].n \in 1..count
      <4> TAKE i \in 1..Len(q)
      <4>1. q[i] = queue[user][i + 1] /\ i + 1 \in 1..Len(queue[user])
        BY <1>3, <3>0
      <4> QED BY <3>1, <4>1
    <3>4. \A i, j \in 1..Len(q) : i < j => q[i].id < q[j].id /\ q[i].n < q[j].n
      <4> TAKE i, j \in 1..Len(q)
      <4> HAVE i < j
      <4>1. /\ q[i] = queue[user][i + 1] /\ i + 1 \in 1..Len(queue[user])
            /\ q[j] = queue[user][j + 1] /\ j + 1 \in 1..Len(queue[user])
        BY <1>3, <3>0
      <4>2. i + 1 < j + 1
        BY <3>0
      <4> QED BY <3>1, <4>1, <4>2
    <3> QED BY <3>2, <3>3, <3>4 DEF Ascending
  <2> QED BY <2>1, <2>2 DEF AllAscending
<1>10. Awaited'
  <2> SUFFICES ASSUME NEW k \in callbacks, k \notin Mine(Head(pipeline))
               PROVE  \E i \in DOMAIN queue'[k.user] :
                        queue'[k.user][i].id = k.id /\ queue'[k.user][i].n = k.n
    BY DEF Awaited
  <2>1. PICK i \in DOMAIN queue[k.user] :
               queue[k.user][i].id = k.id /\ queue[k.user][i].n = k.n
    BY <1>1 DEF Awaited
  <2>2. k.user \in User
    BY <1>1
  <2>3. CASE k.user = user
    <3>1. k.id # queue[user][1].id
      BY <1>2, <2>3 DEF Mine
    <3>2. i \in 1..Len(queue[user]) /\ i # 1
      BY <1>2, <2>1, <2>3, <3>1
    <3>3. i - 1 \in 1..Len(q) /\ (i - 1) + 1 = i
      BY <1>3, <3>2
    <3>4. q[i - 1] = queue[user][i] /\ DOMAIN q = 1..Len(q)
      <4>1. q[i - 1] = queue[user][(i - 1) + 1]
        BY <1>3, <3>3
      <4> QED BY <1>3, <3>3, <4>1
    <3> QED BY <1>5, <2>1, <2>3, <3>3, <3>4
  <2>4. CASE k.user # user
    BY <1>5, <2>1, <2>2, <2>4
  <2> QED BY <2>3, <2>4
<1>11. callbacks' \subseteq [user: User, id: Nat, n: Nat]
  BY <1>1
<1> QED BY <1>3, <1>4, <1>5, <1>6, <1>7, <1>8, <1>9, <1>10, <1>11 DEF q, p

(* Whoever waits for the oldest batch of the pipeline issued it.           *)
LEMMA MineIsHead ==
  ASSUME Paired, pipeline # << >>, NEW c \in Mine(Head(pipeline))
  PROVE  c.n = Head(pipeline).n
<1>1. /\ user \in User /\ Head(pipeline) = queue[user][1] /\ queue[user] # << >>
      /\ queue[user] \in Seq(Batch) /\ Growing(queue[user])
      /\ DOMAIN queue[user] = 1..Len(queue[user]) /\ Len(queue[user]) \in Nat
  BY Known, QueueGrows
<1>2. c \in callbacks /\ c.user = user /\ c.id = queue[user][1].id
  BY <1>1 DEF Mine
<1>3. PICK i \in DOMAIN queue[user] : queue[user][i].id = c.id /\ queue[user][i].n = c.n
  BY <1>2 DEF Paired, Awaited
<1>4. i = 1
  <2>1. i \in 1..Len(queue[user]) /\ 1 \in 1..Len(queue[user])
    BY <1>1, <1>3
  <2>2. ~(1 < i)
    BY <1>1, <1>2, <1>3, <2>1 DEF Growing
  <2> QED BY <2>1, <2>2
<1> QED BY <1>1, <1>3, <1>4

LEMMA OutcomesType ==
  ASSUME Paired, NEW b, NEW ok \in BOOLEAN
  PROVE  Outcomes(b, ok) \in Seq([n: Nat, ok: BOOLEAN])
<1>1. told \in Seq([n: Nat, ok: BOOLEAN]) /\ callbacks \subseteq [user: User, id: Nat, n: Nat]
  BY DEF Paired, TypeOK
<1>2. CASE Mine(b) = {}
  BY <1>1, <1>2 DEF Outcomes
<1>3. CASE Mine(b) # {}
  <2> DEFINE c == CHOOSE c \in Mine(b) : TRUE
  <2>1. c \in Mine(b)
    BY <1>3
  <2> HIDE DEF c
  <2>2. c.n \in Nat
    BY <1>1, <2>1 DEF Mine
  <2>3. [n |-> c.n, ok |-> ok] \in [n: Nat, ok: BOOLEAN]
    BY <2>2
  <2>4. Append(told, [n |-> c.n, ok |-> ok]) \in Seq([n: Nat, ok: BOOLEAN])
    BY <1>1, <2>3, AppendProperties
  <2> QED BY <1>3, <2>4 DEF Outcomes, c
<1> QED BY <1>2, <1>3

LEMMA ResultStep ==
  ASSUME Paired, OnMutationResult
  PROVE  Paired'
<1> DEFINE b == Head(pipeline)
           q == Tail(queue[user])
           p == Tail(pipeline)
           f == Fetched(q, p)
<1>1. /\ stream = "open" /\ down # << >>
      /\ down' = Tail(down)
      /\ token' = "given"
      /\ told' = Outcomes(b, TRUE)
      /\ callbacks' = callbacks \ Mine(b)
      /\ queue' = [queue EXCEPT ![user] = Without(@, b)]
      /\ saved' = [saved EXCEPT ![user] = "given"]
      /\ FillWritePipeline(queue'[user], p, stream, shake, up)
      /\ UNCHANGED <<user, nextId, shake, ended, server, count, wanted, faults>>
  BY DEF OnMutationResult, NotifyUser
<1>2. shake = "complete"
  BY <1>1, OffCall
<1>3. /\ Gone \in Nat /\ Len(down) \in Nat /\ Len(up) \in Nat
      /\ Within(down, pipeline, 0) /\ Within(up, pipeline, Gone)
      /\ Len(up) + Gone = Len(pipeline)
      /\ ended => Gone = Len(down) + 1 /\ Len(down) + 1 <= Len(pipeline)
      /\ ~ended => Gone = Len(down)
  BY <1>2, OnCall
<1>4. /\ user \in User /\ down \in Seq(Batch) /\ up \in Seq(Batch)
      /\ pipeline \in Seq(Batch) /\ Len(pipeline) \in Nat
      /\ saved \in [User -> {"none", "given"}]
  BY DEF Paired, TypeOK
<1>5. /\ Len(down) >= 1 /\ Gone >= 1 /\ Len(pipeline) >= 1 /\ pipeline # << >>
  <2>1. Len(down) >= 1
    BY <1>1, <1>4, EmptySeq
  <2>2. Gone >= 1
    BY <1>3, <2>1
  <2> QED BY <1>3, <1>4, <2>1, <2>2
<1>6. /\ Tail(down) \in Seq(Batch) /\ Len(Tail(down)) = Len(down) - 1
      /\ \A i \in 1..Len(Tail(down)) : Tail(down)[i] = down[i + 1]
  BY <1>1, <1>4, HeadTailProperties
<1>7. /\ AllAscending' /\ Awaited'
      /\ queue' \in [User -> Seq(Batch)]
      /\ callbacks' \subseteq [user: User, id: Nat, n: Nat]
      /\ queue'[user] = q /\ q \in Seq(Batch) /\ Growing(q)
      /\ p \in Seq(Batch) /\ Len(p) = Len(pipeline) - 1
      /\ \A i \in 1..Len(p) : p[i] = pipeline[i + 1]
      /\ Within(p, q, 0) /\ Len(p) <= MaxPending
  BY <1>1, <1>5, Dropping
<1>8. told' \in Seq([n: Nat, ok: BOOLEAN])
  BY <1>1, OutcomesType
<1> HIDE DEF b, q, p
<1>9. /\ p \o f \in Seq(Batch)
      /\ Front(p \o f, q)
      /\ Len(p \o f) = Len(p) + Len(f)
      /\ f \in Seq(Batch)
      /\ \A i \in 1..Len(p) : (p \o f)[i] = p[i]
  BY <1>7, FilledIs, FetchedIs
<1>10. /\ up \o f \in Seq(Batch)
       /\ \A d \in Nat :
            Within(up, p, d) /\ Len(up) + d = Len(p)
            => /\ Within(up \o f, p \o f, d)
               /\ Len(up \o f) + d = Len(p \o f)
  BY <1>4, <1>7, Filling
<1>11. FillWritePipeline(q, p, stream, shake, up)
  BY <1>1, <1>7
<1>12. /\ pipeline' = p \o f
       /\ stream' = "open"
       /\ up' = up \o f
       /\ idle' = IF pipeline' = << >> THEN TRUE ELSE IF f # << >> THEN FALSE ELSE idle
  BY <1>1, <1>2, <1>11 DEF FillWritePipeline, IsStarted
<1> HIDE DEF f
<1>13. idle = FALSE
  BY <1>5 DEF Paired, TypeOK, Coherent
<1>14. idle' = IF pipeline' = << >> THEN TRUE ELSE FALSE
  BY <1>12, <1>13
<1>15. TypeOK'
  <2>1. saved' \in [User -> {"none", "given"}]
    BY <1>1, <1>4
  <2>2. idle' \in BOOLEAN
    BY <1>14
  <2>3. pipeline' \in Seq(Batch) /\ up' \in Seq(Batch) /\ down' \in Seq(Batch)
    BY <1>1, <1>6, <1>9, <1>10, <1>12
  <2> QED BY <1>1, <1>7, <1>8, <1>12, <2>1, <2>2, <2>3 DEF Paired, TypeOK, server
<1>16. Filled'
  BY <1>1, <1>7, <1>9, <1>12 DEF Filled, Front
<1>17. Matched'
  <2> DEFINE d == Gone - 1
  <2>1. d \in Nat /\ Len(up) + d = Len(p)
    BY <1>3, <1>4, <1>5, <1>7
  <2>2. Within(up, p, d)
    <3>1. ASSUME NEW i \in 1..Len(up) PROVE up[i] = p[d + i]
      <4>1. d + i \in 1..Len(p) /\ (d + i) + 1 = Gone + i
        BY <1>3, <2>1
      <4>2. up[i] = pipeline[Gone + i]
        BY <1>3 DEF Within
      <4>3. p[d + i] = pipeline[(d + i) + 1]
        BY <1>7, <4>1
      <4> QED BY <4>1, <4>2, <4>3
    <3> QED BY <1>3, <1>7, <2>1, <3>1 DEF Within
  <2>3. Within(up', pipeline', d) /\ Len(up') + d = Len(pipeline')
    BY <1>10, <1>12, <2>1, <2>2
  <2>0. Len(down') = Len(down) - 1 /\ ended' = ended
    BY <1>1, <1>6
  <2>4. Len(down') + (IF ended' THEN 1 ELSE 0) = d
    <3>1. CASE ended
      BY <1>3, <2>0, <3>1
    <3>2. CASE ~ended
      BY <1>3, <2>0, <3>2
    <3> QED BY <3>1, <3>2
  <2>41. Len(down') <= d /\ Len(down') \in Nat
    BY <1>3, <1>5, <2>0
  <2>5. Within(down', pipeline', 0)
    <3>1. Len(down') + 0 <= Len(pipeline')
      <4>2. Len(up') \in Nat /\ Len(pipeline') \in Nat
        BY <1>9, <1>10, <1>12
      <4>3. Len(up') + d = Len(pipeline')
        BY <2>3
      <4> QED BY ONLY <2>1, <2>41, <4>2, <4>3
    <3>2. ASSUME NEW i \in 1..Len(down') PROVE down'[i] = pipeline'[0 + i]
      <4>1. /\ i \in Nat /\ i + 1 \in 1..Len(down) /\ i \in 1..Len(p)
            /\ i \in 1..Len(Tail(down)) /\ 0 + i = i /\ 0 + (i + 1) = i + 1
        <5>1. Len(down) <= Len(pipeline)
          BY <1>3, <1>4 DEF Within
        <5>2. Len(Tail(down)) = Len(down) - 1 /\ down' = Tail(down)
          BY <1>1, <1>6
        <5>3. i \in 1..(Len(down) - 1)
          BY <5>2
        <5> QED BY <1>3, <1>4, <1>7, <5>1, <5>2, <5>3
      <4>2. down[i + 1] = pipeline[i + 1]
        BY <1>3, <4>1 DEF Within
      <4>3. down'[i] = down[i + 1] /\ pipeline'[i] = p[i] /\ p[i] = pipeline[i + 1]
        BY <1>1, <1>6, <1>7, <1>9, <1>12, <4>1
      <4> QED BY <4>1, <4>2, <4>3
    <3> QED BY <3>1, <3>2 DEF Within
  <2>6. Len(up') \in Nat
    BY <1>10, <1>12
  <2> HIDE DEF d
  <2> QED BY <2>1, <2>3, <2>4, <2>5, <2>6 DEF Matched
<1>18. Coherent'
  <2>1. saved'[user] = "given" /\ user' = user
    BY <1>1, <1>4
  <2> QED BY <1>1, <1>2, <1>12, <1>14, <2>1 DEF Coherent, IsStarted
<1>19. Answered'
  <2>1. /\ \A i \in 1..Len(down) : down[i].n \in applied
        /\ applied \subseteq reached
        /\ ended => pipeline[Len(down) + 1].n \in reached
    BY <1>4 DEF Paired, Answered
  <2>2. \A i \in DOMAIN down' : down'[i].n \in applied
    <3> TAKE i \in DOMAIN down'
    <3>0. DOMAIN down' = 1..(Len(down) - 1)
      BY <1>1, <1>6
    <3>1. i \in 1..Len(Tail(down)) /\ i + 1 \in 1..Len(down)
      <4>1. i \in 1..(Len(down) - 1)
        BY <3>0
      <4>2. Len(down) \in Nat /\ Len(Tail(down)) = Len(down) - 1
        BY <1>3, <1>6
      <4> QED BY <4>1, <4>2
    <3> QED BY <1>1, <1>6, <2>1, <3>1
  <2>3. ended => pipeline'[Len(down') + 1] = pipeline[Len(down) + 1]
    <3> SUFFICES ASSUME ended PROVE pipeline'[Len(down') + 1] = pipeline[Len(down) + 1]
      OBVIOUS
    <3>1. Len(down') + 1 = Len(down) /\ Len(down) \in 1..Len(p)
      BY <1>1, <1>3, <1>4, <1>5, <1>6, <1>7
    <3> QED BY <1>7, <1>9, <1>12, <3>1
  <2> QED BY <1>1, <2>1, <2>2, <2>3 DEF Answered, server
<1> QED BY <1>7, <1>15, <1>16, <1>17, <1>18, <1>19 DEF Paired, AllAscending

LEMMA BreakStep ==
  ASSUME Paired, Break
  PROVE  Paired'
<1>1. PICK permanent \in BOOLEAN : CloseAndRetry(permanent)
  BY DEF Break
<1>2. /\ stream \in {"starting", "open"} /\ faults' = faults + 1
      /\ shake' = "no" /\ down' = << >> /\ ended' = FALSE
      /\ up' = << >> /\ idle' = FALSE
      /\ stream' = IF pipeline = << >> THEN "error" ELSE "backoff"
      /\ \/ /\ shake # "complete" /\ pipeline # << >>
            /\ token' = "none" /\ saved' = [saved EXCEPT ![user] = "none"]
         \/ UNCHANGED <<token, saved>>
      /\ UNCHANGED <<user, queue, session, pipeline, server, count, wanted, told>>
  BY <1>1 DEF Break, CloseAndRetry, HangUp
<1>3. AllAscending' /\ Filled' /\ Awaited'
  BY <1>2, QueuesFramed DEF session
<1>4. /\ Coherent /\ user \in User /\ saved \in [User -> {"none", "given"}]
      /\ faults \in Nat
  BY DEF Paired, TypeOK
<1>5. TypeOK'
  <2>1. saved' \in [User -> {"none", "given"}]
    BY <1>2, <1>4
  <2>2. idle' \in BOOLEAN /\ ended' \in BOOLEAN
    BY <1>2
  <2>3. up' \in Seq(Batch) /\ down' \in Seq(Batch)
    BY <1>2
  <2> QED BY <1>2, <1>4, <2>1, <2>2, <2>3 DEF Paired, TypeOK, session, server
<1>6. Matched'
  BY <1>2 DEF Matched
<1>7. Coherent'
  <2>1. token' = saved'[user']
    BY <1>2, <1>4 DEF Coherent
  <2> QED BY <1>2, <1>4, <2>1 DEF Coherent, IsStarted
<1>8. Answered'
  BY <1>2 DEF Paired, Answered, server
<1> QED BY <1>3, <1>5, <1>6, <1>7, <1>8 DEF Paired, AllAscending

LEMMA FinishStep ==
  ASSUME Paired, OnStreamFinish
  PROVE  Paired'
<1> DEFINE b == Head(pipeline)
           q == Tail(queue[user])
           p == Tail(pipeline)
           f == Fetched(q, p)
<1>1. /\ ended
      /\ shake' = "no" /\ down' = << >> /\ ended' = FALSE
      /\ queue' = [queue EXCEPT ![user] = Without(@, b)]
      /\ told' = Outcomes(b, FALSE)
      /\ callbacks' = callbacks \ Mine(b)
      /\ pipeline' = p \o Fetched(queue'[user], p)
      /\ stream' = IF pipeline' = << >> THEN "initial" ELSE "starting"
      /\ up' = << >> /\ idle' = FALSE
      /\ UNCHANGED <<user, saved, nextId, token, server, count, wanted, faults>>
  BY DEF OnStreamFinish, CloseAndReject, HangUp, NotifyUser
<1>2. pipeline # << >>
  <2>1. shake = "complete"
    BY <1>1, OffCall
  <2>2. Len(down) \in Nat /\ Len(down) + 1 <= Len(pipeline)
    BY <1>1, <2>1, OnCall
  <2>3. pipeline = << >> => Len(pipeline) = 0
    OBVIOUS
  <2> QED BY <2>2, <2>3
<1>3. /\ AllAscending' /\ Awaited'
      /\ queue' \in [User -> Seq(Batch)]
      /\ callbacks' \subseteq [user: User, id: Nat, n: Nat]
      /\ queue'[user] = q /\ q \in Seq(Batch) /\ Growing(q)
      /\ p \in Seq(Batch)
      /\ Within(p, q, 0) /\ Len(p) <= MaxPending
  BY <1>1, <1>2, Dropping
<1>4. told' \in Seq([n: Nat, ok: BOOLEAN])
  BY <1>1, OutcomesType
<1> HIDE DEF b, q, p
<1>5. /\ p \o f \in Seq(Batch) /\ Front(p \o f, q) /\ pipeline' = p \o f
  BY <1>1, <1>3, FilledIs
<1> HIDE DEF f
<1>6. TypeOK'
  <2>1. idle' \in BOOLEAN /\ ended' \in BOOLEAN
    BY <1>1
  <2>2. up' \in Seq(Batch) /\ down' \in Seq(Batch)
    BY <1>1
  <2> QED BY <1>1, <1>3, <1>4, <1>5, <2>1, <2>2 DEF Paired, TypeOK, server
<1>7. Filled'
  BY <1>1, <1>3, <1>5 DEF Filled, Front
<1>8. Matched'
  BY <1>1 DEF Matched
<1>9. Coherent'
  BY <1>1 DEF Paired, Coherent, IsStarted
<1>10. Answered'
  BY <1>1 DEF Paired, Answered, server
<1> QED BY <1>3, <1>6, <1>7, <1>8, <1>9, <1>10 DEF Paired, AllAscending

LEMMA IdleStep ==
  ASSUME Paired, IdleTimeout
  PROVE  Paired'
<1>1. /\ idle /\ shake' = "no" /\ down' = << >> /\ ended' = FALSE
      /\ up' = << >> /\ idle' = FALSE /\ stream' = "initial"
      /\ UNCHANGED <<user, durable, session, pipeline, token, server, count,
                     wanted, told, faults>>
  BY DEF IdleTimeout, HangUp
<1>2. AllAscending' /\ Filled' /\ Awaited'
  BY <1>1, QueuesFramed DEF durable, session
<1>3. Coherent /\ pipeline = << >>
  BY <1>1 DEF Paired, Coherent
<1>4. TypeOK'
  <2>1. idle' \in BOOLEAN /\ ended' \in BOOLEAN
    BY <1>1
  <2>2. up' \in Seq(Batch) /\ down' \in Seq(Batch)
    BY <1>1
  <2> QED BY <1>1, <2>1, <2>2 DEF Paired, TypeOK, durable, session, server
<1>5. Matched'
  BY <1>1 DEF Matched
<1>6. Coherent'
  BY <1>1, <1>3 DEF Coherent, IsStarted, durable
<1>7. Answered'
  BY <1>1 DEF Paired, Answered, server
<1> QED BY <1>2, <1>4, <1>5, <1>6, <1>7 DEF Paired, AllAscending

(* The next id is above the ids of all batches stored.                     *)
LEMMA NextIdIs ==
  ASSUME Paired
  PROVE  /\ LoadNextBatchId \in Nat \ {0}
         /\ \A u \in User : \A i \in 1..Len(queue[u]) : queue[u][i].id < LoadNextBatchId
<1> DEFINE ids == UNION {{queue[u][i].id : i \in DOMAIN queue[u]} : u \in User}
           T   == {k \in 1..nextId : \A id \in ids : id < k}
<1>1. nextId \in Nat \ {0}
  BY DEF Paired, TypeOK
<1>2. \A u \in User : DOMAIN queue[u] = 1..Len(queue[u]) /\ Ascending(queue[u])
  BY DEF Paired, TypeOK
<1>3. \A id \in ids : id \in 1..(nextId - 1)
  BY <1>2 DEF Ascending
<1>4. \A u \in User : \A i \in 1..Len(queue[u]) : queue[u][i].id \in ids
  BY <1>2
<1> HIDE DEF ids
<1>5. nextId \in T
  BY <1>1, <1>3
<1>6. PICK k \in T : \A j \in T : k <= j
  <2>1. T \subseteq Nat /\ T # {}
    BY <1>1, <1>5
  <2> QED BY <2>1, LeastNatural
<1>7. k = 1 \/ k - 1 \in ids
  <2> SUFFICES ASSUME k # 1, k - 1 \notin ids PROVE FALSE
    OBVIOUS
  <2>1. k - 1 \in 1..nextId /\ k - 1 \in Nat /\ k \in Nat
    BY <1>1
  <2>2. \A id \in ids : id < k - 1
    <3> TAKE id \in ids
    <3>1. id \in Nat /\ id < k /\ id # k - 1
      BY <1>3
    <3> QED BY <2>1, <3>1
  <2>3. k - 1 \in T
    BY <2>1, <2>2
  <2> QED BY <1>6, <2>1, <2>3
<1>8. \E j \in 1..nextId : /\ \A id \in ids : id < j
                           /\ j = 1 \/ j - 1 \in ids
  BY <1>7
<1>9. /\ LoadNextBatchId \in 1..nextId
      /\ \A id \in ids : id < LoadNextBatchId
  BY <1>8 DEF LoadNextBatchId, ids
<1> QED BY <1>1, <1>4, <1>9

(* The stream is stopped and the pipeline filled afresh for user u.        *)
LEMMA Enabling ==
  ASSUME Paired, NEW u \in User, NEW st \in {"initial", "error"},
         EnableNetwork(u, st), user' = u,
         nextId' \in Nat \ {0},
         \A v \in User : \A i \in 1..Len(queue[v]) : queue[v][i].id < nextId',
         callbacks' \subseteq callbacks,
         told' \in Seq([n: Nat, ok: BOOLEAN]),
         faults' = faults + 1,
         UNCHANGED <<durable, server, count, wanted>>
  PROVE  Paired'
<1> DEFINE f == Fetched(queue[u], << >>)
<1>1. /\ shake' = "no" /\ down' = << >> /\ ended' = FALSE
      /\ token' = saved[u] /\ pipeline' = f
      /\ stream' = IF pipeline' = << >> THEN st ELSE Started(st)
      /\ up' = << >> /\ idle' = FALSE
      /\ UNCHANGED <<queue, saved>>
  BY DEF EnableNetwork, HangUp, durable
<1>2. /\ queue \in [User -> Seq(Batch)] /\ saved \in [User -> {"none", "given"}]
      /\ faults \in Nat
      /\ callbacks \subseteq [user: User, id: Nat, n: Nat]
  BY DEF Paired, TypeOK
<1>3. /\ f \in Seq(Batch)
      /\ Len(f) = Lesser(Len(queue[u]), MaxPending)
      /\ \A i \in 1..Len(f) : f[i] = queue[u][i]
  <2>1. /\ queue[u] \in Seq(Batch) /\ Growing(queue[u]) /\ Len(queue[u]) \in Nat
        /\ << >> \in Seq(Batch) /\ Len(<< >>) = 0
    BY QueueGrows, EmptySeq
  <2>2. Within(<< >>, queue[u], 0) /\ Len(<< >>) <= MaxPending
    BY <2>1, BoundsAssumption DEF Within
  <2>3. /\ f \in Seq(Batch)
        /\ Len(<< >>) + Len(f) = Lesser(Len(queue[u]), MaxPending)
        /\ \A i \in 1..Len(f) : f[i] = queue[u][Len(<< >>) + i]
    BY <2>1, <2>2, FetchedIs
  <2> HIDE DEF f
  <2>4. Len(f) \in Nat
    BY <2>3
  <2> QED BY <2>1, <2>3, <2>4
<1> HIDE DEF f
<1>4. TypeOK'
  <2>1. saved[u] \in {"none", "given"}
    BY <1>2
  <2>2. idle' \in BOOLEAN /\ ended' \in BOOLEAN
    BY <1>1
  <2>3. up' \in Seq(Batch) /\ down' \in Seq(Batch) /\ pipeline' \in Seq(Batch)
    BY <1>1, <1>3
  <2>4. stream' \in {"initial", "starting", "open", "error", "backoff"}
    BY <1>1 DEF Started
  <2>5. callbacks' \subseteq [user: User, id: Nat, n: Nat] /\ faults' \in Nat
    BY <1>2
  <2> QED BY <1>1, <2>1, <2>2, <2>3, <2>4, <2>5 DEF Paired, TypeOK, server
<1>5. AllAscending'
  <2> SUFFICES ASSUME NEW v \in User PROVE Ascending(queue[v])'
    BY DEF AllAscending
  <2>1. /\ DOMAIN queue[v] = 1..Len(queue[v])
        /\ \A i \in 1..Len(queue[v]) : queue[v][i].id \in 1..(nextId - 1) /\ queue[v][i].n \in 1..count
        /\ \A i, j \in 1..Len(queue[v]) : i < j =>
               queue[v][i].id < queue[v][j].id /\ queue[v][i].n < queue[v][j].n
    BY QueueGrows DEF Paired, Ascending
  <2>2. \A i \in 1..Len(queue[v]) : queue[v][i].id \in 1..(nextId' - 1)
    <3> TAKE i \in 1..Len(queue[v])
    <3>1. queue[v][i].id \in Nat \ {0} /\ queue[v][i].id < nextId'
      BY <2>1
    <3> QED BY <3>1
  <2> QED BY <1>1, <2>1, <2>2 DEF Ascending
<1>6. Filled'
  <2>1. Len(f) + 0 <= Len(queue[u])
    BY <1>3, QueueGrows, BoundsAssumption DEF Lesser
  <2>2. \A i \in 1..Len(f) : f[i] = queue[u][0 + i]
    BY <1>3
  <2> QED BY <1>1, <1>3, <2>1, <2>2 DEF Filled, Within
<1>7. Awaited'
  BY <1>1 DEF Paired, Awaited
<1>8. Matched'
  BY <1>1 DEF Matched
<1>9. Coherent'
  BY <1>1 DEF Coherent, IsStarted, Started
<1>10. Answered'
  BY <1>1 DEF Paired, Answered, server
<1> QED BY <1>4, <1>5, <1>6, <1>7, <1>8, <1>9, <1>10 DEF Paired, AllAscending

LEMMA CredentialStep ==
  ASSUME Paired, NEW u \in User, HandleCredentialChange(u)
  PROVE  Paired'
<1> DEFINE st == IF IsStarted(stream) THEN "initial" ELSE stream
<1>1. /\ user' = u
      /\ nextId' = IF u = user THEN nextId ELSE LoadNextBatchId
      /\ EnableNetwork(u, st)
      /\ faults' = faults + 1
      /\ UNCHANGED <<durable, callbacks, server, count, wanted, told>>
  BY DEF HandleCredentialChange
<1>2. st \in {"initial", "error"}
  BY DEF Paired, TypeOK, IsStarted
<1> HIDE DEF st
<1>3. nextId' \in Nat \ {0}
  BY <1>1, NextIdIs DEF Paired, TypeOK
<1>4. \A v \in User : \A i \in 1..Len(queue[v]) : queue[v][i].id < nextId'
  <2>1. CASE u = user
    <3>1. nextId \in Nat \ {0} /\ nextId' = nextId
      BY <1>1, <2>1 DEF Paired, TypeOK
    <3>2. \A v \in User : \A i \in 1..Len(queue[v]) : queue[v][i].id \in 1..(nextId - 1)
      BY QueueGrows DEF Paired, Ascending
    <3> QED BY <3>1, <3>2
  <2>2. CASE u # user
    BY <1>1, <2>2, NextIdIs
  <2> QED BY <2>1, <2>2
<1>5. told' \in Seq([n: Nat, ok: BOOLEAN])
  BY <1>1 DEF Paired, TypeOK
<1>6. callbacks' \subseteq callbacks
  BY <1>1
<1>7. UNCHANGED <<durable, server, count, wanted>> /\ faults' = faults + 1 /\ user' = u
  BY <1>1
<1>8. EnableNetwork(u, st)
  BY <1>1
<1> QED BY <1>2, <1>3, <1>4, <1>5, <1>6, <1>7, <1>8, Enabling

LEMMA RestartStep ==
  ASSUME Paired, Restart
  PROVE  Paired'
<1>1. /\ callbacks' = {}
      /\ nextId' = LoadNextBatchId
      /\ told' = told \/ told' = Outcomes(Head(pipeline), TRUE)
      /\ EnableNetwork(user, "initial")
      /\ faults' = faults + 1
      /\ UNCHANGED <<user, durable, server, count, wanted>>
  BY DEF Restart
<1>2. nextId' \in Nat \ {0}
  BY <1>1, NextIdIs
<1>3. \A v \in User : \A i \in 1..Len(queue[v]) : queue[v][i].id < nextId'
  BY <1>1, NextIdIs
<1>4. told' \in Seq([n: Nat, ok: BOOLEAN])
  BY <1>1, OutcomesType DEF Paired, TypeOK
<1>5. callbacks' \subseteq callbacks /\ user \in User /\ user' = user
  BY <1>1 DEF Paired, TypeOK
<1>6. UNCHANGED <<durable, server, count, wanted>> /\ faults' = faults + 1
  BY <1>1
<1> QED BY <1>1, <1>2, <1>3, <1>4, <1>5, <1>6, Enabling

LEMMA InvariantStep ==
  ASSUME Paired, [Next]_vars
  PROVE  Paired'
<1>1. CASE \E op \in Ops : WriteMutations(op)
  BY <1>1, WriteStep
<1>2. CASE ClientStep
  BY <1>2, ResumeStep, BackoffStep, OnHandshakeStep, ResultStep, FinishStep DEF ClientStep
<1>3. CASE ServerStep
  BY <1>3, AnswerHandshakeStep, AnswerBatchStep DEF ServerStep
<1>4. CASE Break \/ IdleTimeout \/ Restart
  BY <1>4, BreakStep, IdleStep, RestartStep
<1>5. CASE \E u \in User : HandleCredentialChange(u)
  BY <1>5, CredentialStep
<1>6. CASE UNCHANGED vars
  BY <1>6 DEF vars, durable, session, call, server, Paired, TypeOK, Ascending, Filled,
              Within, Awaited, Coherent, Matched, Answered
<1> QED BY <1>1, <1>2, <1>3, <1>4, <1>5, <1>6 DEF Next

(* The pipeline is the start of the queue, and what is on the call, with   *)
(* the refused write between results and requests, is the pipeline.        *)
LEMMA PairedAlways == Spec => []Paired
<1>1. Init => Paired
  BY Start
<1>2. Paired /\ [Next]_vars => Paired'
  BY InvariantStep
<1> QED BY <1>1, <1>2, PTL DEF Spec

-----------------------------------------------------------------------------
(* What the callbacks are told.                                            *)
LEMMA HeadIs ==
  ASSUME Paired, down # << >> \/ ended
  PROVE  /\ pipeline # << >>
         /\ down # << >> => Head(pipeline).n \in applied
         /\ Head(pipeline).n \in reached
         /\ shake = "complete" /\ stream = "open"
<1>1. shake = "complete"
  BY OffCall
<1>2. /\ down \in Seq(Batch) /\ pipeline \in Seq(Batch)
      /\ \A i \in 1..Len(down) : down[i].n \in applied
      /\ applied \subseteq reached
      /\ ended => pipeline[Len(down) + 1].n \in reached
  BY DEF Paired, TypeOK, Answered
<1>3. /\ Len(down) \in Nat /\ stream = "open"
      /\ Within(down, pipeline, 0)
      /\ ended => Len(down) + 1 <= Len(pipeline)
  BY <1>1, OnCall
<1>4. Head(pipeline) = pipeline[1]
  OBVIOUS
<1>5. CASE down # << >>
  <2>1. Len(down) >= 1
    BY <1>2, <1>5, EmptySeq
  <2>2. 1 \in 1..Len(down) /\ Len(down) <= Len(pipeline)
    BY <1>2, <1>3, <2>1 DEF Within
  <2>3. down[1] = pipeline[0 + 1] /\ 0 + 1 = 1
    BY <1>3, <2>2 DEF Within
  <2>4. pipeline # << >>
    BY <1>2, <1>3, <2>1, <2>2
  <2> QED BY <1>1, <1>2, <1>3, <1>4, <2>2, <2>3, <2>4
<1>6. CASE down = << >>
  <2>1. ended /\ Len(down) = 0
    BY <1>6
  <2>2. pipeline[1].n \in reached /\ pipeline # << >>
    BY <1>2, <1>3, <2>1
  <2> QED BY <1>1, <1>3, <1>4, <1>6, <2>2
<1> QED BY <1>5, <1>6

LEMMA OutcomesTrue ==
  ASSUME Paired, ToldTruth, pipeline # << >>, NEW ok \in BOOLEAN,
         Head(pipeline).n \in (IF ok THEN applied ELSE reached),
         told' = Outcomes(Head(pipeline), ok),
         UNCHANGED <<reached, applied>>
  PROVE  ToldTruth'
<1> DEFINE b == Head(pipeline)
<1>1. told \in Seq([n: Nat, ok: BOOLEAN])
  BY DEF Paired, TypeOK
<1>2. CASE Mine(b) = {}
  BY <1>2 DEF Outcomes, ToldTruth
<1>3. CASE Mine(b) # {}
  <2> DEFINE c == CHOOSE c \in Mine(b) : TRUE
             r == [n |-> c.n, ok |-> ok]
  <2>1. c \in Mine(b)
    BY <1>3
  <2> HIDE DEF c
  <2>2. c.n = b.n
    BY <2>1, MineIsHead
  <2>3. Head(pipeline) \in Batch
    BY Known
  <2>4. b.n \in Nat
    BY <2>3 DEF Batch
  <2>5. r \in [n: Nat, ok: BOOLEAN]
    BY <2>2, <2>4
  <2>6. told' = Append(told, r)
    BY <1>3 DEF Outcomes, c
  <2>7. r.n = b.n /\ (r.ok <=> ok)
    BY <2>2
  <2> HIDE DEF r
  <2>8. /\ Len(told') = Len(told) + 1 /\ Len(told) \in Nat
        /\ \A i \in 1..Len(told) : told'[i] = told[i]
        /\ told'[Len(told) + 1] = r
        /\ DOMAIN told' = 1..Len(told')
    BY <1>1, <2>5, <2>6, AppendProperties
  <2>9. r.n \in (IF r.ok THEN applied ELSE reached)
    BY <2>7
  <2>10. \A i \in 1..Len(told) : told[i].n \in (IF told[i].ok THEN applied ELSE reached)
    BY <1>1 DEF ToldTruth
  <2>11. \A i \in 1..Len(told') : told'[i].n \in (IF told'[i].ok THEN applied ELSE reached)
    <3> TAKE i \in 1..Len(told')
    <3>1. i \in 1..Len(told) \/ i = Len(told) + 1
      BY <2>8
    <3>2. CASE i \in 1..Len(told)
      <4>1. told'[i] = told[i]
        BY <2>8, <3>2
      <4> QED BY <2>10, <3>2, <4>1
    <3>3. CASE i = Len(told) + 1
      <4>1. told'[i] = r
        BY <2>8, <3>3
      <4> QED BY <2>9, <4>1
    <3> QED BY <3>1, <3>2, <3>3
  <2> QED BY <2>8, <2>11 DEF ToldTruth
<1> QED BY <1>2, <1>3

LEMMA ToldKept ==
  ASSUME ToldTruth, UNCHANGED told, applied \subseteq applied', reached \subseteq reached'
  PROVE  ToldTruth'
BY DEF ToldTruth

(* Success is reported only of a write the server has carried out, failure *)
(* only of one it has dealt with, whatever calls broke in between.         *)
THEOREM ToldIsTrue == Spec => []ToldTruth
<1>1. Init => ToldTruth
  BY DEF Init, ToldTruth
<1>2. Paired /\ ToldTruth /\ [Next]_vars => ToldTruth'
  <2> SUFFICES ASSUME Paired, ToldTruth, [Next]_vars PROVE ToldTruth'
    OBVIOUS
  <2>1. CASE OnMutationResult
    <3>1. /\ down # << >> /\ told' = Outcomes(Head(pipeline), TRUE)
          /\ UNCHANGED <<reached, applied>>
      BY <2>1 DEF OnMutationResult, NotifyUser, server
    <3>2. pipeline # << >> /\ Head(pipeline).n \in applied
      BY <3>1, HeadIs
    <3> QED BY <3>1, <3>2, OutcomesTrue
  <2>2. CASE OnStreamFinish
    <3>1. /\ ended /\ told' = Outcomes(Head(pipeline), FALSE)
          /\ UNCHANGED <<reached, applied>>
      BY <2>2 DEF OnStreamFinish, CloseAndReject, NotifyUser, server
    <3>2. pipeline # << >> /\ Head(pipeline).n \in reached
      BY <3>1, HeadIs
    <3> QED BY <3>1, <3>2, OutcomesTrue
  <2>3. CASE Restart
    <3>1. /\ UNCHANGED <<reached, applied>>
          /\ \/ told' = told
             \/ down # << >> /\ told' = Outcomes(Head(pipeline), TRUE)
      BY <2>3 DEF Restart, server
    <3>2. CASE told' = told
      BY <3>1, <3>2, ToldKept
    <3>3. CASE down # << >> /\ told' = Outcomes(Head(pipeline), TRUE)
      <4>1. pipeline # << >> /\ Head(pipeline).n \in applied
        BY <3>3, HeadIs
      <4> QED BY <3>1, <3>3, <4>1, OutcomesTrue
    <3> QED BY <3>1, <3>2, <3>3
  <2>4. CASE AnswerBatch
    <3>1. told' = told /\ applied \subseteq applied' /\ reached \subseteq reached'
      BY <2>4 DEF AnswerBatch
    <3> QED BY <3>1, ToldKept
  <2>5. CASE \/ \E op \in Ops : WriteMutations(op)
             \/ ResumeStartWithCredentials \/ BackoffElapsed \/ OnHandshakeResponse
             \/ AnswerHandshake \/ Break \/ IdleTimeout
             \/ \E u \in User : HandleCredentialChange(u)
             \/ UNCHANGED vars
    <3>1. UNCHANGED <<told, reached, applied>>
      BY <2>5 DEF WriteMutations, ResumeStartWithCredentials, BackoffElapsed,
                  OnHandshakeResponse, AnswerHandshake, Break, CloseAndRetry,
                  IdleTimeout, HandleCredentialChange, vars, server
    <3> QED BY <3>1, ToldKept
  <2> QED BY <2>1, <2>2, <2>3, <2>4, <2>5 DEF Next, ClientStep, ServerStep
<1> QED BY <1>1, <1>2, PairedAlways, PTL DEF Spec

(* None of the assertions that would abort the app can fail: a response    *)
(* finds a batch in the pipeline, a batch to be removed is in the queue,   *)
(* and the idle timer runs only while nothing is to be sent.               *)
THEOREM AssertionsHold == Spec => []NoHardAssert
<1>1. Paired => NoHardAssert
  <2> SUFFICES ASSUME Paired PROVE NoHardAssert
    OBVIOUS
  <2>1. down # << >> \/ ended => pipeline # << >>
    BY HeadIs
  <2>2. pipeline # << >> => \E i \in DOMAIN queue[user] : queue[user][i] = pipeline[1]
    <3> SUFFICES ASSUME pipeline # << >>
                 PROVE  1 \in DOMAIN queue[user] /\ queue[user][1] = pipeline[1]
      OBVIOUS
    <3>1. queue[user] # << >> /\ queue[user][1] = pipeline[1]
      BY Known
    <3>2. queue[user] \in Seq(Batch) /\ DOMAIN queue[user] = 1..Len(queue[user])
      BY Known, QueueGrows
    <3>3. Len(queue[user]) \in Nat \ {0}
      BY <3>1, <3>2, EmptySeq
    <3> QED BY <3>1, <3>2, <3>3
  <2>3. idle => pipeline = << >>
    BY DEF Paired, Coherent
  <2> QED BY <2>1, <2>2, <2>3 DEF NoHardAssert
<1> QED BY <1>1, PairedAlways, PTL

-----------------------------------------------------------------------------
(* The outbox.                                                             *)

(* No write is in the queues of two users. *)
Unshared ==
  \A u, v \in User : u # v =>
    \A i \in 1..Len(queue[u]), j \in 1..Len(queue[v]) : queue[u][i].n # queue[v][j].n

LEMMA UnsharedStep ==
  ASSUME Paired, Unshared, [Next]_vars
  PROVE  Unshared'
<1>0. Paired' /\ queue \in [User -> Seq(Batch)] /\ user \in User
      /\ nextId \in Nat /\ count \in Nat
  <2>1. [Next]_vars /\ Paired => Paired'
    BY InvariantStep
  <2> QED BY <2>1 DEF Paired, TypeOK
<1>1. ASSUME UNCHANGED queue PROVE Unshared'
  BY <1>1 DEF Unshared
<1>2. ASSUME NEW op \in Ops, WriteMutations(op) PROVE Unshared'
  <2> DEFINE b == [id |-> nextId, n |-> count + 1, op |-> op]
             q == Append(queue[user], b)
  <2>1. queue' = [queue EXCEPT ![user] = q]
    BY <1>2 DEF WriteMutations
  <2>2. b \in Batch /\ b.n = count + 1
    BY <1>0 DEF Batch
  <2> HIDE DEF b
  <2>3. /\ Len(queue[user]) \in Nat
        /\ Len(q) = Len(queue[user]) + 1
        /\ \A i \in 1..Len(queue[user]) : q[i] = queue[user][i]
        /\ q[Len(queue[user]) + 1] = b
    BY <1>0, <2>2, AppendProperties
  <2> HIDE DEF q
  <2>4. queue'[user] = q /\ \A u \in User \ {user} : queue'[u] = queue[u]
    BY <1>0, <2>1
  <2>5. ASSUME NEW v \in User, v # user,
               NEW i \in 1..Len(q), NEW j \in 1..Len(queue[v])
        PROVE  q[i].n # queue[v][j].n
    <3>1. CASE i \in 1..Len(queue[user])
      <4>1. q[i] = queue[user][i]
        BY <2>3, <3>1
      <4>2. queue[user][i].n # queue[v][j].n
        BY <1>0, <2>5, <3>1 DEF Unshared
      <4> QED BY <4>1, <4>2
    <3>2. CASE i = Len(queue[user]) + 1
      <4>1. queue[v][j].n \in 1..count
        BY <1>0, QueueGrows DEF Paired, Ascending
      <4> QED BY <1>0, <2>2, <2>3, <3>2, <4>1
    <3> QED BY <2>3, <3>1, <3>2
  <2>6. ASSUME NEW u \in User, NEW v \in User, u # v,
               NEW i \in 1..Len(queue'[u]), NEW j \in 1..Len(queue'[v])
        PROVE  queue'[u][i].n # queue'[v][j].n
    <3>1. CASE u = user
      BY <2>4, <2>5, <2>6, <3>1
    <3>2. CASE v = user
      BY <2>4, <2>5, <2>6, <3>2
    <3>3. CASE u # user /\ v # user
      BY <2>4, <2>6, <3>3 DEF Unshared
    <3> QED BY <3>1, <3>2, <3>3
  <2> QED BY <2>6 DEF Unshared
<1>3. ASSUME OnMutationResult \/ OnStreamFinish PROVE Unshared'
  <2>1. /\ down # << >> \/ ended
        /\ queue' = [queue EXCEPT ![user] = Without(@, Head(pipeline))]
    BY <1>3 DEF OnMutationResult, OnStreamFinish, CloseAndReject
  <2>2. /\ queue[user] # << >> /\ Head(pipeline) = queue[user][1]
    BY <2>1, HeadIs, Known
  <2>3. queue[user] \in Seq(Batch) /\ Growing(queue[user])
    BY <1>0, QueueGrows
  <2> DEFINE q == Tail(queue[user])
  <2>4. /\ Without(queue[user], queue[user][1]) = q
        /\ Len(queue[user]) \in Nat \ {0}
        /\ Len(q) = Len(queue[user]) - 1
        /\ \A i \in 1..Len(q) : q[i] = queue[user][i + 1]
    BY <2>2, <2>3, WithoutHead
  <2> HIDE DEF q
  <2>5. queue'[user] = q /\ \A u \in User \ {user} : queue'[u] = queue[u]
    BY <1>0, <2>1, <2>2, <2>4
  <2>6. ASSUME NEW i \in 1..Len(q)
        PROVE  i + 1 \in 1..Len(queue[user]) /\ q[i] = queue[user][i + 1]
    BY <2>4
  <2>7. ASSUME NEW u \in User, NEW v \in User, u # v,
               NEW i \in 1..Len(queue'[u]), NEW j \in 1..Len(queue'[v])
        PROVE  queue'[u][i].n # queue'[v][j].n
    <3>1. ASSUME NEW w \in User, NEW k \in 1..Len(queue'[w])
          PROVE  \E m \in 1..Len(queue[w]) : queue'[w][k] = queue[w][m]
      <4>1. CASE w = user
        BY <2>5, <2>6, <3>1, <4>1
      <4>2. CASE w # user
        BY <2>5, <3>1, <4>2
      <4> QED BY <4>1, <4>2
    <3>2. PICK a \in 1..Len(queue[u]) : queue'[u][i] = queue[u][a]
      BY <2>7, <3>1
    <3>3. PICK b \in 1..Len(queue[v]) : queue'[v][j] = queue[v][b]
      BY <2>7, <3>1
    <3>4. queue[u][a].n # queue[v][b].n
      BY <2>7 DEF Unshared
    <3> QED BY <3>2, <3>3, <3>4
  <2> QED BY <2>7 DEF Unshared
<1>4. \/ UNCHANGED queue
      \/ OnMutationResult \/ OnStreamFinish
      \/ \E op \in Ops : WriteMutations(op)
  BY DEF Next, ClientStep, ServerStep, ResumeStartWithCredentials, BackoffElapsed,
         OnHandshakeResponse, AnswerHandshake, AnswerBatch, Break, CloseAndRetry,
         IdleTimeout, HandleCredentialChange, Restart, vars, durable
<1> QED BY <1>1, <1>2, <1>3, <1>4

(* The names of the writes of a sequence of batches. *)
Names(q) == [i \in DOMAIN q |-> q[i].n]

LEMMA NamesAre ==
  ASSUME NEW q \in Seq(Batch)
  PROVE  /\ Names(q) \in Seq(Nat)
         /\ Len(Names(q)) = Len(q)
         /\ DOMAIN Names(q) = 1..Len(q)
         /\ \A i \in 1..Len(q) : Names(q)[i] = q[i].n
<1>1. Len(q) \in Nat /\ DOMAIN q = 1..Len(q)
  OBVIOUS
<1>2. \A i \in 1..Len(q) : q[i].n \in Nat
  <2>1. \A i \in 1..Len(q) : q[i] \in Batch
    BY ElementOfSeq
  <2> QED BY <2>1 DEF Batch
<1>3. Names(q) \in [1..Len(q) -> Nat]
  BY <1>1, <1>2 DEF Names
<1>4. Names(q) \in Seq(Nat)
  BY <1>1, <1>3, SeqDef
<1>5. DOMAIN Names(q) = 1..Len(Names(q)) /\ Len(Names(q)) \in Nat
  BY <1>4
<1>6. Len(Names(q)) = Len(q)
  BY <1>1, <1>3, <1>5
<1> QED BY <1>1, <1>3, <1>4, <1>6 DEF Names

LEMMA NamesOfAppend ==
  ASSUME NEW q \in Seq(Batch), NEW b \in Batch
  PROVE  Names(Append(q, b)) = Append(Names(q), b.n)
<1> DEFINE s == Append(q, b)
           t == Append(Names(q), b.n)
<1>1. /\ s \in Seq(Batch) /\ Len(s) = Len(q) + 1 /\ Len(q) \in Nat
      /\ \A i \in 1..Len(q) : s[i] = q[i]
      /\ s[Len(q) + 1] = b
  BY AppendProperties
<1>2. b.n \in Nat
  BY DEF Batch
<1>3. /\ Names(q) \in Seq(Nat) /\ Len(Names(q)) = Len(q)
      /\ \A i \in 1..Len(q) : Names(q)[i] = q[i].n
  BY NamesAre
<1>4. /\ t \in Seq(Nat) /\ Len(t) = Len(q) + 1
      /\ \A i \in 1..Len(q) : t[i] = q[i].n
      /\ t[Len(q) + 1] = b.n
  BY <1>2, <1>3, AppendProperties
<1> HIDE DEF s, t
<1>5. /\ Names(s) \in Seq(Nat) /\ Len(Names(s)) = Len(s)
      /\ \A i \in 1..Len(s) : Names(s)[i] = s[i].n
  BY <1>1, NamesAre
<1>6. \A i \in 1..Len(Names(s)) : Names(s)[i] = t[i]
  <2> TAKE i \in 1..Len(Names(s))
  <2>1. CASE i \in 1..Len(q)
    BY <1>1, <1>4, <1>5, <2>1
  <2>2. CASE i = Len(q) + 1
    BY <1>1, <1>4, <1>5, <2>2
  <2> QED BY <1>1, <1>5, <2>1, <2>2
<1>7. Names(s) = t
  BY <1>1, <1>4, <1>5, <1>6, SeqEqual
<1> QED BY <1>7 DEF s, t

LEMMA NamesOfTail ==
  ASSUME NEW q \in Seq(Batch), q # << >>
  PROVE  /\ Names(Tail(q)) = Tail(Names(q))
         /\ Names(q) # << >>
         /\ Head(Names(q)) = q[1].n
<1>1. /\ Tail(q) \in Seq(Batch) /\ Len(Tail(q)) = Len(q) - 1 /\ Len(q) \in Nat \ {0}
      /\ \A i \in 1..Len(Tail(q)) : Tail(q)[i] = q[i + 1]
  BY HeadTailProperties, EmptySeq
<1>2. /\ Names(q) \in Seq(Nat) /\ Len(Names(q)) = Len(q)
      /\ \A i \in 1..Len(q) : Names(q)[i] = q[i].n
  BY NamesAre
<1>3. Names(q) # << >>
  BY <1>1, <1>2
<1>4. /\ Tail(Names(q)) \in Seq(Nat) /\ Len(Tail(Names(q))) = Len(q) - 1
      /\ \A i \in 1..Len(Tail(Names(q))) : Tail(Names(q))[i] = Names(q)[i + 1]
  BY <1>2, <1>3, HeadTailProperties
<1>5. /\ Names(Tail(q)) \in Seq(Nat) /\ Len(Names(Tail(q))) = Len(Tail(q))
      /\ \A i \in 1..Len(Tail(q)) : Names(Tail(q))[i] = Tail(q)[i].n
  BY <1>1, NamesAre
<1>6. \A i \in 1..Len(Names(Tail(q))) : Names(Tail(q))[i] = Tail(Names(q))[i]
  <2> TAKE i \in 1..Len(Names(Tail(q)))
  <2>1. i \in 1..(Len(q) - 1) /\ i + 1 \in 1..Len(q)
    BY <1>1, <1>5
  <2>2. Names(Tail(q))[i] = q[i + 1].n
    BY <1>1, <1>5, <2>1
  <2>3. Tail(Names(q))[i] = Names(q)[i + 1]
    BY <1>4, <2>1
  <2> QED BY <1>2, <2>1, <2>2, <2>3
<1>7. Names(Tail(q)) = Tail(Names(q))
  BY <1>1, <1>4, <1>5, <1>6, SeqEqual
<1>8. Head(Names(q)) = Names(q)[1] /\ 1 \in 1..Len(q)
  BY <1>1
<1> QED BY <1>2, <1>3, <1>7, <1>8

(* The variables of the outbox.                                            *)
Box     == [u \in User |-> Names(queue[u])]
Waiting == {c.n : c \in callbacks}
Told    == [i \in DOMAIN told |-> told[i].n]

LEMMA MineAre ==
  ASSUME Paired, Unshared, pipeline # << >>, NEW c \in callbacks
  PROVE  c \in Mine(Head(pipeline)) <=> c.n = Head(pipeline).n
<1>1. c \in Mine(Head(pipeline)) => c.n = Head(pipeline).n
  BY MineIsHead
<1>2. ASSUME c.n = Head(pipeline).n PROVE c \in Mine(Head(pipeline))
  <2>1. /\ user \in User /\ Head(pipeline) = queue[user][1] /\ queue[user] # << >>
        /\ queue[user] \in Seq(Batch)
        /\ DOMAIN queue[user] = 1..Len(queue[user]) /\ Len(queue[user]) \in Nat
    BY Known, QueueGrows
  <2>2. 1 \in 1..Len(queue[user])
    BY <2>1, EmptySeq
  <2>3. c.user \in User
    BY DEF Paired, TypeOK
  <2>4. PICK i \in DOMAIN queue[c.user] :
          queue[c.user][i].id = c.id /\ queue[c.user][i].n = c.n
    BY DEF Paired, Awaited
  <2>5. i \in 1..Len(queue[c.user])
    BY <2>3, <2>4, QueueGrows
  <2>6. c.user = user
    BY <1>2, <2>1, <2>2, <2>3, <2>4, <2>5 DEF Unshared
  <2>7. i = 1
    <3>1. Ascending(queue[user]) /\ count \in Nat
      BY <2>1 DEF Paired, TypeOK
    <3>2. i \in 1..Len(queue[user]) /\ queue[user][i].n = queue[user][1].n
      BY <1>2, <2>1, <2>4, <2>5, <2>6
    <3>3. 1 < i => queue[user][1].n < queue[user][i].n
      BY <2>1, <2>2, <3>1, <3>2 DEF Ascending
    <3>4. queue[user][1].n \in Nat
      BY <2>1, <2>2, <3>1 DEF Ascending
    <3> QED BY <2>1, <3>2, <3>3, <3>4
  <2> QED BY <2>1, <2>4, <2>6, <2>7 DEF Mine
<1> QED BY <1>1, <1>2

(* Telling an outcome. *)
LEMMA Telling ==
  ASSUME Paired, Unshared, pipeline # << >>, NEW ok \in BOOLEAN,
         told' = Outcomes(Head(pipeline), ok)
  PROVE  Told' = IF Head(pipeline).n \in Waiting THEN Append(Told, Head(pipeline).n)
                                                 ELSE Told
<1> DEFINE b == Head(pipeline)
<1>0. told \in Seq([n: Nat, ok: BOOLEAN]) /\ callbacks \subseteq [user: User, id: Nat, n: Nat]
  BY DEF Paired, TypeOK
<1>1. CASE Mine(b) = {}
  <2>1. b.n \notin Waiting
    BY <1>1, MineAre DEF Waiting
  <2>2. told' = told
    BY <1>1 DEF Outcomes
  <2> QED BY <2>1, <2>2 DEF Told
<1>2. CASE Mine(b) # {}
  <2> DEFINE c == CHOOSE c \in Mine(b) : TRUE
             r == [n |-> c.n, ok |-> ok]
  <2>1. c \in Mine(b)
    BY <1>2
  <2>2. told' = Append(told, r)
    BY <1>2 DEF Outcomes
  <2> HIDE DEF c
  <2>3. c \in callbacks /\ c.n = b.n /\ c.n \in Nat
    BY <1>0, <2>1, MineIsHead DEF Mine
  <2>4. b.n \in Waiting
    BY <2>3 DEF Waiting
  <2>5. r \in [n: Nat, ok: BOOLEAN] /\ r.n = b.n
    BY <2>3
  <2> HIDE DEF r
  <2>6. /\ told' \in Seq([n: Nat, ok: BOOLEAN])
        /\ Len(told') = Len(told) + 1 /\ Len(told) \in Nat
        /\ \A i \in 1..Len(told) : told'[i] = told[i]
        /\ told'[Len(told) + 1] = r
        /\ DOMAIN told = 1..Len(told) /\ DOMAIN told' = 1..Len(told')
    <3>1. told \in Seq([n: Nat, ok: BOOLEAN]) /\ Len(told) \in Nat
          /\ DOMAIN told = 1..Len(told)
      BY <1>0
    <3>2. /\ Append(told, r) \in Seq([n: Nat, ok: BOOLEAN])
          /\ Len(Append(told, r)) = Len(told) + 1
          /\ \A i \in 1..Len(told) : Append(told, r)[i] = told[i]
          /\ Append(told, r)[Len(told) + 1] = r
          /\ DOMAIN Append(told, r) = 1..Len(Append(told, r))
      BY <2>5, <3>1, AppendProperties
    <3> QED BY <2>2, <3>1, <3>2
  <2>7. \A i \in 1..Len(told) : told[i].n \in Nat
    <3>1. \A i \in 1..Len(told) : told[i] \in [n: Nat, ok: BOOLEAN]
      BY <1>0, ElementOfSeq
    <3> QED BY <3>1
  <2>8. Told \in [1..Len(told) -> Nat]
    BY <2>6, <2>7 DEF Told
  <2>9. Told \in Seq(Nat) /\ Len(Told) = Len(told)
    <3>1. Told \in Seq(Nat)
      BY <2>6, <2>8, SeqDef, SMTT(30)
    <3>2. DOMAIN Told = 1..Len(Told) /\ Len(Told) \in Nat
      BY <3>1
    <3> QED BY <2>6, <2>8, <3>1, <3>2
  <2>10. b.n \in Nat
    BY <2>3
  <2> DEFINE t == Append(Told, b.n)
  <2>11. /\ t \in Seq(Nat) /\ Len(t) = Len(told) + 1
         /\ \A i \in 1..Len(told) : t[i] = told[i].n
         /\ t[Len(told) + 1] = b.n
    <3>1. \A i \in 1..Len(told) : Told[i] = told[i].n
      BY <2>6 DEF Told
    <3> QED BY <2>9, <2>10, <3>1, AppendProperties
  <2>12. DOMAIN t = 1..(Len(told) + 1)
    BY <2>11
  <2> HIDE DEF t
  <2>13. Told' = [i \in 1..(Len(told) + 1) |-> told'[i].n]
    BY <2>6 DEF Told
  <2>14. \A i \in 1..(Len(told) + 1) : told'[i].n = t[i]
    <3> TAKE i \in 1..(Len(told) + 1)
    <3>1. CASE i \in 1..Len(told)
      BY <2>6, <2>11, <3>1
    <3>2. CASE i = Len(told) + 1
      BY <2>5, <2>6, <2>11, <3>2
    <3> QED BY <2>6, <3>1, <3>2
  <2>15. t = [i \in 1..(Len(told) + 1) |-> t[i]]
    BY <2>11, <2>12
  <2>16. Told' = t
    BY <2>13, <2>14, <2>15
  <2> QED BY <2>4, <2>16 DEF t
<1> QED BY <1>1, <1>2

LEMMA PutStep ==
  ASSUME Paired, NEW op \in Ops, WriteMutations(op)
  PROVE  \E u \in User : O!Put(u)
<1> DEFINE b == [id |-> nextId, n |-> count + 1, op |-> op]
<1>1. /\ count' = count + 1
      /\ queue' = [queue EXCEPT ![user] = Append(queue[user], b)]
      /\ callbacks' = callbacks \cup {[user |-> user, id |-> b.id, n |-> b.n]}
      /\ UNCHANGED <<reached, told>>
  BY DEF WriteMutations, server
<1>2. user \in User /\ queue \in [User -> Seq(Batch)] /\ b \in Batch /\ b.n = count + 1
  <2>1. user \in User /\ queue \in [User -> Seq(Batch)] /\ nextId \in Nat /\ count \in Nat
    BY DEF Paired, TypeOK
  <2>2. b \in Batch
    BY <2>1 DEF Batch
  <2> QED BY <2>1, <2>2
<1> HIDE DEF b
<1>3. Names(queue'[user]) = Append(Names(queue[user]), count')
  <2>1. queue'[user] = Append(queue[user], b) /\ queue[user] \in Seq(Batch)
    BY <1>1, <1>2
  <2> QED BY <1>1, <1>2, <2>1, NamesOfAppend
<1>4. Box' = [Box EXCEPT ![user] = Append(@, count')]
  <2>1. Box' = [u \in User |-> Names(queue'[u])]
    BY DEF Box, Names
  <2>2. \A u \in User \ {user} : queue'[u] = queue[u]
    BY <1>1, <1>2
  <2> QED BY <1>2, <1>3, <2>1, <2>2 DEF Box
<1>5. Waiting' = Waiting \cup {count'}
  <2> DEFINE c == [user |-> user, id |-> b.id, n |-> b.n]
  <2>1. callbacks' = callbacks \cup {c} /\ c.n = count'
    BY <1>1, <1>2
  <2> HIDE DEF c
  <2> QED BY <2>1 DEF Waiting
<1>6. PICK u \in User : u = user
  BY <1>2
<1>7. O!Put(u)
  <2>1. Box' = [Box EXCEPT ![u] = Append(@, count')] /\ UNCHANGED Told
    BY <1>1, <1>4, <1>6 DEF Told
  <2> QED BY <1>1, <1>5, <2>1 DEF O!Put, Box, Names, Waiting, Told
<1> QED BY <1>7

LEMMA SettleStep ==
  ASSUME Paired, Unshared, OnMutationResult \/ OnStreamFinish
  PROVE  \E u \in User : O!Settle(u)
<1> DEFINE b == Head(pipeline)
<1>1. PICK ok \in BOOLEAN :
        /\ down # << >> \/ ended
        /\ told' = Outcomes(b, ok)
        /\ callbacks' = callbacks \ Mine(b)
        /\ queue' = [queue EXCEPT ![user] = Without(queue[user], b)]
        /\ UNCHANGED <<count, reached>>
  <2>1. CASE OnMutationResult
    BY <2>1 DEF OnMutationResult, NotifyUser, server
  <2>2. CASE OnStreamFinish
    BY <2>2 DEF OnStreamFinish, CloseAndReject, NotifyUser, server
  <2> QED BY <2>1, <2>2
<1>2. /\ pipeline # << >> /\ b.n \in reached
      /\ user \in User /\ queue \in [User -> Seq(Batch)]
      /\ queue[user] # << >> /\ b = queue[user][1]
      /\ queue[user] \in Seq(Batch) /\ Growing(queue[user])
      /\ callbacks \subseteq [user: User, id: Nat, n: Nat]
  BY <1>1, HeadIs, Known, QueueGrows DEF Paired, TypeOK
<1>3. Told' = IF b.n \in Waiting THEN Append(Told, b.n) ELSE Told
  BY <1>1, <1>2, Telling
<1>4. Waiting' = Waiting \ {b.n}
  <2>1. \A c \in callbacks : c \in Mine(b) <=> c.n = b.n
    BY <1>2, MineAre
  <2> QED BY <1>1, <2>1 DEF Waiting
<1> HIDE DEF b
<1>5. /\ Box[user] = Names(queue[user])
      /\ Box[user] # << >> /\ Head(Box[user]) = b.n
      /\ Names(Tail(queue[user])) = Tail(Box[user])
  BY <1>2, NamesOfTail DEF Box
<1>6. Box' = [Box EXCEPT ![user] = Tail(@)]
  <2>1. queue'[user] = Tail(queue[user]) /\ \A u \in User \ {user} : queue'[u] = queue[u]
    BY <1>1, <1>2, WithoutHead
  <2>2. Box' = [u \in User |-> Names(queue'[u])]
    BY DEF Box, Names
  <2> QED BY <1>2, <1>5, <2>1, <2>2 DEF Box
<1>7. PICK u \in User : u = user
  BY <1>2
<1>8. /\ Box[u] # << >> /\ Head(Box[u]) \in reached
      /\ Told' = IF Head(Box[u]) \in Waiting THEN Append(Told, Head(Box[u])) ELSE Told
      /\ Waiting' = Waiting \ {Head(Box[u])}
      /\ Box' = [Box EXCEPT ![u] = Tail(@)]
      /\ UNCHANGED <<count, reached>>
  BY <1>1, <1>2, <1>3, <1>4, <1>5, <1>6, <1>7
<1>9. O!Settle(u)
  BY <1>8 DEF O!Settle, O!Tell, Box, Names, Waiting, Told
<1> QED BY <1>9

LEMMA ReachStep ==
  ASSUME Paired, AnswerBatch
  PROVE  (\E u \in User : O!Reach(u)) \/ UNCHANGED O!outbox
<1> DEFINE b == Head(up)
           k == Len(down) + 1
<1>1. /\ stream = "open" /\ ~ended /\ up # << >>
      /\ reached' = reached \cup {b.n}
      /\ UNCHANGED <<queue, callbacks, count, told>>
  BY DEF AnswerBatch, Serving, durable, session
<1>2. shake = "complete"
  BY <1>1, OffCall
<1>3. /\ Len(down) \in Nat /\ Len(up) \in Nat
      /\ Within(down, pipeline, 0)
      /\ Within(up, pipeline, Len(down))
      /\ Len(up) + Len(down) = Len(pipeline)
  BY <1>1, <1>2, OnCall
<1>4. /\ user \in User /\ up \in Seq(Batch) /\ queue \in [User -> Seq(Batch)]
      /\ \A i \in 1..Len(down) : down[i].n \in reached
  <2>1. /\ user \in User /\ up \in Seq(Batch) /\ queue \in [User -> Seq(Batch)]
        /\ down \in Seq(Batch)
    BY DEF Paired, TypeOK
  <2>2. DOMAIN down = 1..Len(down)
    BY <2>1
  <2>3. \A i \in DOMAIN down : down[i].n \in reached
    BY DEF Paired, Answered
  <2> QED BY <2>1, <2>2, <2>3
<1>5. /\ Len(pipeline) \in Nat /\ Len(pipeline) <= Len(queue[user])
      /\ Within(pipeline, queue[user], 0)
      /\ queue[user] \in Seq(Batch) /\ Len(queue[user]) \in Nat
  BY Known, QueueGrows
<1>6. Len(up) >= 1 /\ b = up[1]
  BY <1>1, <1>4, EmptySeq
<1> HIDE DEF b
<1>7. k \in 1..Len(pipeline) /\ k \in 1..Len(queue[user]) /\ b = queue[user][k]
  <2>1. k \in 1..Len(pipeline) /\ k \in 1..Len(queue[user])
    BY <1>3, <1>5, <1>6
  <2>2. b = pipeline[k]
    BY <1>3, <1>6 DEF Within
  <2> QED BY <1>5, <2>1, <2>2 DEF Within
<1>8. \A j \in 1..(k - 1) : queue[user][j].n \in reached
  <2> TAKE j \in 1..(k - 1)
  <2>1. j \in 1..Len(down) /\ j \in 1..Len(pipeline)
    BY <1>3, <1>7
  <2>2. queue[user][j] = down[j]
    BY <1>3, <1>5, <2>1 DEF Within
  <2> QED BY <1>4, <2>1, <2>2
<1>9. /\ Box[user] = Names(queue[user])
      /\ DOMAIN Box[user] = 1..Len(queue[user])
      /\ \A i \in 1..Len(queue[user]) : Box[user][i] = queue[user][i].n
  BY <1>4, <1>5, NamesAre DEF Box
<1>10. UNCHANGED <<Box, Waiting, Told>>
  BY <1>1 DEF Box, Names, Waiting, Told
<1>11. CASE b.n \in reached
  <2>1. reached' = reached
    BY <1>1, <1>11
  <2>2. UNCHANGED <<count, Box, reached, Waiting, Told>>
    BY <1>1, <1>10, <2>1
  <2>3. UNCHANGED O!outbox
    BY <2>2 DEF O!outbox, Box, Names, Waiting, Told
  <2> QED BY <1>4, <2>3
<1>12. CASE b.n \notin reached
  <2>0. PICK u \in User : u = user
    BY <1>4
  <2>1. /\ k \in DOMAIN Box[u]
        /\ Box[u][k] \notin reached
        /\ \A j \in 1..(k-1) : Box[u][j] \in reached
        /\ reached' = reached \cup {Box[u][k]}
    <3>1. Box[user][k] = b.n
      BY <1>7, <1>9
    <3>2. \A j \in 1..(k-1) : j \in 1..Len(queue[user])
      BY <1>5, <1>7
    <3> QED BY <1>1, <1>7, <1>8, <1>9, <1>12, <2>0, <3>1, <3>2
  <2> HIDE DEF k
  <2>2. \E i \in DOMAIN Box[u] :
          /\ Box[u][i] \notin reached
          /\ \A j \in 1..(i-1) : Box[u][j] \in reached
          /\ reached' = reached \cup {Box[u][i]}
    BY <2>1
  <2>3. UNCHANGED <<count, Box, Waiting, Told>>
    BY <1>1, <1>10
  <2>4. O!Reach(u)
    BY <2>2, <2>3 DEF O!Reach, Box, Names, Waiting, Told
  <2> QED BY <2>4
<1> QED BY <1>11, <1>12

LEMMA ForgetStep ==
  ASSUME Paired, Unshared, Restart
  PROVE  O!Forget
<1> DEFINE b == Head(pipeline)
<1>1. /\ callbacks' = {}
      /\ \/ told' = told
         \/ down # << >> /\ told' = Outcomes(b, TRUE)
      /\ UNCHANGED <<queue, count, reached>>
  BY DEF Restart, server, durable
<1>2. Waiting' = {} /\ UNCHANGED <<count, Box, reached>>
  BY <1>1 DEF Waiting, Box, Names
<1>3. CASE told' = told
  <2>1. Told' = Told
    BY <1>3 DEF Told
  <2> QED BY <1>2, <2>1 DEF O!Forget, Box, Names, Waiting, Told
<1>4. CASE down # << >> /\ told' = Outcomes(b, TRUE)
  <2>1. /\ pipeline # << >> /\ b.n \in reached
        /\ user \in User /\ queue[user] # << >> /\ b = queue[user][1]
        /\ queue[user] \in Seq(Batch)
    BY <1>4, HeadIs, Known, QueueGrows
  <2>2. Told' = IF b.n \in Waiting THEN Append(Told, b.n) ELSE Told
    BY <1>4, <2>1, Telling
  <2> HIDE DEF b
  <2>3. Box[user] # << >> /\ Head(Box[user]) = b.n
    BY <2>1, NamesOfTail DEF Box
  <2>4. \E u \in User :
          /\ Box[u] # << >> /\ Head(Box[u]) \in reached
          /\ Told' = IF Head(Box[u]) \in Waiting THEN Append(Told, Head(Box[u])) ELSE Told
    BY <2>1, <2>2, <2>3
  <2> QED BY <1>2, <2>4 DEF O!Forget, O!Tell, Box, Names, Waiting, Told
<1> QED BY <1>1, <1>3, <1>4

(* The persistent queues, the pipeline and the stream implement the        *)
(* outbox: whatever breaks, the writes of a user reach the server and are  *)
(* settled in the order of issue, no outcome is told before the server has *)
(* dealt with the write, and none is told twice.                           *)
THEOREM Refinement == Spec => ImplementsOutbox
<1>1. Init => O!Init /\ Unshared
  <2> SUFFICES ASSUME Init PROVE O!Init /\ Unshared
    OBVIOUS
  <2>1. /\ queue = [u \in User |-> << >>] /\ callbacks = {} /\ told = << >>
        /\ count = 0 /\ reached = {}
    BY DEF Init
  <2>2. Unshared
    BY <2>1 DEF Unshared
  <2>3. [i \in DOMAIN << >> |-> (<< >>)[i].n] = << >>
    OBVIOUS
  <2>4. [u \in User |-> [i \in DOMAIN queue[u] |-> queue[u][i].n]] = [u \in User |-> << >>]
    BY <2>1, <2>3
  <2>5. [i \in DOMAIN told |-> told[i].n] = << >>
    BY <2>1, <2>3
  <2>6. {c.n : c \in callbacks} = {}
    BY <2>1
  <2> QED BY <2>1, <2>2, <2>4, <2>5, <2>6 DEF O!Init
<1>2. Paired /\ Unshared /\ [Next]_vars => Unshared'
  BY UnsharedStep
<1>3. Paired /\ Unshared /\ [Next]_vars => [O!Next]_(O!outbox)
  <2> SUFFICES ASSUME Paired, Unshared, [Next]_vars
               PROVE  O!Next \/ UNCHANGED O!outbox
    OBVIOUS
  <2>1. ASSUME NEW op \in Ops, WriteMutations(op) PROVE O!Next
    <3>1. \E u \in User : O!Put(u)
      BY <2>1, PutStep
    <3> QED BY <3>1 DEF O!Next
  <2>2. CASE OnMutationResult \/ OnStreamFinish
    <3>1. \E u \in User : O!Settle(u)
      BY <2>2, SettleStep
    <3> QED BY <3>1 DEF O!Next
  <2>3. CASE AnswerBatch
    <3>1. (\E u \in User : O!Reach(u)) \/ UNCHANGED O!outbox
      BY <2>3, ReachStep
    <3> QED BY <3>1 DEF O!Next
  <2>4. CASE Restart
    BY <2>4, ForgetStep DEF O!Next
  <2>5. CASE \/ ResumeStartWithCredentials \/ BackoffElapsed \/ OnHandshakeResponse
             \/ AnswerHandshake \/ Break \/ IdleTimeout
             \/ \E u \in User : HandleCredentialChange(u)
             \/ UNCHANGED vars
    <3>1. UNCHANGED <<count, queue, reached, callbacks, told>>
      BY <2>5 DEF ResumeStartWithCredentials, BackoffElapsed, OnHandshakeResponse,
                  AnswerHandshake, Break, CloseAndRetry, IdleTimeout,
                  HandleCredentialChange, vars, durable, session, server
    <3> QED BY <3>1 DEF O!outbox
  <2> QED BY <2>1, <2>2, <2>3, <2>4, <2>5 DEF Next, ClientStep, ServerStep
<1> QED BY <1>1, <1>2, <1>3, PairedAlways, PTL DEF Spec, ImplementsOutbox, O!Spec

-----------------------------------------------------------------------------
(* What pending writes make of a document.                                 *)

(* A set of batches with the numbers of different writes, up to N.         *)
Numbered(S, N) ==
  /\ N \in Nat /\ S \subseteq Batch
  /\ \A b \in S : b.n \in 1..N
  /\ \A a, b \in S : a.n = b.n => a = b

(* Of some kinds of write, if there is one at all, there is a last one.    *)
LEMMA LastExists ==
  ASSUME NEW S, NEW N, Numbered(S, N), NEW ops, ~NoneOf(S, ops)
  PROVE  \E b \in S : LastOf(b, S, ops)
<1> DEFINE T == {N - b.n : b \in {c \in S : c.op \in ops}}
<1>1. N \in Nat /\ \A b \in S : b.n \in Nat /\ b.n <= N
  BY DEF Numbered
<1>2. T \subseteq Nat
  BY <1>1
<1>3. T # {}
  BY DEF NoneOf
<1>4. PICK t \in T : \A x \in T : t <= x
  BY <1>2, <1>3, LeastNatural
<1>5. PICK b \in S : b.op \in ops /\ t = N - b.n
  BY <1>4
<1>6. \A c \in S : c.op \in ops => c.n <= b.n
  <2> TAKE c \in S
  <2> HAVE c.op \in ops
  <2>1. N - b.n <= N - c.n
    BY <1>4, <1>5
  <2> QED BY <1>1, <2>1
<1> QED BY <1>5, <1>6 DEF LastOf

(* The increments can be counted.                                          *)
LEMMA LikesFinite ==
  ASSUME NEW S, NEW N, Numbered(S, N), NEW n
  PROVE  /\ IsFiniteSet(LikesAfter(S, n))
         /\ Cardinality(LikesAfter(S, n)) \in Nat
<1>1. N \in Nat /\ LikesAfter(S, n) \subseteq 1..N
  BY DEF Numbered, LikesAfter
<1>2. IsFiniteSet(1..N)
  BY <1>1, FS_Interval
<1>3. IsFiniteSet(LikesAfter(S, n))
  BY <1>1, <1>2, FS_Subset
<1> QED BY <1>3, FS_CardinalityType

(* One more increment counts once.                                         *)
LEMMA LikeCounts ==
  ASSUME NEW S, NEW N, Numbered(S, N), NEW n \in Nat,
         NEW T, NEW b, b.op = "like", b.n > n, b.n \notin LikesAfter(S, n),
         LikesAfter(T, n) = LikesAfter(S, n) \cup {b.n}
  PROVE  Cardinality(LikesAfter(T, n)) = Cardinality(LikesAfter(S, n)) + 1
BY LikesFinite, FS_AddElement

(* A write is issued: it goes to the end, also of what is left.            *)
LEMMA Issued ==
  ASSUME NEW S, NEW N, Numbered(S, N), NEW R, R \subseteq S,
         NEW d \in Doc, NEW w \in Doc, NEW e,
         LeadsTo(S, R, d, w, e),
         NEW b \in Batch, b.n = N + 1
  PROVE  LeadsTo(S \cup {b}, R \cup {b}, d, Attempt(w, b.op, b.n), e)
<1> DEFINE A == S \cup {b}
           L == R \cup {b}
           v == Attempt(w, b.op, b.n)
<1>1. /\ N \in Nat /\ b.n \in Nat /\ b.n > N /\ b.n # 0 /\ b.op \in Ops
      /\ \A c \in S : c.n \in 1..N /\ c.n < b.n /\ c # b /\ c.op \in Ops
      /\ d.val \in Nat /\ d.likes \in Nat /\ w.val \in Nat /\ w.likes \in Nat
  BY DEF Numbered, Batch, Doc
<1>2. b.op \in {"set", "update", "like", "delete"}
  BY <1>1, OpsAssumption
<1>3. /\ b.op = "set" => v.val = b.n /\ v.likes = 0
      /\ b.op = "update" => /\ w.val # 0 => v.val = b.n /\ v.likes = w.likes
                            /\ w.val = 0 => v = w
      /\ b.op = "like" => /\ w.val # 0 => v.val = w.val /\ v.likes = w.likes + 1
                          /\ w.val = 0 => v = w
      /\ b.op = "delete" => v.val = 0 /\ v.likes = 0
  BY <1>2 DEF Attempt, Accepts, Effect, Absent, Doc
<1>4. Sparse(d) /\ Sparse(v)
  BY <1>1, <1>2, <1>3 DEF LeadsTo, Sparse
<1>5. /\ b.op \notin Makers => (v.val # 0 <=> w.val # 0)
      /\ b.op = "like" => v.val = w.val
      /\ b.op \in Makers => (b.op = "set" <=> v.val # 0)
  BY <1>1, <1>2, <1>3 DEF Makers
<1> HIDE DEF v
<1>6. ASSUME NEW ops, NEW c, LastOf(c, A, ops)
      PROVE  /\ b.op \in ops => c = b
             /\ b.op \notin ops => c \in S /\ LastOf(c, S, ops)
  <2>1. c \in A /\ c.op \in ops /\ \A x \in A : x.op \in ops => x.n <= c.n
    BY <1>6 DEF LastOf
  <2>2. ASSUME b.op \in ops PROVE c = b
    <3>1. b.n <= c.n
      BY <2>1, <2>2
    <3>2. c \notin S
      <4>1. ASSUME c \in S PROVE FALSE
        <5>1. c.n \in Nat /\ c.n < b.n
          BY <1>1, <4>1
        <5> QED BY <1>1, <3>1, <5>1
      <4> QED BY <4>1
    <3> QED BY <2>1, <3>2
  <2>3. ASSUME b.op \notin ops PROVE c \in S /\ LastOf(c, S, ops)
    BY <2>1, <2>3 DEF LastOf
  <2> QED BY <2>2, <2>3
<1>7. \A ops : NoneOf(L, ops) => NoneOf(R, ops) /\ b.op \notin ops
  BY DEF NoneOf
<1>8. ASSUME NEW c \in A, LastOf(c, A, Makers)
      PROVE  c.op = "set" <=> v.val # 0
  <2>1. CASE b.op \in Makers
    BY <1>5, <1>6, <1>8, <2>1
  <2>2. CASE b.op \notin Makers
    <3>1. c \in S /\ LastOf(c, S, Makers)
      BY <1>6, <1>8, <2>2
    <3> QED BY <1>5, <2>2, <3>1 DEF LeadsTo
  <2> QED BY <2>1, <2>2
<1>9. NoneOf(L, Makers) => (d.val # 0 <=> v.val # 0)
  BY <1>5, <1>7 DEF LeadsTo
<1>10. ASSUME v.val # 0, NEW c \in A, LastOf(c, A, Setters)
       PROVE  v.val = c.n
  <2>1. CASE b.op \in Setters
    BY <1>1, <1>3, <1>6, <1>10, <2>1 DEF Setters
  <2>2. CASE b.op \notin Setters
    <3>1. c \in S /\ LastOf(c, S, Setters)
      BY <1>6, <1>10, <2>2
    <3>2. b.op = "like"
      BY <1>2, <1>3, <1>10, <2>2 DEF Setters
    <3>3. v.val = w.val /\ w.val # 0
      BY <1>5, <1>10, <3>2
    <3> QED BY <3>1, <3>3 DEF LeadsTo
  <2> QED BY <2>1, <2>2
<1>11. ASSUME v.val # 0, NEW n \in Nat, NEW T, Numbered(T, N), T \subseteq S, n <= N
       PROVE  /\ b.op = "like" => Cardinality(LikesAfter(T \cup {b}, n))
                                    = Cardinality(LikesAfter(T, n)) + 1
              /\ b.op # "like" => LikesAfter(T \cup {b}, n) = LikesAfter(T, n)
  <2>1. ASSUME b.op = "like"
        PROVE  Cardinality(LikesAfter(T \cup {b}, n)) = Cardinality(LikesAfter(T, n)) + 1
    <3>1. b.n > n
      BY <1>1, <1>11
    <3>2. LikesAfter(T \cup {b}, n) = LikesAfter(T, n) \cup {b.n}
      BY <2>1, <3>1 DEF LikesAfter
    <3>3. b.n \notin LikesAfter(T, n)
      <4>1. \A c \in T : c.n # b.n
        BY <1>1, <1>11
      <4> QED BY <4>1 DEF LikesAfter
    <3> HIDE DEF v
    <3> QED BY <1>11, <2>1, <3>1, <3>2, <3>3, LikeCounts
  <2>2. b.op # "like" => LikesAfter(T \cup {b}, n) = LikesAfter(T, n)
    BY DEF LikesAfter
  <2> QED BY <2>1, <2>2
<1>12. Numbered(R, N)
  BY DEF Numbered
<1>13. ASSUME v.val # 0, NEW c \in A, LastOf(c, A, Makers)
       PROVE  v.likes = Cardinality(LikesAfter(A, c.n))
  <2>1. CASE b.op \in Makers
    <3>1. c = b /\ b.op = "set"
      BY <1>5, <1>6, <1>13, <2>1
    <3>2. LikesAfter(A, c.n) = {}
      <4>1. \A x \in A : ~(x.n > b.n)
        BY <1>1
      <4> QED BY <3>1, <4>1 DEF LikesAfter
    <3>3. Cardinality({}) = 0
      BY FS_EmptySet
    <3> QED BY <1>3, <3>1, <3>2, <3>3
  <2>2. CASE b.op \notin Makers
    <3>1. c \in S /\ LastOf(c, S, Makers) /\ w.val # 0
      BY <1>5, <1>6, <1>13, <2>2
    <3>2. w.likes = Cardinality(LikesAfter(S, c.n))
      BY <3>1 DEF LeadsTo
    <3>3. c.n \in Nat /\ c.n <= N
      BY <1>1, <3>1
    <3>4. /\ b.op = "like" => v.likes = w.likes + 1
          /\ b.op # "like" => v.likes = w.likes
      BY <1>2, <1>3, <2>2, <3>1 DEF Makers
    <3>5. /\ b.op = "like" => Cardinality(LikesAfter(A, c.n))
                                = Cardinality(LikesAfter(S, c.n)) + 1
          /\ b.op # "like" => LikesAfter(A, c.n) = LikesAfter(S, c.n)
      BY <1>11, <1>13, <3>3
    <3> QED BY <3>2, <3>4, <3>5
  <2> QED BY <2>1, <2>2
<1>14. ASSUME v.val # 0, NoneOf(L, Setters) PROVE d.val = v.val
  <2>1. NoneOf(R, Setters) /\ b.op \notin Setters
    BY <1>7, <1>14
  <2>2. v.val = w.val /\ w.val # 0
    BY <1>2, <1>3, <1>5, <1>14, <2>1 DEF Setters
  <2> QED BY <2>1, <2>2 DEF LeadsTo
<1>15. ASSUME v.val # 0, NoneOf(L, Makers)
       PROVE  LET likes == d.likes + Cardinality(LikesAfter(L, 0)) IN
                v.likes <= likes /\ (e = 0 => v.likes = likes)
  <2>1. NoneOf(R, Makers) /\ b.op \notin Makers /\ w.val # 0
    BY <1>5, <1>7, <1>15
  <2> DEFINE k == Cardinality(LikesAfter(R, 0))
             m == Cardinality(LikesAfter(L, 0))
  <2>2. w.likes <= d.likes + k /\ (e = 0 => w.likes = d.likes + k)
    BY <2>1 DEF LeadsTo
  <2>3. /\ b.op = "like" => v.likes = w.likes + 1 /\ m = k + 1
        /\ b.op # "like" => v.likes = w.likes /\ m = k
    <3>1. /\ b.op = "like" => v.likes = w.likes + 1
          /\ b.op # "like" => v.likes = w.likes
      BY <1>2, <1>3, <2>1 DEF Makers
    <3>2. /\ b.op = "like" => m = k + 1
          /\ b.op # "like" => m = k
      <4>1. 0 <= N /\ 0 \in Nat
        BY <1>1
      <4> QED BY <1>11, <1>12, <1>15, <4>1
    <3> QED BY <3>1, <3>2
  <2>4. k \in Nat
    BY <1>12, LikesFinite
  <2> HIDE DEF k
  <2>5. v.likes <= d.likes + m /\ (e = 0 => v.likes = d.likes + m)
    <3> HIDE DEF m
    <3> QED BY <1>1, <2>2, <2>3, <2>4
  <2> QED BY <2>5
<1>16. LeadsTo(A, L, d, v, e)
  <2> HIDE DEF A, L
  <2> QED BY <1>4, <1>8, <1>9, <1>10, <1>13, <1>14, <1>15 DEF LeadsTo
<1> QED BY <1>16 DEF v

(* The server deals with the first write that is left.                     *)
LEMMA Dealt ==
  ASSUME NEW S, NEW N, Numbered(S, N), NEW R, R \subseteq S,
         NEW d \in Doc, NEW w \in Doc, NEW e,
         LeadsTo(S, R, d, w, e),
         NEW b \in R, \A c \in R \ {b} : b.n < c.n,
         \A c \in S : c.n > b.n => c \in R
  PROVE  LeadsTo(S, R \ {b}, Attempt(d, b.op, b.n), w, e)
<1> DEFINE L == R \ {b}
           v == Attempt(d, b.op, b.n)
<1>1. /\ N \in Nat /\ b \in S /\ b.n \in Nat /\ b.n # 0 /\ b.op \in Ops
      /\ \A c \in S : c.n \in 1..N /\ c.op \in Ops
      /\ d.val \in Nat /\ d.likes \in Nat /\ w.val \in Nat /\ w.likes \in Nat
  BY DEF Numbered, Batch, Doc
<1>2. b.op \in {"set", "update", "like", "delete"}
  BY <1>1, OpsAssumption
<1>3. /\ b.op = "set" => v.val = b.n /\ v.likes = 0
      /\ b.op = "update" => /\ d.val # 0 => v.val = b.n /\ v.likes = d.likes
                            /\ d.val = 0 => v = d
      /\ b.op = "like" => /\ d.val # 0 => v.val = d.val /\ v.likes = d.likes + 1
                          /\ d.val = 0 => v = d
      /\ b.op = "delete" => v.val = 0 /\ v.likes = 0
  BY <1>2 DEF Attempt, Accepts, Effect, Absent, Doc
<1>4. Sparse(w) /\ Sparse(v)
  BY <1>1, <1>2, <1>3 DEF LeadsTo, Sparse
<1>5. /\ b.op \notin Makers => (v.val # 0 <=> d.val # 0)
      /\ b.op = "like" => v.val = d.val
      /\ b.op \in Makers => (b.op = "set" <=> v.val # 0)
  BY <1>1, <1>2, <1>3 DEF Makers
<1> HIDE DEF v
<1>6. \A c \in S : c.n > b.n => c \in L
  BY <1>1
<1>7. ASSUME NEW ops, NoneOf(L, ops)
      PROVE  /\ b.op \in ops => LastOf(b, S, ops)
             /\ b.op \notin ops => NoneOf(R, ops)
  <2>1. ASSUME b.op \in ops PROVE LastOf(b, S, ops)
    <3>1. \A c \in S : c.op \in ops => ~(c.n > b.n)
      BY <1>6, <1>7 DEF NoneOf
    <3>2. \A c \in S : c.op \in ops => c.n <= b.n
      BY <1>1, <3>1
    <3> QED BY <1>1, <2>1, <3>2 DEF LastOf
  <2>2. b.op \notin ops => NoneOf(R, ops)
    BY <1>7 DEF NoneOf
  <2> QED BY <2>1, <2>2
<1>8. NoneOf(L, Makers) => (v.val # 0 <=> w.val # 0)
  <2> HAVE NoneOf(L, Makers)
  <2>1. CASE b.op \in Makers
    <3>1. LastOf(b, S, Makers)
      BY <1>7, <2>1
    <3> QED BY <1>1, <1>5, <2>1, <3>1 DEF LeadsTo
  <2>2. CASE b.op \notin Makers
    BY <1>5, <1>7, <2>2 DEF LeadsTo
  <2> QED BY <2>1, <2>2
<1>9. ASSUME w.val # 0, NoneOf(L, Setters) PROVE v.val = w.val
  <2>1. NoneOf(L, Makers)
    <3> SUFFICES ASSUME ~NoneOf(L, Makers) PROVE FALSE
      OBVIOUS
    <3>1. PICK x \in L : x.op \in Makers
      BY DEF NoneOf
    <3>2. ~NoneOf(S, Makers)
      BY <3>1 DEF NoneOf
    <3>3. PICK m \in S : LastOf(m, S, Makers)
      BY <3>2, LastExists
    <3>4. m.op = "set"
      BY <1>9, <3>3 DEF LeadsTo
    <3>5. x \in S /\ x.n <= m.n /\ b.n < x.n
      BY <3>1, <3>3 DEF LastOf
    <3>6. m.n > b.n
      BY <1>1, <3>3, <3>5
    <3>7. m \in L
      BY <1>6, <3>3, <3>6
    <3> QED BY <1>9, <3>4, <3>7 DEF NoneOf, Setters
  <2>2. v.val # 0
    BY <1>8, <1>9, <2>1
  <2>3. CASE b.op \in Setters
    <3>1. LastOf(b, S, Setters)
      BY <1>7, <1>9, <2>3
    <3>2. w.val = b.n
      BY <1>1, <1>9, <3>1 DEF LeadsTo
    <3>3. v.val = b.n
      BY <1>3, <2>2, <2>3 DEF Setters
    <3> QED BY <3>2, <3>3
  <2>4. CASE b.op \notin Setters
    <3>1. b.op = "like"
      BY <1>2, <1>3, <2>2, <2>4 DEF Setters
    <3>2. d.val = w.val
      BY <1>7, <1>9, <2>4 DEF LeadsTo
    <3> QED BY <1>5, <3>1, <3>2
  <2> QED BY <2>3, <2>4
<1>10. Numbered(R, N) /\ Numbered(L, N)
  BY DEF Numbered
<1>11. ASSUME w.val # 0, NoneOf(L, Makers)
       PROVE  LET likes == v.likes + Cardinality(LikesAfter(L, 0)) IN
                w.likes <= likes /\ (e = 0 => w.likes = likes)
  <2> DEFINE k == Cardinality(LikesAfter(R, 0))
             m == Cardinality(LikesAfter(L, 0))
  <2>0. k \in Nat /\ m \in Nat
    BY <1>10, LikesFinite
  <2>1. CASE b.op \in Makers
    <3>1. LastOf(b, S, Makers)
      BY <1>7, <1>11, <2>1
    <3>2. b.op = "set" /\ w.likes = Cardinality(LikesAfter(S, b.n))
      BY <1>1, <1>11, <3>1 DEF LeadsTo
    <3>3. LikesAfter(S, b.n) = LikesAfter(L, 0)
      <4>1. \A c \in L : c.n > 0 /\ c.n > b.n /\ c \in S
        BY <1>1
      <4> QED BY <1>6, <4>1 DEF LikesAfter
    <3>4. v.likes = 0
      BY <1>3, <3>2
    <3>5. w.likes = m
      BY <3>2, <3>3
    <3> HIDE DEF m
    <3>6. w.likes <= v.likes + m /\ w.likes = v.likes + m
      BY <2>0, <3>4, <3>5
    <3> QED BY <3>6 DEF m
  <2>2. CASE b.op \notin Makers
    <3>1. NoneOf(R, Makers)
      BY <1>7, <1>11, <2>2
    <3>2. w.likes <= d.likes + k /\ (e = 0 => w.likes = d.likes + k)
      BY <1>11, <3>1 DEF LeadsTo
    <3>3. d.val # 0
      BY <1>11, <3>1 DEF LeadsTo
    <3>4. /\ b.op = "like" => v.likes = d.likes + 1
          /\ b.op # "like" => v.likes = d.likes
      BY <1>2, <1>3, <2>2, <3>3 DEF Makers
    <3>5. ASSUME b.op = "like" PROVE k = m + 1
      <4>1. b.n > 0 /\ 0 \in Nat
        BY <1>1
      <4>2. LikesAfter(R, 0) = LikesAfter(L, 0) \cup {b.n}
        BY <3>5, <4>1 DEF LikesAfter
      <4>3. b.n \notin LikesAfter(L, 0)
        <5>1. \A c \in L : c.n # b.n
          BY <1>1
        <5> QED BY <5>1 DEF LikesAfter
      <4> QED BY <1>10, <3>5, <4>1, <4>2, <4>3, LikeCounts
    <3>6. ASSUME b.op # "like" PROVE k = m
      <4>1. LikesAfter(R, 0) = LikesAfter(L, 0)
        BY <3>6 DEF LikesAfter
      <4> QED BY <4>1
    <3> HIDE DEF k, m
    <3>7. w.likes <= v.likes + m /\ (e = 0 => w.likes = v.likes + m)
      BY <1>1, <2>0, <3>2, <3>4, <3>5, <3>6
    <3> QED BY <3>7 DEF m
  <2> QED BY <2>1, <2>2
<1>12. LeadsTo(S, L, v, w, e)
  <2>1. /\ \A c \in S : LastOf(c, S, Makers) => (c.op = "set" <=> w.val # 0)
        /\ w.val # 0 => \A c \in S : LastOf(c, S, Setters) => w.val = c.n
        /\ w.val # 0 => \A c \in S : LastOf(c, S, Makers) =>
             w.likes = Cardinality(LikesAfter(S, c.n))
    BY DEF LeadsTo
  <2> HIDE DEF L
  <2> QED BY <1>4, <1>8, <1>9, <1>11, <2>1 DEF LeadsTo
<1> QED BY <1>12 DEF v

(* The oldest write, with which the server has dealt, leaves the queue.    *)
LEMMA Dropped ==
  ASSUME NEW S, NEW N, Numbered(S, N), NEW R, R \subseteq S,
         NEW d, NEW w, NEW e, LeadsTo(S, R, d, w, e),
         NEW b \in S, b \notin R, \A c \in S \ {b} : b.n < c.n
  PROVE  LeadsTo(S \ {b}, R, d, w, e)
<1> DEFINE A == S \ {b}
<1>1. \A c \in S : c.n \in Nat
  BY DEF Numbered
<1>2. ASSUME NEW ops, NEW c \in A, LastOf(c, A, ops)
      PROVE  LastOf(c, S, ops)
  <2>1. c.op \in ops /\ \A x \in A : x.op \in ops => x.n <= c.n
    BY <1>2 DEF LastOf
  <2>2. b.n <= c.n
    BY <1>1
  <2> QED BY <2>1, <2>2 DEF LastOf
<1>3. \A c \in A : LikesAfter(A, c.n) = LikesAfter(S, c.n)
  <2> TAKE c \in A
  <2>1. ~(b.n > c.n)
    BY <1>1
  <2> QED BY <2>1 DEF LikesAfter
<1>4. \A c \in A : c \in S
  OBVIOUS
<1>5. LeadsTo(A, R, d, w, e)
  <2> HIDE DEF A
  <2> QED BY <1>2, <1>3, <1>4 DEF LeadsTo
<1> QED BY <1>5

(* The call is over: what the server has dealt with is left once more.     *)
(* What it left of the document stays right, but increments may count      *)
(* again, unless there is no document.                                     *)
LEMMA LeftAgain ==
  ASSUME NEW S, NEW N, Numbered(S, N), NEW R, R \subseteq S, NEW Q, Q \subseteq S,
         R \subseteq Q, NEW d \in Doc, NEW w \in Doc, NEW e, LeadsTo(S, R, d, w, e),
         NEW f, f = 0 => e = 0 /\ (Q = R \/ d.val = 0)
  PROVE  LeadsTo(S, Q, d, w, f)
<1>1. \A ops : NoneOf(Q, ops) => NoneOf(R, ops)
  BY DEF NoneOf
<1>2. Numbered(R, N) /\ Numbered(Q, N)
  BY DEF Numbered
<1>3. ASSUME w.val # 0, NoneOf(Q, Makers)
      PROVE  LET likes == d.likes + Cardinality(LikesAfter(Q, 0)) IN
               w.likes <= likes /\ (f = 0 => w.likes = likes)
  <2> DEFINE k == Cardinality(LikesAfter(R, 0))
             m == Cardinality(LikesAfter(Q, 0))
  <2>1. k \in Nat /\ m \in Nat /\ d.likes \in Nat /\ w.likes \in Nat
    BY <1>2, LikesFinite DEF Doc
  <2>2. NoneOf(R, Makers)
    BY <1>1, <1>3
  <2>3. w.likes <= d.likes + k /\ (e = 0 => w.likes = d.likes + k) /\ d.val # 0
    BY <1>3, <2>2 DEF LeadsTo
  <2>4. k <= m
    <3>1. LikesAfter(R, 0) \subseteq LikesAfter(Q, 0)
      BY DEF LikesAfter
    <3> QED BY <1>2, <3>1, LikesFinite, FS_Subset
  <2>5. f = 0 => e = 0 /\ k = m
    BY <2>3
  <2> HIDE DEF k, m
  <2>6. w.likes <= d.likes + m
    BY <2>1, <2>3, <2>4
  <2>7. f = 0 => w.likes = d.likes + m
    BY <2>3, <2>5
  <2> QED BY <2>6, <2>7 DEF m
<1> QED BY <1>1, <1>3 DEF LeadsTo

(* The batches of a queue from some place on.                              *)
LEMMA RestIs ==
  ASSUME NEW q \in Seq(Batch), NEW k \in Nat
  PROVE  /\ Rest(q, k) \subseteq Rest(q, 0)
         /\ \A i \in 1..Len(q) : i > k => q[i] \in Rest(q, k)
         /\ \A b \in Rest(q, k) : \E i \in 1..Len(q) : i > k /\ b = q[i]
<1>1. Len(q) \in Nat /\ DOMAIN q = 1..Len(q)
  OBVIOUS
<1>2. \A i \in 1..Len(q) : i > k => i > 0
  BY <1>1
<1> QED BY <1>1, <1>2 DEF Rest

(* The numbers grow along a queue.                                         *)
Rising(q) == \A i, j \in 1..Len(q) : i < j => q[i].n < q[j].n

LEMMA RestNumbered ==
  ASSUME Paired, NEW u \in User
  PROVE  /\ queue[u] \in Seq(Batch) /\ Rising(queue[u])
         /\ Numbered(Rest(queue[u], 0), count)
<1> DEFINE q == queue[u]
<1>1. /\ q \in Seq(Batch) /\ Len(q) \in Nat /\ DOMAIN q = 1..Len(q)
  BY QueueGrows
<1>2. /\ \A i \in 1..Len(q) : q[i].n \in 1..count
      /\ Rising(q)
  BY <1>1 DEF Paired, Ascending, Rising
<1>3. count \in Nat
  BY DEF Paired, TypeOK
<1>4. \A i \in 1..Len(q) : q[i] \in Batch
  BY <1>1, ElementOfSeq
<1> HIDE DEF q
<1>5. \A b \in Rest(q, 0) : \E i \in 1..Len(q) : b = q[i]
  BY <1>1, RestIs
<1>6. \A i, j \in 1..Len(q) : q[i].n = q[j].n => q[i] = q[j]
  <2> TAKE i, j \in 1..Len(q)
  <2> HAVE q[i].n = q[j].n
  <2>1. q[i].n \in Nat /\ q[j].n \in Nat
    BY <1>2, <1>3
  <2>2. ~(i < j) /\ ~(j < i)
    BY <1>2, <2>1 DEF Rising
  <2>3. i = j
    BY <1>1, <2>2
  <2> QED BY <2>3
<1>7. Rest(q, 0) \subseteq Batch
  BY <1>4, <1>5
<1>8. \A b \in Rest(q, 0) : b.n \in 1..count
  BY <1>2, <1>5
<1>9. \A a, b \in Rest(q, 0) : a.n = b.n => a = b
  BY <1>5, <1>6
<1> QED BY <1>1, <1>2, <1>3, <1>7, <1>8, <1>9 DEF q, Numbered

(* The first batch of the rest. *)
LEMMA RestFirst ==
  ASSUME NEW q \in Seq(Batch), Rising(q), NEW k \in Nat, k + 1 <= Len(q)
  PROVE  /\ q[k + 1] \in Rest(q, k)
         /\ Rest(q, k + 1) = Rest(q, k) \ {q[k + 1]}
         /\ \A b \in Rest(q, k + 1) : q[k + 1].n < b.n
         /\ \A b \in Rest(q, 0) : b.n > q[k + 1].n => b \in Rest(q, k)
<1>1. Len(q) \in Nat /\ k + 1 \in Nat /\ k + 1 \in 1..Len(q) /\ k + 1 > k
  OBVIOUS
<1>2. \A i \in 1..Len(q) : q[i].n \in Nat
  <2>1. \A i \in 1..Len(q) : q[i] \in Batch
    BY ElementOfSeq
  <2> QED BY <2>1 DEF Batch
<1>3. /\ \A i \in 1..Len(q) : i > k => q[i] \in Rest(q, k)
      /\ \A b \in Rest(q, k) : \E i \in 1..Len(q) : i > k /\ b = q[i]
  BY RestIs
<1>4. /\ \A i \in 1..Len(q) : i > k + 1 => q[i] \in Rest(q, k + 1)
      /\ \A b \in Rest(q, k + 1) : \E i \in 1..Len(q) : i > k + 1 /\ b = q[i]
  BY <1>1, RestIs
<1>5. \A b \in Rest(q, 0) : \E i \in 1..Len(q) : b = q[i]
  BY RestIs
<1>6. q[k + 1] \in Rest(q, k)
  BY <1>1, <1>3
<1>7. \A b \in Rest(q, k + 1) : q[k + 1].n < b.n /\ b \in Rest(q, k)
  <2> TAKE b \in Rest(q, k + 1)
  <2>1. PICK i \in 1..Len(q) : i > k + 1 /\ b = q[i]
    BY <1>4
  <2>2. k + 1 < i /\ i > k
    BY <1>1, <2>1
  <2> QED BY <1>1, <1>3, <2>1, <2>2 DEF Rising
<1>8. \A b \in Rest(q, k) : b # q[k + 1] => b \in Rest(q, k + 1)
  <2> TAKE b \in Rest(q, k)
  <2> HAVE b # q[k + 1]
  <2>1. PICK i \in 1..Len(q) : i > k /\ b = q[i]
    BY <1>3
  <2>2. i # k + 1
    BY <2>1
  <2>3. i > k + 1
    BY <1>1, <2>1, <2>2
  <2> QED BY <1>4, <2>1, <2>3
<1>9. \A b \in Rest(q, k + 1) : b # q[k + 1]
  BY <1>1, <1>2, <1>7
<1>10. \A b \in Rest(q, 0) : b.n > q[k + 1].n => b \in Rest(q, k)
  <2> TAKE b \in Rest(q, 0)
  <2> HAVE b.n > q[k + 1].n
  <2>1. PICK i \in 1..Len(q) : b = q[i]
    BY <1>5
  <2>2. q[i].n \in Nat /\ q[k + 1].n \in Nat /\ q[k + 1].n < q[i].n
    BY <1>1, <1>2, <2>1
  <2>3. i # k + 1 /\ ~(i < k + 1)
    BY <1>1, <2>2 DEF Rising
  <2>4. i > k
    BY <1>1, <2>3
  <2> QED BY <1>3, <2>1, <2>4
<1> QED BY <1>6, <1>7, <1>8, <1>9, <1>10

LEMMA RestOfTail ==
  ASSUME NEW q \in Seq(Batch), q # << >>, NEW k \in Nat
  PROVE  Rest(Tail(q), k) = Rest(q, k + 1)
<1> DEFINE t == Tail(q)
<1>1. /\ t \in Seq(Batch) /\ Len(q) \in Nat \ {0} /\ Len(t) = Len(q) - 1
      /\ \A i \in 1..Len(t) : t[i] = q[i + 1]
  BY HeadTailProperties, EmptySeq
<1> HIDE DEF t
<1>2. /\ \A i \in 1..Len(t) : i > k => t[i] \in Rest(t, k)
      /\ \A b \in Rest(t, k) : \E i \in 1..Len(t) : i > k /\ b = t[i]
  BY <1>1, RestIs
<1>3. /\ \A i \in 1..Len(q) : i > k + 1 => q[i] \in Rest(q, k + 1)
      /\ \A b \in Rest(q, k + 1) : \E i \in 1..Len(q) : i > k + 1 /\ b = q[i]
  <2>1. k + 1 \in Nat
    OBVIOUS
  <2> QED BY <2>1, RestIs
<1>4. ASSUME NEW b \in Rest(t, k) PROVE b \in Rest(q, k + 1)
  <2>1. PICK i \in 1..Len(t) : i > k /\ b = t[i]
    BY <1>2
  <2>2. i + 1 \in 1..Len(q) /\ i + 1 > k + 1
    BY <1>1, <2>1
  <2> QED BY <1>1, <1>3, <2>1, <2>2
<1>5. ASSUME NEW b \in Rest(q, k + 1) PROVE b \in Rest(t, k)
  <2>1. PICK i \in 1..Len(q) : i > k + 1 /\ b = q[i]
    BY <1>3
  <2>2. i - 1 \in 1..Len(t) /\ i - 1 > k /\ (i - 1) + 1 = i
    BY <1>1, <2>1
  <2>3. t[i - 1] = b
    BY <1>1, <2>1, <2>2
  <2> QED BY <1>2, <2>2, <2>3
<1> QED BY <1>4, <1>5 DEF t

LEMMA RestOfAppend ==
  ASSUME NEW q \in Seq(Batch), NEW b \in Batch, NEW k \in Nat, k <= Len(q)
  PROVE  Rest(Append(q, b), k) = Rest(q, k) \cup {b}
<1> DEFINE t == Append(q, b)
<1>1. /\ t \in Seq(Batch) /\ Len(q) \in Nat /\ Len(t) = Len(q) + 1
      /\ \A i \in 1..Len(q) : t[i] = q[i]
      /\ t[Len(q) + 1] = b
  BY AppendProperties
<1> HIDE DEF t
<1>2. /\ \A i \in 1..Len(t) : i > k => t[i] \in Rest(t, k)
      /\ \A c \in Rest(t, k) : \E i \in 1..Len(t) : i > k /\ c = t[i]
  BY <1>1, RestIs
<1>3. /\ \A i \in 1..Len(q) : i > k => q[i] \in Rest(q, k)
      /\ \A c \in Rest(q, k) : \E i \in 1..Len(q) : i > k /\ c = q[i]
  BY RestIs
<1>4. Len(q) + 1 \in 1..Len(t) /\ Len(q) + 1 > k
  BY <1>1
<1>5. b \in Rest(t, k)
  BY <1>1, <1>2, <1>4
<1>6. ASSUME NEW c \in Rest(q, k) PROVE c \in Rest(t, k)
  <2>1. PICK i \in 1..Len(q) : i > k /\ c = q[i]
    BY <1>3
  <2>2. i \in 1..Len(t)
    BY <1>1
  <2> QED BY <1>1, <1>2, <2>1, <2>2
<1>7. ASSUME NEW c \in Rest(t, k), c # b PROVE c \in Rest(q, k)
  <2>1. PICK i \in 1..Len(t) : i > k /\ c = t[i]
    BY <1>2
  <2>2. i # Len(q) + 1
    BY <1>1, <1>7, <2>1
  <2>3. i \in 1..Len(q)
    BY <1>1, <2>2
  <2> QED BY <1>1, <1>3, <2>1, <2>3
<1> QED BY <1>5, <1>6, <1>7 DEF t

(* What the steps need to know of the queues and the call.                 *)
LEMMA OnTheWay ==
  ASSUME Paired
  PROVE  /\ user \in User
         /\ Gone \in Nat /\ Gone <= Len(queue[user]) /\ Len(queue[user]) \in Nat
         /\ \A u \in User : docs[u] \in Doc /\ wanted[u] \in Doc
         /\ down = << >> /\ ~ended <=> Gone = 0
         /\ ended => Gone = Len(down) + 1
         /\ ~ended => Gone = Len(down)
<1>1. /\ user \in User /\ down \in Seq(Batch) /\ ended \in BOOLEAN
      /\ docs \in [User -> Doc] /\ wanted \in [User -> Doc]
  BY DEF Paired, TypeOK
<1>2. /\ Len(down) \in Nat /\ (down = << >> <=> Len(down) = 0)
  BY <1>1, EmptySeq
<1>3. /\ Gone \in Nat /\ (down = << >> /\ ~ended <=> Gone = 0)
      /\ (ended => Gone = Len(down) + 1) /\ (~ended => Gone = Len(down))
  BY <1>1, <1>2 DEF Gone
<1>4. /\ Len(pipeline) \in Nat /\ Len(pipeline) <= Len(queue[user])
      /\ Len(queue[user]) \in Nat
  BY <1>1, Known, QueueGrows
<1>5. Gone <= Len(pipeline)
  <2>1. CASE shake = "complete"
    <3>1. Len(up) \in Nat /\ Len(up) + Gone = Len(pipeline)
      BY <2>1, OnCall
    <3> QED BY <1>3, <1>4, <3>1
  <2>2. CASE shake # "complete"
    <3>1. down = << >> /\ ~ended
      BY <2>2, OffCall
    <3> QED BY <1>3, <1>4, <3>1
  <2> QED BY <2>1, <2>2
<1> QED BY <1>1, <1>3, <1>4, <1>5

LEMMA SettlingStart ==
  Init => Settling
<1> SUFFICES ASSUME Init PROVE Settling
  OBVIOUS
<1>1. /\ \A u \in User : queue[u] = << >> /\ docs[u] = Absent /\ wanted[u] = Absent
      /\ ended = FALSE
  BY DEF Init
<1>2. \A k : Rest(<< >>, k) = {}
  BY DEF Rest
<1>3. \A u \in User : Pending(u) = {} /\ Left(u) = {}
  BY <1>1, <1>2 DEF Pending, Left
<1>4. LeadsTo({}, {}, Absent, Absent, faults)
  BY DEF LeadsTo, Sparse, Absent, NoneOf
<1> QED BY <1>1, <1>3, <1>4 DEF Settling

(* Steps that leave queues, documents and what was dealt with alone.       *)
LEMMA SettlingFramed ==
  ASSUME Settling,
         UNCHANGED <<user, queue, docs, wanted, down, ended, faults>>
  PROVE  Settling'
<1>1. \A u \in User : Pending(u)' = Pending(u) /\ Left(u)' = Left(u)
  BY DEF Pending, Left, Gone
<1> QED BY <1>1 DEF Settling

(* Steps that end the call: all that is pending is left once more.         *)
LEMMA SettlingHungUp ==
  ASSUME Paired, Settling,
         HangUp, user' \in User, UNCHANGED <<queue, docs, wanted>>,
         \/ faults' # 0
         \/ faults' = faults /\ pipeline = << >> /\ user' = user
  PROVE  Settling'
<1>1. down' = << >> /\ ended' = FALSE
  BY DEF HangUp
<1>2. Gone' = 0
  BY <1>1 DEF Gone
<1>3. ASSUME NEW u \in User
      PROVE  LeadsTo(Pending(u)', Left(u)', docs'[u], wanted'[u], faults')
  <2>1. Pending(u)' = Rest(queue[u], 0) /\ Left(u)' = Rest(queue[u], 0)
    BY <1>2 DEF Pending, Left
  <2>2. PICK k \in Nat : /\ k = IF u = user THEN Gone ELSE 0
                         /\ Left(u) = Rest(queue[u], k)
    BY OnTheWay DEF Left
  <2>3. LeadsTo(Rest(queue[u], 0), Rest(queue[u], k), docs[u], wanted[u], faults)
    BY <2>2 DEF Settling, Pending
  <2>4. /\ queue[u] \in Seq(Batch) /\ Numbered(Rest(queue[u], 0), count)
    BY RestNumbered
  <2>5. Rest(queue[u], k) \subseteq Rest(queue[u], 0)
    BY <2>4, RestIs
  <2>6. faults' = 0 => faults = 0 /\ Rest(queue[u], 0) = Rest(queue[u], k)
    <3> SUFFICES ASSUME faults' = 0
                 PROVE  faults = 0 /\ Rest(queue[u], 0) = Rest(queue[u], k)
      OBVIOUS
    <3>1. faults = 0 /\ pipeline = << >>
      OBVIOUS
    <3>2. CASE u = user
      <4>1. queue[user] = << >>
        BY <3>1, Known
      <4>2. Len(queue[user]) = 0
        BY <4>1
      <4>3. Gone = 0
        BY <4>2, OnTheWay
      <4> QED BY <2>2, <3>1, <3>2, <4>3
    <3>3. CASE u # user
      BY <2>2, <3>1, <3>3
    <3> QED BY <3>2, <3>3
  <2>7. docs[u] \in Doc /\ wanted[u] \in Doc
    BY OnTheWay
  <2>8. LeadsTo(Rest(queue[u], 0), Rest(queue[u], 0), docs[u], wanted[u], faults')
    BY <2>3, <2>4, <2>5, <2>6, <2>7, LeftAgain
  <2> QED BY <2>1, <2>8
<1> QED BY <1>1, <1>3 DEF Settling

LEMMA SettlingWrite ==
  ASSUME Paired, Settling, NEW op \in Ops, WriteMutations(op)
  PROVE  Settling'
<1> DEFINE b == [id |-> nextId, n |-> count + 1, op |-> op]
<1>1. /\ queue' = [queue EXCEPT ![user] = Append(@, b)]
      /\ wanted' = [wanted EXCEPT ![user] = Attempt(@, op, b.n)]
      /\ UNCHANGED <<user, down, ended, docs, faults>>
  BY DEF WriteMutations, server
<1>2. /\ user \in User /\ queue \in [User -> Seq(Batch)] /\ wanted \in [User -> Doc]
      /\ nextId \in Nat /\ count \in Nat
  BY DEF Paired, TypeOK
<1>3. b \in Batch /\ b.n = count + 1 /\ b.op = op
  BY <1>2 DEF Batch
<1> HIDE DEF b
<1>4. Gone' = Gone
  BY <1>1 DEF Gone
<1>5. ASSUME NEW u \in User, u # user
      PROVE  LeadsTo(Pending(u)', Left(u)', docs'[u], wanted'[u], faults')
  <2>1. queue'[u] = queue[u] /\ wanted'[u] = wanted[u] /\ docs'[u] = docs[u]
    BY <1>1, <1>2, <1>5
  <2>2. Pending(u)' = Pending(u) /\ Left(u)' = Left(u)
    BY <1>1, <1>4, <2>1 DEF Pending, Left
  <2> QED BY <1>1, <2>1, <2>2 DEF Settling
<1>6. LeadsTo(Pending(user)', Left(user)', docs'[user], wanted'[user], faults')
  <2>1. /\ queue'[user] = Append(queue[user], b)
        /\ wanted'[user] = Attempt(wanted[user], b.op, b.n)
        /\ user' = user /\ docs' = docs /\ faults' = faults
    BY <1>1, <1>2, <1>3
  <2>2. /\ queue[user] \in Seq(Batch) /\ Numbered(Rest(queue[user], 0), count)
        /\ Gone \in Nat /\ Gone <= Len(queue[user]) /\ 0 <= Len(queue[user])
        /\ docs[user] \in Doc /\ wanted[user] \in Doc
    BY <1>2, RestNumbered, OnTheWay
  <2>3. /\ Rest(Append(queue[user], b), 0) = Rest(queue[user], 0) \cup {b}
        /\ Rest(Append(queue[user], b), Gone) = Rest(queue[user], Gone) \cup {b}
        /\ Rest(queue[user], Gone) \subseteq Rest(queue[user], 0)
    BY <1>3, <2>2, RestOfAppend, RestIs
  <2>4. Pending(user)' = Rest(Append(queue[user], b), 0)
    BY <2>1 DEF Pending
  <2>5. Left(user)' = Rest(Append(queue[user], b), Gone)
    BY <1>4, <2>1 DEF Left
  <2>6. LeadsTo(Rest(queue[user], 0), Rest(queue[user], Gone), docs[user], wanted[user], faults)
    BY <1>2 DEF Settling, Pending, Left
  <2>7. LeadsTo(Rest(queue[user], 0) \cup {b}, Rest(queue[user], Gone) \cup {b},
                docs[user], Attempt(wanted[user], b.op, b.n), faults)
    BY <1>3, <2>2, <2>3, <2>6, Issued
  <2> QED BY <2>1, <2>3, <2>4, <2>5, <2>7
<1>7. ended' => docs'[user'].val = 0
  BY <1>1 DEF Settling
<1> QED BY <1>1, <1>5, <1>6, <1>7 DEF Settling

LEMMA SettlingAnswer ==
  ASSUME Paired, Settling, AnswerBatch
  PROVE  Settling'
<1> DEFINE b == queue[user][Gone + 1]
<1>1. /\ stream = "open" /\ ~ended /\ up # << >>
      /\ UNCHANGED <<user, queue, wanted, faults>>
  BY DEF AnswerBatch, Serving, durable
<1>2. /\ user \in User /\ docs \in [User -> Doc] /\ up \in Seq(Batch) /\ down \in Seq(Batch)
      /\ ended \in BOOLEAN
  BY DEF Paired, TypeOK
<1>3. shake = "complete"
  BY <1>1, OffCall
<1>4. /\ Gone \in Nat /\ Gone = Len(down) /\ Len(down) \in Nat /\ Len(up) \in Nat
      /\ Within(up, pipeline, Gone) /\ Len(up) + Gone = Len(pipeline)
      /\ Within(pipeline, queue[user], 0) /\ Len(pipeline) <= Len(queue[user])
      /\ Len(pipeline) \in Nat /\ queue[user] \in Seq(Batch)
      /\ Rising(queue[user]) /\ Numbered(Rest(queue[user], 0), count)
      /\ Len(queue[user]) \in Nat
  BY <1>1, <1>2, <1>3, OnCall, Known, RestNumbered, QueueGrows
<1>5. Head(up) = b /\ Gone + 1 <= Len(queue[user])
  <2>1. Len(up) >= 1 /\ Head(up) = up[1]
    BY <1>1, <1>2, EmptySeq
  <2>2. up[1] = pipeline[Gone + 1]
    BY <1>4, <2>1 DEF Within
  <2>3. Gone + 1 \in 1..Len(pipeline) /\ 0 + (Gone + 1) = Gone + 1
    BY <1>4, <2>1
  <2>4. pipeline[Gone + 1] = queue[user][Gone + 1]
    BY <1>4, <2>3 DEF Within
  <2> QED BY <1>4, <2>1, <2>2, <2>3, <2>4
<1> HIDE DEF b
<1>6. \/ /\ Accepts(docs[user], b.op)
         /\ docs' = [docs EXCEPT ![user] = Effect(@, b.op, b.n)]
         /\ down' = Append(down, b) /\ ended' = ended
      \/ /\ ~Accepts(docs[user], b.op)
         /\ ended' = TRUE /\ docs' = docs /\ down' = down
  BY <1>5 DEF AnswerBatch
<1>7. /\ docs'[user] = Attempt(docs[user], b.op, b.n)
      /\ \A u \in User : u # user => docs'[u] = docs[u]
  BY <1>2, <1>6 DEF Attempt
<1>8. /\ b \in Batch /\ b \in Rest(queue[user], Gone)
      /\ Rest(queue[user], Gone + 1) = Rest(queue[user], Gone) \ {b}
      /\ \A c \in Rest(queue[user], Gone) \ {b} : b.n < c.n
      /\ \A c \in Rest(queue[user], 0) : c.n > b.n => c \in Rest(queue[user], Gone)
  <2>1. Gone + 1 \in 1..Len(queue[user])
    BY <1>4, <1>5
  <2>2. b \in Batch
    BY <1>4, <2>1, ElementOfSeq DEF b
  <2> QED BY <1>4, <1>5, <2>2, RestFirst DEF b
<1>9. Gone' = Gone + 1
  <2>1. CASE down' = Append(down, b) /\ ended' = ended
    <3>1. Len(down') = Len(down) + 1
      BY <1>2, <1>8, <2>1, AppendProperties
    <3> QED BY <1>1, <1>4, <2>1, <3>1 DEF Gone
  <2>2. CASE ended' = TRUE /\ down' = down
    BY <1>4, <2>2 DEF Gone
  <2> QED BY <1>6, <2>1, <2>2
<1>10. ASSUME NEW u \in User, u # user
       PROVE  LeadsTo(Pending(u)', Left(u)', docs'[u], wanted'[u], faults')
  <2>1. Pending(u)' = Pending(u) /\ Left(u)' = Left(u)
    BY <1>1, <1>10 DEF Pending, Left
  <2> QED BY <1>1, <1>7, <1>10, <2>1 DEF Settling
<1>11. LeadsTo(Pending(user)', Left(user)', docs'[user], wanted'[user], faults')
  <2>1. Pending(user)' = Rest(queue[user], 0)
    BY <1>1 DEF Pending
  <2>2. Left(user)' = Rest(queue[user], Gone + 1)
    BY <1>1, <1>9 DEF Left
  <2>3. LeadsTo(Rest(queue[user], 0), Rest(queue[user], Gone), docs[user], wanted[user], faults)
    BY <1>2 DEF Settling, Pending, Left
  <2>4. Rest(queue[user], Gone) \subseteq Rest(queue[user], 0)
    BY <1>4, RestIs
  <2>5. docs[user] \in Doc /\ wanted[user] \in Doc
    BY OnTheWay
  <2>6. LeadsTo(Rest(queue[user], 0), Rest(queue[user], Gone) \ {b},
                Attempt(docs[user], b.op, b.n), wanted[user], faults)
    <3> DEFINE S == Rest(queue[user], 0)
               R == Rest(queue[user], Gone)
               d == docs[user]
               w == wanted[user]
    <3>1. Numbered(S, count) /\ R \subseteq S /\ d \in Doc /\ w \in Doc
      BY <1>4, <2>4, <2>5
    <3>2. LeadsTo(S, R, d, w, faults)
      BY <2>3
    <3>3. b \in R /\ \A c \in R \ {b} : b.n < c.n
      BY <1>8
    <3>4. \A c \in S : c.n > b.n => c \in R
      BY <1>8
    <3> HIDE DEF S, R, d, w
    <3>5. LeadsTo(S, R \ {b}, Attempt(d, b.op, b.n), w, faults)
      BY <3>1, <3>2, <3>3, <3>4, Dealt
    <3> QED BY <3>5 DEF S, R, d, w
  <2> QED BY <1>1, <1>7, <1>8, <2>1, <2>2, <2>6
<1>12. ended' => docs'[user'].val = 0
  BY <1>1, <1>6 DEF Accepts
<1> QED BY <1>1, <1>10, <1>11, <1>12 DEF Settling

(* The oldest batch leaves the queue: the place in it moves with it, or    *)
(* goes back to the start with the call.                                   *)
LEMMA SettlingDrop ==
  ASSUME Paired, Settling, down # << >> \/ ended,
         queue' = [queue EXCEPT ![user] = Without(@, Head(pipeline))],
         UNCHANGED <<user, docs, wanted, faults>>,
         \/ Gone' = Gone - 1 /\ ended' = ended
         \/ Gone' = 0 /\ ended' = FALSE /\ ended
  PROVE  Settling'
<1> DEFINE q == queue[user]
           b == queue[user][1]
<1>1. /\ user \in User /\ queue \in [User -> Seq(Batch)]
  BY DEF Paired, TypeOK
<1>2. /\ q # << >> /\ Head(pipeline) = b
  BY HeadIs, Known
<1>3. /\ q \in Seq(Batch) /\ Growing(q) /\ Rising(q) /\ Numbered(Rest(q, 0), count)
      /\ Len(q) \in Nat
  BY <1>1, QueueGrows, RestNumbered
<1>4. Without(q, b) = Tail(q) /\ 0 + 1 <= Len(q)
  <2>1. Without(q, q[1]) = Tail(q)
    BY <1>2, <1>3, WithoutHead
  <2>2. Len(q) # 0
    BY <1>2, <1>3, EmptySeq
  <2>3. 0 + 1 <= Len(q)
    BY <1>3, <2>2
  <2> QED BY <2>1, <2>3
<1>5. queue'[user] = Tail(q) /\ \A u \in User : u # user => queue'[u] = queue[u]
  BY <1>1, <1>2, <1>4
<1>6. /\ Gone \in Nat /\ Gone # 0 /\ docs[user] \in Doc /\ wanted[user] \in Doc
  BY <1>1, OnTheWay
<1>7. PICK k \in Nat : k + 1 = Gone
  BY <1>6
<1> HIDE DEF q
<1>8. /\ Rest(Tail(q), 0) = Rest(q, 1)
      /\ Rest(Tail(q), k) = Rest(q, Gone)
  <2>1. Rest(Tail(q), 0) = Rest(q, 0 + 1) /\ 0 + 1 = 1
    BY <1>2, <1>3, RestOfTail DEF q
  <2>2. Rest(Tail(q), k) = Rest(q, k + 1)
    BY <1>2, <1>3, RestOfTail
  <2> QED BY <1>7, <2>1, <2>2
<1>9. /\ b \in Rest(q, 0) /\ Rest(q, 1) = Rest(q, 0) \ {b}
      /\ \A c \in Rest(q, 0) \ {b} : b.n < c.n
  <2>1. 0 + 1 = 1 /\ 0 \in Nat
    OBVIOUS
  <2>2. /\ q[0 + 1] \in Rest(q, 0) /\ Rest(q, 0 + 1) = Rest(q, 0) \ {q[0 + 1]}
        /\ \A c \in Rest(q, 0 + 1) : q[0 + 1].n < c.n
    BY <1>3, <1>4, <2>1, RestFirst
  <2> QED BY <2>1, <2>2 DEF q
<1>10. Rest(q, Gone) \subseteq Rest(q, 1)
  <2>1. \A c \in Rest(q, Gone) : \E i \in 1..Len(q) : i > Gone /\ c = q[i]
    BY <1>3, <1>6, RestIs
  <2>2. \A i \in 1..Len(q) : i > 1 => q[i] \in Rest(q, 1)
    BY <1>3, RestIs
  <2>3. \A i \in 1..Len(q) : i > Gone => i > 1
    BY <1>3, <1>6
  <2> QED BY <2>1, <2>2, <2>3
<1>11. LeadsTo(Rest(q, 1), Rest(q, Gone), docs[user], wanted[user], faults)
  <2>1. LeadsTo(Rest(q, 0), Rest(q, Gone), docs[user], wanted[user], faults)
    BY <1>1 DEF Settling, Pending, Left, q
  <2>2. Rest(q, Gone) \subseteq Rest(q, 0) /\ b \notin Rest(q, Gone)
    BY <1>9, <1>10
  <2>3. LeadsTo(Rest(q, 0) \ {b}, Rest(q, Gone), docs[user], wanted[user], faults)
    BY <1>3, <1>9, <2>1, <2>2, Dropped
  <2> QED BY <1>9, <2>3
<1>12. Pending(user)' = Rest(q, 1)
  <2>1. Pending(user)' = Rest(queue'[user], 0)
    BY DEF Pending
  <2> QED BY <1>5, <1>8, <2>1
<1>13. LeadsTo(Pending(user)', Left(user)', docs'[user], wanted'[user], faults')
  <2>0. Left(user)' = Rest(Tail(q), Gone')
    BY <1>5 DEF Left
  <2>1. CASE Gone' = Gone - 1
    <3>1. Gone' = k
      BY <1>7, <2>1
    <3>2. Left(user)' = Rest(q, Gone)
      BY <1>8, <2>0, <3>1
    <3> QED BY <1>11, <1>12, <3>2
  <2>2. CASE Gone' = 0 /\ ended
    <3>1. Left(user)' = Rest(q, 1)
      BY <1>8, <2>0, <2>2
    <3>2. docs[user].val = 0
      BY <2>2 DEF Settling
    <3>3. Numbered(Rest(q, 1), count)
      BY <1>3, <1>9 DEF Numbered
    <3>4. LeadsTo(Rest(q, 1), Rest(q, 1), docs[user], wanted[user], faults)
      BY <1>6, <1>10, <1>11, <3>2, <3>3, LeftAgain
    <3> QED BY <1>12, <3>1, <3>4
  <2> QED BY <2>1, <2>2
<1>14. ASSUME NEW u \in User, u # user
       PROVE  LeadsTo(Pending(u)', Left(u)', docs'[u], wanted'[u], faults')
  <2>1. Pending(u)' = Pending(u) /\ Left(u)' = Left(u)
    BY <1>5, <1>14 DEF Pending, Left
  <2> QED BY <2>1 DEF Settling
<1>15. ended' => docs'[user'].val = 0
  BY DEF Settling
<1> QED BY <1>13, <1>14, <1>15 DEF Settling

LEMMA SettlingResult ==
  ASSUME Paired, Settling, OnMutationResult
  PROVE  Settling'
<1>1. /\ down # << >> /\ down' = Tail(down)
      /\ queue' = [queue EXCEPT ![user] = Without(@, Head(pipeline))]
      /\ UNCHANGED <<user, docs, wanted, faults, ended>>
  BY DEF OnMutationResult, server
<1>2. down \in Seq(Batch)
  BY DEF Paired, TypeOK
<1>3. Len(Tail(down)) = Len(down) - 1 /\ Len(down) \in Nat \ {0}
  BY <1>1, <1>2, HeadTailProperties, EmptySeq
<1>4. Gone' = Gone - 1
  BY <1>1, <1>3 DEF Gone
<1> QED BY <1>1, <1>4, SettlingDrop

LEMMA SettlingFinish ==
  ASSUME Paired, Settling, OnStreamFinish
  PROVE  Settling'
<1>1. /\ ended /\ down' = << >> /\ ended' = FALSE
      /\ queue' = [queue EXCEPT ![user] = Without(@, Head(pipeline))]
      /\ UNCHANGED <<user, docs, wanted, faults>>
  <2>1. CloseAndReject /\ ended /\ faults' = faults
    BY DEF OnStreamFinish, CloseAndReject
  <2> QED BY <2>1 DEF CloseAndReject, HangUp, server
<1>2. Gone' = 0
  BY <1>1 DEF Gone
<1> QED BY <1>1, <1>2, SettlingDrop

LEMMA SettlingStep ==
  ASSUME Paired, Settling, [Next]_vars
  PROVE  Settling'
<1>0. faults \in Nat /\ user \in User
  BY DEF Paired, TypeOK
<1>1. CASE \E op \in Ops : WriteMutations(op)
  BY <1>1, SettlingWrite
<1>2. CASE ClientStep
  <2>1. CASE ResumeStartWithCredentials \/ BackoffElapsed \/ OnHandshakeResponse
    BY <2>1, SettlingFramed
    DEF ResumeStartWithCredentials, BackoffElapsed, OnHandshakeResponse, durable, server, call
  <2> QED BY <1>2, <2>1, SettlingResult, SettlingFinish DEF ClientStep
<1>3. CASE ServerStep
  <2>1. CASE AnswerHandshake
    BY <2>1, SettlingFramed DEF AnswerHandshake, durable, server
  <2> QED BY <1>3, <2>1, SettlingAnswer DEF ServerStep
<1>4. CASE Break
  <2>1. /\ HangUp /\ faults' = faults + 1
        /\ UNCHANGED <<user, queue, docs, wanted>>
    BY <1>4 DEF Break, CloseAndRetry, server
  <2>2. faults' # 0
    BY <1>0, <2>1
  <2> QED BY <1>0, <2>1, <2>2, SettlingHungUp
<1>5. CASE IdleTimeout
  <2>1. /\ HangUp /\ idle
        /\ UNCHANGED <<user, queue, docs, wanted, faults>>
    BY <1>5 DEF IdleTimeout, durable, server
  <2>2. pipeline = << >>
    BY <2>1 DEF Paired, Coherent
  <2> QED BY <1>0, <2>1, <2>2, SettlingHungUp
<1>6. CASE Restart
  <2>1. /\ HangUp /\ faults' = faults + 1
        /\ UNCHANGED <<user, queue, docs, wanted>>
    BY <1>6 DEF Restart, EnableNetwork, durable, server
  <2>2. faults' # 0
    BY <1>0, <2>1
  <2> QED BY <1>0, <2>1, <2>2, SettlingHungUp
<1>7. ASSUME NEW u \in User, HandleCredentialChange(u) PROVE Settling'
  <2>1. /\ HangUp /\ faults' = faults + 1 /\ user' = u
        /\ UNCHANGED <<queue, docs, wanted>>
    BY <1>7 DEF HandleCredentialChange, EnableNetwork, durable, server
  <2>2. faults' # 0
    BY <1>0, <2>1
  <2> QED BY <2>1, <2>2, SettlingHungUp
<1>8. CASE UNCHANGED vars
  BY <1>8, SettlingFramed DEF vars, durable, server, call
<1> QED BY <1>1, <1>2, <1>3, <1>4, <1>5, <1>6, <1>7, <1>8 DEF Next

(* The inductive invariant holds in every reachable state, for any users,  *)
(* any limit of the pipeline and any number of writes and faults: the      *)
(* pipeline is the start of the queue, what is on the call, with the       *)
(* refused write between results and requests, is the pipeline, and what   *)
(* is left of a user's writes leads from the document to what they make    *)
(* of it.                                                                  *)
THEOREM Invariance == Spec => []IInv
<1>1. Init => IInv
  BY Start, SettlingStart DEF IInv
<1>2. IInv /\ [Next]_vars => IInv'
  BY InvariantStep, SettlingStep DEF IInv
<1> QED BY <1>1, <1>2, PTL DEF Spec

(* Whatever calls broke, restarts and sign-ins came between, once a user's *)
(* queue is empty the server's document is as if each write had been       *)
(* carried out once; only increments may count twice, and only if there    *)
(* was a fault.                                                            *)
THEOREM Convergence == Spec => []Converges
<1>1. IInv => Converges
  <2> SUFFICES ASSUME IInv, NEW u \in User, queue[u] = << >>
               PROVE  /\ docs[u].val = wanted[u].val
                      /\ docs[u].likes >= wanted[u].likes
                      /\ faults = 0 => docs[u] = wanted[u]
    BY DEF Converges
  <2> DEFINE d == docs[u]
             w == wanted[u]
  <2>1. \A k : Rest(<< >>, k) = {}
    BY DEF Rest
  <2>2. LeadsTo({}, {}, d, w, faults)
    BY <2>1 DEF IInv, Settling, Pending, Left
  <2>3. d \in Doc /\ w \in Doc
    BY OnTheWay DEF IInv
  <2> HIDE DEF d, w
  <2>4. \A ops : NoneOf({}, ops)
    BY DEF NoneOf
  <2>5. Cardinality(LikesAfter({}, 0)) = 0
    <3>1. LikesAfter({}, 0) = {}
      BY DEF LikesAfter
    <3> QED BY <3>1, FS_EmptySet
  <2>6. /\ d.val \in Nat /\ d.likes \in Nat /\ d = [val |-> d.val, likes |-> d.likes]
        /\ w.val \in Nat /\ w.likes \in Nat /\ w = [val |-> w.val, likes |-> w.likes]
    BY <2>3 DEF Doc
  <2>7. (d.val # 0 <=> w.val # 0) /\ (w.val # 0 => d.val = w.val)
    BY <2>2, <2>4 DEF LeadsTo
  <2>8. d.val = w.val
    BY <2>7
  <2>9. w.val # 0 => /\ w.likes <= d.likes + 0
                     /\ faults = 0 => w.likes = d.likes + 0
    BY <2>2, <2>4, <2>5 DEF LeadsTo
  <2>10. w.val = 0 => w.likes = 0 /\ d.likes = 0
    BY <2>2, <2>8 DEF LeadsTo, Sparse
  <2>11. d.likes >= w.likes /\ (faults = 0 => d.likes = w.likes)
    BY <2>6, <2>9, <2>10
  <2>12. faults = 0 => d = w
    BY <2>6, <2>8, <2>11
  <2> QED BY <2>8, <2>11, <2>12 DEF d, w
<1> QED BY <1>1, Invariance, PTL
=============================================================================
