------------------------- MODULE PublicationProofs -------------------------
(* Proofs about Publication, for any set of works and any queue bound.     *)
EXTENDS Publication, SequenceTheorems, TLAPS

(* Every write turns documents into documents. *)
LEMMA EffectType ==
  ASSUME NEW op \in Op, NEW s \in WorkState
  PROVE  Effect(op, s) \in WorkState
BY DEF Op, WorkState, WorkDoc, Effect, Merge, Update, Drawing, Trashed,
       Private, Public, Unset

(* A write the server refuses would have changed nothing. *)
LEMMA RefusedIsNoEffect ==
  ASSUME NEW op \in Op, NEW s \in WorkState, ~Accepted(op, s)
  PROVE  Effect(op, s) = s
BY DEF Op, WorkState, WorkDoc, Effect, Update, Accepted

(* Issuing a write extends the chain. *)
LEMMA AppendChained ==
  ASSUME NEW q \in Seq(Mutation),
         NEW c \in [Work -> WorkState], NEW l \in [Work -> WorkState],
         NEW w \in Work, NEW op \in Op,
         Chained(q, c, l)
  PROVE  Chained(Append(q, Pending(op, w, l[w])), c,
                 [l EXCEPT ![w] = Effect(op, l[w])])
<1> DEFINE m  == Pending(op, w, l[w])
           qq == Append(q, m)
           ll == [l EXCEPT ![w] = Effect(op, l[w])]
           n  == Len(q)
<1>1. /\ n \in Nat
      /\ m \in Mutation
      /\ m.work = w /\ m.op = op /\ m.after = Effect(op, l[w])
  BY EffectType DEF Pending, Mutation
<1>2. /\ qq \in Seq(Mutation)
      /\ Len(qq) = n + 1
      /\ \A i \in 1..n : qq[i] = q[i] /\ q[i] \in Mutation
      /\ qq[n+1] = m
  BY <1>1
<1> HIDE DEF m, qq
<1>3. \A lo, hi \in Int, v \in Work :
        lo >= 1 /\ hi <= n => (NoneOf(qq, lo, hi, v) <=> NoneOf(q, lo, hi, v))
  BY <1>1, <1>2 DEF NoneOf, Same
<1>4. ASSUME NEW j \in 1..Len(qq), NoneOf(qq, 1, j-1, qq[j].work)
      PROVE  qq[j].after = Effect(qq[j].op, c[qq[j].work])
  <2>1. CASE j \in 1..n
    BY <1>1, <1>2, <1>3, <1>4, <2>1 DEF Chained, Mutation
  <2>2. CASE j = n + 1
    BY <1>1, <1>2, <1>3, <1>4, <2>2 DEF Chained
  <2> QED BY <1>1, <1>2, <2>1, <2>2
<1>5. ASSUME NEW i \in 1..Len(qq), NEW j \in 1..Len(qq), i < j,
             Same(qq, i, qq[j].work), NoneOf(qq, i+1, j-1, qq[j].work)
      PROVE  qq[j].after = Effect(qq[j].op, qq[i].after)
  <2>1. CASE j \in 1..n
    BY <1>1, <1>2, <1>3, <1>5, <2>1 DEF Chained, Mutation, Same
  <2>2. CASE j = n + 1
    <3>1. i \in 1..n /\ q[i].work = w /\ NoneOf(q, i+1, n, w)
      BY <1>1, <1>2, <1>3, <1>5, <2>2 DEF Same
    <3>2. q[i].after = l[w]
      BY <3>1 DEF Chained
    <3> QED BY <1>1, <1>2, <2>2, <3>1, <3>2
  <2> QED BY <1>1, <1>2, <2>1, <2>2
<1>6. ASSUME NEW i \in 1..Len(qq), NoneOf(qq, i+1, Len(qq), qq[i].work)
      PROVE  qq[i].after = ll[qq[i].work]
  <2>1. CASE i \in 1..n
    <3>1. q[i].work \in Work /\ q[i].work # w
      BY <1>1, <1>2, <1>6, <2>1 DEF NoneOf, Same, Mutation
    <3>2. NoneOf(q, i+1, n, q[i].work)
      BY <1>1, <1>2, <1>6, <2>1 DEF NoneOf, Same
    <3>3. q[i].after = l[q[i].work]
      BY <2>1, <3>2 DEF Chained
    <3> QED BY <1>2, <2>1, <3>1, <3>3
  <2>2. CASE i = n + 1
    BY <1>1, <1>2, <2>2
  <2> QED BY <1>1, <1>2, <2>1, <2>2
<1>7. ASSUME NEW v \in Work, NoneOf(qq, 1, Len(qq), v)
      PROVE  c[v] = ll[v]
  <2>1. v # w /\ NoneOf(q, 1, n, v)
    BY <1>1, <1>2, <1>7 DEF NoneOf, Same
  <2> QED BY <2>1 DEF Chained
<1> QED BY <1>4, <1>5, <1>6, <1>7 DEF Chained, m, qq

(* Delivering the oldest write leaves the rest of the chain. *)
LEMMA TailChained ==
  ASSUME NEW q \in Seq(Mutation), q # << >>,
         NEW c \in [Work -> WorkState], NEW l \in [Work -> WorkState],
         Chained(q, c, l)
  PROVE  /\ Head(q).after = Effect(Head(q).op, c[Head(q).work])
         /\ Chained(Tail(q),
                    [c EXCEPT ![Head(q).work] = Effect(Head(q).op, @)], l)
<1> DEFINE m  == Head(q)
           t  == Tail(q)
           cc == [c EXCEPT ![m.work] = Effect(m.op, @)]
           n  == Len(q)
<1>1. /\ n \in Nat /\ n >= 1
      /\ m = q[1] /\ m \in Mutation /\ m.work \in Work
      /\ t \in Seq(Mutation) /\ Len(t) = n - 1
      /\ \A i \in 1..n-1 : t[i] = q[i+1]
      /\ \A i \in 1..n : q[i] \in Mutation /\ q[i].work \in Work
  <2>1. n \in Nat /\ n >= 1
    BY EmptySeq
  <2>2. t \in Seq(Mutation) /\ Len(t) = n - 1
    BY HeadTailProperties
  <2>3. \A i \in 1..n-1 : t[i] = q[i+1]
    BY HeadTailProperties
  <2>4. m = q[1]
    OBVIOUS
  <2>5. \A i \in 1..n : q[i] \in Mutation
    BY ElementOfSeq
  <2>6. \A x \in Mutation : x.work \in Work
    BY DEF Mutation
  <2> QED BY <2>1, <2>2, <2>3, <2>4, <2>5, <2>6
<1> HIDE DEF m, t
<1>2. \A v \in Work : cc[v] = IF v = m.work THEN Effect(m.op, c[v]) ELSE c[v]
  BY <1>1
<1> HIDE DEF cc
<1>3. m.after = Effect(m.op, c[m.work])
  <2>1. NoneOf(q, 1, 1-1, q[1].work)
    BY DEF NoneOf
  <2> QED BY <1>1, <2>1 DEF Chained
<1>4. ASSUME NEW j \in 1..Len(t), NoneOf(t, 1, j-1, t[j].work)
      PROVE  t[j].after = Effect(t[j].op, cc[t[j].work])
  <2>1. j + 1 \in 1..n /\ t[j] = q[j+1]
    BY <1>1
  <2>2. \A k \in 2..j : q[k].work # q[j+1].work
    <3> TAKE k \in 2..j
    <3>1. k - 1 \in 1..j-1 /\ k - 1 \in 1..n-1 /\ (k - 1) + 1 = k
      BY <1>1, <2>1
    <3>2. t[k-1] = q[k]
      BY <1>1, <3>1
    <3> QED BY <1>4, <2>1, <3>1, <3>2 DEF NoneOf, Same
  <2>3. CASE q[1].work = q[j+1].work
    <3>1. NoneOf(q, 1+1, (j+1)-1, q[j+1].work)
      BY <2>2 DEF NoneOf, Same
    <3>2. q[j+1].after = Effect(q[j+1].op, q[1].after)
      BY <1>1, <2>1, <2>3, <3>1 DEF Chained, Same
    <3> QED BY <1>1, <1>2, <1>3, <2>1, <2>3, <3>2
  <2>4. CASE q[1].work # q[j+1].work
    <3>1. NoneOf(q, 1, (j+1)-1, q[j+1].work)
      BY <2>2, <2>4 DEF NoneOf, Same
    <3>2. q[j+1].after = Effect(q[j+1].op, c[q[j+1].work])
      BY <2>1, <3>1 DEF Chained
    <3> QED BY <1>1, <1>2, <2>1, <2>4, <3>2
  <2> QED BY <2>3, <2>4
<1>5. ASSUME NEW i \in 1..Len(t), NEW j \in 1..Len(t), i < j,
             Same(t, i, t[j].work), NoneOf(t, i+1, j-1, t[j].work)
      PROVE  t[j].after = Effect(t[j].op, t[i].after)
  <2>1. /\ i + 1 \in 1..n /\ j + 1 \in 1..n /\ i + 1 < j + 1
        /\ t[i] = q[i+1] /\ t[j] = q[j+1]
    BY <1>1, <1>5
  <2>2. ASSUME NEW k \in ((i+1)+1)..((j+1)-1)
        PROVE  q[k].work # q[j+1].work
    <3>1. k - 1 \in (i+1)..(j-1) /\ k - 1 \in 1..n-1 /\ (k - 1) + 1 = k
      BY <1>1, <2>1
    <3>2. t[k-1] = q[k]
      BY <1>1, <3>1
    <3> QED BY <1>5, <2>1, <3>1, <3>2 DEF NoneOf, Same
  <2>3. NoneOf(q, (i+1)+1, (j+1)-1, q[j+1].work)
    BY <2>2 DEF NoneOf, Same
  <2> QED BY <1>5, <2>1, <2>3 DEF Chained, Same
<1>6. ASSUME NEW i \in 1..Len(t), NoneOf(t, i+1, Len(t), t[i].work)
      PROVE  t[i].after = l[t[i].work]
  <2>1. i + 1 \in 1..n /\ t[i] = q[i+1]
    BY <1>1
  <2>2. ASSUME NEW k \in ((i+1)+1)..n
        PROVE  q[k].work # q[i+1].work
    <3>1. k - 1 \in (i+1)..Len(t) /\ k - 1 \in 1..n-1 /\ (k - 1) + 1 = k
      BY <1>1, <2>1
    <3>2. t[k-1] = q[k]
      BY <1>1, <3>1
    <3> QED BY <1>6, <2>1, <3>1, <3>2 DEF NoneOf, Same
  <2>3. NoneOf(q, (i+1)+1, n, q[i+1].work)
    BY <2>2 DEF NoneOf, Same
  <2> QED BY <2>1, <2>3 DEF Chained
<1>7. ASSUME NEW v \in Work, NoneOf(t, 1, Len(t), v)
      PROVE  cc[v] = l[v]
  <2>1. \A k \in 2..n : q[k].work # v
    <3> TAKE k \in 2..n
    <3>1. k - 1 \in 1..Len(t) /\ k - 1 \in 1..n-1 /\ (k - 1) + 1 = k
      BY <1>1
    <3>2. t[k-1] = q[k]
      BY <1>1, <3>1
    <3> QED BY <1>7, <3>1, <3>2 DEF NoneOf, Same
  <2>2. CASE v = m.work
    <3>1. NoneOf(q, 1+1, n, q[1].work)
      BY <1>1, <2>1, <2>2 DEF NoneOf, Same
    <3>2. q[1].after = l[q[1].work]
      BY <1>1, <3>1 DEF Chained
    <3> QED BY <1>1, <1>2, <1>3, <2>2, <3>2
  <2>3. CASE v # m.work
    <3>1. NoneOf(q, 1, n, v)
      BY <1>1, <2>1, <2>3 DEF NoneOf, Same
    <3> QED BY <1>2, <2>3, <3>1 DEF Chained
  <2> QED BY <2>2, <2>3
<1> QED BY <1>3, <1>4, <1>5, <1>6, <1>7 DEF Chained, m, t, cc

(* A write that leaves the work's documents sound, and does not bring back *)
(* a work with writes pending, keeps the queue coherent.                   *)
LEMMA AppendCoherent ==
  ASSUME NEW q \in Seq(Mutation), NEW u \in SUBSET Work,
         NEW c \in [Work -> WorkState], NEW l \in [Work -> WorkState],
         NEW w \in Work, NEW op \in Op,
         Coherent(q, c, l, u), w \notin u,
         Sound(Effect(op, l[w])),
         \/ l[w].doc # NoDoc
         \/ Effect(op, l[w]).doc = NoDoc
         \/ NoneOf(q, 1, Len(q), w)
  PROVE  /\ Append(q, Pending(op, w, l[w])) \in Seq(Mutation)
         /\ [l EXCEPT ![w] = Effect(op, l[w])] \in [Work -> WorkState]
         /\ Coherent(Append(q, Pending(op, w, l[w])), c,
                     [l EXCEPT ![w] = Effect(op, l[w])], u)
<1> DEFINE m  == Pending(op, w, l[w])
           qq == Append(q, m)
           ll == [l EXCEPT ![w] = Effect(op, l[w])]
           n  == Len(q)
<1>1. /\ n \in Nat
      /\ m \in Mutation
      /\ m.work = w /\ m.op = op /\ m.after = Effect(op, l[w])
  BY EffectType DEF Pending, Mutation
<1>2. /\ qq \in Seq(Mutation)
      /\ Len(qq) = n + 1
      /\ \A i \in 1..n : qq[i] = q[i] /\ q[i] \in Mutation
      /\ qq[n+1] = m
  BY <1>1
<1>3. ll \in [Work -> WorkState]
  BY EffectType
<1>4. Chained(qq, c, ll)
  BY AppendChained DEF Coherent
<1> HIDE DEF m, qq
<1>5. \A v \in Work : Sound(c[v]) /\ Sound(ll[v])
  BY DEF Coherent
<1>6. ASSUME NEW i \in 1..Len(qq)
      PROVE  /\ Sound(qq[i].after)
             /\ qq[i].after.doc = NoDoc => ll[qq[i].work].doc = NoDoc
  <2>1. CASE i \in 1..n
    <3>1. /\ Sound(q[i].after)
          /\ q[i].after.doc = NoDoc => l[q[i].work].doc = NoDoc
      BY <2>1 DEF Coherent
    <3>2. q[i].work \in Work
      BY <1>2, <2>1 DEF Mutation
    <3>3. q[i].work = w /\ l[w].doc = NoDoc => Effect(op, l[w]).doc = NoDoc
      BY <1>1, <2>1 DEF NoneOf, Same
    <3> QED BY <1>2, <2>1, <3>1, <3>2, <3>3
  <2>2. CASE i = n + 1
    BY <1>1, <1>2, <2>2
  <2> QED BY <1>1, <1>2, <2>1, <2>2
<1>7. ASSUME NEW v \in u
      PROVE  ll[v] = Absent /\ NoneOf(qq, 1, Len(qq), v)
  BY <1>1, <1>2 DEF Coherent, NoneOf, Same
<1> QED BY <1>2, <1>3, <1>4, <1>5, <1>6, <1>7 DEF Coherent, m, qq

(* Init establishes the inductive invariant. *)
LEMMA InitInv == Init => IInv
<1> SUFFICES ASSUME Init PROVE IInv
  OBVIOUS
<1>1. TypeOK
  BY DEF Init, TypeOK, Absent, WorkState
<1>2. Len(queue) = 0
  BY DEF Init
<1>3. Coherent(queue, cloud, local, unborn)
  BY <1>2 DEF Init, Coherent, Chained, Sound, Absent, NoneOf
<1>4. \A w \in Work : Agree(local[w])
  BY DEF Init, Agree, IsPublic, Absent
<1> QED BY <1>1, <1>3, <1>4 DEF IInv

(* What a handler that issues one write must respect. *)
LEMMA OneWrite ==
  ASSUME IInv, NEW w \in Work, NEW op \in Op,
         Write(w, op), UNCHANGED cloud,
         unborn' \in SUBSET unborn, w \notin unborn',
         Sound(Effect(op, local[w])), Agree(Effect(op, local[w])),
         \/ local[w].doc # NoDoc
         \/ Effect(op, local[w]).doc = NoDoc
         \/ NoneOf(queue, 1, Len(queue), w)
  PROVE  IInv'
<1>1. /\ queue \in Seq(Mutation) /\ unborn' \in SUBSET Work
      /\ cloud \in [Work -> WorkState] /\ local \in [Work -> WorkState]
  BY DEF IInv, TypeOK
<1>2. Coherent(queue, cloud, local, unborn')
  BY DEF IInv, Coherent
<1>3. /\ queue' = Append(queue, Pending(op, w, local[w]))
      /\ local' = [local EXCEPT ![w] = Effect(op, local[w])]
  BY DEF Write
<1>4. /\ queue' \in Seq(Mutation) /\ local' \in [Work -> WorkState]
      /\ Coherent(queue', cloud, local', unborn')
  BY <1>1, <1>2, <1>3, AppendCoherent
<1>5. \A v \in Work : Agree(local'[v])
  BY <1>1, <1>3 DEF IInv
<1>6. TypeOK'
  BY <1>1, <1>4 DEF TypeOK
<1>7. Coherent(queue, cloud, local, unborn)'
  BY <1>4
<1> QED BY <1>5, <1>6, <1>7 DEF IInv

(* What a handler that issues two writes must respect: between them, the   *)
(* work's documents need not agree, but they must be sound.                *)
LEMMA TwoWrites ==
  ASSUME IInv, NEW w \in Work, NEW a \in Op, NEW b \in Op,
         WriteBoth(w, a, b), UNCHANGED <<cloud, unborn>>,
         w \notin unborn, local[w].doc # NoDoc,
         Sound(Effect(a, local[w])), Effect(a, local[w]).doc # NoDoc,
         Sound(Effect(b, Effect(a, local[w]))),
         Agree(Effect(b, Effect(a, local[w])))
  PROVE  IInv'
<1> DEFINE s  == Effect(a, local[w])
           q1 == Append(queue, Pending(a, w, local[w]))
           l1 == [local EXCEPT ![w] = s]
<1>1. /\ queue \in Seq(Mutation) /\ unborn \in SUBSET Work
      /\ cloud \in [Work -> WorkState] /\ local \in [Work -> WorkState]
      /\ Coherent(queue, cloud, local, unborn)
  BY DEF IInv, TypeOK
<1>2. /\ q1 \in Seq(Mutation) /\ l1 \in [Work -> WorkState]
      /\ Coherent(q1, cloud, l1, unborn)
  BY <1>1, AppendCoherent
<1>3. l1[w] = s
  BY <1>1
<1>4. /\ queue' = Append(q1, Pending(b, w, l1[w]))
      /\ local' = [l1 EXCEPT ![w] = Effect(b, l1[w])]
  BY <1>1, <1>3 DEF WriteBoth
<1> HIDE DEF q1, l1
<1>5. /\ Sound(Effect(b, l1[w])) /\ Agree(Effect(b, l1[w]))
      /\ l1[w].doc # NoDoc
  BY <1>3
<1>6. /\ queue' \in Seq(Mutation) /\ local' \in [Work -> WorkState]
      /\ Coherent(queue', cloud, local', unborn)
  BY <1>1, <1>2, <1>4, <1>5, AppendCoherent
<1>7. \A v \in Work : Agree(local'[v])
  BY <1>1, <1>2, <1>4, <1>5 DEF IInv, l1
<1>8. TypeOK'
  BY <1>1, <1>6 DEF TypeOK
<1>9. Coherent(queue, cloud, local, unborn)'
  BY <1>6
<1> QED BY <1>7, <1>8, <1>9 DEF IInv

(* A delivery moves the server one step along the chain. *)
LEMMA DeliverKeeps ==
  ASSUME IInv, Deliver
  PROVE  IInv'
<1> DEFINE m == Head(queue)
<1>1. /\ queue \in Seq(Mutation) /\ queue # << >>
      /\ unborn \in SUBSET Work
      /\ cloud \in [Work -> WorkState] /\ local \in [Work -> WorkState]
      /\ Coherent(queue, cloud, local, unborn)
  BY DEF IInv, TypeOK, Deliver
<1>2. /\ Len(queue) \in Nat /\ Len(queue) >= 1
      /\ m \in Mutation
      /\ m = queue[1]
      /\ Tail(queue) \in Seq(Mutation)
      /\ Len(Tail(queue)) = Len(queue) - 1
      /\ \A i \in 1..Len(queue)-1 : Tail(queue)[i] = queue[i+1]
  BY <1>1, HeadTailProperties, EmptySeq
<1>3. m.work \in Work /\ m.op \in Op
  BY <1>2 DEF Mutation
<1>4. /\ m.after = Effect(m.op, cloud[m.work])
      /\ Chained(Tail(queue),
                 [cloud EXCEPT ![m.work] = Effect(m.op, @)], local)
  BY <1>1, TailChained DEF Coherent
<1> HIDE DEF m
<1>5. cloud' = [cloud EXCEPT ![m.work] = Effect(m.op, @)]
  <2>1. cloud[m.work] \in WorkState
    BY <1>1, <1>3
  <2>2. CASE Accepted(m.op, cloud[m.work])
    BY <2>2 DEF Deliver, m
  <2>3. CASE ~Accepted(m.op, cloud[m.work])
    <3>1. Effect(m.op, cloud[m.work]) = cloud[m.work]
      BY <1>3, <2>1, <2>3, RefusedIsNoEffect
    <3>2. cloud' = cloud
      BY <2>3 DEF Deliver, m
    <3> QED BY <1>1, <1>3, <3>1, <3>2
  <2> QED BY <2>2, <2>3
<1>6. /\ queue' = Tail(queue) /\ local' = local /\ unborn' = unborn
  BY DEF Deliver
<1>7. Effect(m.op, cloud[m.work]) \in WorkState
  BY <1>1, <1>3, EffectType
<1>8. TypeOK'
  BY <1>1, <1>2, <1>3, <1>5, <1>6, <1>7 DEF TypeOK
<1>9. Sound(Effect(m.op, cloud[m.work]))
  BY <1>1, <1>2, <1>4 DEF Coherent
<1>10. Coherent(queue', cloud', local', unborn')
  <2>1. Chained(queue', cloud', local')
    BY <1>4, <1>5, <1>6
  <2>2. \A w \in Work : Sound(cloud'[w]) /\ Sound(local'[w])
    BY <1>1, <1>3, <1>5, <1>6, <1>9 DEF Coherent
  <2>3. ASSUME NEW i \in 1..Len(queue')
        PROVE  /\ Sound(queue'[i].after)
               /\ queue'[i].after.doc = NoDoc
                    => local'[queue'[i].work].doc = NoDoc
    <3>1. i + 1 \in 1..Len(queue) /\ queue'[i] = queue[i+1]
      BY <1>2, <1>6
    <3> QED BY <1>1, <1>6, <3>1 DEF Coherent
  <2>4. ASSUME NEW w \in unborn'
        PROVE  local'[w] = Absent /\ NoneOf(queue', 1, Len(queue'), w)
    <3>1. local[w] = Absent /\ NoneOf(queue, 1, Len(queue), w)
      BY <1>1, <1>6, <2>4 DEF Coherent
    <3>2. \A k \in 1..Len(queue') : queue'[k].work # w
      <4> TAKE k \in 1..Len(queue')
      <4>1. k + 1 \in 1..Len(queue) /\ queue'[k] = queue[k+1]
        BY <1>2, <1>6
      <4> QED BY <3>1, <4>1 DEF NoneOf, Same
    <3> QED BY <1>6, <3>1, <3>2 DEF NoneOf, Same
  <2> QED BY <2>1, <2>2, <2>3, <2>4 DEF Coherent
<1>11. \A w \in Work : Agree(local'[w])
  BY <1>6 DEF IInv
<1> QED BY <1>8, <1>10, <1>11 DEF IInv

(* What the owner sees of a work, whatever the server has. *)
LEMMA ViewFacts ==
  ASSUME OwnersView, NEW w \in Work
  PROVE  /\ local[w] \in WorkState
         /\ Sound(local[w]) /\ Agree(local[w])
         /\ OnPage(w) => w \notin unborn
BY DEF OwnersView, TypeOK, OnPage, Absent

(* A handler that issues one write: the first save of a work, a write to a *)
(* work that is there, or one that leaves it removed.                      *)
Single(w, op) ==
  /\ Write(w, op)
  /\ Sound(Effect(op, local[w])) /\ Agree(Effect(op, local[w]))
  /\ unborn' \in SUBSET unborn /\ w \notin unborn'
  /\ \/ op = "create" /\ w \in unborn /\ unborn \ {w} = unborn'
     \/ op # "create" /\ unborn' = unborn /\ local[w].doc # NoDoc
     \/ op \in {"private", "delete"} /\ unborn' = unborn /\ Effect(op, local[w]).doc = NoDoc

(* A handler that issues two: between them, the work's documents need not  *)
(* agree.                                                                  *)
Pair(w, a, b) ==
  /\ WriteBoth(w, a, b)
  /\ "create" \notin {a, b}
  /\ unborn' = unborn /\ w \notin unborn /\ local[w].doc # NoDoc
  /\ Sound(Effect(a, local[w])) /\ Effect(a, local[w]).doc # NoDoc
  /\ Sound(Effect(b, Effect(a, local[w])))
  /\ Agree(Effect(b, Effect(a, local[w])))

(* Every handler of the owner's is one or the other, and leaves documents  *)
(* that are sound and agree.                                               *)
LEMMA Handlers ==
  ASSUME OwnersView, NEW owned \in Work, OwnerStep(owned)
  PROVE  /\ UNCHANGED cloud
         /\ \/ \E op \in Op : Single(owned, op)
            \/ \E a, b \in Op : Pair(owned, a, b)
<1> DEFINE Goal(w) == /\ UNCHANGED cloud
                      /\ \/ \E op \in Op : Single(w, op)
                         \/ \E a, b \in Op : Pair(w, a, b)
<1>1. ASSUME NEW w \in Work, Create(w) PROVE Goal(w)
  <2>1. /\ w \in unborn /\ unborn' \in SUBSET unborn /\ w \notin unborn'
        /\ Write(w, "create") /\ UNCHANGED cloud /\ "create" \in Op
    BY <1>1 DEF Create, Op
  <2>2. local[w] = Absent /\ unborn \ {w} = unborn'
    BY <1>1, <2>1 DEF OwnersView, Create
  <2>3. /\ Sound(Effect("create", local[w]))
        /\ Agree(Effect("create", local[w]))
    BY <2>2, NoDocAssumption
       DEF Effect, Absent, Drawing, Sound, Agree, IsPublic, WorkDoc,
           Private, Public, Unset, Trashed
  <2> QED BY <2>1, <2>2, <2>3 DEF Single
<1>2. ASSUME NEW w \in Work, OnPage(w),
             NEW a \in {"publish", "private", "trash"},
             NEW b \in {"post", "unpost"}, a = "publish" <=> b = "post",
             WriteBoth(w, a, b), UNCHANGED <<cloud, unborn>>
      PROVE  Goal(w)
  <2>1. /\ a \in Op /\ b \in Op
    BY DEF Op
  <2>2. /\ local[w] \in WorkState /\ Sound(local[w]) /\ w \notin unborn
        /\ local[w].doc # NoDoc
    BY <1>2, ViewFacts DEF OnPage
  <2>3. local[w].doc \in WorkDoc
    BY <2>2 DEF WorkState
  <2> DEFINE s == Effect(a, local[w])
             t == Effect(b, s)
  <2>4. /\ s.doc \in WorkDoc /\ s.doc.full /\ s.doc.public # Unset
        /\ s.doc.public = Public <=> b = "post"
        /\ s.posted = local[w].posted
        /\ s \in WorkState
    <3>1. CASE a = "publish"
      <4>1. s = [local[w] EXCEPT !.doc = [local[w].doc EXCEPT !.public = Public]]
        BY <2>2, <3>1 DEF Effect, Merge, Public, Unset
      <4> QED BY <1>2, <2>2, <2>3, <3>1, <4>1
           DEF WorkState, WorkDoc, Sound, Public, Unset
    <3>2. CASE a = "private"
      <4>1. s = [local[w] EXCEPT !.doc = [local[w].doc EXCEPT !.public = Private]]
        BY <2>2, <3>2 DEF Effect, Update
      <4> QED BY <1>2, <2>2, <2>3, <3>2, <4>1
           DEF WorkState, WorkDoc, Sound, Private, Public, Unset
    <3>3. CASE a = "trash"
      <4>1. s = [local[w] EXCEPT !.doc = [local[w].doc EXCEPT !.public = Trashed]]
        BY <2>2, <3>3 DEF Effect, Update
      <4> QED BY <1>2, <2>2, <2>3, <3>3, <4>1
           DEF WorkState, WorkDoc, Sound, Trashed, Public, Unset
    <3> QED BY <1>2, <3>1, <3>2, <3>3
  <2>5. s.doc # NoDoc
    BY <2>4, NoDocAssumption
  <2>6. Sound(s)
    BY <2>4, <2>5 DEF Sound
  <2> HIDE DEF s
  <2>7. t.doc = s.doc /\ (t.posted <=> b = "post")
    BY <2>4 DEF Effect, WorkState
  <2>8. Sound(t) /\ Agree(t)
    BY <2>4, <2>5, <2>7 DEF Sound, Agree, IsPublic
  <2> QED BY <1>2, <2>1, <2>2, <2>5, <2>6, <2>8 DEF s, Pair
<1>3. ASSUME NEW w \in Work, Publish(w) PROVE Goal(w)
  BY <1>2, <1>3 DEF Publish
<1>4. ASSUME NEW w \in Work, Unpublish(w) PROVE Goal(w)
  BY <1>2, <1>4 DEF Unpublish
<1>5. ASSUME NEW w \in Work, Trash(w) PROVE Goal(w)
  BY <1>2, <1>5 DEF Trash
<1>6. ASSUME NEW w \in Work, Rename(w) \/ SaveEdits(w) PROVE Goal(w)
  <2>1. /\ OnPage(w) /\ UNCHANGED <<cloud, unborn>>
        /\ local[w] \in WorkState /\ local[w].doc # NoDoc
        /\ Sound(local[w]) /\ Agree(local[w]) /\ w \notin unborn
    BY <1>6, ViewFacts DEF Rename, SaveEdits, OnPage
  <2>2. \A op \in {"rename", "likes", "colors"} :
          op \in Op /\ Effect(op, local[w]) = local[w]
    BY <2>1 DEF Effect, Merge, WorkState, Op
  <2>3. unborn' \in SUBSET unborn /\ w \notin unborn' /\ UNCHANGED cloud
    BY <2>1
  <2>4. CASE \E op \in {"rename", "colors"} : Write(w, op)
    BY <2>1, <2>2, <2>3, <2>4 DEF Single
  <2>5. CASE WriteBoth(w, "likes", "colors")
    BY <2>1, <2>2, <2>5 DEF Pair
  <2> QED BY <1>6, <2>4, <2>5 DEF Rename, SaveEdits
<1>7. ASSUME NEW w \in Work, Restore(w) \/ Remove(w) PROVE Goal(w)
  <2>1. PICK op \in {"private", "delete"} : Write(w, op)
    BY <1>7 DEF Restore, Remove
  <2>2. /\ w \notin unborn /\ ~local[w].posted
        /\ UNCHANGED <<cloud, unborn>> /\ op \in Op
        /\ local[w] \in WorkState
        /\ Sound(local[w]) /\ Agree(local[w])
    BY <1>7, ViewFacts DEF Restore, Remove, InTrashList, Op
  <2>3. CASE op = "delete"
    <3>1. Effect(op, local[w]).doc = NoDoc /\ ~Effect(op, local[w]).posted
      BY <2>2, <2>3 DEF Effect, WorkState
    <3>2. Sound(Effect(op, local[w])) /\ Agree(Effect(op, local[w]))
      BY <3>1 DEF Sound, Agree, IsPublic
    <3> QED BY <2>1, <2>2, <3>1, <3>2 DEF Single
  <2>4. CASE op = "private" /\ local[w].doc = NoDoc
    <3>1. Effect(op, local[w]) = local[w]
      BY <2>2, <2>4 DEF Effect, Update, WorkState
    <3> QED BY <2>1, <2>2, <2>4, <3>1 DEF Single
  <2>5. CASE op = "private" /\ local[w].doc # NoDoc
    <3>1. local[w].doc \in WorkDoc /\ local[w].doc.full
      BY <2>2, <2>5 DEF Sound, WorkState
    <3>2. /\ Effect(op, local[w]).doc.full
          /\ Effect(op, local[w]).doc.public = Private
          /\ Effect(op, local[w]).doc \in WorkDoc
          /\ ~Effect(op, local[w]).posted
      BY <2>2, <2>5, <3>1 DEF Effect, Update, WorkState, WorkDoc, Private
    <3>3. Sound(Effect(op, local[w])) /\ Agree(Effect(op, local[w]))
      BY <3>2 DEF Sound, Agree, IsPublic, Private, Public, Unset
    <3> QED BY <2>1, <2>2, <2>5, <3>3 DEF Single
  <2> QED BY <2>1, <2>3, <2>4, <2>5
<1> QED BY <1>1, <1>3, <1>4, <1>5, <1>6, <1>7 DEF OwnerStep

(* Every handler and every delivery keeps the inductive invariant. *)
LEMMA StepInv == IInv /\ [Next]_vars => IInv'
<1> SUFFICES ASSUME IInv, [Next]_vars PROVE IInv'
  OBVIOUS
<1>1. OwnersView
  BY DEF IInv, Coherent, OwnersView
<1>2. ASSUME NEW w \in Work, OwnerStep(w) PROVE IInv'
  <2>1. /\ UNCHANGED cloud
        /\ \/ \E op \in Op : Single(w, op)
           \/ \E a, b \in Op : Pair(w, a, b)
    BY <1>1, <1>2, Handlers
  <2>2. w \in unborn => NoneOf(queue, 1, Len(queue), w)
    BY DEF IInv, Coherent
  <2>3. ASSUME NEW op \in Op, Single(w, op) PROVE IInv'
    BY <2>1, <2>2, <2>3, OneWrite DEF Single
  <2>4. ASSUME NEW a \in Op, NEW b \in Op, Pair(w, a, b) PROVE IInv'
    BY <2>1, <2>4, TwoWrites DEF Pair
  <2> QED BY <2>1, <2>3, <2>4
<1>3. CASE Deliver
  BY <1>3, DeliverKeeps
<1>4. CASE UNCHANGED vars
  BY <1>4 DEF vars, IInv, TypeOK, Mutation
<1> QED BY <1>2, <1>3, <1>4 DEF Next

(* The inductive invariant holds in every state of every behaviour. *)
THEOREM Invariance == Spec => []IInv
BY InitInv, StepInv, PTL DEF Spec

(* The server, the client's view and the queue keep their types: in        *)
(* particular no write ever leaves a document with a field out of range.   *)
THEOREM TypeCorrect == Spec => []TypeOK
<1>1. IInv => TypeOK
  BY DEF IInv
<1> QED BY <1>1, Invariance, PTL

(* Whatever the owner presses, once no write of a work is pending the work *)
(* is listed in PublishedWorks exactly when it says public.                *)
THEOREM EventualAgreement == Spec => []SettledAgree
<1>1. IInv => SettledAgree
  <2> SUFFICES ASSUME IInv, NEW w \in Work, ~HasPending(w)
               PROVE  Agree(cloud[w])
    BY DEF SettledAgree
  <2>1. NoneOf(queue, 1, Len(queue), w)
    BY DEF HasPending, NoneOf, Same
  <2>2. cloud[w] = local[w]
    BY <2>1 DEF IInv, Coherent, Chained
  <2> QED BY <2>2 DEF IInv
<1> QED BY <1>1, Invariance, PTL

(* At no moment does PublishedWorks list a work that another user could    *)
(* not read, not even between the two writes of a handler.                 *)
THEOREM EntriesReadable == Spec => []PostedIsReadable
<1>1. IInv => PostedIsReadable
  BY DEF IInv, Coherent, Sound, PostedIsReadable, Readable
<1> QED BY <1>1, Invariance, PTL

(* The merging writes never leave a document without a drawing. *)
THEOREM DrawingsStay == Spec => []NoHollowWork
<1>1. IInv => NoHollowWork
  BY DEF IInv, Coherent, Sound, NoHollowWork
<1> QED BY <1>1, Invariance, PTL

(* The oldest write and what it does to the server. *)
LEMMA HeadFacts ==
  ASSUME IInv, Deliver
  PROVE  LET m == Head(queue) IN
         /\ m \in Mutation /\ m.work \in Work /\ m.op \in Op
         /\ m = queue[1] /\ 1 \in 1..Len(queue)
         /\ cloud' = [cloud EXCEPT ![m.work] = m.after]
         /\ m.after = Effect(m.op, cloud[m.work])
         /\ cloud[m.work] \in WorkState
         /\ Sound(m.after) /\ Sound(cloud[m.work])
         /\ m.after.doc = NoDoc => local[m.work].doc = NoDoc
<1> DEFINE m == Head(queue)
<1>1. /\ queue \in Seq(Mutation) /\ queue # << >>
      /\ cloud \in [Work -> WorkState] /\ local \in [Work -> WorkState]
      /\ Coherent(queue, cloud, local, unborn)
  BY DEF IInv, TypeOK, Deliver
<1>2. m \in Mutation /\ m = queue[1] /\ 1 \in 1..Len(queue)
  BY <1>1, HeadTailProperties, EmptySeq
<1>3. m.work \in Work /\ m.op \in Op
  BY <1>2 DEF Mutation
<1>4. m.after = Effect(m.op, cloud[m.work])
  BY <1>1, TailChained DEF Coherent
<1>5. cloud[m.work] \in WorkState
  BY <1>1, <1>3
<1>6. cloud' = [cloud EXCEPT ![m.work] = m.after]
  <2>1. CASE Accepted(m.op, cloud[m.work])
    BY <1>4, <2>1 DEF Deliver
  <2>2. CASE ~Accepted(m.op, cloud[m.work])
    <3>1. m.after = cloud[m.work]
      BY <1>3, <1>4, <1>5, <2>2, RefusedIsNoEffect
    <3>2. cloud' = cloud
      BY <2>2 DEF Deliver
    <3> QED BY <1>1, <1>3, <3>1, <3>2
  <2> QED BY <2>1, <2>2
<1> HIDE DEF m
<1>7. /\ Sound(m.after) /\ Sound(cloud[m.work])
      /\ m.after.doc = NoDoc => local[m.work].doc = NoDoc
  BY <1>1, <1>2, <1>3 DEF Coherent
<1> QED BY <1>2, <1>3, <1>4, <1>5, <1>6, <1>7 DEF m

(* The server refuses a write of the app only if it updates a work the     *)
(* owner has already removed: no publish, withdrawal or trashing is lost.  *)
THEOREM RefusalsAreHarmless == Spec => []RefusedOnlyIfRemoved
<1>1. IInv => RefusedOnlyIfRemoved
  <2> SUFFICES ASSUME IInv, queue # << >>,
                      ~Accepted(Head(queue).op, cloud[Head(queue).work])
               PROVE  /\ Head(queue).after.doc = NoDoc
                      /\ Head(queue).work \notin unborn
    BY DEF RefusedOnlyIfRemoved
  <2> DEFINE m == Head(queue)
  <2>1. /\ queue \in Seq(Mutation)
        /\ cloud \in [Work -> WorkState] /\ local \in [Work -> WorkState]
        /\ Coherent(queue, cloud, local, unborn)
    BY DEF IInv, TypeOK
  <2>2. m \in Mutation /\ m = queue[1] /\ 1 \in 1..Len(queue)
    BY <2>1, HeadTailProperties, EmptySeq
  <2>3. m.work \in Work /\ m.op \in Op /\ cloud[m.work] \in WorkState
    BY <2>1, <2>2 DEF Mutation
  <2>4. m.after = Effect(m.op, cloud[m.work])
    BY <2>1, TailChained DEF Coherent
  <2>5. m.after = cloud[m.work] /\ cloud[m.work].doc = NoDoc
    BY <2>3, <2>4, RefusedIsNoEffect DEF Accepted
  <2>6. m.work \notin unborn
    BY <2>1, <2>2 DEF Coherent, NoneOf, Same
  <2> QED BY <2>5, <2>6
<1> QED BY <1>1, Invariance, PTL

(* A work appears on the server by its first save only, and vanishes from  *)
(* it only after the owner removed it.                                     *)
THEOREM NoResurrection == Spec => BornOnceGoneForGood
<1> DEFINE P == \A w \in Work :
         /\ (cloud[w].doc = NoDoc /\ cloud'[w].doc # NoDoc) => Head(queue).op = "create"
         /\ (cloud[w].doc # NoDoc /\ cloud'[w].doc = NoDoc) => local[w].doc = NoDoc
<1>1. ASSUME IInv, [Next]_vars PROVE [P]_vars
  <2>1. CASE Deliver
    <3> DEFINE m == Head(queue)
    <3>1. /\ m.work \in Work /\ m.op \in Op
          /\ cloud' = [cloud EXCEPT ![m.work] = m.after]
          /\ m.after = Effect(m.op, cloud[m.work])
          /\ cloud[m.work] \in WorkState /\ Sound(m.after)
          /\ m.after.doc = NoDoc => local[m.work].doc = NoDoc
          /\ cloud \in [Work -> WorkState]
      BY <1>1, <2>1, HeadFacts DEF IInv, TypeOK
    <3> HIDE DEF m
    <3>2. cloud[m.work].doc = NoDoc /\ m.after.doc # NoDoc => m.op = "create"
      BY <3>1 DEF Op, Effect, Update, Merge, Sound, WorkState
    <3>3. P
      BY <3>1, <3>2 DEF m
    <3> QED BY <3>3
  <2>2. CASE \E w \in Work : OwnerStep(w)
    BY <2>2 DEF OwnerStep, Create, Publish, Unpublish, Trash, Rename,
                SaveEdits, Restore, Remove
  <2> QED BY <1>1, <2>1, <2>2 DEF Next
<1>2. IInv /\ [Next]_vars => [P]_vars
  BY <1>1
<1> QED BY <1>2, Invariance, PTL DEF Spec, BornOnceGoneForGood

(* A work that was on display once stays readable, until it is gone for    *)
(* good.                                                                   *)
LEMMA PostedIsSeen == IInv => \A w \in Work : cloud[w].posted => Seen(w)
<1> SUFFICES ASSUME IInv, NEW w \in Work, cloud[w].posted PROVE Seen(w)
  OBVIOUS
<1>1. Readable(cloud[w])
  BY DEF IInv, Coherent, Sound, Readable
<1>2. w \notin unborn
  BY DEF IInv, Coherent, Chained, Absent
<1> QED BY <1>1, <1>2 DEF Seen

LEMMA SeenStays ==
  IInv /\ [Next]_vars =>
    \A w \in Work : (Seen(w) => Seen(w)') /\ (Gone(w) => Gone(w)')
<1> SUFFICES ASSUME IInv, [Next]_vars, NEW w \in Work
             PROVE  (Seen(w) => Seen(w)') /\ (Gone(w) => Gone(w)')
  OBVIOUS
<1>1. local \in [Work -> WorkState] /\ cloud \in [Work -> WorkState]
  BY DEF IInv, TypeOK
<1>2. ASSUME NEW v \in Work, OwnerStep(v) PROVE unborn' \in SUBSET unborn /\ UNCHANGED cloud /\ (Gone(w) => Gone(w)')
  <2>1. OwnersView
    BY DEF IInv, Coherent, OwnersView
  <2>2. /\ UNCHANGED cloud
        /\ \/ \E op \in Op : Single(v, op)
           \/ \E a, b \in Op : Pair(v, a, b)
    BY <1>2, <2>1, Handlers
  <2>3. ASSUME NEW op \in Op, Single(v, op)
        PROVE  unborn' \in SUBSET unborn /\ (Gone(w) => Gone(w)')
    <3>1. local' = [local EXCEPT ![v] = Effect(op, local[v])]
      BY <2>3 DEF Single, Write
    <3> QED BY <1>1, <2>3, <3>1 DEF Single, Gone
  <2>4. ASSUME NEW a \in Op, NEW b \in Op, Pair(v, a, b)
        PROVE  unborn' \in SUBSET unborn /\ (Gone(w) => Gone(w)')
    <3>1. local' = [local EXCEPT ![v] = Effect(b, Effect(a, local[v]))]
      BY <2>4 DEF Pair, WriteBoth
    <3> QED BY <1>1, <2>4, <3>1 DEF Pair, Gone
  <2> QED BY <2>2, <2>3, <2>4
<1>3. ASSUME NEW v \in Work, OwnerStep(v) PROVE (Seen(w) => Seen(w)') /\ (Gone(w) => Gone(w)')
  BY <1>2, <1>3 DEF Seen
<1>4. CASE Deliver
  <2> DEFINE m == Head(queue)
  <2>1. /\ m.work \in Work /\ cloud' = [cloud EXCEPT ![m.work] = m.after]
        /\ Sound(m.after)
        /\ m.after.doc = NoDoc => local[m.work].doc = NoDoc
    BY <1>4, HeadFacts
  <2> HIDE DEF m
  <2>2. local' = local /\ unborn' = unborn
    BY <1>4 DEF Deliver
  <2> QED BY <1>1, <2>1, <2>2 DEF Seen, Gone, Sound, Readable
<1>5. CASE UNCHANGED vars
  BY <1>5 DEF vars, Seen, Gone
<1> QED BY <1>3, <1>4, <1>5 DEF Next

(* The pending works after one more write of w. *)
LEMMA DirtyGrows ==
  ASSUME NEW w \in Work, NEW op \in Op, TypeOK, Write(w, op)
  PROVE  {v \in Work : HasPending(v)}' = {v \in Work : HasPending(v)} \cup {w}
<1>1. /\ queue \in Seq(Mutation) /\ local[w] \in WorkState
      /\ Pending(op, w, local[w]) \in Mutation
      /\ Pending(op, w, local[w]).work = w
  BY EffectType DEF TypeOK, Pending, Mutation
<1>2. queue' = Append(queue, Pending(op, w, local[w]))
  BY DEF Write
<1>3. /\ Len(queue') = Len(queue) + 1 /\ Len(queue) \in Nat
      /\ \A i \in 1..Len(queue) : queue'[i] = queue[i]
      /\ queue'[Len(queue) + 1].work = w
  BY <1>1, <1>2
<1> QED BY <1>3 DEF HasPending

LEMMA DirtyGrowsTwice ==
  ASSUME NEW w \in Work, NEW a \in Op, NEW b \in Op, TypeOK, WriteBoth(w, a, b)
  PROVE  {v \in Work : HasPending(v)}' = {v \in Work : HasPending(v)} \cup {w}
<1> DEFINE m1 == Pending(a, w, local[w])
           m2 == Pending(b, w, Effect(a, local[w]))
<1>1. /\ queue \in Seq(Mutation)
      /\ m1 \in Mutation /\ m1.work = w /\ m2 \in Mutation /\ m2.work = w
  BY EffectType DEF IInv, TypeOK, Pending, Mutation
<1>2. queue' = Append(Append(queue, m1), m2)
  BY DEF WriteBoth
<1> HIDE DEF m1, m2
<1>3. /\ Len(queue') = Len(queue) + 2 /\ Len(queue) \in Nat
      /\ \A i \in 1..Len(queue) : queue'[i] = queue[i]
      /\ queue'[Len(queue) + 1].work = w /\ queue'[Len(queue) + 2].work = w
  BY <1>1, <1>2
<1> QED BY <1>3 DEF HasPending

(* An owner's handler that writes to one work moves that work at once, to  *)
(* a place the gallery allows, and leaves the display alone.               *)
LEMMA MoveStep ==
  ASSUME NEW w \in Work, UNCHANGED cloud,
         \A v \in Work \ {w} : PlaceOf(v)' = PlaceOf(v),
         PlaceOf(w)' \in G!Place, G!MayMove(PlaceOf(w), PlaceOf(w)'),
         {v \in Work : HasPending(v)}' = {v \in Work : HasPending(v)} \cup {w}
  PROVE  G!Next
<1>1. [v \in Work |-> PlaceOf(v)]'
        = [[v \in Work |-> PlaceOf(v)] EXCEPT ![w] = PlaceOf(w)']
  OBVIOUS
<1>2. {v \in Work : cloud[v].posted}' = {v \in Work : cloud[v].posted}
  OBVIOUS
<1>3. G!Move(w, PlaceOf(w)')
  BY <1>1, <1>2 DEF G!Move
<1> QED BY <1>3 DEF G!Next

(* Every handler of the owner's is one move in the gallery, whatever the   *)
(* server has meanwhile.                                                   *)
LEMMA OwnerMoves ==
  ASSUME OwnersView, NEW owned \in Work, OwnerStep(owned)
  PROVE  G!Next
<1> USE NoDocAssumption
<1>1. ASSUME NEW w \in Work, Create(w) PROVE G!Next
  <2>1. w \in unborn /\ Write(w, "create") /\ "create" \in Op
    BY <1>1 DEF Create, Op
  <2>2. {v \in Work : HasPending(v)}' = {v \in Work : HasPending(v)} \cup {w}
    BY <2>1, DirtyGrows DEF OwnersView
  <2>3. PlaceOf(w) = "new"
    BY <2>1 DEF PlaceOf
  <2>4. local[w] \in WorkState /\ local \in [Work -> WorkState]
    BY DEF OwnersView, TypeOK
  <2>5. local'[w].doc = Drawing /\ w \notin unborn'
    BY <1>1, <2>4 DEF Create, Write, Effect, WorkState
  <2>6. Drawing # NoDoc /\ Drawing.public = Private
    <3>1. Drawing \in WorkDoc
      BY DEF Drawing, WorkDoc
    <3> QED BY <3>1 DEF Drawing
  <2>7. PlaceOf(w)' = "private"
    BY <2>5, <2>6 DEF PlaceOf, Private, Public, Trashed
  <2>8. \A v \in Work \ {w} : PlaceOf(v)' = PlaceOf(v)
    BY <1>1, <2>4 DEF Create, Write, PlaceOf
  <2>9. UNCHANGED cloud
    BY <1>1 DEF Create
  <2> QED BY <2>2, <2>3, <2>7, <2>8, <2>9, MoveStep DEF G!MayMove, G!Place
<1>2. ASSUME NEW w \in Work, OnPage(w), UNCHANGED <<cloud, unborn>>,
             local'[w].doc # NoDoc,
             \A v \in Work \ {w} : local'[v] = local[v],
             {v \in Work : HasPending(v)}' = {v \in Work : HasPending(v)} \cup {w}
      PROVE  G!Next
  <2>1. w \notin unborn
    BY <1>2, ViewFacts
  <2>2. PlaceOf(w) \in G!Alive /\ PlaceOf(w)' \in G!Alive
    BY <1>2, <2>1 DEF PlaceOf, OnPage, G!Alive
  <2>3. \A v \in Work \ {w} : PlaceOf(v)' = PlaceOf(v)
    BY <1>2 DEF PlaceOf
  <2> QED BY <1>2, <2>2, <2>3, MoveStep DEF G!MayMove, G!Place, G!Alive
<1>3. ASSUME NEW w \in Work, Publish(w) \/ Unpublish(w) \/ Trash(w)
      PROVE  G!Next
  <2>1. PICK a \in {"publish", "private", "trash"}, b \in {"post", "unpost"} :
          WriteBoth(w, a, b)
    BY <1>3 DEF Publish, Unpublish, Trash
  <2>2. OnPage(w) /\ UNCHANGED <<cloud, unborn>> /\ a \in Op /\ b \in Op
    BY <1>3 DEF Publish, Unpublish, Trash, Op
  <2>3. /\ local \in [Work -> WorkState] /\ local[w] \in WorkState
        /\ local[w].doc \in WorkDoc
    BY <2>2 DEF OwnersView, TypeOK, OnPage, WorkState
  <2>4. Effect(a, local[w]).doc \in WorkDoc /\ Effect(a, local[w]) \in WorkState
    BY <2>1, <2>2, <2>3
       DEF Effect, Merge, Update, OnPage, WorkState, WorkDoc, Public,
           Private, Trashed, Unset
  <2>5. Effect(b, Effect(a, local[w])).doc \in WorkDoc
    BY <2>1, <2>4 DEF Effect, WorkState
  <2>6. /\ local'[w].doc # NoDoc
        /\ \A v \in Work \ {w} : local'[v] = local[v]
    BY <2>1, <2>3, <2>5 DEF WriteBoth
  <2>7. {v \in Work : HasPending(v)}' = {v \in Work : HasPending(v)} \cup {w}
    BY <2>1, <2>2, DirtyGrowsTwice DEF OwnersView
  <2> QED BY <1>2, <2>2, <2>6, <2>7
<1>4. ASSUME NEW w \in Work, Rename(w) \/ SaveEdits(w) PROVE G!Next
  <2>1. \/ \E op \in {"rename", "colors"} : Write(w, op)
        \/ WriteBoth(w, "likes", "colors")
    BY <1>4 DEF Rename, SaveEdits
  <2>2. /\ OnPage(w) /\ UNCHANGED <<cloud, unborn>>
        /\ local \in [Work -> WorkState] /\ local[w] \in WorkState
        /\ local[w].doc # NoDoc
    BY <1>4 DEF Rename, SaveEdits, OnPage, OwnersView, TypeOK
  <2>3. \A op \in {"rename", "likes", "colors"} :
          op \in Op /\ Effect(op, local[w]) = local[w]
    BY <2>2 DEF Effect, Merge, WorkState, Op
  <2>4. local' = local
    BY <2>1, <2>2, <2>3 DEF Write, WriteBoth
  <2>5. {v \in Work : HasPending(v)}' = {v \in Work : HasPending(v)} \cup {w}
    BY <2>1, <2>3, DirtyGrows, DirtyGrowsTwice DEF OwnersView
  <2> QED BY <1>2, <2>2, <2>4, <2>5
<1>5. ASSUME NEW w \in Work, Restore(w) \/ Remove(w) PROVE G!Next
  <2>1. PICK op \in {"private", "delete"} : Write(w, op)
    BY <1>5 DEF Restore, Remove
  <2>2. /\ w \notin unborn /\ ~local[w].posted
        /\ UNCHANGED <<cloud, unborn>> /\ op \in Op
        /\ local \in [Work -> WorkState] /\ local[w] \in WorkState
        /\ Agree(local[w])
    BY <1>5, ViewFacts DEF Restore, Remove, InTrashList, Op, OwnersView, TypeOK
  <2>3. local' = [local EXCEPT ![w] = Effect(op, local[w])]
    BY <2>1 DEF Write
  <2>4. {v \in Work : HasPending(v)}' = {v \in Work : HasPending(v)} \cup {w}
    BY <2>1, <2>2, DirtyGrows DEF OwnersView
  <2>5. PlaceOf(w) \in {"private", "trashed", "gone"}
    BY <2>2 DEF PlaceOf, Agree, IsPublic
  <2>6. \A v \in Work \ {w} : PlaceOf(v)' = PlaceOf(v)
    BY <2>2, <2>3 DEF PlaceOf
  <2>7. CASE op = "delete" \/ local[w].doc = NoDoc
    <3>1. local'[w].doc = NoDoc
      BY <2>2, <2>3, <2>7, <2>1 DEF Effect, Update, WorkState
    <3>2. PlaceOf(w)' = "gone"
      BY <2>2, <3>1 DEF PlaceOf
    <3> QED BY <2>2, <2>4, <2>5, <2>6, <3>2, MoveStep DEF G!MayMove, G!Place
  <2>8. CASE op = "private" /\ local[w].doc # NoDoc
    <3>1. local[w].doc \in WorkDoc
      BY <2>2, <2>8 DEF WorkState
    <3>2. Effect(op, local[w]).doc \in WorkDoc
      BY <2>2, <2>8, <3>1 DEF Effect, Update, WorkState, WorkDoc, Private
    <3>3. local'[w].doc # NoDoc
      BY <2>2, <2>3, <3>2
    <3> QED BY <1>2, <2>2, <2>3, <2>4, <2>8, <3>3 DEF OnPage
  <2> QED BY <2>1, <2>7, <2>8
<1> QED BY <1>1, <1>3, <1>4, <1>5 DEF OwnerStep

(* The writes and their queue implement the gallery, the abstract          *)
(* specification of what publication promises.                             *)
THEOREM Refinement == Spec => ImplementsGallery
<1>1. Init => G!Init
  <2> SUFFICES ASSUME Init PROVE G!Init
    OBVIOUS
  <2>1. [w \in Work |-> PlaceOf(w)] = [w \in Work |-> "new"]
    BY DEF Init, PlaceOf
  <2>2. {w \in Work : cloud[w].posted} = {}
    BY DEF Init, Absent
  <2>3. {w \in Work : HasPending(w)} = {}
    BY DEF Init, HasPending
  <2> QED BY <2>1, <2>2, <2>3 DEF G!Init
<1>2. ASSUME IInv, IInv', [Next]_vars PROVE [G!Next]_(G!gallery)
  <2> USE NoDocAssumption
  <2>1. OwnersView
    BY <1>2 DEF IInv, Coherent, OwnersView
  <2>2. ASSUME NEW w \in Work, OwnerStep(w) PROVE G!Next
    BY <2>1, <2>2, OwnerMoves
  <2>6. CASE Deliver
    <3>1. PICK x \in Work, s \in WorkState :
            /\ queue[1].work = x /\ 1 \in 1..Len(queue)
            /\ cloud' = [cloud EXCEPT ![x] = s]
      BY <1>2, <2>6, HeadFacts DEF Mutation
    <3>9. /\ queue \in Seq(Mutation) /\ queue # << >> /\ queue' = Tail(queue)
          /\ local' = local /\ unborn' = unborn
          /\ cloud \in [Work -> WorkState]
      BY <1>2, <2>6 DEF IInv, TypeOK, Deliver
    <3>2. /\ Len(queue') = Len(queue) - 1 /\ Len(queue) \in Nat
          /\ \A i \in 1..Len(queue') : queue'[i] = queue[i+1]
      BY <3>9, HeadTailProperties, EmptySeq
    <3>3. x \in {v \in Work : HasPending(v)}
      BY <3>1 DEF HasPending
    <3>4. \A v \in Work \ {x} : HasPending(v)' <=> HasPending(v)
      <4> TAKE v \in Work \ {x}
      <4>1. ASSUME HasPending(v) PROVE HasPending(v)'
        <5>1. PICK i \in 1..Len(queue) : queue[i].work = v
          BY <4>1 DEF HasPending
        <5>2. i # 1 /\ i - 1 \in 1..Len(queue') /\ (i - 1) + 1 = i
          BY <3>1, <3>2, <5>1
        <5>3. queue'[i-1].work = v
          BY <3>2, <5>1, <5>2
        <5> QED BY <5>2, <5>3 DEF HasPending
      <4>2. ASSUME HasPending(v)' PROVE HasPending(v)
        <5>1. PICK i \in 1..Len(queue') : queue'[i].work = v
          BY <4>2 DEF HasPending
        <5>2. i + 1 \in 1..Len(queue) /\ queue[i+1].work = v
          BY <3>2, <5>1
        <5> QED BY <5>2 DEF HasPending
      <4> QED BY <4>1, <4>2
    <3>5. [v \in Work |-> PlaceOf(v)]' = [v \in Work |-> PlaceOf(v)]
      BY <3>9 DEF PlaceOf
    <3> DEFINE display == {v \in Work : cloud[v].posted}
               dirty   == {v \in Work : HasPending(v)}
    <3>6. display' \in {display \cup {x}, display \ {x}}
      BY <3>1, <3>9
    <3>7. CASE HasPending(x)'
      <4>1. dirty' = dirty
        BY <3>3, <3>4, <3>7
      <4> QED BY <3>1, <3>3, <3>5, <3>6, <4>1 DEF G!Next, G!Relay
    <3>8. CASE ~HasPending(x)'
      <4>1. dirty' = dirty \ {x}
        BY <3>4, <3>8
      <4>2. cloud'[x] = local[x]
        <5>1. NoneOf(queue', 1, Len(queue'), x)
          BY <3>8 DEF HasPending, NoneOf, Same
        <5> QED BY <1>2, <3>1, <3>9, <5>1 DEF IInv, Coherent, Chained
      <4>3. x \in display' <=> PlaceOf(x) = "public"
        <5>1. x \in display' <=> IsPublic(local[x])
          BY <1>2, <3>1, <3>9, <4>2 DEF IInv, Agree
        <5>2. IsPublic(local[x]) <=> PlaceOf(x) = "public"
          <6>1. x \in unborn => local[x].doc = NoDoc
            BY <1>2 DEF IInv, Coherent, Absent
          <6> QED BY <6>1 DEF IsPublic, PlaceOf
        <5> QED BY <5>1, <5>2
      <4> QED BY <3>1, <3>3, <3>5, <3>6, <4>1, <4>3 DEF G!Next, G!Relay
    <3> QED BY <3>7, <3>8
  <2>7. CASE UNCHANGED vars
    BY <2>7 DEF vars, G!gallery, PlaceOf, HasPending
  <2> QED BY <1>2, <2>2, <2>6, <2>7 DEF Next
<1>3. IInv /\ IInv' /\ [Next]_vars => [G!Next]_(G!gallery)
  BY <1>2
<1> QED BY <1>1, <1>3, Invariance, PTL DEF Spec, ImplementsGallery, G!Spec

(* The gallery keeps its promise: the owner's moves make the moved work    *)
(* dirty and never lead back to "new"; the display's steps touch one dirty *)
(* work, and let go of it only when it is displayed as wanted.  A work no  *)
(* change of which is under way is on display exactly when the owner has   *)
(* it in the public place, and a work never drawn is never on display.     *)
THEOREM Promise == ImplementsGallery => []G!Faithful
<1> DEFINE place   == [w \in Work |-> PlaceOf(w)]
           display == {w \in Work : cloud[w].posted}
           dirty   == {w \in Work : HasPending(w)}
           Keeps(w) == /\ w \notin dirty => (w \in display <=> place[w] = "public")
                       /\ place[w] = "new" => w \notin display \cup dirty
           Typed == DOMAIN place = Work /\ dirty \subseteq Work
<1>1. G!Faithful <=> \A w \in Work : Keeps(w)
  BY DEF G!Faithful
<1>2. Typed /\ Typed'
  OBVIOUS
<1>3. G!Init => G!Faithful
  BY <1>1 DEF G!Init
<1>4. ASSUME NEW w \in Work, G!Relay(w)
      PROVE  /\ w \in dirty /\ place' = place
             /\ display' \in {display \cup {w}, display \ {w}}
             /\ \/ dirty' = dirty
                \/ dirty' = dirty \ {w} /\ (w \in display' <=> place[w] = "public")
  BY <1>4 DEF G!Relay
<1>5. ASSUME NEW w \in Work, NEW to \in G!Place, G!Move(w, to)
      PROVE  /\ place' = [place EXCEPT ![w] = to] /\ to # "new"
             /\ dirty' = dirty \cup {w} /\ display' = display
  BY <1>5 DEF G!Move, G!MayMove, G!Alive
<1>6. UNCHANGED G!gallery => UNCHANGED <<place, display, dirty>>
  BY DEF G!gallery
<1>7. G!Faithful' <=> \A w \in Work : Keeps(w)'
  BY DEF G!Faithful
<1> HIDE DEF place, display, dirty
<1>8. G!Faithful /\ [G!Next]_(G!gallery) => G!Faithful'
  <2> SUFFICES ASSUME G!Faithful, [G!Next]_(G!gallery), NEW v \in Work
               PROVE  Keeps(v)'
    BY <1>7
  <2>1. Keeps(v)
    BY <1>1
  <2>2. CASE UNCHANGED G!gallery
    BY <1>6, <2>1, <2>2
  <2>3. ASSUME NEW w \in Work, NEW to \in G!Place, G!Move(w, to)
        PROVE  Keeps(v)'
    <3>1. CASE v = w
      BY <1>2, <1>5, <2>3, <3>1
    <3>2. CASE v # w
      BY <1>2, <1>5, <2>1, <2>3, <3>2
    <3> QED BY <3>1, <3>2
  <2>4. ASSUME NEW w \in Work, G!Relay(w)
        PROVE  Keeps(v)'
    <3>1. Keeps(w)
      BY <1>1
    <3>2. CASE v = w
      BY <1>4, <2>4, <3>1, <3>2
    <3>3. CASE v # w
      BY <1>4, <2>1, <2>4, <3>3
    <3> QED BY <3>2, <3>3
  <2> QED BY <2>2, <2>3, <2>4 DEF G!Next
<1> QED BY <1>3, <1>8, PTL DEF ImplementsGallery, G!Spec

(* So the app keeps it, for it implements the gallery: what no write is    *)
(* pending for is on display exactly when the owner's screens show it as   *)
(* public, and a drawing not saved yet never is.                           *)
THEOREM PromiseKept == Spec => []G!Faithful
BY Refinement, Promise, PTL
=============================================================================
