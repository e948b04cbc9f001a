---------------------------- MODULE ResentProofs ----------------------------
(* Proofs about Resent, for any set of works, any queue bound and results  *)
(* lost at any moment.                                                     *)
EXTENDS Resent, PublicationProofs

(* What a write does to the two documents, kind by kind. *)
LEMMA EffectFacts ==
  ASSUME NEW op \in Op, NEW s \in WorkState
  PROVE  LET e == Effect(op, s) IN
         /\ e \in WorkState
         /\ op \notin Lists => e.posted = s.posted
         /\ op \in Lists => (e.posted <=> op = "post")
         /\ op = "delete" => e.doc = NoDoc
         /\ op = "create" => e.doc # NoDoc /\ e.doc.full /\ e.doc.public = Private
         /\ s.doc = NoDoc /\ op \notin Makes => e.doc = NoDoc
         /\ s.doc # NoDoc /\ op # "delete" =>
              /\ e.doc # NoDoc
              /\ op \notin Places => e.doc = s.doc
              /\ op \in Places => e.doc.public = PlacedBy(op)
              /\ s.doc.full => e.doc.full
<1> DEFINE e == Effect(op, s)
<1>1. e \in WorkState
  BY EffectType
<1>2. /\ op \notin Lists => e.posted = s.posted
      /\ op \in Lists => (e.posted <=> op = "post")
  BY DEF Op, Effect, Lists, WorkState
<1>3. op = "delete" => e.doc = NoDoc
  BY DEF Effect, WorkState
<1>4. op = "create" => e.doc # NoDoc /\ e.doc.full /\ e.doc.public = Private
  <2>1. Drawing \in WorkDoc
    BY DEF Drawing, WorkDoc, Private
  <2> QED BY <2>1, NoDocAssumption DEF Effect, WorkState, Drawing
<1>5. s.doc = NoDoc /\ op \notin Makes => e.doc = NoDoc
  BY DEF Op, Makes, Effect, Update, WorkState
<1>6. ASSUME s.doc # NoDoc, op # "delete"
      PROVE  /\ e.doc # NoDoc
             /\ op \notin Places => e.doc = s.doc
             /\ op \in Places => e.doc.public = PlacedBy(op)
             /\ s.doc.full => e.doc.full
  <2>1. s.doc \in WorkDoc
    BY <1>6 DEF WorkState
  <2>2. CASE op \in {"publish", "private", "trash"}
    <3>1. PICK p \in {Public, Private, Trashed} :
            p = PlacedBy(op) /\ e.doc = [s.doc EXCEPT !.public = p]
      BY <1>6, <2>2 DEF Effect, Merge, Update, WorkState, PlacedBy, Unset,
                        Public, Private, Trashed
    <3>2. e.doc \in WorkDoc /\ e.doc.public = p /\ e.doc.full = s.doc.full
      BY <2>1, <3>1 DEF WorkDoc, Public, Private, Trashed
    <3> QED BY <2>2, <3>1, <3>2, NoDocAssumption DEF Places
  <2>3. CASE op \in {"rename", "likes", "colors", "post", "unpost"}
    <3>1. e.doc = s.doc
      BY <1>6, <2>3 DEF Effect, Merge, WorkState
    <3> QED BY <1>6, <2>3, <3>1 DEF Places
  <2>4. CASE op = "create"
    BY <1>4, <2>4 DEF PlacedBy, Places
  <2> QED BY <1>6, <2>2, <2>3, <2>4 DEF Op
<1> QED BY <1>1, <1>2, <1>3, <1>4, <1>5, <1>6

LEMMA PlacedIsSet == \A op : PlacedBy(op) # Unset
BY DEF PlacedBy, Public, Private, Trashed, Unset

(* What comes after a later place is among what comes after an earlier. *)
LEMMA NoneLater ==
  ASSUME NEW q \in Seq(Mutation), NEW j \in Nat, NEW k \in Nat, j <= k,
         NEW w, NEW ops, NoneFrom(q, j, w, ops)
  PROVE  NoneFrom(q, k, w, ops)
BY DEF NoneFrom

(* Carrying the writes out again from an earlier one. *)
LEMMA Earlier ==
  ASSUME NEW q \in Seq(Mutation), NEW j \in Nat, NEW k \in Nat, j <= k,
         NEW c, NEW l, NEW u, Replayed(q, k, c, l, u)
  PROVE  Replayed(q, j, c, l, u)
<1> SUFFICES ASSUME NEW w \in Work PROVE Leading(q, j, c, l, w)
  BY DEF Replayed
<1>1. Leading(q, k, c, l, w)
  BY DEF Replayed
<1>2. \A ops : NoneFrom(q, j, w, ops) => NoneFrom(q, k, w, ops)
  BY NoneLater
<1> QED BY <1>1, <1>2 DEF Leading

(* A queue without its first write, which is behind the server. *)
LEMMA TailReplayed ==
  ASSUME NEW q \in Seq(Mutation), q # << >>,
         NEW k \in Nat, k >= 2,
         NEW c, NEW l, NEW u, Replayed(q, k, c, l, u)
  PROVE  Tail(q) \in Seq(Mutation) /\ Replayed(Tail(q), k - 1, c, l, u)
<1> DEFINE t == Tail(q)
<1>1. /\ t \in Seq(Mutation) /\ Len(t) = Len(q) - 1 /\ Len(q) \in Nat
      /\ \A i \in 1..Len(t) : t[i] = q[i+1]
  BY HeadTailProperties, EmptySeq
<1> HIDE DEF t
<1>2. \A w, ops : \A i \in 1..Len(t) : i + 1 \in 1..Len(q) /\ (Of(t, i, w, ops) <=> Of(q, i+1, w, ops))
  BY <1>1 DEF Of
<1>3. ASSUME NEW i \in Nat, i >= 1, NEW w, NEW ops
      PROVE  NoneFrom(t, i, w, ops) <=> NoneFrom(q, i+1, w, ops)
  <2>1. ASSUME NoneFrom(t, i, w, ops), NEW n \in i+1..Len(q) PROVE ~Of(q, n, w, ops)
    <3>1. n - 1 \in i..Len(t) /\ n - 1 \in 1..Len(t) /\ (n - 1) + 1 = n
      BY <1>1, <1>3
    <3> QED BY <1>2, <2>1, <3>1 DEF NoneFrom
  <2>2. ASSUME NoneFrom(q, i+1, w, ops), NEW n \in i..Len(t) PROVE ~Of(t, n, w, ops)
    <3>1. n \in 1..Len(t) /\ n + 1 \in i+1..Len(q)
      BY <1>1, <1>3
    <3> QED BY <1>2, <2>2, <3>1 DEF NoneFrom
  <2> QED BY <2>1, <2>2 DEF NoneFrom
<1>4. ASSUME NEW w \in Work PROVE Lasting(t, l, w)
  <2>1. Lasting(q, l, w)
    BY DEF Replayed
  <2>2. ASSUME NEW i \in 1..Len(t), Of(t, i, w, Lists), NoneFrom(t, i+1, w, Lists)
        PROVE  l[w].posted <=> t[i].op = "post"
    <3>1. Of(q, i+1, w, Lists) /\ NoneFrom(q, (i+1)+1, w, Lists) /\ i + 1 \in 1..Len(q)
      BY <1>2, <1>3, <2>2
    <3> QED BY <1>1, <2>1, <3>1 DEF Lasting
  <2>3. ASSUME l[w].doc # NoDoc
        PROVE  /\ NoneFrom(t, 1, w, {"delete"})
               /\ \A i, j \in 1..Len(t) : Of(t, i, w, {"create"}) /\ j < i => t[j].work # w
               /\ \A i \in 1..Len(t) :
                    Of(t, i, w, Places) /\ NoneFrom(t, i+1, w, Places)
                      => l[w].doc.public = PlacedBy(t[i].op)
    <3>1. NoneFrom(t, 1, w, {"delete"})
      <4>1. NoneFrom(q, 1, w, {"delete"})
        BY <2>1, <2>3 DEF Lasting
      <4>2. NoneFrom(q, 1+1, w, {"delete"})
        BY <4>1, NoneLater
      <4> QED BY <1>3, <4>2
    <3>2. ASSUME NEW i \in 1..Len(t), NEW j \in 1..Len(t), Of(t, i, w, {"create"}), j < i
          PROVE  t[j].work # w
      <4>1. /\ i + 1 \in 1..Len(q) /\ j + 1 \in 1..Len(q) /\ j + 1 < i + 1
            /\ Of(q, i+1, w, {"create"})
        BY <1>2, <3>2
      <4> QED BY <1>1, <2>1, <2>3, <4>1 DEF Lasting
    <3>3. ASSUME NEW i \in 1..Len(t), Of(t, i, w, Places), NoneFrom(t, i+1, w, Places)
          PROVE  l[w].doc.public = PlacedBy(t[i].op)
      <4>1. Of(q, i+1, w, Places) /\ NoneFrom(q, (i+1)+1, w, Places) /\ i + 1 \in 1..Len(q)
        BY <1>2, <1>3, <3>3
      <4> QED BY <1>1, <2>1, <2>3, <4>1 DEF Lasting
    <3> QED BY <3>1, <3>2, <3>3
  <2>4. ASSUME l[w].doc = NoDoc, NEW i \in 1..Len(t), Of(t, i, w, Makes)
        PROVE  ~NoneFrom(t, i+1, w, {"delete"})
    <3>1. Of(q, i+1, w, Makes) /\ i + 1 \in 1..Len(q)
      BY <1>2, <2>4
    <3>2. ~NoneFrom(q, (i+1)+1, w, {"delete"})
      BY <2>1, <2>4, <3>1 DEF Lasting
    <3> QED BY <1>3, <3>2
  <2> QED BY <2>2, <2>3, <2>4 DEF Lasting
<1>5. ASSUME NEW w \in Work PROVE Leading(t, k - 1, c, l, w)
  <2>1. Leading(q, k, c, l, w)
    BY DEF Replayed
  <2>2. \A ops : NoneFrom(t, k - 1, w, ops) <=> NoneFrom(q, k, w, ops)
    BY <1>3
  <2> QED BY <2>1, <2>2 DEF Leading
<1>6. ASSUME NEW w \in u PROVE c[w] = Absent /\ NoneFrom(t, 1, w, Op)
  <2>1. c[w] = Absent /\ NoneFrom(q, 1, w, Op)
    BY DEF Replayed
  <2>2. NoneFrom(q, 1+1, w, Op)
    BY <2>1, NoneLater
  <2> QED BY <1>3, <2>1, <2>2
<1> QED BY <1>1, <1>4, <1>5, <1>6 DEF Replayed, t

(* Issuing a write. *)
LEMMA AppendReplayed ==
  ASSUME NEW q \in Seq(Mutation), NEW u \in SUBSET Work, NEW k \in 1..Len(q) + 1,
         NEW c \in [Work -> WorkState], NEW l \in [Work -> WorkState],
         NEW w \in Work, w \notin u, NEW op \in Op,
         Replayed(q, k, c, l, u),
         \/ op = "create" /\ c[w] = Absent /\ l[w] = Absent /\ NoneFrom(q, 1, w, Op)
         \/ op # "create" /\ l[w].doc # NoDoc
         \/ op \in {"private", "delete"} /\ Effect(op, l[w]).doc = NoDoc
  PROVE  /\ Append(q, Pending(op, w, l[w])) \in Seq(Mutation)
         /\ [l EXCEPT ![w] = Effect(op, l[w])] \in [Work -> WorkState]
         /\ Replayed(Append(q, Pending(op, w, l[w])), k, c,
                     [l EXCEPT ![w] = Effect(op, l[w])], u)
<1> DEFINE m  == Pending(op, w, l[w])
           qq == Append(q, m)
           e  == Effect(op, l[w])
           ll == [l EXCEPT ![w] = e]
           n  == Len(q)
<1>1. /\ n \in Nat
      /\ m \in Mutation /\ m.work = w /\ m.op = op
      /\ l[w] \in WorkState /\ e \in WorkState
      /\ ll \in [Work -> WorkState]
  BY EffectType DEF Pending, Mutation
<1>2. /\ qq \in Seq(Mutation)
      /\ Len(qq) = n + 1
      /\ \A i \in 1..n : qq[i] = q[i]
      /\ qq[n+1] = m
      /\ \A i \in 1..n : q[i].op \in Op
  <2>1. \A i \in 1..n : q[i] \in Mutation
    BY ElementOfSeq
  <2> QED BY <1>1, <2>1 DEF Mutation
<1> HIDE DEF m, qq
<1>3. /\ op \notin Lists => e.posted = l[w].posted
      /\ op \in Lists => (e.posted <=> op = "post")
      /\ op = "delete" => e.doc = NoDoc
      /\ op = "create" => e.doc # NoDoc /\ e.doc.public = Private
      /\ l[w].doc = NoDoc /\ op \notin Makes => e.doc = NoDoc
      /\ l[w].doc # NoDoc /\ op # "delete" =>
           /\ e.doc # NoDoc
           /\ op \notin Places => e.doc = l[w].doc
           /\ op \in Places => e.doc.public = PlacedBy(op)
  BY <1>1, EffectFacts
<1>4. ll[w] = e /\ \A v \in Work \ {w} : ll[v] = l[v]
  BY <1>1
<1> HIDE DEF e, ll
<1>5. \A v, ops : \A i \in 1..n : Of(qq, i, v, ops) <=> Of(q, i, v, ops)
  BY <1>2 DEF Of
<1>6. \A v, ops : Of(qq, n+1, v, ops) <=> (v = w /\ op \in ops)
  BY <1>1, <1>2 DEF Of
<1>7. ASSUME NEW i \in 1..n+1, NEW v, NEW ops
      PROVE  NoneFrom(qq, i, v, ops)
               <=> NoneFrom(q, i, v, ops) /\ ~(v = w /\ op \in ops)
  BY <1>1, <1>2, <1>5, <1>6 DEF NoneFrom
<1>8. ASSUME NEW v \in Work \ {w}
      PROVE  Lasting(qq, ll, v) /\ Leading(qq, k, c, ll, v)
  <2>1. Lasting(q, l, v) /\ Leading(q, k, c, l, v)
    BY DEF Replayed
  <2>2. \A ops : \A i \in 1..n+1 : NoneFrom(qq, i, v, ops) <=> NoneFrom(q, i, v, ops)
    BY <1>7
  <2>3. ll[v] = l[v]
    BY <1>4
  <2>4. \A i \in 1..n : i + 1 \in 1..n+1
    BY <1>1
  <2>5. Leading(qq, k, c, ll, v)
    BY <1>1, <2>1, <2>2, <2>3 DEF Leading
  <2>6. ASSUME NEW i \in 1..n+1, NEW ops, Of(qq, i, v, ops) PROVE i \in 1..n /\ Of(q, i, v, ops)
    BY <1>1, <1>5, <1>6, <2>6
  <2>7. Lasting(qq, ll, v)
    <3>1. ASSUME NEW i \in 1..n+1, Of(qq, i, v, Lists), NoneFrom(qq, i+1, v, Lists)
          PROVE  ll[v].posted <=> qq[i].op = "post"
      BY <1>2, <2>1, <2>2, <2>3, <2>4, <2>6, <3>1 DEF Lasting
    <3>2. ASSUME ll[v].doc # NoDoc PROVE NoneFrom(qq, 1, v, {"delete"})
      BY <1>1, <2>1, <2>2, <2>3, <3>2 DEF Lasting
    <3>3. ASSUME ll[v].doc # NoDoc, NEW i \in 1..n+1, NEW j \in 1..n+1,
                 Of(qq, i, v, {"create"}), j < i
          PROVE  qq[j].work # v
      <4>1. i \in 1..n /\ j \in 1..n /\ Of(q, i, v, {"create"})
        BY <1>1, <2>6, <3>3
      <4> QED BY <1>2, <2>1, <2>3, <3>3, <4>1 DEF Lasting
    <3>4. ASSUME ll[v].doc # NoDoc, NEW i \in 1..n+1,
                 Of(qq, i, v, Places), NoneFrom(qq, i+1, v, Places)
          PROVE  ll[v].doc.public = PlacedBy(qq[i].op)
      BY <1>2, <2>1, <2>2, <2>3, <2>4, <2>6, <3>4 DEF Lasting
    <3>5. ASSUME ll[v].doc = NoDoc, NEW i \in 1..n+1, Of(qq, i, v, Makes)
          PROVE  ~NoneFrom(qq, i+1, v, {"delete"})
      BY <2>1, <2>2, <2>3, <2>4, <2>6, <3>5 DEF Lasting
    <3> QED BY <1>2, <3>1, <3>2, <3>3, <3>4, <3>5 DEF Lasting
  <2> QED BY <2>5, <2>7
<1>9. Lasting(q, l, w) /\ Leading(q, k, c, l, w)
  BY DEF Replayed
<1>10. Leading(qq, k, c, ll, w)
  <2>1. \A ops : NoneFrom(qq, k, w, ops) <=> NoneFrom(q, k, w, ops) /\ op \notin ops
    BY <1>1, <1>7
  <2>2. NoneFrom(qq, k, w, Lists) => c[w].posted = ll[w].posted
    BY <1>3, <1>4, <1>9, <2>1 DEF Leading
  <2>3. ASSUME e.doc # NoDoc
        PROVE  /\ c[w].doc = NoDoc => ~NoneFrom(qq, k, w, {"create"})
               /\ c[w].doc # NoDoc => c[w].doc.full /\ c[w].doc.public # Unset
               /\ NoneFrom(qq, k, w, Places) => c[w].doc.public = e.doc.public
    <3>1. CASE op = "create"
      BY <2>1, <3>1, <1>9 DEF Places, Absent
    <3>2. CASE op # "create" /\ l[w].doc # NoDoc
      BY <1>3, <1>9, <2>1, <2>3, <3>2 DEF Leading
    <3> QED BY <2>3, <3>1, <3>2 DEF e
  <2>4. ASSUME e.doc = NoDoc, NoneFrom(qq, k, w, {"delete"}) PROVE c[w].doc = NoDoc
    <3>1. op # "delete" /\ NoneFrom(q, k, w, {"delete"})
      BY <2>1, <2>4
    <3>2. l[w].doc = NoDoc
      BY <1>3, <2>4, <3>1
    <3> QED BY <1>9, <3>1, <3>2 DEF Leading
  <2> QED BY <1>4, <2>2, <2>3, <2>4 DEF Leading
<1>11. Lasting(qq, ll, w)
  <2>1. ASSUME NEW i \in 1..n+1, Of(qq, i, w, Lists), NoneFrom(qq, i+1, w, Lists)
        PROVE  e.posted <=> qq[i].op = "post"
    <3>1. CASE i = n + 1
      BY <1>1, <1>2, <1>3, <1>6, <2>1, <3>1
    <3>2. CASE i \in 1..n
      <4>1. Of(q, i, w, Lists) /\ NoneFrom(q, i+1, w, Lists) /\ op \notin Lists
        BY <1>1, <1>5, <1>7, <2>1, <3>2
      <4> QED BY <1>2, <1>3, <1>9, <3>2, <4>1 DEF Lasting
    <3> QED BY <1>1, <3>1, <3>2
  <2>2. ASSUME e.doc # NoDoc
        PROVE  /\ NoneFrom(qq, 1, w, {"delete"})
               /\ \A i, j \in 1..n+1 : Of(qq, i, w, {"create"}) /\ j < i => qq[j].work # w
               /\ \A i \in 1..n+1 :
                    Of(qq, i, w, Places) /\ NoneFrom(qq, i+1, w, Places)
                      => e.doc.public = PlacedBy(qq[i].op)
    <3>0. /\ op # "delete"
          /\ \/ op = "create" /\ NoneFrom(q, 1, w, Op)
             \/ op # "create" /\ l[w].doc # NoDoc
      BY <1>3, <2>2 DEF e
    <3>1. CASE op = "create" /\ NoneFrom(q, 1, w, Op)
      <4>1. \A i \in 1..n : q[i].work # w
        BY <1>2, <3>1 DEF NoneFrom, Of
      <4>2. \A ops : NoneFrom(q, 1, w, ops)
        BY <4>1 DEF NoneFrom, Of
      <4>3. NoneFrom(qq, 1, w, {"delete"})
        BY <1>1, <1>7, <3>1, <4>2
      <4>4. \A i, j \in 1..n+1 : j < i => qq[j].work # w
        BY <1>1, <1>2, <4>1
      <4>5. \A i \in 1..n+1 : Of(qq, i, w, Places) => i = n + 1
        <5>1. ASSUME NEW i \in 1..n+1, i # n + 1 PROVE qq[i].work # w
          <6>1. i \in 1..n
            BY <1>2, <5>1
          <6> QED BY <1>1, <1>2, <4>1, <6>1
        <5> QED BY <5>1 DEF Of
      <4>6. e.doc.public = PlacedBy(qq[n+1].op)
        BY <1>1, <1>2, <1>3, <3>1 DEF PlacedBy
      <4> QED BY <4>3, <4>4, <4>5, <4>6
    <3>2. CASE op # "create" /\ l[w].doc # NoDoc
      <4>1. NoneFrom(qq, 1, w, {"delete"})
        BY <1>1, <1>7, <1>9, <3>0, <3>2 DEF Lasting
      <4>2. ASSUME NEW i \in 1..n+1, NEW j \in 1..n+1, Of(qq, i, w, {"create"}), j < i
            PROVE  qq[j].work # w
        <5>1. i \in 1..n /\ j \in 1..n /\ Of(q, i, w, {"create"})
          BY <1>1, <1>5, <1>6, <3>2, <4>2
        <5> QED BY <1>2, <1>9, <3>2, <4>2, <5>1 DEF Lasting
      <4>3. ASSUME NEW i \in 1..n+1, Of(qq, i, w, Places), NoneFrom(qq, i+1, w, Places)
            PROVE  e.doc.public = PlacedBy(qq[i].op)
        <5>1. CASE i = n + 1
          BY <1>1, <1>2, <1>3, <1>6, <3>0, <3>2, <4>3, <5>1
        <5>2. CASE i \in 1..n
          <6>1. Of(q, i, w, Places) /\ NoneFrom(q, i+1, w, Places) /\ op \notin Places
            BY <1>1, <1>5, <1>7, <4>3, <5>2
          <6> QED BY <1>2, <1>3, <1>9, <3>0, <3>2, <5>2, <6>1 DEF Lasting
        <5> QED BY <1>1, <5>1, <5>2
      <4> QED BY <4>1, <4>2, <4>3
    <3> QED BY <3>0, <3>1, <3>2
  <2>3. ASSUME e.doc = NoDoc, NEW i \in 1..n+1, Of(qq, i, w, Makes)
        PROVE  ~NoneFrom(qq, i+1, w, {"delete"})
    <3>0. op \notin Makes
      <4>1. CASE l[w].doc # NoDoc
        BY <1>3, <2>3, <4>1 DEF Makes
      <4>2. CASE l[w].doc = NoDoc
        BY <1>3, <2>3, <4>2 DEF Makes, e
      <4> QED BY <4>1, <4>2
    <3>1. i \in 1..n /\ Of(q, i, w, Makes)
      BY <1>1, <1>5, <1>6, <2>3, <3>0
    <3>2. CASE op = "delete"
      <4>1. i + 1 \in 1..n+1 /\ op \in {"delete"}
        BY <1>1, <3>1, <3>2
      <4> QED BY <1>7, <4>1
    <3>3. CASE op # "delete"
      <4>1. l[w].doc = NoDoc
        BY <1>3, <2>3, <3>3
      <4>2. ~NoneFrom(q, i+1, w, {"delete"})
        BY <1>9, <3>1, <4>1 DEF Lasting
      <4> QED BY <1>1, <1>7, <3>1, <4>2
    <3> QED BY <3>2, <3>3
  <2> QED BY <1>2, <1>4, <2>1, <2>2, <2>3 DEF Lasting
<1>12. ASSUME NEW v \in u PROVE c[v] = Absent /\ NoneFrom(qq, 1, v, Op)
  BY <1>1, <1>7 DEF Replayed
<1> QED BY <1>1, <1>2, <1>8, <1>10, <1>11, <1>12 DEF Replayed, m, qq, e, ll

(* Carrying out the k-th write, for the first time or again. *)
LEMMA CarryOutReplayed ==
  ASSUME NEW q \in Seq(Mutation), NEW u \in SUBSET Work, NEW k \in 1..Len(q),
         NEW c \in [Work -> WorkState], NEW l \in [Work -> WorkState],
         Replayed(q, k, c, l, u)
  PROVE  /\ [c EXCEPT ![q[k].work] = Effect(q[k].op, @)] \in [Work -> WorkState]
         /\ Replayed(q, k + 1, [c EXCEPT ![q[k].work] = Effect(q[k].op, @)], l, u)
<1> DEFINE x  == q[k].work
           op == q[k].op
           e  == Effect(op, c[x])
           cc == [c EXCEPT ![x] = Effect(op, @)]
<1>1. k \in Nat /\ k >= 1 /\ Len(q) \in Nat /\ k <= Len(q)
  OBVIOUS
<1>2. x \in Work /\ op \in Op /\ c[x] \in WorkState
  <2>1. q[k] \in Mutation
    BY ElementOfSeq
  <2> QED BY <2>1 DEF Mutation
<1>3. /\ e \in WorkState
      /\ op \notin Lists => e.posted = c[x].posted
      /\ op \in Lists => (e.posted <=> op = "post")
      /\ op = "delete" => e.doc = NoDoc
      /\ op = "create" => e.doc # NoDoc /\ e.doc.full /\ e.doc.public = Private
      /\ c[x].doc = NoDoc /\ op \notin Makes => e.doc = NoDoc
      /\ c[x].doc # NoDoc /\ op # "delete" =>
           /\ e.doc # NoDoc
           /\ op \notin Places => e.doc = c[x].doc
           /\ op \in Places => e.doc.public = PlacedBy(op)
           /\ c[x].doc.full => e.doc.full
  BY <1>2, EffectFacts
<1>4. cc \in [Work -> WorkState] /\ cc[x] = e /\ \A v \in Work \ {x} : cc[v] = c[v]
  BY <1>2, <1>3
<1>5. \A ops : Of(q, k, x, ops) <=> op \in ops
  BY DEF Of
<1>6. ASSUME NEW v, NEW ops
      PROVE  NoneFrom(q, k, v, ops) <=> NoneFrom(q, k + 1, v, ops) /\ ~(v = x /\ op \in ops)
  BY <1>1 DEF NoneFrom, Of
<1> HIDE DEF x, op, e, cc
<1>7. \A w \in Work : Lasting(q, l, w) /\ Leading(q, k, c, l, w)
  BY DEF Replayed
<1>8. ASSUME NEW v \in Work \ {x} PROVE Leading(q, k + 1, cc, l, v)
  BY <1>4, <1>6, <1>7 DEF Leading
<1>9. Leading(q, k + 1, cc, l, x)
  <2>1. ASSUME NoneFrom(q, k + 1, x, Lists) PROVE e.posted = l[x].posted
    <3>1. CASE op \in Lists
      <4>1. l[x].posted <=> op = "post"
        BY <1>2, <1>5, <1>7, <2>1, <3>1 DEF Lasting, op
      <4>2. l[x].posted \in BOOLEAN /\ e.posted \in BOOLEAN
        BY <1>2, <1>3 DEF WorkState
      <4> QED BY <1>3, <3>1, <4>1, <4>2
    <3>2. CASE op \notin Lists
      BY <1>2, <1>3, <1>6, <1>7, <2>1, <3>2 DEF Leading
    <3> QED BY <3>1, <3>2
  <2>2. ASSUME l[x].doc # NoDoc
        PROVE  /\ e.doc # NoDoc /\ e.doc.full /\ e.doc.public # Unset
               /\ NoneFrom(q, k + 1, x, Places) => e.doc.public = l[x].doc.public
    <3>1. /\ op # "delete"
          /\ c[x].doc = NoDoc => op = "create"
      <4>1. op # "delete"
        BY <1>1, <1>2, <1>5, <1>7, <2>2 DEF Lasting, NoneFrom
      <4>2. ASSUME c[x].doc = NoDoc, op # "create" PROVE FALSE
        <5>1. ~NoneFrom(q, k, x, {"create"})
          BY <1>2, <1>7, <2>2, <4>2 DEF Leading
        <5>2. PICK i \in k..Len(q) : Of(q, i, x, {"create"})
          BY <5>1 DEF NoneFrom
        <5>3. i # k
          BY <1>5, <4>2, <5>2
        <5>4. i \in 1..Len(q) /\ k < i
          BY <1>1, <5>3
        <5>5. q[k].work # x
          BY <1>2, <1>7, <2>2, <5>2, <5>4 DEF Lasting
        <5> QED BY <5>5 DEF x
      <4> QED BY <4>1, <4>2
    <3>2. e.doc # NoDoc /\ e.doc.full /\ e.doc.public # Unset
      <4>1. CASE op = "create"
        BY <1>3, <4>1 DEF Private, Unset
      <4>2. CASE op # "create"
        <5>1. c[x].doc # NoDoc /\ c[x].doc.full /\ c[x].doc.public # Unset
          BY <1>2, <1>7, <2>2, <3>1, <4>2 DEF Leading
        <5> QED BY <1>3, <3>1, <5>1, PlacedIsSet
      <4> QED BY <4>1, <4>2
    <3>3. ASSUME NoneFrom(q, k + 1, x, Places) PROVE e.doc.public = l[x].doc.public
      <4>1. CASE op \in Places
        <5>1. l[x].doc.public = PlacedBy(op)
          BY <1>2, <1>5, <1>7, <2>2, <3>3, <4>1 DEF Lasting, op
        <5>2. e.doc.public = PlacedBy(op)
          BY <1>3, <3>1, <4>1 DEF PlacedBy
        <5> QED BY <5>1, <5>2
      <4>2. CASE op \notin Places
        <5>1. NoneFrom(q, k, x, Places)
          BY <1>6, <3>3, <4>2
        <5>2. c[x].doc.public = l[x].doc.public /\ c[x].doc # NoDoc
          BY <1>2, <1>7, <2>2, <3>1, <4>2, <5>1 DEF Leading, Places
        <5> QED BY <1>3, <3>1, <4>2, <5>2
      <4> QED BY <4>1, <4>2
    <3> QED BY <3>2, <3>3
  <2>3. ASSUME l[x].doc = NoDoc, NoneFrom(q, k + 1, x, {"delete"}) PROVE e.doc = NoDoc
    <3>1. CASE op = "delete"
      BY <1>3, <3>1
    <3>2. CASE op # "delete"
      <4>1. c[x].doc = NoDoc
        BY <1>2, <1>6, <1>7, <2>3, <3>2 DEF Leading
      <4>2. op \notin Makes
        BY <1>2, <1>5, <1>7, <2>3 DEF Lasting
      <4> QED BY <1>3, <4>1, <4>2
    <3> QED BY <3>1, <3>2
  <2> QED BY <1>4, <2>1, <2>2, <2>3 DEF Leading
<1>10. ASSUME NEW v \in u PROVE cc[v] = Absent /\ NoneFrom(q, 1, v, Op)
  <2>1. c[v] = Absent /\ NoneFrom(q, 1, v, Op)
    BY DEF Replayed
  <2>2. v # x
    BY <1>1, <1>2, <1>5, <2>1 DEF NoneFrom
  <2> QED BY <1>4, <2>1, <2>2
<1> QED BY <1>4, <1>7, <1>8, <1>9, <1>10 DEF Replayed, cc, x, op

LEMMA ResentInit0 == ResentInit => ResentInv
<1> SUFFICES ASSUME ResentInit PROVE ResentInv
  OBVIOUS
<1>1. unborn = Work
  BY DEF ResentInit, Init
<1>2. queue = << >> /\ Len(queue) = 0 /\ done = 0 /\ done + 1 = 1 /\ done \in 0..Len(queue)
  BY DEF ResentInit, Init
<1>3. \A w \in Work : cloud[w] = Absent /\ local[w] = Absent
  BY DEF ResentInit, Init
<1>4. OwnersView
  <2>1. TypeOK
    BY DEF ResentInit, Init, TypeOK, Absent, WorkState
  <2>2. Sound(Absent) /\ Agree(Absent)
    BY DEF Sound, Agree, IsPublic, Absent
  <2> QED BY <1>1, <1>3, <2>1, <2>2 DEF OwnersView
<1>5. \A w, ops : NoneFrom(queue, 1, w, ops)
  BY <1>2 DEF NoneFrom
<1>6. ASSUME NEW w \in Work PROVE Lasting(queue, local, w)
  <2>1. ~\E i \in 1..Len(queue) : TRUE
    BY <1>2
  <2>2. local[w].doc = NoDoc
    BY <1>3 DEF Absent
  <2> QED BY <2>1, <2>2 DEF Lasting
<1>7. ASSUME NEW w \in Work PROVE Leading(queue, 1, cloud, local, w)
  <2>1. cloud[w] = local[w] /\ local[w].doc = NoDoc
    BY <1>3 DEF Absent
  <2> QED BY <2>1 DEF Leading
<1>8. Replayed(queue, 1, cloud, local, unborn)
  BY <1>1, <1>3, <1>5, <1>6, <1>7 DEF Replayed
<1> QED BY <1>2, <1>4, <1>8 DEF ResentInv

(* Every handler, whatever it finds pending, keeps the invariant. *)
LEMMA OwnerKeeps ==
  ASSUME ResentInv, NEW w \in Work, OwnerStep(w), UNCHANGED done
  PROVE  ResentInv'
<1>1. /\ OwnersView /\ done \in 0..Len(queue)
      /\ Replayed(queue, done + 1, cloud, local, unborn)
  BY DEF ResentInv
<1>2. /\ queue \in Seq(Mutation) /\ unborn \in SUBSET Work
      /\ cloud \in [Work -> WorkState] /\ local \in [Work -> WorkState]
      /\ \A v \in Work : Sound(local[v]) /\ Agree(local[v])
      /\ \A v \in unborn : local[v] = Absent
  BY <1>1 DEF OwnersView, TypeOK
<1>3. /\ UNCHANGED cloud
      /\ \/ \E op \in Op : Single(w, op)
         \/ \E a, b \in Op : Pair(w, a, b)
  BY <1>1, Handlers
<1>4. ASSUME NEW q \in Seq(Mutation), NEW l \in [Work -> WorkState],
             Len(q) >= Len(queue),
             queue' = q, local' = l, unborn' \in SUBSET unborn,
             Replayed(q, done + 1, cloud, l, unborn'),
             Sound(l[w]), Agree(l[w]), w \notin unborn',
             \A v \in Work \ {w} : l[v] = local[v]
      PROVE  ResentInv'
  <2>1. OwnersView'
    BY <1>2, <1>3, <1>4 DEF OwnersView, TypeOK
  <2>2. done' \in 0..Len(queue')
    BY <1>1, <1>2, <1>4
  <2>3. Replayed(queue, done + 1, cloud, local, unborn)'
    BY <1>3, <1>4
  <2> QED BY <2>1, <2>2, <2>3 DEF ResentInv
<1>5. ASSUME NEW op \in Op, Single(w, op) PROVE ResentInv'
  <2> DEFINE q == Append(queue, Pending(op, w, local[w]))
             l == [local EXCEPT ![w] = Effect(op, local[w])]
  <2>1. queue' = q /\ local' = l
    BY <1>5 DEF Single, Write
  <2>2. Replayed(queue, done + 1, cloud, local, unborn')
    BY <1>1, <1>5 DEF Single, Replayed
  <2>3. \/ op = "create" /\ cloud[w] = Absent /\ local[w] = Absent /\ NoneFrom(queue, 1, w, Op)
        \/ op # "create" /\ local[w].doc # NoDoc
        \/ op \in {"private", "delete"} /\ Effect(op, local[w]).doc = NoDoc
    BY <1>1, <1>2, <1>5 DEF Single, Replayed
  <2>4. unborn' \in SUBSET Work /\ unborn' \in SUBSET unborn /\ w \notin unborn'
    BY <1>2, <1>5 DEF Single
  <2>5. done + 1 \in 1..Len(queue) + 1
    BY <1>1, <1>2
  <2>6. q \in Seq(Mutation) /\ l \in [Work -> WorkState] /\ Replayed(q, done + 1, cloud, l, unborn')
    BY <1>2, <2>2, <2>3, <2>4, <2>5, AppendReplayed
  <2>7. /\ Sound(l[w]) /\ Agree(l[w])
        /\ \A v \in Work \ {w} : l[v] = local[v]
    BY <1>2, <1>5 DEF Single
  <2>8. Len(q) >= Len(queue)
    <3>1. Len(q) = Len(queue) + 1 /\ Len(queue) \in Nat
      BY <1>2
    <3> QED BY <3>1
  <2> QED BY <1>4, <2>1, <2>4, <2>6, <2>7, <2>8
<1>6. ASSUME NEW a \in Op, NEW b \in Op, Pair(w, a, b) PROVE ResentInv'
  <2> DEFINE s  == Effect(a, local[w])
             q1 == Append(queue, Pending(a, w, local[w]))
             l1 == [local EXCEPT ![w] = s]
             q2 == Append(q1, Pending(b, w, l1[w]))
             l2 == [l1 EXCEPT ![w] = Effect(b, l1[w])]
  <2>1. /\ a # "create" /\ b # "create" /\ unborn' = unborn /\ w \notin unborn
        /\ local[w].doc # NoDoc /\ s.doc # NoDoc
        /\ Sound(Effect(b, s)) /\ Agree(Effect(b, s))
    BY <1>6 DEF Pair
  <2>2. done + 1 \in 1..Len(queue) + 1
    BY <1>1, <1>2
  <2>3. q1 \in Seq(Mutation) /\ l1 \in [Work -> WorkState] /\ Replayed(q1, done + 1, cloud, l1, unborn)
    BY <1>1, <1>2, <2>1, <2>2, AppendReplayed
  <2>4. l1[w] = s
    BY <1>2
  <2>5. Len(queue) \in Nat /\ Len(q1) = Len(queue) + 1
    BY <1>2, <2>3
  <2>6. queue' = q2 /\ local' = [local EXCEPT ![w] = Effect(b, s)]
    BY <1>6, <2>4 DEF Pair, WriteBoth
  <2>7. l2 = [local EXCEPT ![w] = Effect(b, s)]
    BY <1>2, <2>4
  <2> HIDE DEF q1, l1
  <2>8. done + 1 \in 1..Len(q1) + 1
    BY <2>2, <2>5
  <2>9. l1[w].doc # NoDoc
    BY <2>1, <2>4
  <2>10. q2 \in Seq(Mutation) /\ l2 \in [Work -> WorkState] /\ Replayed(q2, done + 1, cloud, l2, unborn)
    BY <1>2, <2>1, <2>3, <2>8, <2>9, AppendReplayed
  <2>11. /\ Sound(l2[w]) /\ Agree(l2[w])
         /\ \A v \in Work \ {w} : l2[v] = local[v]
    BY <1>2, <2>1, <2>7
  <2>12. Len(q2) >= Len(queue)
    <3>1. Len(q2) = Len(q1) + 1
      BY <2>3
    <3> QED BY <2>5, <3>1
  <2>13. queue' = q2 /\ local' = l2 /\ unborn' \in SUBSET unborn /\ w \notin unborn'
    BY <2>1, <2>6, <2>7
  <2>14. Replayed(q2, done + 1, cloud, l2, unborn')
    BY <2>1, <2>10
  <2> HIDE DEF q2, l2
  <2> QED BY <1>4, <2>10, <2>11, <2>12, <2>13, <2>14
<1> QED BY <1>3, <1>5, <1>6

(* What the owner sees does not change when the server or the client's     *)
(* connection acts.                                                        *)
LEMMA ServerSide ==
  ASSUME ResentInv, UNCHANGED <<local, unborn>>,
         queue' \in Seq(Mutation), cloud' \in [Work -> WorkState],
         done' \in 0..Len(queue'),
         Replayed(queue', done' + 1, cloud', local, unborn)
  PROVE  ResentInv'
<1>1. OwnersView'
  BY DEF ResentInv, OwnersView, TypeOK
<1>2. Replayed(queue, done + 1, cloud, local, unborn)'
  OBVIOUS
<1> QED BY <1>1, <1>2 DEF ResentInv

(* The queue shrinks at its head only. *)
LEMMA TailFacts ==
  ASSUME NEW q \in Seq(Mutation), q # << >>
  PROVE  /\ Tail(q) \in Seq(Mutation) /\ Len(Tail(q)) = Len(q) - 1
         /\ Len(q) \in Nat /\ Len(q) >= 1
         /\ Head(q) = q[1] /\ Head(q) \in Mutation /\ Head(q).work \in Work
         /\ \A i \in 1..Len(q)-1 : Tail(q)[i] = q[i+1]
<1>1. Len(q) \in Nat /\ Len(q) >= 1
  BY EmptySeq
<1>2. Tail(q) \in Seq(Mutation) /\ Len(Tail(q)) = Len(q) - 1
  BY HeadTailProperties
<1>3. \A i \in 1..Len(q)-1 : Tail(q)[i] = q[i+1]
  BY HeadTailProperties
<1>4. Head(q) = q[1]
  OBVIOUS
<1>5. q[1] \in Mutation
  BY <1>1, ElementOfSeq
<1> QED BY <1>1, <1>2, <1>3, <1>4, <1>5 DEF Mutation

(* Carrying out, confirming, refusing and resending keep the invariant. *)
LEMMA ResentStep == ResentInv /\ [ResentNext]_resentVars => ResentInv'
<1> SUFFICES ASSUME ResentInv, [ResentNext]_resentVars PROVE ResentInv'
  OBVIOUS
<1>1. /\ queue \in Seq(Mutation) /\ unborn \in SUBSET Work
      /\ cloud \in [Work -> WorkState] /\ local \in [Work -> WorkState]
      /\ done \in 0..Len(queue) /\ Len(queue) \in Nat
      /\ Replayed(queue, done + 1, cloud, local, unborn)
  BY DEF ResentInv, OwnersView, TypeOK
<1>2. CASE Owner
  BY <1>2, OwnerKeeps DEF Owner
<1>3. ASSUME done < Len(queue)
      PROVE  LET x  == queue[done + 1].work
                 cc == [cloud EXCEPT ![x] = Effect(queue[done + 1].op, @)]
             IN  /\ cc \in [Work -> WorkState]
                 /\ Replayed(queue, (done + 1) + 1, cc, local, unborn)
  <2>1. done + 1 \in 1..Len(queue)
    BY <1>1, <1>3
  <2> QED BY <1>1, <2>1, CarryOutReplayed
<1>4. CASE CarryOut
  <2>1. /\ done < Len(queue) /\ done' = done + 1 /\ queue' = queue
        /\ UNCHANGED <<local, unborn>>
        /\ cloud' = [cloud EXCEPT ![queue[done + 1].work] = Effect(queue[done + 1].op, @)]
    BY <1>4 DEF CarryOut, Unserved
  <2>2. done' \in 0..Len(queue')
    BY <1>1, <2>1
  <2> QED BY <1>1, <1>3, <2>1, <2>2, ServerSide
<1>5. CASE Confirm
  <2>1. /\ done > 0 /\ done' = done - 1 /\ queue' = Tail(queue) /\ queue # << >>
        /\ UNCHANGED <<cloud, local, unborn>>
    BY <1>1, <1>5 DEF Confirm
  <2>2. Tail(queue) \in Seq(Mutation) /\ Len(Tail(queue)) = Len(queue) - 1
    BY <1>1, <2>1, TailFacts
  <2>3. Replayed(Tail(queue), (done + 1) - 1, cloud, local, unborn)
    BY <1>1, <2>1, TailReplayed
  <2>4. done' \in 0..Len(queue') /\ done' + 1 = (done + 1) - 1
    BY <1>1, <2>1, <2>2
  <2>5. Replayed(queue', done' + 1, cloud', local, unborn)
    BY <2>1, <2>3, <2>4
  <2> QED BY <1>1, <2>1, <2>2, <2>4, <2>5, ServerSide
<1>6. CASE Refuse
  <2>1. /\ done < Len(queue) /\ done' = 0 /\ queue' = Tail(queue) /\ queue # << >>
        /\ UNCHANGED <<cloud, local, unborn>>
        /\ ~Accepted(queue[done + 1].op, cloud[queue[done + 1].work])
    BY <1>1, <1>6 DEF Refuse, Unserved
  <2>2. Tail(queue) \in Seq(Mutation) /\ Len(Tail(queue)) = Len(queue) - 1
    BY <1>1, <2>1, TailFacts
  <2>3. queue[done + 1].op \in Op /\ queue[done + 1].work \in Work
    <3>1. queue[done + 1] \in Mutation
      BY <1>1, <2>1, ElementOfSeq
    <3> QED BY <3>1 DEF Mutation
  <2>4. Effect(queue[done + 1].op, cloud[queue[done + 1].work]) = cloud[queue[done + 1].work]
    BY <1>1, <2>1, <2>3, RefusedIsNoEffect
  <2>5. Replayed(queue, (done + 1) + 1, cloud, local, unborn)
    <3>1. [cloud EXCEPT ![queue[done + 1].work] = Effect(queue[done + 1].op, @)] = cloud
      BY <1>1, <2>3, <2>4
    <3> QED BY <1>3, <2>1, <3>1
  <2>6. Replayed(Tail(queue), ((done + 1) + 1) - 1, cloud, local, unborn)
    BY <1>1, <2>1, <2>5, TailReplayed
  <2>7. ((done + 1) + 1) - 1 \in Nat /\ 1 <= ((done + 1) + 1) - 1
    BY <1>1
  <2>8. Replayed(Tail(queue), 1, cloud, local, unborn)
    BY <2>2, <2>6, <2>7, Earlier
  <2>9. done' \in 0..Len(queue') /\ done' + 1 = 1
    BY <1>1, <2>1, <2>2
  <2> QED BY <1>1, <2>1, <2>2, <2>8, <2>9, ServerSide
<1>7. CASE Resend
  <2>1. done' = 0 /\ UNCHANGED vars
    BY <1>7 DEF Resend
  <2>2. Replayed(queue, 1, cloud, local, unborn)
    <3>1. done + 1 \in Nat /\ 1 <= done + 1
      BY <1>1
    <3> QED BY <1>1, <3>1, Earlier
  <2>3. done' \in 0..Len(queue) /\ done' + 1 = 1
    BY <1>1, <2>1
  <2> QED BY <1>1, <2>1, <2>2, <2>3, ServerSide DEF vars
<1>8. CASE UNCHANGED resentVars
  BY <1>1, <1>8, ServerSide DEF resentVars, vars
<1> QED BY <1>2, <1>4, <1>5, <1>6, <1>7, <1>8 DEF ResentNext

(* The inductive invariant: the last write of each kind decides, and where *)
(* none is left to be carried out the server has what the owner sees.      *)
THEOREM ResentInvariance == ResentSpec => []ResentInv
BY ResentInit0, ResentStep, PTL DEF ResentSpec

(* A work none of whose writes is pending is on the server as its owner    *)
(* sees it.                                                                *)
LEMMA Settled == ResentInv => SettledIsShown
<1> SUFFICES ASSUME ResentInv, NEW w \in Work, ~HasPending(w)
             PROVE  cloud[w] = local[w]
  BY DEF SettledIsShown
<1>1. /\ Leading(queue, done + 1, cloud, local, w)
      /\ cloud[w] \in WorkState /\ local[w] \in WorkState /\ Sound(local[w])
      /\ done \in Nat
  BY DEF ResentInv, Replayed, OwnersView, TypeOK
<1>2. \A ops : NoneFrom(queue, done + 1, w, ops)
  BY <1>1 DEF HasPending, NoneFrom, Of
<1>3. cloud[w].posted = local[w].posted
  BY <1>1, <1>2 DEF Leading
<1>4. cloud[w].doc = local[w].doc
  <2>1. CASE local[w].doc = NoDoc
    BY <1>1, <1>2, <2>1 DEF Leading
  <2>2. CASE local[w].doc # NoDoc
    <3>1. /\ cloud[w].doc # NoDoc /\ cloud[w].doc.full
          /\ cloud[w].doc.public = local[w].doc.public
      BY <1>1, <1>2, <2>2 DEF Leading
    <3>2. local[w].doc.full
      BY <1>1, <2>2 DEF Sound
    <3>3. cloud[w].doc \in WorkDoc /\ local[w].doc \in WorkDoc
      BY <1>1, <2>2, <3>1 DEF WorkState
    <3>4. cloud[w].doc = [full |-> TRUE, public |-> cloud[w].doc.public]
      BY <3>1, <3>3 DEF WorkDoc
    <3>5. local[w].doc = [full |-> TRUE, public |-> local[w].doc.public]
      BY <3>2, <3>3 DEF WorkDoc
    <3> QED BY <3>1, <3>4, <3>5
  <2> QED BY <2>1, <2>2
<1>5. /\ cloud[w] = [doc |-> cloud[w].doc, posted |-> cloud[w].posted]
      /\ local[w] = [doc |-> local[w].doc, posted |-> local[w].posted]
  BY <1>1 DEF WorkState
<1> QED BY <1>3, <1>4, <1>5

(* However often writes were carried out again, the server ends up with    *)
(* what the owner sees.                                                    *)
THEOREM ResendingSettles == ResentSpec => []SettledIsShown
BY Settled, ResentInvariance, PTL

(* Only a removed work can come back without its drawing, and only while   *)
(* its removal is still pending.                                           *)
THEOREM HollowIsRemoved == ResentSpec => []HollowOnlyIfRemoved
<1>1. ResentInv => HollowOnlyIfRemoved
  <2> SUFFICES ASSUME ResentInv, NEW w \in Work, cloud[w].doc # NoDoc,
                      ~(cloud[w].doc.full /\ cloud[w].doc.public # Unset)
               PROVE  local[w].doc = NoDoc /\ HasPending(w)
    BY DEF HollowOnlyIfRemoved
  <2>1. /\ Leading(queue, done + 1, cloud, local, w)
        /\ queue \in Seq(Mutation) /\ done \in Nat
    BY DEF ResentInv, Replayed, OwnersView, TypeOK
  <2>2. local[w].doc = NoDoc
    BY <2>1 DEF Leading
  <2>3. ~NoneFrom(queue, done + 1, w, {"delete"})
    BY <2>1, <2>2 DEF Leading
  <2>4. HasPending(w)
    BY <2>1, <2>3 DEF NoneFrom, Of, HasPending
  <2> QED BY <2>2, <2>4
<1> QED BY <1>1, ResentInvariance, PTL

(* A write of a work leaves the head of the queue. *)
LEMMA DirtyShrinks ==
  ASSUME TypeOK, queue # << >>, queue' = Tail(queue),
         NEW x \in Work, x = Head(queue).work
  PROVE  /\ x \in {v \in Work : HasPending(v)}
         /\ {v \in Work : HasPending(v)}' \in
              { {v \in Work : HasPending(v)}, {v \in Work : HasPending(v)} \ {x} }
<1>1. /\ Len(queue') = Len(queue) - 1 /\ Len(queue) \in Nat /\ Len(queue) >= 1
      /\ queue[1].work = x
      /\ \A i \in 1..Len(queue)-1 : queue'[i] = queue[i+1]
  BY TailFacts DEF TypeOK
<1>2. HasPending(x)
  BY <1>1 DEF HasPending
<1>3. \A v \in Work \ {x} : HasPending(v)' <=> HasPending(v)
  <2> TAKE v \in Work \ {x}
  <2>1. ASSUME HasPending(v) PROVE HasPending(v)'
    <3>1. PICK i \in 1..Len(queue) : queue[i].work = v
      BY <2>1 DEF HasPending
    <3>2. i # 1 /\ i - 1 \in 1..Len(queue') /\ i - 1 \in 1..Len(queue)-1 /\ (i - 1) + 1 = i
      BY <1>1, <3>1
    <3>3. queue'[i-1].work = v
      BY <1>1, <3>1, <3>2
    <3> QED BY <3>2, <3>3 DEF HasPending
  <2>2. ASSUME HasPending(v)' PROVE HasPending(v)
    <3>1. PICK i \in 1..Len(queue') : queue'[i].work = v
      BY <2>2 DEF HasPending
    <3>2. i + 1 \in 1..Len(queue) /\ queue[i+1].work = v
      BY <1>1, <3>1
    <3> QED BY <3>2 DEF HasPending
  <2> QED BY <2>1, <2>2
<1>4. CASE HasPending(x)'
  BY <1>2, <1>3, <1>4
<1>5. CASE ~HasPending(x)'
  BY <1>2, <1>3, <1>5
<1> QED BY <1>2, <1>4, <1>5

(* With results lost and writes carried out again, the gallery is still    *)
(* implemented: the display is out of step with dirty works only.          *)
THEOREM ResentRefinement == ResentSpec => ImplementsGallery
<1>1. ResentInit => G!Init
  <2> SUFFICES ASSUME ResentInit PROVE G!Init
    OBVIOUS
  <2>1. [w \in Work |-> PlaceOf(w)] = [w \in Work |-> "new"]
    BY DEF ResentInit, Init, PlaceOf
  <2>2. {w \in Work : cloud[w].posted} = {}
    BY DEF ResentInit, Init, Absent
  <2>3. {w \in Work : HasPending(w)} = {}
    BY DEF ResentInit, Init, HasPending
  <2> QED BY <2>1, <2>2, <2>3 DEF G!Init
<1>2. ASSUME ResentInv, ResentInv', [ResentNext]_resentVars PROVE [G!Next]_(G!gallery)
  <2> DEFINE place   == [w \in Work |-> PlaceOf(w)]
             display == {w \in Work : cloud[w].posted}
             dirty   == {w \in Work : HasPending(w)}
  <2>1. /\ OwnersView /\ TypeOK
        /\ queue \in Seq(Mutation) /\ Len(queue) \in Nat /\ done \in 0..Len(queue)
        /\ cloud \in [Work -> WorkState]
    BY <1>2 DEF ResentInv, OwnersView, TypeOK
  <2>2. CASE Owner
    BY <2>1, <2>2, OwnerMoves DEF Owner
  <2>3. CASE CarryOut
    <3>1. done + 1 \in 1..Len(queue)
      BY <2>1, <2>3 DEF CarryOut
    <3>2. queue[done + 1] \in Mutation
      BY <2>1, <3>1, ElementOfSeq
    <3>3. PICK x \in Work : x = queue[done + 1].work
      BY <3>2 DEF Mutation
    <3>4. PICK e : cloud' = [cloud EXCEPT ![x] = e]
      BY <2>1, <2>3, <3>3 DEF CarryOut, Unserved
    <3>5. x \in dirty
      BY <3>1, <3>3 DEF HasPending
    <3>6. display' \in {display \cup {x}, display \ {x}}
      BY <2>1, <3>4
    <3>7. place' = place /\ dirty' = dirty
      BY <2>3 DEF CarryOut, PlaceOf, HasPending
    <3> QED BY <3>5, <3>6, <3>7 DEF G!Next, G!Relay
  <2>4. CASE Confirm \/ Refuse
    <3>1. /\ queue # << >> /\ queue' = Tail(queue) /\ UNCHANGED <<cloud, local, unborn>>
      BY <2>1, <2>4 DEF Confirm, Refuse
    <3>2. PICK x \in Work : x = Head(queue).work
      BY <2>1, <3>1, TailFacts
    <3>3. x \in dirty /\ dirty' \in {dirty, dirty \ {x}}
      BY <2>1, <3>1, <3>2, DirtyShrinks
    <3>4. place' = place /\ display' = display
      BY <3>1 DEF PlaceOf
    <3>5. display' \in {display \cup {x}, display \ {x}}
      BY <3>4
    <3>6. ASSUME ~HasPending(x)' PROVE x \in display' <=> place[x] = "public"
      <4>1. cloud'[x] = local'[x]
        <5>1. ResentInv' => SettledIsShown'
          BY Settled, PTL
        <5> QED BY <1>2, <3>6, <5>1 DEF SettledIsShown
      <4>2. cloud[x].posted <=> IsPublic(local[x])
        BY <2>1, <3>1, <4>1 DEF OwnersView, Agree
      <4>3. x \in unborn => local[x].doc = NoDoc
        BY <2>1 DEF OwnersView, Absent
      <4> QED BY <3>4, <4>2, <4>3 DEF IsPublic, PlaceOf
    <3>7. dirty' = dirty \/ (dirty' = dirty \ {x} /\ ~HasPending(x)')
      BY <3>3
    <3> QED BY <3>3, <3>4, <3>5, <3>6, <3>7 DEF G!Next, G!Relay
  <2>5. CASE Resend \/ UNCHANGED resentVars
    BY <2>5 DEF Resend, resentVars, vars, G!gallery, PlaceOf, HasPending
  <2> QED BY <1>2, <2>2, <2>3, <2>4, <2>5 DEF ResentNext
<1>3. ResentInv /\ ResentInv' /\ [ResentNext]_resentVars => [G!Next]_(G!gallery)
  BY <1>2
<1> QED BY <1>1, <1>3, ResentInvariance, PTL DEF ResentSpec, ImplementsGallery, G!Spec
=============================================================================
