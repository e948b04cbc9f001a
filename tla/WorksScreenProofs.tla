------------------------- MODULE WorksScreenProofs -------------------------
(* Proofs about WorksScreen, for any works in any order and any bounds.    *)
(* The owner's side is taken from the proofs about Publication.            *)
EXTENDS WorksScreen, SequenceTheorems, FiniteSetTheorems, TLAPS

PP == INSTANCE PublicationProofs

-----------------------------------------------------------------------------
(* Induction over the naturals, as a fact about a set of them: its least   *)
(* missing element could only be 0 or a successor.                         *)
LEMMA Induction ==
  ASSUME NEW T \in SUBSET Nat, 0 \in T, \A n \in T : n + 1 \in T
  PROVE  T = Nat
<1> SUFFICES ASSUME Nat \ T # {} PROVE FALSE
  OBVIOUS
<1> DEFINE U == {1..n : n \in Nat \ T}
<1>1. U \subseteq FiniteSubsetsOf(Nat) /\ U # {}
  <2>1. \A n \in Nat : IsFiniteSet(1..n) /\ 1..n \in SUBSET Nat
    BY FS_Interval
  <2> QED BY <2>1 DEF FiniteSubsetsOf
<1>2. PICK X \in U : \A Y \in U : ~(<<Y, X>> \in StrictSubsetOrdering(Nat))
  BY <1>1, FS_StrictSubsetOrderingWellFounded, WFMin
<1>3. PICK m \in Nat \ T : X = 1..m
  OBVIOUS
<1>4. m - 1 \in Nat \ T /\ (m - 1) + 1 = m
  OBVIOUS
<1>5. 1..m-1 \in U /\ 1..m-1 \in SUBSET Nat /\ 1..m \in SUBSET Nat
  BY <1>4
<1>6. 1..m-1 \subseteq 1..m /\ 1..m-1 # 1..m
  <2>1. m \in 1..m /\ m \notin 1..m-1
    BY <1>4
  <2>2. 1..m-1 \subseteq 1..m
    BY <1>4
  <2> QED BY <2>1, <2>2
<1> QED BY <1>2, <1>3, <1>5, <1>6 DEF StrictSubsetOrdering

Counts(f, s, S, n) ==
  /\ f[0] = << >>
  /\ \A i \in 1..n : f[i] = IF s[i] \in S THEN Append(f[i-1], s[i]) ELSE f[i-1]

LEMMA ChosenBy ==
  ASSUME NEW A, NEW s \in Seq(A), NEW S
  PROVE  \E f : Counts(f, s, S, Len(s)) /\ Chosen(s, S) = f[Len(s)]
<1> DEFINE D(f, n) == IF n = 0 THEN << >>
                      ELSE IF s[n] \in S THEN Append(f[n-1], s[n]) ELSE f[n-1]
           T == {n \in Nat : \E f : f = [i \in 0..n |-> D(f, i)]}
<1>1. 0 \in T
  <2> DEFINE f == [i \in 0..0 |-> << >>]
  <2>1. f = [i \in 0..0 |-> D(f, i)]
    OBVIOUS
  <2> QED BY <2>1
<1>2. ASSUME NEW n \in T PROVE n + 1 \in T
  <2>1. PICK f : f = [i \in 0..n |-> D(f, i)]
    OBVIOUS
  <2> DEFINE g == [i \in 0..n+1 |-> IF i = n+1 THEN D(f, n+1) ELSE f[i]]
  <2>2. ASSUME NEW i \in 0..n+1 PROVE g[i] = D(g, i)
    <3>1. CASE i = 0
      BY <2>1, <3>1
    <3>2. CASE i \in 1..n
      <4>1. i - 1 \in 0..n /\ i \in 0..n /\ i \in 0..n+1 /\ i # n+1 /\ i-1 \in 0..n+1 /\ i-1 # n+1
        BY <3>2
      <4>2. g[i] = f[i] /\ g[i-1] = f[i-1]
        BY <4>1
      <4>3. f[i] = D(f, i)
        BY <2>1, <4>1
      <4> HIDE DEF g
      <4> QED BY <3>2, <4>2, <4>3
    <3>3. CASE i = n + 1
      <4>1. g[n] = f[n] /\ (n+1)-1 = n /\ n + 1 # 0
        OBVIOUS
      <4>2. g[i] = D(f, n+1)
        BY <3>3
      <4> HIDE DEF g
      <4> QED BY <3>3, <4>1, <4>2
    <3> QED BY <3>1, <3>2, <3>3
  <2>3. g = [i \in 0..n+1 |-> D(g, i)]
    <3>1. g = [i \in 0..n+1 |-> g[i]]
      OBVIOUS
    <3> HIDE DEF g
    <3> QED BY <2>2, <3>1
  <2> HIDE DEF g, D
  <2> QED BY <2>3
<1>3. Len(s) \in T
  <2> HIDE DEF T
  <2>1. T \in SUBSET Nat
    BY DEF T
  <2>2. T = Nat
    BY <1>1, <1>2, <2>1, Induction
  <2> QED BY <2>2
<1> DEFINE f == CHOOSE f : f = [i \in 0..Len(s) |-> D(f, i)]
<1>4. f = [i \in 0..Len(s) |-> D(f, i)]
  BY <1>3
<1>5. Chosen(s, S) = f[Len(s)]
  BY DEF Chosen
<1> HIDE DEF f
<1>6. Counts(f, s, S, Len(s))
  <2>1. \A i \in 0..Len(s) : f[i] = D(f, i)
    BY <1>4
  <2> QED BY <2>1 DEF Counts
<1> QED BY <1>5, <1>6

LEMMA CountsAgree ==
  ASSUME NEW n \in Nat, NEW f, NEW g, NEW s, NEW t, NEW S, NEW R,
         Counts(f, s, S, n), Counts(g, t, R, n),
         \A i \in 1..n : s[i] = t[i] /\ (s[i] \in S <=> s[i] \in R)
  PROVE  f[n] = g[n]
<1> DEFINE T == {k \in Nat : k <= n => f[k] = g[k]}
<1>1. 0 \in T
  BY DEF Counts
<1>2. ASSUME NEW k \in T PROVE k + 1 \in T
  <2> SUFFICES ASSUME k + 1 <= n PROVE f[k+1] = g[k+1]
    OBVIOUS
  <2>1. k + 1 \in 1..n /\ (k + 1) - 1 = k /\ f[k] = g[k]
    OBVIOUS
  <2> HIDE DEF T
  <2> QED BY <2>1 DEF Counts
<1>3. T \in SUBSET Nat
  OBVIOUS
<1> HIDE DEF T
<1>4. T = Nat
  BY <1>1, <1>2, <1>3, Induction
<1>5. n \in T
  BY <1>4
<1> QED BY <1>5 DEF T

LEMMA ChosenEmpty == ASSUME NEW S PROVE Chosen(<< >>, S) = << >>
<1>1. << >> \in Seq({})
  BY EmptySeq
<1>2. PICK f : Counts(f, << >>, S, Len(<< >>)) /\ Chosen(<< >>, S) = f[Len(<< >>)]
  BY <1>1, ChosenBy
<1> QED BY <1>2, EmptySeq DEF Counts

LEMMA ChosenAppend ==
  ASSUME NEW A, NEW s \in Seq(A), NEW e \in A, NEW S
  PROVE  Chosen(Append(s, e), S) =
           IF e \in S THEN Append(Chosen(s, S), e) ELSE Chosen(s, S)
<1> DEFINE t == Append(s, e)
<1>1. /\ t \in Seq(A) /\ Len(s) \in Nat /\ Len(t) = Len(s) + 1
      /\ t[Len(s) + 1] = e /\ \A i \in 1..Len(s) : t[i] = s[i]
  BY AppendProperties, LenProperties
<1> HIDE DEF t
<1>2. PICK f : Counts(f, s, S, Len(s)) /\ Chosen(s, S) = f[Len(s)]
  BY ChosenBy
<1>3. PICK g : Counts(g, t, S, Len(t)) /\ Chosen(t, S) = g[Len(t)]
  BY <1>1, ChosenBy
<1>4. Counts(g, t, S, Len(s))
  BY <1>1, <1>3 DEF Counts
<1>5. g[Len(s)] = f[Len(s)]
  BY <1>1, <1>2, <1>4, CountsAgree
<1>6. g[Len(s) + 1] = IF t[Len(s) + 1] \in S THEN Append(g[Len(s)], t[Len(s) + 1]) ELSE g[Len(s)]
  <2>1. Len(s) + 1 \in 1..Len(t) /\ (Len(s) + 1) - 1 = Len(s)
    BY <1>1
  <2> QED BY <1>3, <2>1 DEF Counts
<1> QED BY <1>1, <1>2, <1>3, <1>5, <1>6 DEF t

LEMMA SeqInduction ==
  ASSUME NEW A, NEW T \in SUBSET Seq(A), << >> \in T,
         \A s \in T, e \in A : Append(s, e) \in T
  PROVE  T = Seq(A)
<1> DEFINE U == {n \in Nat : \A s \in Seq(A) : Len(s) = n => s \in T}
<1>1. 0 \in U
  BY EmptySeq
<1>2. ASSUME NEW n \in U PROVE n + 1 \in U
  <2> SUFFICES ASSUME NEW s \in Seq(A), Len(s) = n + 1 PROVE s \in T
    OBVIOUS
  <2>1. s # << >>
    BY EmptySeq
  <2>2. PICK r \in Seq(A), e \in A : s = Append(r, e)
    BY <2>1, SequenceEmptyOrAppend
  <2>3. Len(r) = n
    BY <2>2, AppendProperties, LenProperties
  <2> QED BY <2>2, <2>3
<1>3. U \in SUBSET Nat
  OBVIOUS
<1> HIDE DEF U
<1>4. U = Nat
  BY <1>1, <1>2, <1>3, Induction
<1>5. \A s \in Seq(A) : Len(s) \in U
  BY <1>4, LenProperties
<1> QED BY <1>5 DEF U

(* What is chosen is of the sequence and of the set. *)
LEMMA ChosenType ==
  ASSUME NEW A, NEW S, NEW s \in Seq(A)
  PROVE  Chosen(s, S) \in Seq(A \cap S)
<1> DEFINE T == {t \in Seq(A) : Chosen(t, S) \in Seq(A \cap S)}
<1>1. << >> \in T
  BY EmptySeq, ChosenEmpty
<1>2. ASSUME NEW t \in T, NEW e \in A PROVE Append(t, e) \in T
  <2>1. Append(t, e) \in Seq(A)
    BY AppendProperties
  <2>2. CASE e \in S
    <3>1. e \in A \cap S /\ Chosen(t, S) \in Seq(A \cap S) /\ t \in Seq(A)
      BY <2>2
    <3>2. Append(Chosen(t, S), e) \in Seq(A \cap S)
      BY <3>1, AppendProperties
    <3>3. Chosen(Append(t, e), S) = Append(Chosen(t, S), e)
      BY <2>2, <3>1, ChosenAppend
    <3> QED BY <2>1, <3>2, <3>3
  <2>3. CASE e \notin S
    BY <2>1, <2>3, ChosenAppend
  <2> QED BY <2>2, <2>3
<1>3. T \in SUBSET Seq(A)
  OBVIOUS
<1> HIDE DEF T
<1>4. T = Seq(A)
  BY <1>1, <1>2, <1>3, SeqInduction
<1> QED BY <1>4 DEF T

LEMMA ChosenLonger ==
  ASSUME NEW A, NEW S, NEW s \in Seq(A), NEW e \in A
  PROVE  /\ Len(Chosen(s, S)) \in Nat
         /\ Len(Chosen(Append(s, e), S)) =
              Len(Chosen(s, S)) + (IF e \in S THEN 1 ELSE 0)
<1>1. Chosen(s, S) \in Seq(A \cap S)
  BY ChosenType
<1>2. Len(Chosen(s, S)) \in Nat
  BY <1>1, LenProperties
<1>3. CASE e \in S
  <2>1. e \in A \cap S
    BY <1>3
  <2>2. Len(Append(Chosen(s, S), e)) = Len(Chosen(s, S)) + 1
    BY <1>1, <2>1, AppendProperties
  <2> QED BY <1>2, <1>3, <2>2, ChosenAppend
<1>4. CASE e \notin S
  BY <1>2, <1>4, ChosenAppend
<1> QED BY <1>3, <1>4

(* Only which of the elements are in the set counts. *)
LEMMA ChosenSame ==
  ASSUME NEW A, NEW s \in Seq(A), NEW S, NEW R, A \cap S = A \cap R
  PROVE  Chosen(s, S) = Chosen(s, R)
<1>1. PICK f : Counts(f, s, S, Len(s)) /\ Chosen(s, S) = f[Len(s)]
  BY ChosenBy
<1>2. PICK g : Counts(g, s, R, Len(s)) /\ Chosen(s, R) = g[Len(s)]
  BY ChosenBy
<1>3. \A i \in 1..Len(s) : s[i] \in S <=> s[i] \in R
  BY ElementOfSeq
<1> QED BY <1>1, <1>2, <1>3, CountsAgree, LenProperties

(* Choosing from what was chosen for a larger set. *)
LEMMA ChosenTwice ==
  ASSUME NEW A, NEW S, NEW R, NEW s \in Seq(A), A \cap R \subseteq S
  PROVE  Chosen(Chosen(s, S), R) = Chosen(s, R)
<1> DEFINE T == {t \in Seq(A) : Chosen(Chosen(t, S), R) = Chosen(t, R)}
<1>1. << >> \in T
  BY EmptySeq, ChosenEmpty
<1>2. ASSUME NEW t \in T, NEW e \in A PROVE Append(t, e) \in T
  <2>1. Append(t, e) \in Seq(A)
    BY AppendProperties
  <2>2. Chosen(t, S) \in Seq(A \cap S)
    BY ChosenType
  <2>3. CASE e \in S
    <3>1. Chosen(Append(t, e), S) = Append(Chosen(t, S), e)
      BY <2>3, ChosenAppend
    <3>2. Chosen(Append(Chosen(t, S), e), R) =
            IF e \in R THEN Append(Chosen(Chosen(t, S), R), e) ELSE Chosen(Chosen(t, S), R)
      <4>1. \A B : \A c \in Seq(B), x \in B :
              Chosen(Append(c, x), R) =
                IF x \in R THEN Append(Chosen(c, R), x) ELSE Chosen(c, R)
        BY ChosenAppend
      <4>2. e \in A \cap S
        BY <2>3
      <4> QED BY <2>2, <4>1, <4>2
    <3>3. Chosen(Append(t, e), R) = IF e \in R THEN Append(Chosen(t, R), e) ELSE Chosen(t, R)
      BY ChosenAppend
    <3> QED BY <2>1, <3>1, <3>2, <3>3
  <2>4. CASE e \notin S
    <3>1. Chosen(Append(t, e), S) = Chosen(t, S) /\ e \notin R
      BY <2>4, ChosenAppend
    <3>2. Chosen(Append(t, e), R) = Chosen(t, R)
      BY <3>1, ChosenAppend
    <3> QED BY <2>1, <3>1, <3>2
  <2> QED BY <2>3, <2>4
<1>3. T \in SUBSET Seq(A)
  OBVIOUS
<1> HIDE DEF T
<1>4. T = Seq(A)
  BY <1>1, <1>2, <1>3, SeqInduction
<1> QED BY <1>4 DEF T

(* The length of what is chosen, from the front of the sequence. *)
LEMMA ChosenTail ==
  ASSUME NEW A, NEW S, NEW s \in Seq(A), s # << >>
  PROVE  Len(Chosen(Tail(s), S)) =
           Len(Chosen(s, S)) - (IF Head(s) \in S THEN 1 ELSE 0)
<1> DEFINE Fits(t) == Len(Chosen(Tail(t), S)) =
                     Len(Chosen(t, S)) - (IF Head(t) \in S THEN 1 ELSE 0)
           T == {t \in Seq(A) : t # << >> => Fits(t)}
<1>1. << >> \in T
  BY EmptySeq
<1>2. ASSUME NEW t \in T, NEW e \in A PROVE Append(t, e) \in T
  <2> DEFINE k(b) == IF b THEN 1 ELSE 0
             u == Append(t, e)
  <2>1. /\ u \in Seq(A)
        /\ Head(u) = IF t = << >> THEN e ELSE Head(t)
        /\ Tail(u) = IF t = << >> THEN << >> ELSE Append(Tail(t), e)
    BY AppendProperties, HeadTailAppend
  <2>2. Len(Chosen(u, S)) = Len(Chosen(t, S)) + k(e \in S)
    BY ChosenLonger
  <2>3. CASE t = << >>
    <3>1. Chosen(t, S) = << >> /\ Chosen(Tail(u), S) = << >> /\ Head(u) = e
      BY <2>1, <2>3, ChosenEmpty
    <3>2. Len(Chosen(t, S)) = 0 /\ Len(Chosen(Tail(u), S)) = 0
      BY <3>1, EmptySeq
    <3> HIDE DEF u
    <3>3. Fits(u)
      BY <2>2, <3>1, <3>2
    <3> QED BY <2>1, <3>3 DEF u
  <2>4. CASE t # << >>
    <3>1. Tail(t) \in Seq(A) /\ Head(u) = Head(t) /\ Tail(u) = Append(Tail(t), e)
      BY <2>1, <2>4, HeadTailProperties
    <3>2. Len(Chosen(Tail(u), S)) = Len(Chosen(Tail(t), S)) + k(e \in S)
      <4>1. \A v \in Seq(A), x \in A :
              Len(Chosen(Append(v, x), S)) = Len(Chosen(v, S)) + k(x \in S)
        BY ChosenLonger
      <4> HIDE DEF k
      <4> QED BY <3>1, <4>1
    <3>3. Fits(t)
      BY <2>4
    <3>4. Len(Chosen(t, S)) \in Nat /\ Len(Chosen(Tail(t), S)) \in Nat
      BY <3>1, ChosenLonger
    <3> HIDE DEF u
    <3>5. Fits(u)
      BY <2>2, <3>1, <3>2, <3>3, <3>4
    <3> QED BY <2>1, <3>5 DEF u
  <2> QED BY <2>3, <2>4
<1>3. T \in SUBSET Seq(A)
  OBVIOUS
<1> HIDE DEF T
<1>4. T = Seq(A)
  BY <1>1, <1>2, <1>3, SeqInduction
<1> QED BY <1>4 DEF T

(* Nothing is chosen only where there is nothing to choose. *)
LEMMA ChosenSome ==
  ASSUME NEW A, NEW S, NEW s \in Seq(A), Chosen(s, S) # << >>
  PROVE  \E i \in 1..Len(s) : s[i] \in S
<1> SUFFICES ASSUME \A i \in 1..Len(s) : s[i] \notin S PROVE FALSE
  OBVIOUS
<1>1. s \in Seq(A \ S)
  <2>1. \A i \in 1..Len(s) : s[i] \in A \ S
    BY ElementOfSeq
  <2> QED BY <2>1, LenProperties
<1>2. Chosen(s, S) = Chosen(s, {})
  BY <1>1, ChosenSame
<1>3. Chosen(s, {}) \in Seq(A \cap {})
  BY ChosenType
<1>4. Len(Chosen(s, S)) \in Nat \ {0}
  BY <1>2, <1>3, EmptySeq
<1>5. 1 \in 1..Len(Chosen(s, S))
  BY <1>4
<1>6. Chosen(s, S)[1] \in A \cap {}
  BY <1>2, <1>3, <1>5, ElementOfSeq
<1> QED BY <1>6

-----------------------------------------------------------------------------
(* The owner's side: what the writes do to the types. *)
LEMMA Assumed == PP!NoDocAssumption /\ PP!MaxQueueAssumption
BY NoDocAssumption, MaxQueueAssumption
   DEF PP!NoDocAssumption, PP!MaxQueueAssumption, PP!WorkDoc, WorkDoc,
       PP!Trashed, PP!Private, PP!Public, PP!Unset,
       Trashed, Private, Public, Unset

LEMMA PendingTyped ==
  ASSUME NEW op \in P!Op, NEW w \in Work, NEW s \in P!WorkState
  PROVE  /\ P!Effect(op, s) \in P!WorkState
         /\ P!Pending(op, w, s) \in P!Mutation
<1>1. P!Effect(op, s) \in P!WorkState
  BY DEF P!Op, P!WorkState, P!WorkDoc, P!Effect, P!Merge, P!Update, P!Drawing,
         P!Trashed, P!Private, P!Public, P!Unset
<1> QED BY <1>1 DEF P!Pending, P!Mutation

LEMMA WriteTyped ==
  ASSUME P!TypeOK, NEW w \in Work, NEW op \in P!Op, P!Write(w, op)
  PROVE  /\ local' \in [Work -> P!WorkState]
         /\ queue' \in Seq(P!Mutation) /\ Len(queue') = Len(queue) + 1
<1> DEFINE m == P!Pending(op, w, local[w])
<1>1. local \in [Work -> P!WorkState] /\ local[w] \in P!WorkState /\ queue \in Seq(P!Mutation)
  BY DEF P!TypeOK
<1>2. m \in P!Mutation /\ P!Effect(op, local[w]) \in P!WorkState
  BY <1>1, PendingTyped
<1>3. queue' = Append(queue, m) /\ local' = [local EXCEPT ![w] = P!Effect(op, local[w])]
  BY DEF P!Write
<1> HIDE DEF m
<1> QED BY <1>1, <1>2, <1>3, AppendProperties

LEMMA BothTyped ==
  ASSUME P!TypeOK, NEW w \in Work, NEW a \in P!Op, NEW b \in P!Op, P!WriteBoth(w, a, b)
  PROVE  /\ local' \in [Work -> P!WorkState]
         /\ queue' \in Seq(P!Mutation) /\ Len(queue') = Len(queue) + 2
<1> DEFINE s == P!Effect(a, local[w])
           m == P!Pending(a, w, local[w])
           n == P!Pending(b, w, s)
<1>1. local \in [Work -> P!WorkState] /\ local[w] \in P!WorkState /\ queue \in Seq(P!Mutation)
  BY DEF P!TypeOK
<1>2. m \in P!Mutation /\ s \in P!WorkState
  BY <1>1, PendingTyped
<1>3. /\ queue' = Append(Append(queue, m), n)
      /\ local' = [local EXCEPT ![w] = P!Effect(b, s)]
  BY DEF P!WriteBoth
<1>4. n \in P!Mutation /\ P!Effect(b, s) \in P!WorkState
  <2> HIDE DEF s
  <2> QED BY <1>2, PendingTyped
<1> HIDE DEF s, m, n
<1>5. Append(queue, m) \in Seq(P!Mutation) /\ Len(Append(queue, m)) = Len(queue) + 1
  BY <1>1, <1>2, AppendProperties
<1>6. Append(Append(queue, m), n) \in Seq(P!Mutation) /\ Len(Append(Append(queue, m), n)) = Len(queue) + 2
  BY <1>1, <1>4, <1>5, AppendProperties, LenProperties
<1> QED BY <1>1, <1>3, <1>4, <1>6

LEMMA DeliverTyped ==
  ASSUME P!TypeOK, P!Deliver
  PROVE  /\ P!TypeOK' /\ queue # << >> /\ Len(queue') = Len(queue) - 1
         /\ Len(queue) \in Nat
<1>1. /\ cloud \in [Work -> P!WorkState] /\ queue \in Seq(P!Mutation)
      /\ queue # << >> /\ queue' = Tail(queue) /\ local' = local /\ unborn' = unborn
  BY DEF P!TypeOK, P!Deliver
<1>2. PICK m \in P!Mutation : m = Head(queue)
  BY <1>1, HeadTailProperties
<1>3. m.op \in P!Op /\ m.work \in Work
  BY DEF P!Mutation
<1>4. \/ cloud' = [cloud EXCEPT ![m.work] = P!Effect(m.op, cloud[m.work])]
      \/ cloud' = cloud
  BY <1>1, <1>2 DEF P!Deliver
<1>5. cloud' \in [Work -> P!WorkState]
  BY <1>1, <1>3, <1>4, PendingTyped
<1>6. queue' \in Seq(P!Mutation) /\ Len(queue') = Len(queue) - 1 /\ Len(queue) \in Nat
  BY <1>1, HeadTailProperties, LenProperties
<1> QED BY <1>1, <1>5, <1>6 DEF P!TypeOK

-----------------------------------------------------------------------------
(* What the screen's own values are made of. *)
Names == {"private", "public", "trash"}

LEMMA ListsAre ==
  \A r : r \in Lists <=> r = [l \in Names |-> r[l]] /\ \A l \in Names : r[l] \in Seq(Work)
BY DEF Lists, Names

LEMMA NoListsTyped == NoLists \in Lists
BY EmptySeq DEF Lists, NoLists

LEMMA ListedTyped ==
  \A p : Listed(p) \in Seq(Work) /\ Listed(p) \in Seq(Filed(p))
<1> TAKE p
<1>1. Listed(p) \in Seq(Work \cap Filed(p))
  BY WorkOrderAssumption, ChosenType DEF Listed
<1>2. Work \cap Filed(p) \subseteq Work /\ Work \cap Filed(p) \subseteq Filed(p)
  OBVIOUS
<1> QED BY <1>1, <1>2, SeqMonotonic

LEMMA SnapshotTyped == Snapshot \in Lists
BY ListedTyped DEF Snapshot, Lists

LEMMA BlocksAre ==
  /\ \A k \in {"auth", "failed"} \cup Call : [kind |-> k] \in Block /\ [kind |-> k].kind = k
  /\ \A d \in Lists : LET b == [kind |-> "docs", docs |-> d] IN
                       b \in Block /\ b.kind = "docs" /\ b.docs = d
  /\ \A b \in Block : /\ b.kind \in {"auth", "failed", "docs"} \cup Call
                      /\ b.kind = "docs" => b.docs \in Lists
BY DEF Block, Call

LEMMA WithoutTyped ==
  ASSUME NEW s \in Seq(Block)
  PROVE  WithoutPageCalls(s) \in Seq(StayingBlock) /\ WithoutPageCalls(s) \in Seq(Block)
<1>1. WithoutPageCalls(s) \in Seq(Block \cap StayingBlock)
  BY ChosenType DEF WithoutPageCalls
<1>2. Block \cap StayingBlock \subseteq Block /\ Block \cap StayingBlock \subseteq StayingBlock
  OBVIOUS
<1> QED BY <1>1, <1>2, SeqMonotonic

(* What leaves no write waited for, and what leaves only those no page      *)
(* waits for.                                                              *)
LEMMA CallsTyped ==
  /\ \A n \in Nat : /\ [i \in 1..n |-> "none"] \in Seq(Call)
                    /\ Len([i \in 1..n |-> "none"]) = n
  /\ ClosePage /\ calls \in Seq(Call) => calls' \in Seq(Call) /\ Len(calls') = Len(calls)
<1>1. "none" \in Call
  BY DEF Call
<1>2. ASSUME ClosePage, calls \in Seq(Call)
      PROVE  calls' \in Seq(Call) /\ Len(calls') = Len(calls)
  <2>1. Len(calls) \in Nat /\ \A i \in 1..Len(calls) : calls[i] \in Call
    BY <1>2, LenProperties, ElementOfSeq
  <2>2. calls' \in [1..Len(calls) -> Call]
    BY <1>1, <1>2, <2>1 DEF ClosePage
  <2> QED BY <2>1, <2>2
<1> QED BY <1>1, <1>2

(* The type invariant without the owner's side. *)
Types ==
  /\ calls \in Seq(Call)
  /\ screen \in {"canvas", "works"}
  /\ lists \in Lists /\ rows \in Lists /\ deleting \in Seq(Work)
  /\ flags \in SUBSET Flag
  /\ index \in Nat \ {0}
  /\ enabled \in BOOLEAN /\ sweepable \in BOOLEAN
  /\ page \in [work: Work, published: BOOLEAN] \cup {NoPage}
  /\ alert \in {"none", "actions", "sure", "sweep"}
  /\ main \in Seq(Block)
  /\ asked \in Nat

LEMMA TypeParts ==
  /\ TypeOK <=> P!TypeOK /\ Types /\ Len(calls) = Len(queue)
  /\ TypeOK' <=> P!TypeOK' /\ Types' /\ Len(calls')  = Len(queue')
BY DEF TypeOK, Types

(* The head of the main queue, and what is left of it. *)
LEMMA MainTyped ==
  ASSUME Types
  PROVE  /\ \A k \in {"auth", "failed"} \cup Call : Append(main, [kind |-> k]) \in Seq(Block)
         /\ main # << >> =>
              /\ Tail(main) \in Seq(Block) /\ Head(main) \in Block
              /\ \A k \in {"auth", "failed"} \cup Call : Append(Tail(main), [kind |-> k]) \in Seq(Block)
<1>1. main \in Seq(Block)
  BY DEF Types
<1>2. \A s \in Seq(Block), b \in Block : Append(s, b) \in Seq(Block)
  BY AppendProperties
<1>3. main # << >> => Tail(main) \in Seq(Block) /\ Head(main) \in Block
  BY <1>1, HeadTailProperties
<1> QED BY <1>1, <1>2, <1>3, BlocksAre

(* The user's taps that issue no write. *)
LEMMA TapsTyped ==
  ASSUME TypeOK,
         \/ OpenWorks \/ Leave \/ Restart \/ OpenPage("private") \/ OpenPage("public")
         \/ EdgePan \/ DragDown \/ TapTrashRow \/ CancelAlert \/ ChooseRemove
         \/ TapTrashAll \/ ConfirmTrashAll
  PROVE  TypeOK'
<1>1. /\ P!TypeOK /\ Types /\ Len(calls) = Len(queue) /\ Len(queue) \in Nat
      /\ calls \in Seq(Call) /\ main \in Seq(Block)
  BY TypeParts, LenProperties DEF Types
<1>2. << >> \in Seq(Call) /\ << >> \in Seq(Block) /\ << >> \in Seq(Work) /\ << >> \in Seq(Work)
  BY EmptySeq
<1>3. /\ [kind |-> "auth"] \in Block
      /\ Append(<< >>, [kind |-> "auth"]) \in Seq(Block)
      /\ Append(main, [kind |-> "auth"]) \in Seq(Block)
      /\ WithoutPageCalls(main) \in Seq(Block)
      /\ Append(WithoutPageCalls(main), [kind |-> "auth"]) \in Seq(Block)
  <2>1. [kind |-> "auth"] \in Block /\ WithoutPageCalls(main) \in Seq(Block)
    BY <1>1, BlocksAre, WithoutTyped
  <2> QED BY <1>1, <1>2, <2>1, AppendProperties
<1>4. UNCHANGED data => P!TypeOK' /\ UNCHANGED queue
  BY <1>1 DEF data, P!TypeOK
<1>5. ASSUME Reset, lists' \in Lists, main' \in Seq(Block), screen' \in {"canvas", "works"}
      PROVE  TypeOK'
  <2>1. Types' /\ Len(calls') = Len(queue')
    <3>1. calls' \in Seq(Call) /\ Len(calls') = Len(queue')
      BY <1>1, <1>4, <1>5, CallsTyped DEF Reset
    <3>2. /\ rows' \in Lists /\ flags' \in SUBSET Flag /\ index' \in Nat \ {0}
          /\ enabled' \in BOOLEAN /\ sweepable' \in BOOLEAN
          /\ deleting' \in Seq(Work) /\ page' = NoPage /\ alert' = "none" /\ asked' \in Nat
      BY <1>2, <1>5, NoListsTyped DEF Reset
    <3> QED BY <1>5, <3>1, <3>2 DEF Types
  <2> QED BY <1>4, <1>5, <2>1, TypeParts DEF Reset
<1>6. CASE OpenWorks \/ Leave \/ Restart
  <2>1. Reset /\ lists' \in Lists /\ main' \in Seq(Block) /\ screen' \in {"canvas", "works"}
    BY <1>2, <1>3, <1>6, NoListsTyped DEF OpenWorks, Leave, Restart, StartFetch
  <2> QED BY <1>5, <2>1
<1>7. CASE OpenPage("private") \/ OpenPage("public")
  <2>1. PICK which \in {"private", "public"} : OpenPage(which)
    BY <1>7
  <2>2. PICK i \in 1..Len(rows[which]) :
          /\ index' = i
          /\ IF i \in 1..Len(lists[which])
             THEN page' = [work |-> lists[which][i], published |-> which = "public"]
             ELSE page' = page
    BY <2>1 DEF OpenPage
  <2>3. rows[which] \in Seq(Work) /\ lists[which] \in Seq(Work)
    BY <1>1, ListsAre DEF Types, Names
  <2>4. i \in Nat \ {0}
    BY <2>3, LenProperties
  <2>5. page' \in [work: Work, published: BOOLEAN] \cup {NoPage}
    <3>1. CASE i \in 1..Len(lists[which])
      <4>1. PICK w \in Work : w = lists[which][i]
        BY <2>3, <3>1, ElementOfSeq
      <4>2. PICK b \in BOOLEAN : b = (which = "public")
        OBVIOUS
      <4>3. page' = [work |-> w, published |-> b]
        BY <2>2, <3>1, <4>1, <4>2
      <4> QED BY <4>3
    <3>2. CASE i \notin 1..Len(lists[which])
      BY <1>1, <2>2, <3>2 DEF Types
    <3> QED BY <3>1, <3>2
  <2>6. UNCHANGED <<data, calls, screen, lists, rows, flags, enabled, alert,
                    deleting, main, asked, sweepable>>
    BY <2>1 DEF OpenPage
  <2>7. Types'
    BY <1>1, <2>2, <2>4, <2>5, <2>6 DEF Types
  <2> QED BY <1>1, <1>4, <2>6, <2>7, TypeParts
<1>8. CASE EdgePan \/ DragDown
  <2>1. /\ calls' \in Seq(Call) /\ Len(calls') = Len(calls)
        /\ page' \in {page, NoPage}
        /\ lists' \in Lists /\ main' \in Seq(Block)
        /\ flags' \in SUBSET Flag
    BY <1>1, <1>3, <1>8, CallsTyped, NoListsTyped
       DEF EdgePan, DragDown, ClosePage, StartFetch, Types, Flag
  <2>2. UNCHANGED <<data, screen, rows, index, enabled, alert, deleting, asked, sweepable>>
    BY <1>8 DEF EdgePan, DragDown
  <2>3. Types'
    BY <1>1, <2>1, <2>2 DEF Types
  <2> QED BY <1>1, <1>4, <2>1, <2>2, <2>3, TypeParts
<1>9. CASE TapTrashRow \/ CancelAlert \/ ChooseRemove \/ TapTrashAll \/ ConfirmTrashAll
  <2>1. index' \in Nat \ {0}
    <3>1. rows.trash \in Seq(Work)
      BY <1>1, ListsAre DEF Types, Names
    <3>2. Len(rows.trash) \in Nat
      BY <3>1, LenProperties
    <3> QED BY <1>1, <1>9, <3>2
            DEF TapTrashRow, CancelAlert, ChooseRemove, TapTrashAll, ConfirmTrashAll, Types
  <2>2. deleting' \in Seq(Work)
    <3>1. lists.trash \in Seq(Work) /\ deleting \in Seq(Work)
      BY <1>1, ListsAre DEF Types, Names
    <3> QED BY <1>9, <3>1
            DEF TapTrashRow, CancelAlert, ChooseRemove, TapTrashAll, ConfirmTrashAll
  <2>3. /\ alert' \in {"none", "actions", "sure", "sweep"}
        /\ UNCHANGED <<data, calls, screen, lists, rows, flags, enabled, page, main, asked, sweepable>>
    BY <1>9 DEF TapTrashRow, CancelAlert, ChooseRemove, TapTrashAll, ConfirmTrashAll
  <2>4. Types'
    BY <1>1, <2>1, <2>2, <2>3 DEF Types
  <2> QED BY <1>1, <1>4, <2>3, <2>4, TypeParts
<1> QED BY <1>6, <1>7, <1>8, <1>9

(* The steps that issue writes. *)
LEMMA WritesTyped ==
  ASSUME TypeOK,
         \/ \E w \in Work : SaveDrawing(w)
         \/ PressPublish \/ PressRemovePublished \/ PressDelete
         \/ ChooseRestore \/ ConfirmRemove \/ DeleteNext
  PROVE  TypeOK'
<1>1. /\ P!TypeOK /\ Types /\ Len(calls) = Len(queue) /\ Len(queue) \in Nat
      /\ calls \in Seq(Call)
  BY TypeParts, LenProperties DEF Types
<1>2. \A c \in Call : Append(calls, c) \in Seq(Call) /\ Len(Append(calls, c)) = Len(calls) + 1
  BY <1>1, AppendProperties
<1>3. \A c, d \in Call : calls \o <<c, d>> \in Seq(Call) /\ Len(calls \o <<c, d>>) = Len(calls) + 2
  <2> TAKE c, d \in Call
  <2>1. <<c, d>> \in Seq(Call) /\ Len(<<c, d>>) = 2
    OBVIOUS
  <2> QED BY <1>1, <2>1, ConcatProperties
<1>4. P!TypeOK /\ local' \in [Work -> P!WorkState] /\ queue' \in Seq(P!Mutation)
        /\ cloud' = cloud /\ unborn' \in SUBSET Work => P!TypeOK'
  BY DEF P!TypeOK
<1>5. ASSUME NEW w \in Work, SaveDrawing(w) PROVE TypeOK'
  <2>1. P!Write(w, "create") /\ cloud' = cloud /\ unborn' = unborn \ {w}
    BY <1>5 DEF SaveDrawing, P!Create
  <2>2. P!TypeOK' /\ Len(queue') = Len(queue) + 1
    BY <1>1, <1>4, <2>1, WriteTyped DEF P!Op, P!TypeOK
  <2>3. calls' \in Seq(Call) /\ Len(calls') = Len(calls) + 1
    BY <1>2, <1>5 DEF SaveDrawing, Call
  <2>4. Types'
    BY <1>1, <1>5, <2>3 DEF SaveDrawing, Types
  <2> QED BY <1>1, <2>2, <2>3, <2>4, TypeParts
<1>6. CASE PressPublish \/ PressRemovePublished \/ PressDelete
  <2>1. page \in [work: Work, published: BOOLEAN] /\ page.work \in Work
    <3>1. page # NoPage
      BY <1>6 DEF PressPublish, PressRemovePublished, PressDelete, OnPage
    <3> QED BY <1>1, <3>1 DEF Types
  <2>2. PICK a \in P!Op, b \in P!Op, c \in Call :
          /\ P!WriteBoth(page.work, a, b) /\ calls' = calls \o <<c, "none">>
    BY <1>6 DEF PressPublish, PressRemovePublished, PressDelete,
                P!Publish, P!Unpublish, P!Trash, P!Op, Call
  <2>3. UNCHANGED <<cloud, unborn, ui, main, asked>>
    BY <1>6 DEF PressPublish, PressRemovePublished, PressDelete,
                P!Publish, P!Unpublish, P!Trash
  <2>4. P!TypeOK' /\ Len(queue') = Len(queue) + 2
    BY <1>1, <1>4, <2>1, <2>2, <2>3, BothTyped DEF P!TypeOK
  <2>5. calls' \in Seq(Call) /\ Len(calls') = Len(calls) + 2
    BY <1>3, <2>2 DEF Call
  <2>6. Types'
    BY <1>1, <2>3, <2>5 DEF Types, ui
  <2> QED BY <1>1, <2>4, <2>5, <2>6, TypeParts
<1>7. ASSUME NEW op \in {"private", "delete"}, NEW call \in {"restored", "removed"},
             NEW missed, ActOnTrash(op, call, missed)
      PROVE  TypeOK'
  <2>1. lists.trash \in Seq(Work)
    BY <1>1, ListsAre DEF Types, Names
  <2>2. UNCHANGED <<cloud, unborn, screen, lists, rows, flags, index, enabled,
                    page, deleting, main, asked, sweepable>> /\ alert' = "none"
    BY <1>7 DEF ActOnTrash
  <2>3. CASE index \in 1..Len(lists.trash)
    <3>1. PICK w \in Work : w = lists.trash[index]
      BY <2>1, <2>3, ElementOfSeq
    <3>2. P!Write(w, op) /\ calls' = Append(calls, call)
      BY <1>7, <2>3, <3>1 DEF ActOnTrash
    <3>3. op \in P!Op /\ call \in Call
      BY DEF P!Op, Call
    <3>4. P!TypeOK' /\ Len(queue') = Len(queue) + 1
      BY <1>1, <1>4, <2>2, <3>2, <3>3, WriteTyped DEF P!TypeOK
    <3>5. calls' \in Seq(Call) /\ Len(calls') = Len(calls) + 1
      BY <1>2, <3>2, <3>3
    <3>6. Types'
      BY <1>1, <2>2, <3>5 DEF Types
    <3> QED BY <1>1, <3>4, <3>5, <3>6, TypeParts
  <2>4. CASE index \notin 1..Len(lists.trash)
    <3>1. UNCHANGED <<queue, local, calls>>
      BY <1>7, <2>4 DEF ActOnTrash
    <3>2. P!TypeOK' /\ Types'
      BY <1>1, <2>2, <3>1 DEF Types, P!TypeOK
    <3> QED BY <1>1, <3>1, <3>2, TypeParts
  <2> QED BY <2>3, <2>4
<1>8. CASE DeleteNext
  <2>1. deleting \in Seq(Work) /\ deleting # << >>
    BY <1>1, <1>8 DEF Types, DeleteNext
  <2>2. PICK w \in Work : w = Head(deleting)
    BY <2>1, HeadTailProperties
  <2>3. P!Write(w, "delete") /\ calls' = Append(calls, "removed") /\ deleting' = Tail(deleting)
    BY <1>8, <2>2 DEF DeleteNext
  <2>4. UNCHANGED <<cloud, unborn, screen, lists, rows, flags, index, enabled,
                    page, alert, main, asked, sweepable>>
    BY <1>8 DEF DeleteNext
  <2>5. P!TypeOK' /\ Len(queue') = Len(queue) + 1
    BY <1>1, <1>4, <2>3, <2>4, WriteTyped DEF P!TypeOK, P!Op
  <2>6. calls' \in Seq(Call) /\ Len(calls') = Len(calls) + 1
    BY <1>2, <2>3 DEF Call
  <2>7. deleting' \in Seq(Work)
    BY <2>1, <2>3, HeadTailProperties
  <2>8. Types'
    BY <1>1, <2>4, <2>6, <2>7 DEF Types
  <2> QED BY <1>1, <2>5, <2>6, <2>8, TypeParts
<1> QED BY <1>5, <1>6, <1>7, <1>8 DEF ChooseRestore, ConfirmRemove

(* The answers of the server. *)
LEMMA AnswersTyped ==
  ASSUME TypeOK, Deliver \/ Answer
  PROVE  TypeOK'
<1>1. /\ P!TypeOK /\ Types /\ Len(calls) = Len(queue)
      /\ calls \in Seq(Call) /\ main \in Seq(Block)
  BY TypeParts DEF Types
<1>2. CASE Deliver
  <2>1. P!TypeOK' /\ queue # << >> /\ Len(queue') = Len(queue) - 1 /\ Len(queue) \in Nat
    BY <1>1, <1>2, DeliverTyped DEF Deliver
  <2>2. calls # << >>
    <3>1. queue \in Seq(P!Mutation)
      BY <1>1 DEF P!TypeOK
    <3>2. Len(queue) # 0
      BY <2>1, <3>1, EmptySeq
    <3> QED BY <1>1, <3>2, EmptySeq
  <2>3. /\ Head(calls) \in Call /\ calls' \in Seq(Call) /\ Len(calls') = Len(calls) - 1
    BY <1>1, <1>2, <2>2, HeadTailProperties DEF Deliver
  <2>4. main' \in {main, Append(main, [kind |-> Head(calls)])} /\ UNCHANGED <<ui, asked>>
    BY <1>2 DEF Deliver
  <2>5. main' \in Seq(Block)
    BY <1>1, <2>3, <2>4, MainTyped
  <2>6. Types'
    BY <1>1, <2>3, <2>4, <2>5 DEF Types, ui
  <2> QED BY <1>1, <2>1, <2>3, <2>6, TypeParts
<1>3. CASE Answer
  <2>1. UNCHANGED <<data, calls, ui>> /\ asked' = asked - 1 /\ asked' \in Nat
    BY <1>1, <1>3 DEF Answer, Types
  <2>2. PICK b \in Block : main' = Append(main, b)
    BY <1>3, BlocksAre, SnapshotTyped DEF Answer
  <2>3. main' \in Seq(Block)
    BY <1>1, <2>2, AppendProperties
  <2>4. P!TypeOK' /\ UNCHANGED queue
    BY <1>1, <2>1 DEF data, P!TypeOK
  <2>5. Types'
    BY <1>1, <2>1, <2>3 DEF Types, ui
  <2> QED BY <1>1, <2>1, <2>4, <2>5, TypeParts
<1> QED BY <1>2, <1>3

(* The blocks of the main queue. *)
LEMMA BlocksTyped ==
  ASSUME TypeOK, PageAnswers, MainQueue
  PROVE  TypeOK'
<1>1. /\ P!TypeOK /\ Types /\ Len(calls) = Len(queue) /\ Len(queue) \in Nat
      /\ calls \in Seq(Call) /\ main \in Seq(Block)
  BY TypeParts, LenProperties DEF Types
<1>2. main # << >>
  BY DEF MainQueue, RunListener, RunResult, HandleResult, RunFailure, RunSaved,
         RunPageView, RunTrashed, RunRestored, RunRemoved, RunTrashAnswer, Runs
<1>3. PICK b \in Block : b = Head(main) /\ Tail(main) \in Seq(Block)
  BY <1>1, <1>2, HeadTailProperties
<1>4. UNCHANGED data => P!TypeOK' /\ UNCHANGED queue
  BY <1>1 DEF data, P!TypeOK
<1>5. UNCHANGED data
  BY DEF MainQueue, RunListener, RunResult, HandleResult, RunFailure, RunSaved,
         RunPageView, RunTrashed, RunRestored, RunRemoved, RunTrashAnswer, Reset
<1>6. /\ Append(<< >>, [kind |-> "auth"]) \in Seq(Block)
      /\ \A s \in Seq(Block) : Append(s, [kind |-> "auth"]) \in Seq(Block)
  BY BlocksAre, EmptySeq, AppendProperties
<1>7. SUFFICES Types' /\ Len(calls') = Len(queue')
  BY <1>4, <1>5, TypeParts
<1>8. CASE RunListener
  <2>1. asked' = asked + 1 /\ asked' \in Nat
    BY <1>1, <1>8 DEF RunListener, Types
  <2>2. main' = Tail(main) /\ enabled' = FALSE
        /\ UNCHANGED <<data, calls, screen, lists, rows, flags, index, page, alert,
                       deleting, tapped, sweepable>>
    BY <1>8 DEF RunListener
  <2> QED BY <1>1, <1>3, <1>4, <1>5, <2>1, <2>2 DEF Types
<1>9. CASE RunResult
  <2>1. /\ b.kind = "docs" /\ lists' = Appended(b.docs)
        /\ rows' = [l \in DOMAIN rows |-> IF l \in Redrawn THEN lists'[l] ELSE rows[l]]
    BY <1>3, <1>9 DEF RunResult, HandleResult, Runs
  <2>2. PICK d \in Lists : d = b.docs
    BY <2>1, BlocksAre
  <2>3. lists \in Lists /\ rows \in Lists
    BY <1>1 DEF Types
  <2>4. lists' = [l \in Names |-> lists[l] \o d[l]]
    BY <2>1, <2>2, <2>3 DEF Appended, Lists, Names
  <2>5. \A l \in Names : lists[l] \o d[l] \in Seq(Work)
    BY <2>2, <2>3, ListsAre, ConcatProperties
  <2>6. lists' \in Lists
    BY <2>4, <2>5, ListsAre
  <2>7. rows' = [l \in Names |-> IF l \in Redrawn THEN lists'[l] ELSE rows[l]]
    BY <2>1, <2>3 DEF Lists, Names
  <2>8. \A l \in Names : rows'[l] \in Seq(Work)
    BY <2>3, <2>6, <2>7, ListsAre
  <2>9. rows' \in Lists
    BY <2>7, <2>8, ListsAre
  <2>10. /\ main' = Tail(main) /\ flags' = flags \ Cleared /\ enabled' = TRUE
         /\ sweepable' \in BOOLEAN
         /\ UNCHANGED <<calls, screen, index, page, alert, deleting, asked>>
    BY <1>9 DEF RunResult, HandleResult
  <2> QED BY <1>1, <1>3, <1>4, <1>5, <2>6, <2>9, <2>10 DEF Types
<1>10. CASE RunFailure
  BY <1>1, <1>3, <1>4, <1>5, <1>10 DEF RunFailure, Types, ui
<1>11. CASE RunSaved
  <2>1. Reset /\ lists' = NoLists /\ main' = Append(<< >>, [kind |-> "auth"]) /\ screen' = "works"
    BY <1>11 DEF RunSaved, StartFetch
  <2>2. calls' \in Seq(Call) /\ Len(calls') = Len(queue')
    BY <1>1, <1>4, <1>5, <2>1, CallsTyped DEF Reset
  <2>3. /\ rows' \in Lists /\ flags' \in SUBSET Flag /\ index' \in Nat \ {0}
        /\ enabled' \in BOOLEAN /\ sweepable' \in BOOLEAN
        /\ deleting' \in Seq(Work) /\ page' = NoPage /\ alert' = "none" /\ asked' \in Nat
    BY <2>1, NoListsTyped, EmptySeq DEF Reset
  <2> QED BY <1>6, <2>1, <2>2, <2>3, NoListsTyped DEF Types
<1>12. CASE RunPageView("published") \/ RunPageView("withdrawn")
  <2>1. PICK kind \in {"published", "withdrawn"} : RunPageView(kind)
    BY <1>12
  <2>2. b.kind \in PageCalls
    BY <1>3, <2>1 DEF RunPageView, Runs, PageCalls
  <2>3. page # NoPage
    <3>1. Head(main) \in StayingBlock => b.kind \notin PageCalls
      BY <1>3 DEF StayingBlock
    <3>2. main \in Seq(StayingBlock) => Head(main) \in StayingBlock
      BY <1>2, HeadTailProperties
    <3> QED BY <2>2, <3>1, <3>2 DEF PageAnswers
  <2>4. PICK shown \in BOOLEAN : shown = (kind = "published")
    OBVIOUS
  <2>5. page' = [page EXCEPT !.published = shown] /\ page \in [work: Work, published: BOOLEAN]
    BY <1>1, <2>1, <2>3, <2>4 DEF RunPageView, Types
  <2>6. page' \in [work: Work, published: BOOLEAN]
    BY <2>5
  <2>7. main' = Tail(main)
        /\ UNCHANGED <<data, calls, screen, lists, rows, flags, index, enabled,
                       alert, deleting, asked, tapped, sweepable>>
    BY <2>1 DEF RunPageView
  <2> QED BY <1>1, <1>3, <1>4, <1>5, <2>6, <2>7 DEF Types
<1>13. CASE RunTrashed
  <2>1. /\ calls' \in Seq(Call) /\ Len(calls') = Len(calls)
        /\ page' = NoPage /\ lists' = NoLists
        /\ main' = Append(WithoutPageCalls(Tail(main)), [kind |-> "auth"])
        /\ flags' \in SUBSET Flag
    BY <1>1, <1>13, CallsTyped DEF RunTrashed, ClosePage, StartFetch, Types, Flag
  <2>2. main' \in Seq(Block)
    BY <1>3, <1>6, <2>1, WithoutTyped
  <2>3. UNCHANGED <<screen, rows, index, enabled, alert, deleting, asked, sweepable>>
    BY <1>13 DEF RunTrashed
  <2> QED BY <1>1, <1>4, <1>5, <2>1, <2>2, <2>3, NoListsTyped DEF Types
<1>14. CASE RunRestored \/ RunRemoved
  BY <1>1, <1>3, <1>4, <1>5, <1>6, <1>14, NoListsTyped
     DEF RunRestored, RunRemoved, RunTrashAnswer, StartFetch, Types, Flag
<1> QED BY <1>8, <1>9, <1>10, <1>11, <1>12, <1>13, <1>14 DEF MainQueue

(* Completions for the page are asked for while it is open, and dropped     *)
(* when it closes.                                                         *)
LEMMA PageAnswersStay ==
  ASSUME TypeOK, PageAnswers, [Next]_vars
  PROVE  PageAnswers'
<1> DEFINE Other == Call \ PageCalls
<1>1. /\ P!TypeOK /\ Types /\ Len(calls) = Len(queue) /\ Len(queue) \in Nat
      /\ calls \in Seq(Call) /\ main \in Seq(Block)
  BY TypeParts, LenProperties DEF Types
<1>2. /\ << >> \in Seq(StayingBlock)
      /\ [kind |-> "auth"] \in StayingBlock /\ [kind |-> "failed"] \in StayingBlock
      /\ \A k \in Other : [kind |-> k] \in StayingBlock
      /\ [kind |-> "docs", docs |-> Snapshot] \in StayingBlock
  BY EmptySeq, BlocksAre, SnapshotTyped DEF StayingBlock, PageCalls, Call
<1>3. /\ \A s \in Seq(StayingBlock), b \in StayingBlock : Append(s, b) \in Seq(StayingBlock)
      /\ \A s \in Seq(Other), c \in Other : Append(s, c) \in Seq(Other)
  BY AppendProperties
<1>4. main \in Seq(StayingBlock) /\ main # << >> => Tail(main) \in Seq(StayingBlock)
  BY HeadTailProperties
<1>5. {"none", "saved", "restored", "removed"} \subseteq Other
  BY DEF Call, PageCalls
<1> SUFFICES ASSUME page' = NoPage
             PROVE  calls' \in Seq(Other) /\ main' \in Seq(StayingBlock)
  BY DEF PageAnswers
<1>6. ASSUME Reset, main' \in {<< >>, Append(<< >>, [kind |-> "auth"])}
      PROVE  calls' \in Seq(Other) /\ main' \in Seq(StayingBlock)
  <2>1. calls' \in Seq(Other)
    BY <1>1, <1>5, <1>6 DEF Reset
  <2> QED BY <1>2, <1>3, <1>6, <2>1
<1>7. ASSUME ClosePage, NEW s \in Seq(Block),
             main' \in {WithoutPageCalls(s), Append(WithoutPageCalls(s), [kind |-> "auth"])}
      PROVE  calls' \in Seq(Other) /\ main' \in Seq(StayingBlock)
  <2>1. Len(calls) \in Nat /\ \A i \in 1..Len(calls) : calls[i] \in Call
    BY <1>1, LenProperties, ElementOfSeq
  <2>2. calls' \in [1..Len(calls) -> Other]
    BY <1>5, <1>7, <2>1 DEF ClosePage
  <2>3. calls' \in Seq(Other)
    BY <2>1, <2>2
  <2> QED BY <1>2, <1>3, <1>7, <2>3, WithoutTyped
<1>8. CASE OpenWorks \/ Leave \/ Restart \/ RunSaved
  BY <1>6, <1>8 DEF OpenWorks, Leave, Restart, RunSaved, StartFetch
<1>9. CASE EdgePan \/ (DragDown /\ ClosePage)
  <2>1. ClosePage /\ page # NoPage
    BY <1>9 DEF EdgePan, OnPage, DragDown
  <2>2. main' \in {WithoutPageCalls(main), Append(WithoutPageCalls(main), [kind |-> "auth"])}
    BY <1>9, <2>1 DEF EdgePan, DragDown, StartFetch, ClosePage, OnPage
  <2> QED BY <1>1, <1>7, <2>1, <2>2
<1>10. CASE RunTrashed
  <2>1. Tail(main) \in Seq(Block)
    BY <1>1, <1>10, HeadTailProperties DEF RunTrashed, Runs
  <2> QED BY <1>7, <1>10, <2>1 DEF RunTrashed, StartFetch
<1>11. ASSUME page = NoPage, calls' \in Seq(Other), main' = main
       PROVE  calls' \in Seq(Other) /\ main' \in Seq(StayingBlock)
  BY <1>11 DEF PageAnswers
<1>12. ASSUME page = NoPage, calls' = calls,
              main' \in {main, Tail(main), Append(Tail(main), [kind |-> "auth"])},
              main' # main => main # << >>
       PROVE  calls' \in Seq(Other) /\ main' \in Seq(StayingBlock)
  BY <1>2, <1>3, <1>4, <1>12 DEF PageAnswers
<1>13. ASSUME NEW w \in Work, SaveDrawing(w)
       PROVE  calls' \in Seq(Other) /\ main' \in Seq(StayingBlock)
  BY <1>3, <1>5, <1>11, <1>13 DEF SaveDrawing, PageAnswers
<1>14. CASE OpenPage("private") \/ OpenPage("public") \/ TapTrashRow \/ CancelAlert
            \/ ChooseRemove \/ TapTrashAll \/ ConfirmTrashAll
  <2>1. page = NoPage \/ OpenPage("private") \/ OpenPage("public")
    BY <1>14 DEF TapTrashRow, CancelAlert, ChooseRemove, TapTrashAll, ConfirmTrashAll
  <2>2. page = NoPage
    BY <2>1 DEF OpenPage, OnWorks
  <2>3. calls' = calls /\ main' = main
    BY <1>14 DEF OpenPage, TapTrashRow, CancelAlert, ChooseRemove, TapTrashAll, ConfirmTrashAll
  <2> QED BY <1>12, <2>2, <2>3
<1>15. CASE PressPublish \/ PressRemovePublished \/ PressDelete \/ (DragDown /\ page' = page)
            \/ RunPageView("published") \/ RunPageView("withdrawn")
  <2>1. CASE PressPublish \/ PressRemovePublished \/ PressDelete \/ (DragDown /\ page' = page)
    BY <2>1 DEF PressPublish, PressRemovePublished, PressDelete, DragDown, OnPage, ui
  <2>2. CASE RunPageView("published") \/ RunPageView("withdrawn")
    <3>1. main # << >> /\ Head(main).kind \in PageCalls
      BY <2>2 DEF RunPageView, Runs, PageCalls
    <3>2. page # NoPage
      <4>1. main \in Seq(StayingBlock) => Head(main) \in StayingBlock
        BY <3>1, HeadTailProperties
      <4> QED BY <3>1, <4>1 DEF PageAnswers, StayingBlock
    <3>3. page' \in [work: Work, published: BOOLEAN]
      <4>1. page \in [work: Work, published: BOOLEAN]
        BY <1>1, <3>2 DEF Types
      <4>2. PICK shown \in BOOLEAN : page' = [page EXCEPT !.published = shown]
        BY <2>2 DEF RunPageView
      <4> QED BY <4>1, <4>2
    <3> QED BY <3>3, NoPageAssumption
  <2> QED BY <1>15, <2>1, <2>2
<1>16. CASE ChooseRestore \/ ConfirmRemove
  <2>1. PICK op \in {"private", "delete"}, call \in {"restored", "removed"},
             missed \in {"restored another", "removed another"} : ActOnTrash(op, call, missed)
    BY <1>16 DEF ChooseRestore, ConfirmRemove
  <2>2. page = NoPage /\ main' = main /\ calls' \in {calls, Append(calls, call)}
    BY <2>1 DEF ActOnTrash
  <2>3. calls \in Seq(Other)
    BY <2>2 DEF PageAnswers
  <2>4. calls' \in Seq(Other)
    BY <1>3, <1>5, <2>2, <2>3
  <2> QED BY <1>11, <2>2, <2>4
<1>17. CASE DeleteNext
  BY <1>3, <1>5, <1>11, <1>17 DEF DeleteNext, PageAnswers
<1>18. CASE Deliver
  <2>1. page = NoPage /\ calls' = Tail(calls)
    BY <1>18 DEF Deliver, ui
  <2>2. calls \in Seq(Other) /\ main \in Seq(StayingBlock)
    BY <2>1 DEF PageAnswers
  <2>3. calls # << >>
    <3>1. queue # << >> /\ queue \in Seq(P!Mutation)
      BY <1>1, <1>18, DeliverTyped DEF Deliver, P!TypeOK
    <3> QED BY <1>1, <3>1, EmptySeq
  <2>4. Head(calls) \in Other /\ Tail(calls) \in Seq(Other)
    BY <2>2, <2>3, HeadTailProperties
  <2>5. main' \in {main, Append(main, [kind |-> Head(calls)])}
    BY <1>18 DEF Deliver
  <2> QED BY <1>2, <1>3, <2>1, <2>2, <2>4, <2>5
<1>19. CASE Answer
  <2>1. page = NoPage /\ calls' = calls
    BY <1>19 DEF Answer, ui
  <2>2. PICK b \in StayingBlock : main' = Append(main, b)
    BY <1>2, <1>19 DEF Answer
  <2> QED BY <1>3, <2>1, <2>2 DEF PageAnswers
<1>20. CASE RunListener \/ RunResult \/ RunFailure \/ RunRestored \/ RunRemoved
  <2>1. /\ page = NoPage /\ calls' = calls /\ main # << >>
        /\ main' \in {Tail(main), Append(Tail(main), [kind |-> "auth"])}
    BY <1>20 DEF RunListener, RunResult, HandleResult, RunFailure, RunRestored, RunRemoved,
                 RunTrashAnswer, StartFetch, Runs, ui
  <2> QED BY <1>12, <2>1
<1>21. CASE UNCHANGED vars
  BY <1>12, <1>21 DEF vars, ui
<1>22. DragDown => page' = page \/ ClosePage
  BY DEF DragDown
<1> QED BY <1>8, <1>9, <1>10, <1>13, <1>14, <1>15, <1>16, <1>17, <1>18, <1>19, <1>20,
           <1>21, <1>22 DEF Next, User, MainQueue

LEMMA InitTyped == Init => TypeOK /\ PageAnswers
<1> SUFFICES ASSUME Init PROVE TypeOK /\ PageAnswers
  OBVIOUS
<1>1. P!TypeOK
  <2>1. P!Absent \in P!WorkState
    BY DEF P!Absent, P!WorkState
  <2> QED BY <2>1, EmptySeq DEF Init, P!Init, P!TypeOK
<1>2. Types
  BY NoListsTyped, EmptySeq DEF Init, Types
<1>3. Len(calls) = Len(queue)
  BY DEF Init, P!Init
<1>4. PageAnswers
  BY EmptySeq DEF Init, PageAnswers
<1> QED BY <1>1, <1>2, <1>3, <1>4, TypeParts

LEMMA StepTyped ==
  ASSUME TypeOK, PageAnswers, [Next]_vars
  PROVE  TypeOK'
<1>1. CASE UNCHANGED vars
  <2>1. P!TypeOK' /\ Types'
    BY <1>1 DEF vars, data, ui, TypeOK, Types, P!TypeOK
  <2>2. Len(calls') = Len(queue')
    BY <1>1 DEF vars, data, TypeOK
  <2> QED BY <2>1, <2>2, TypeParts
<1> QED BY <1>1, TapsTyped, WritesTyped, AnswersTyped, BlocksTyped DEF Next, User

(* The state of the screen keeps its types, whatever the user does and     *)
(* however the queries are answered; a completion for the page is on its   *)
(* way only while the page is open.                                        *)
THEOREM TypeCorrect == Spec => [](TypeOK /\ PageAnswers)
<1>1. TypeOK /\ PageAnswers /\ [Next]_vars => (TypeOK /\ PageAnswers)'
  BY StepTyped, PageAnswersStay
<1> QED BY <1>1, InitTyped, PTL DEF Spec

-----------------------------------------------------------------------------
(* Flags and fetches. *)
Count(s) == Len(Chosen(s, FetchBlock))

Debts(F) == Cardinality(F \ {"movetotrash"})

LEMMA CountFacts ==
  ASSUME NEW s \in Seq(Block)
  PROVE  /\ Count(s) \in Nat
         /\ \A b \in Block : Count(Append(s, b)) = Count(s) + (IF b \in FetchBlock THEN 1 ELSE 0)
         /\ s # << >> => Count(Tail(s)) = Count(s) - (IF Head(s) \in FetchBlock THEN 1 ELSE 0)
         /\ Count(WithoutPageCalls(s)) = Count(s)
<1>1. Block \cap FetchBlock \subseteq StayingBlock
  BY DEF FetchBlock, StayingBlock, PageCalls
<1>2. Count(s) \in Nat
  <2>1. Chosen(s, FetchBlock) \in Seq(Block \cap FetchBlock)
    BY ChosenType
  <2> QED BY <2>1, LenProperties DEF Count
<1>3. \A b \in Block : Count(Append(s, b)) = Count(s) + (IF b \in FetchBlock THEN 1 ELSE 0)
  BY ChosenLonger DEF Count
<1>4. s # << >> => Count(Tail(s)) = Count(s) - (IF Head(s) \in FetchBlock THEN 1 ELSE 0)
  BY ChosenTail DEF Count
<1>5. Count(WithoutPageCalls(s)) = Count(s)
  BY <1>1, ChosenTwice DEF Count, WithoutPageCalls
<1> QED BY <1>2, <1>3, <1>4, <1>5

LEMMA DebtFacts ==
  ASSUME NEW F \in SUBSET Flag
  PROVE  /\ Debts(F) \in Nat /\ Debts({}) = 0
         /\ F \ {"movetotrash"} # {} => Debts(F) > 0
         /\ \A x \in Flag : Debts(F \cup {x}) <= Debts(F) + 1
         /\ Debts(F \cup {"backfromdetail", "movetotrash"}) <= Debts(F) + 1
         /\ \A x \in F \ {"movetotrash"} : \A G \in {{x}, {x, "movetotrash"}} :
              Debts(F \ G) = Debts(F) - 1
<1> DEFINE D == F \ {"movetotrash"}
<1>1. IsFiniteSet(Flag)
  <2>1. Flag = ((({} \cup {"backfromdetail"}) \cup {"movetotrash"}) \cup {"restoretrash"}) \cup {"removetrash"}
    BY DEF Flag
  <2>2. \A S, x : IsFiniteSet(S) => IsFiniteSet(S \cup {x})
    BY FS_AddElement
  <2>3. IsFiniteSet({})
    BY FS_EmptySet
  <2>4. IsFiniteSet({} \cup {"backfromdetail"})
    BY <2>2, <2>3
  <2>5. IsFiniteSet(({} \cup {"backfromdetail"}) \cup {"movetotrash"})
    BY <2>2, <2>4
  <2>6. IsFiniteSet((({} \cup {"backfromdetail"}) \cup {"movetotrash"}) \cup {"restoretrash"})
    BY <2>2, <2>5
  <2>7. IsFiniteSet(((({} \cup {"backfromdetail"}) \cup {"movetotrash"}) \cup {"restoretrash"}) \cup {"removetrash"})
    BY <2>2, <2>6
  <2> QED BY <2>1, <2>7
<1>2. IsFiniteSet(D)
  <2>1. D \in SUBSET Flag
    OBVIOUS
  <2> QED BY <1>1, <2>1, FS_Subset
<1>3. Cardinality(D) \in Nat /\ (Cardinality(D) = 0 <=> D = {})
  BY <1>2, FS_CardinalityType, FS_EmptySet
<1>4. \A x : Cardinality(D \cup {x}) <= Cardinality(D) + 1
  BY <1>2, <1>3, FS_AddElement
<1>5. \A x \in D : Cardinality(D \ {x}) = Cardinality(D) - 1
  BY <1>2, FS_RemoveElement
<1>6. Debts(F) \in Nat /\ (D # {} => Debts(F) > 0)
  BY <1>3 DEF Debts
<1>7. Debts({}) = 0
  <2>1. {} \ {"movetotrash"} = {}
    OBVIOUS
  <2> QED BY <2>1, FS_EmptySet DEF Debts
<1>8. ASSUME NEW x \in Flag PROVE Debts(F \cup {x}) <= Debts(F) + 1
  <2>1. CASE x = "movetotrash"
    <3>1. (F \cup {x}) \ {"movetotrash"} = D
      BY <2>1
    <3> QED BY <1>3, <3>1 DEF Debts
  <2>2. CASE x # "movetotrash"
    <3>1. (F \cup {x}) \ {"movetotrash"} = D \cup {x}
      BY <2>2
    <3> QED BY <1>4, <3>1 DEF Debts
  <2> QED BY <2>1, <2>2
<1>9. Debts(F \cup {"backfromdetail", "movetotrash"}) <= Debts(F) + 1
  <2>1. (F \cup {"backfromdetail", "movetotrash"}) \ {"movetotrash"} = D \cup {"backfromdetail"}
    OBVIOUS
  <2> QED BY <1>4, <2>1 DEF Debts
<1>10. ASSUME NEW x \in D, NEW G \in {{x}, {x, "movetotrash"}}
       PROVE  Debts(F \ G) = Debts(F) - 1
  <2>1. (F \ G) \ {"movetotrash"} = D \ {x}
    OBVIOUS
  <2> QED BY <1>5, <2>1 DEF Debts
<1> QED BY <1>6, <1>7, <1>8, <1>9, <1>10

LEMMA FlagsParts ==
  /\ FlagsInv <=> ("movetotrash" \in flags => "backfromdetail" \in flags)
                    /\ Debts(flags) <= asked + Count(main)
  /\ FlagsInv' <=> ("movetotrash" \in flags' => "backfromdetail" \in flags')
                    /\ Debts(flags') <= asked' + Count(main')
BY DEF FlagsInv, Debts, Count, Fetches

(* A flag is set with a fetch; the fetch stays under way until its result  *)
(* is shown, which clears one flag.                                        *)
LEMMA FlagsStay ==
  ASSUME ~MayFail, TypeOK, PageAnswers, FlagsInv, [Next]_vars
  PROVE  FlagsInv'
<1> DEFINE auth == [kind |-> "auth"]
<1>1. /\ Types /\ main \in Seq(Block) /\ calls \in Seq(Call) /\ asked \in Nat /\ flags \in SUBSET Flag
      /\ Len(calls) = Len(queue) /\ P!TypeOK
  BY TypeParts DEF Types
<1>2. /\ "movetotrash" \in flags => "backfromdetail" \in flags
      /\ Debts(flags) <= asked + Count(main)
  BY FlagsParts
<1>3. /\ auth \in Block /\ auth \in FetchBlock
      /\ \A k \in Call : [kind |-> k] \in Block /\ [kind |-> k] \notin FetchBlock
      /\ LET b == [kind |-> "docs", docs |-> Snapshot] IN b \in Block /\ b \in FetchBlock
      /\ \A b \in Block : b \in FetchBlock <=> b.kind \in {"auth", "docs"}
  BY BlocksAre, SnapshotTyped DEF FetchBlock, Call
<1>4. \A s \in Seq(Block) :
        /\ Count(s) \in Nat
        /\ Append(s, auth) \in Seq(Block) /\ Count(Append(s, auth)) = Count(s) + 1
        /\ Count(WithoutPageCalls(s)) = Count(s) /\ WithoutPageCalls(s) \in Seq(Block)
  BY <1>3, CountFacts, AppendProperties, WithoutTyped
<1>5. Debts(flags) \in Nat
  BY <1>1, DebtFacts
<1> HIDE DEF auth
<1>6. ASSUME flags' = {}, TypeOK' PROVE FlagsInv'
  <2>1. asked' \in Nat /\ main' \in Seq(Block)
    BY <1>6, TypeParts DEF Types
  <2>2. Count(main') \in Nat
    BY <1>4, <2>1
  <2>3. Debts({}) = 0
    BY <1>1, DebtFacts
  <2> QED BY <1>6, <2>1, <2>2, <2>3, FlagsParts
<1>7. ASSUME flags' = flags, asked' + Count(main') = asked + Count(main)
      PROVE  FlagsInv'
  BY <1>2, <1>7, FlagsParts
<1>8. ASSUME asked' = asked, Count(main') = Count(main) + 1,
             \/ flags' = flags \cup {"backfromdetail"}
             \/ flags' = flags \cup {"backfromdetail", "movetotrash"}
             \/ flags' = flags \cup {"restoretrash"}
             \/ flags' = flags \cup {"removetrash"}
      PROVE  FlagsInv'
  <2>1. Debts(flags') <= Debts(flags) + 1 /\ Debts(flags') \in Nat
    <3>1. flags' \in SUBSET Flag
      BY <1>1, <1>8 DEF Flag
    <3>2. \A x \in Flag : Debts(flags \cup {x}) <= Debts(flags) + 1
      BY <1>1, DebtFacts
    <3>3. Debts(flags \cup {"backfromdetail", "movetotrash"}) <= Debts(flags) + 1
      BY <1>1, DebtFacts
    <3> QED BY <1>8, <3>1, <3>2, <3>3, DebtFacts DEF Flag
  <2>2. "movetotrash" \in flags' => "backfromdetail" \in flags'
    BY <1>2, <1>8
  <2>3. Count(main) \in Nat
    BY <1>1, <1>4
  <2> QED BY <1>1, <1>2, <1>5, <1>8, <2>1, <2>2, <2>3, FlagsParts
<1>9. main # << >> => Tail(main) \in Seq(Block) /\ Head(main) \in Block
  BY <1>1, HeadTailProperties
<1>10. main # << >> /\ Head(main).kind \notin {"auth", "docs"} => Count(Tail(main)) = Count(main)
  BY <1>1, <1>3, <1>4, <1>9, CountFacts
<1>11. main # << >> /\ Head(main).kind \in {"auth", "docs"} => Count(Tail(main)) = Count(main) - 1
  BY <1>1, <1>3, <1>9, CountFacts
<1>12. CASE OpenWorks \/ Leave \/ Restart \/ RunSaved
  BY <1>6, <1>12, TapsTyped, BlocksTyped DEF OpenWorks, Leave, Restart, RunSaved, Reset, MainQueue
<1>13. CASE \/ \E w \in Work : SaveDrawing(w)
            \/ OpenPage("private") \/ OpenPage("public")
            \/ PressPublish \/ PressRemovePublished \/ PressDelete
            \/ TapTrashRow \/ CancelAlert \/ ChooseRestore \/ ChooseRemove
            \/ ConfirmRemove \/ TapTrashAll \/ ConfirmTrashAll \/ DeleteNext
            \/ UNCHANGED vars
  <2>1. flags' = flags /\ asked' = asked /\ main' = main
    BY <1>13 DEF SaveDrawing, OpenPage, PressPublish, PressRemovePublished, PressDelete,
         TapTrashRow, CancelAlert, ChooseRestore, ChooseRemove, ActOnTrash,
         ConfirmRemove, TapTrashAll, ConfirmTrashAll, DeleteNext, vars, ui
  <2> QED BY <1>7, <2>1
<1>14. CASE EdgePan
  <2>1. flags' = flags /\ asked' = asked /\ main' = WithoutPageCalls(main)
    BY <1>14 DEF EdgePan
  <2> QED BY <1>1, <1>4, <1>7, <2>1
<1>15. CASE DragDown
  <2>1. /\ flags' = flags \cup {"backfromdetail"} /\ asked' = asked
        /\ main' \in {Append(main, auth), Append(WithoutPageCalls(main), auth)}
    BY <1>15 DEF DragDown, StartFetch, auth
  <2>2. Count(main') = Count(main) + 1
    BY <1>1, <1>4, <2>1
  <2> QED BY <1>8, <2>1, <2>2
<1>16. CASE RunTrashed \/ RunRestored \/ RunRemoved
  <2>1. /\ main # << >> /\ Head(main).kind \notin {"auth", "docs"} /\ asked' = asked
        /\ main' \in {Append(Tail(main), auth), Append(WithoutPageCalls(Tail(main)), auth)}
        /\ \/ flags' = flags \cup {"backfromdetail", "movetotrash"}
           \/ flags' = flags \cup {"restoretrash"}
           \/ flags' = flags \cup {"removetrash"}
    BY <1>16 DEF RunTrashed, RunRestored, RunRemoved, RunTrashAnswer, StartFetch, Runs, auth
  <2>2. Count(main') = Count(main) + 1
    BY <1>4, <1>9, <1>10, <2>1
  <2> QED BY <1>8, <2>1, <2>2
<1>17. CASE RunListener
  <2>1. /\ main # << >> /\ Head(main).kind = "auth" /\ main' = Tail(main)
        /\ asked' = asked + 1 /\ flags' = flags
    BY <1>17 DEF RunListener, Runs
  <2>2. Count(main') = Count(main) - 1 /\ Count(main) \in Nat
    BY <1>1, <1>4, <1>11, <2>1
  <2> QED BY <1>1, <1>7, <2>1, <2>2
<1>18. CASE RunPageView("published") \/ RunPageView("withdrawn") \/ RunFailure
  <2>1. /\ main # << >> /\ Head(main).kind \notin {"auth", "docs"} /\ main' = Tail(main)
        /\ asked' = asked /\ flags' = flags
    BY <1>18 DEF RunPageView, RunFailure, Runs, ui
  <2> QED BY <1>7, <1>10, <2>1
<1>19. CASE RunResult
  <2>1. /\ main # << >> /\ Head(main).kind = "docs" /\ main' = Tail(main)
        /\ asked' = asked /\ flags' = flags \ Cleared
    BY <1>19 DEF RunResult, HandleResult, Runs
  <2>2. Count(main') = Count(main) - 1 /\ Count(main) \in Nat
    BY <1>1, <1>4, <1>11, <2>1
  <2>3. CASE flags = {}
    <3>1. flags' = {}
      BY <2>1, <2>3
    <3>2. TypeOK'
      BY <1>19, BlocksTyped DEF MainQueue
    <3> QED BY <1>6, <3>1, <3>2
  <2>4. CASE flags # {}
    <3>1. PICK x \in flags \ {"movetotrash"} : Cleared \in {{x}, {x, "movetotrash"}}
      BY <1>1, <1>2, <2>4 DEF Cleared, Flag
    <3>2. Debts(flags') = Debts(flags) - 1
      BY <1>1, <2>1, <3>1, DebtFacts
    <3>3. "movetotrash" \in flags' => "backfromdetail" \in flags'
      BY <1>2, <2>1 DEF Cleared
    <3> QED BY <1>1, <1>2, <1>5, <2>1, <2>2, <3>2, <3>3, FlagsParts
  <2> QED BY <2>3, <2>4
<1>20. CASE Deliver
  <2>1. flags' = flags /\ asked' = asked
    BY <1>20 DEF Deliver, ui
  <2>2. calls # << >>
    <3>1. queue # << >> /\ queue \in Seq(P!Mutation)
      BY <1>1, <1>20, DeliverTyped DEF Deliver, P!TypeOK
    <3> QED BY <1>1, <3>1, EmptySeq
  <2>3. Head(calls) \in Call
    BY <1>1, <2>2, HeadTailProperties
  <2>4. PICK b \in Block \ FetchBlock : main' \in {main, Append(main, b)}
    BY <1>3, <1>20, <2>3 DEF Deliver
  <2>5. Count(main') = Count(main)
    <3>1. Count(Append(main, b)) = Count(main)
      <4>1. Count(Append(main, b)) = Count(main) + (IF b \in FetchBlock THEN 1 ELSE 0)
        BY <1>1, CountFacts
      <4>2. Count(main) \in Nat
        BY <1>1, CountFacts
      <4> QED BY <4>1, <4>2, b \notin FetchBlock
    <3>2. CASE main' = main
      BY <3>2
    <3>3. CASE main' = Append(main, b)
      BY <3>1, <3>3
    <3> QED BY <2>4, <3>2, <3>3
  <2> QED BY <1>7, <2>1, <2>5
<1>21. CASE Answer
  <2>1. PICK b \in Block \cap FetchBlock : main' = Append(main, b)
    BY <1>3, <1>21 DEF Answer
  <2>2. asked' = asked - 1 /\ flags' = flags
    BY <1>21 DEF Answer, ui
  <2>3. Count(main') = Count(main) + 1 /\ Count(main) \in Nat
    BY <1>1, <1>4, <2>1, CountFacts
  <2> QED BY <1>1, <1>7, <2>2, <2>3
<1> QED BY <1>12, <1>13, <1>14, <1>15, <1>16, <1>17, <1>18, <1>19, <1>20, <1>21
        DEF Next, User, MainQueue

(* While every query succeeds, a flag is set only while a fetch is under   *)
(* way that will answer it, however many fetches overlap: none is left to  *)
(* make a later result redraw the wrong views.                             *)
THEOREM FlagsAnswered == ~MayFail => (Spec => []FlagsSettle)
<1> SUFFICES ASSUME ~MayFail PROVE Spec => []FlagsSettle
  OBVIOUS
<1>1. Init => FlagsInv
  <2> SUFFICES ASSUME Init PROVE FlagsInv
    OBVIOUS
  <2>1. flags = {} /\ asked = 0 /\ main = << >> /\ << >> \in Seq(Block)
    BY EmptySeq DEF Init
  <2>2. Count(<< >>) \in Nat /\ Debts({}) = 0
    BY <2>1, CountFacts, DebtFacts
  <2> QED BY <2>1, <2>2, FlagsParts
<1>2. TypeOK /\ PageAnswers /\ FlagsInv /\ [Next]_vars => FlagsInv'
  BY FlagsStay
<1>3. TypeOK /\ FlagsInv => FlagsSettle
  <2> SUFFICES ASSUME TypeOK, FlagsInv, flags # {} PROVE Fetching
    BY DEF FlagsSettle
  <2>1. flags \in SUBSET Flag /\ asked \in Nat /\ main \in Seq(Block)
    BY TypeParts DEF Types
  <2>2. flags \ {"movetotrash"} # {}
    BY <2>1, FlagsParts
  <2>3. Debts(flags) > 0 /\ Debts(flags) \in Nat
    BY <2>1, <2>2, DebtFacts
  <2>4. Count(main) \in Nat /\ Debts(flags) <= asked + Count(main)
    BY <2>1, FlagsParts, CountFacts
  <2>5. asked > 0 \/ Count(main) > 0
    BY <2>1, <2>3, <2>4
  <2>6. ASSUME Count(main) > 0 PROVE \E i \in 1..Len(main) : main[i] \in FetchBlock
    <3>1. Chosen(main, FetchBlock) # << >>
      BY <2>6, EmptySeq DEF Count
    <3> QED BY <2>1, <3>1, ChosenSome
  <2> QED BY <2>5, <2>6 DEF Fetching, FetchBlock
<1> QED BY <1>1, <1>2, <1>3, TypeCorrect, PTL DEF Spec


-----------------------------------------------------------------------------
(* The owner's side, for a user who waits: it is what Publication proves.  *)
LEMMA OwnerInit == P!Init => PP!IInv
<1>1. P!Init => PP!Init
  BY DEF P!Init, PP!Init, P!Absent, PP!Absent
<1> QED BY <1>1, Assumed, PP!InitInv

LEMMA OwnerNext == P!Next => PP!Next
BY DEF P!Next, PP!Next, P!OwnerStep, PP!OwnerStep, P!Create, PP!Create,
       P!Publish, PP!Publish, P!Unpublish, PP!Unpublish, P!Trash, PP!Trash,
       P!Rename, PP!Rename, P!SaveEdits, PP!SaveEdits,
       P!Restore, PP!Restore, P!Remove, PP!Remove, P!Deliver, PP!Deliver,
       P!Write, PP!Write, P!WriteBoth, PP!WriteBoth, P!Pending, PP!Pending,
       P!OnPage, PP!OnPage, P!InTrashList, PP!InTrashList,
       P!Effect, PP!Effect, P!Accepted, PP!Accepted, P!Merge, PP!Merge,
       P!Update, PP!Update, P!Drawing, PP!Drawing, P!Trashed, PP!Trashed,
       P!Private, PP!Private, P!Public, PP!Public, P!Unset, PP!Unset

LEMMA OwnerStays ==
  ASSUME PP!IInv, P!Next \/ UNCHANGED data
  PROVE  PP!IInv'
<1>1. [PP!Next]_(PP!vars)
  BY OwnerNext DEF PP!vars, data
<1> QED BY <1>1, Assumed, PP!StepInv

LEMMA SameInv == PP!IInv => P!IInv
BY DEF PP!IInv, P!IInv, PP!TypeOK, P!TypeOK, PP!Mutation, P!Mutation,
       PP!WorkState, P!WorkState, PP!WorkDoc, P!WorkDoc, PP!Op, P!Op,
       PP!Coherent, P!Coherent, PP!Chained, P!Chained, PP!NoneOf, P!NoneOf,
       PP!Same, P!Same, PP!Sound, P!Sound, PP!Agree, P!Agree, PP!IsPublic, P!IsPublic,
       PP!Effect, P!Effect, PP!Merge, P!Merge, PP!Update, P!Update,
       PP!Drawing, P!Drawing, PP!Absent, P!Absent,
       PP!Trashed, PP!Private, PP!Public, PP!Unset, P!Trashed, P!Private, P!Public, P!Unset

(* What the lists may be said to be of: the works that are there.  With no *)
(* write pending the server has them as the owner's client shows them.     *)
LEMMA OwnerFacts ==
  ASSUME PP!IInv
  PROVE  /\ queue = << >> => \A w \in Work : cloud[w] = local[w]
         /\ \A w \in Work : w \in unborn => local[w].doc = NoDoc
         /\ \A w \in Filed(Trashed) : P!InTrashList(w)
<1>1. queue = << >> => \A w \in Work : cloud[w] = local[w]
  <2> SUFFICES ASSUME queue = << >>, NEW w \in Work PROVE cloud[w] = local[w]
    OBVIOUS
  <2>1. Len(queue) = 0
    BY EmptySeq
  <2>2. PP!NoneOf(queue, 1, Len(queue), w)
    BY <2>1 DEF PP!NoneOf
  <2> QED BY <2>2 DEF PP!IInv, PP!Coherent, PP!Chained
<1>2. \A w \in Work : w \in unborn => local[w].doc = NoDoc
  BY DEF PP!IInv, PP!Coherent, PP!Absent
<1>3. ASSUME NEW w \in Filed(Trashed) PROVE P!InTrashList(w)
  <2>1. w \in Work /\ local[w].doc # NoDoc /\ local[w].doc.public = -1
    BY DEF Filed, Readable, Trashed
  <2>2. PP!Agree(local[w])
    BY <2>1 DEF PP!IInv
  <2>3. local[w] \in PP!WorkState
    BY <2>1 DEF PP!IInv, PP!TypeOK
  <2>4. local[w].posted \in BOOLEAN /\ ~local[w].posted
    BY <2>1, <2>2, <2>3 DEF PP!WorkState, PP!Agree, PP!IsPublic, PP!Public
  <2> QED BY <1>2, <2>1, <2>4 DEF P!InTrashList
<1> QED BY <1>1, <1>2, <1>3

(* One write, or a handler's two, on an empty queue. *)
LEMMA FirstWrite ==
  ASSUME P!TypeOK, queue = << >>, NEW w \in Work, NEW op \in P!Op, P!Write(w, op)
  PROVE  /\ Head(queue').op = op /\ Head(queue').work = w
         /\ local' = [local EXCEPT ![w] = P!Effect(op, local[w])]
<1>1. queue' = Append(<< >>, P!Pending(op, w, local[w]))
  BY DEF P!Write
<1>2. Head(queue') = P!Pending(op, w, local[w])
  <2> DEFINE m == P!Pending(op, w, local[w])
  <2>1. queue' = Append(<< >>, m)
    BY <1>1
  <2> HIDE DEF m
  <2>2. Head(queue') = m
    BY <2>1
  <2> QED BY <2>2 DEF m
<1> QED BY <1>2 DEF P!Write, P!Pending

LEMMA FirstOfTwo ==
  ASSUME P!TypeOK, queue = << >>, NEW w \in Work, NEW a \in P!Op, NEW b \in P!Op,
         P!WriteBoth(w, a, b)
  PROVE  /\ Head(queue').op = a /\ Head(queue').work = w
         /\ local' = [local EXCEPT ![w] = P!Effect(b, P!Effect(a, local[w]))]
<1> DEFINE m == P!Pending(a, w, local[w])
           n == P!Pending(b, w, P!Effect(a, local[w]))
<1>1. queue' = Append(Append(<< >>, m), n)
  BY DEF P!WriteBoth
<1>2. Head(queue') = m
  <2> HIDE DEF m, n
  <2>1. << >> \in Seq({m, n}) /\ Len(<< >>) = 0
    BY EmptySeq
  <2>2. /\ Append(<< >>, m) \in Seq({m, n}) /\ Len(Append(<< >>, m)) = 1
        /\ Append(<< >>, m)[1] = m
    BY <2>1, AppendProperties
  <2>3. /\ queue' \in Seq({m, n}) /\ Len(queue') = 2 /\ queue'[1] = m
    BY <1>1, <2>2, AppendProperties
  <2> QED BY <2>3
<1> QED BY <1>2 DEF P!WriteBoth, P!Pending

(* What the writes do to the lists the owner is shown. *)
LEMMA ShownSame ==
  /\ \A p : Filed(p)' = Filed(p) => Listed(p)' = Listed(p)
  /\ UNCHANGED local => Snapshot' = Snapshot
<1>1. \A p : Filed(p)' = Filed(p) => Listed(p)' = Listed(p)
  BY DEF Listed
<1>2. UNCHANGED local => \A p : Filed(p)' = Filed(p)
  BY DEF Filed
<1> QED BY <1>1, <1>2 DEF Snapshot

-----------------------------------------------------------------------------
(* What is under way for a user who waits: one thing, of one of these      *)
(* kinds, or nothing.                                                      *)
Silent == \A i \in 1..Len(calls) : calls[i] = "none"

AtRest == main = << >> /\ asked = 0 /\ deleting = << >> /\ Silent

HasBlock(b) == main = <<b>> /\ asked = 0 /\ deleting = << >> /\ Silent

Asking == main = << >> /\ asked = 1 /\ deleting = << >> /\ Silent

Sweeping(w) ==
  main = << >> /\ asked = 0 /\ deleting = <<w>> /\ queue = << >> /\ calls = << >>

Writing(c) ==
  /\ main = << >> /\ asked = 0 /\ deleting = << >>
  /\ calls # << >> /\ calls[1] = c /\ c # "none"
  /\ \A i \in 2..Len(calls) : calls[i] = "none"
  /\ Accepted(Head(queue).op, cloud[Head(queue).work])

LEMMA DueIs ==
  ASSUME calls \in Seq(Call)
  PROVE  /\ AtRest => OneAtATime /\ Due = "none"
         /\ \A b : HasBlock(b) => OneAtATime /\ Due = b.kind
         /\ Asking => OneAtATime /\ Due = "query"
         /\ \A w : Sweeping(w) => OneAtATime /\ Due = "delete"
         /\ \A c : Writing(c) => OneAtATime /\ Due = c
<1>1. Len(calls) \in Nat /\ (calls # << >> => Len(calls) > 0)
  BY LenProperties, EmptySeq
<1>2. Silent => (calls # << >> => calls[1] = "none") /\ \A i \in 2..Len(calls) : calls[i] = "none"
  BY <1>1 DEF Silent
<1>3. Len(<< >>) = 0 /\ \A b : Len(<<b>>) = 1 /\ <<b>> # << >> /\ <<b>>[1] = b
  OBVIOUS
<1>4. AtRest => OneAtATime /\ Due = "none"
  BY <1>1, <1>2, <1>3 DEF AtRest, OneAtATime, Due
<1>5. \A b : HasBlock(b) => OneAtATime /\ Due = b.kind
  BY <1>1, <1>2, <1>3 DEF HasBlock, OneAtATime, Due
<1>6. Asking => OneAtATime /\ Due = "query"
  BY <1>1, <1>2, <1>3 DEF Asking, OneAtATime, Due
<1>7. \A w : Sweeping(w) => OneAtATime /\ Due = "delete"
  BY <1>1, <1>2, <1>3 DEF Sweeping, OneAtATime, Due
<1>8. \A c : Writing(c) => OneAtATime /\ Due = c
  BY <1>1, <1>2, <1>3 DEF Writing, OneAtATime, Due
<1> QED BY <1>4, <1>5, <1>6, <1>7, <1>8

LEMMA DueWillBe ==
  ASSUME calls' \in Seq(Call)
  PROVE  /\ AtRest' => OneAtATime' /\ Due' = "none"
         /\ \A b : HasBlock(b)' => OneAtATime' /\ Due' = b.kind
         /\ Asking' => OneAtATime' /\ Due' = "query"
         /\ \A w : Sweeping(w)' => OneAtATime' /\ Due' = "delete"
         /\ \A c : Writing(c)' => OneAtATime' /\ Due' = c
<1>1. Len(calls') \in Nat /\ (calls' # << >> => Len(calls') > 0)
  BY LenProperties, EmptySeq
<1>2. Silent' => (calls' # << >> => calls'[1] = "none") /\ \A i \in 2..Len(calls') : calls'[i] = "none"
  BY <1>1 DEF Silent
<1>3. Len(<< >>) = 0 /\ \A b : Len(<<b>>) = 1 /\ <<b>> # << >> /\ <<b>>[1] = b
  OBVIOUS
<1>4. AtRest' => OneAtATime' /\ Due' = "none"
  BY <1>1, <1>2, <1>3 DEF AtRest, OneAtATime, Due
<1>5. \A b : HasBlock(b)' => OneAtATime' /\ Due' = b.kind
  BY <1>1, <1>2, <1>3 DEF HasBlock, OneAtATime, Due
<1>6. Asking' => OneAtATime' /\ Due' = "query"
  BY <1>1, <1>2, <1>3 DEF Asking, OneAtATime, Due
<1>7. \A w : Sweeping(w)' => OneAtATime' /\ Due' = "delete"
  BY <1>1, <1>2, <1>3 DEF Sweeping, OneAtATime, Due
<1>8. \A c : Writing(c)' => OneAtATime' /\ Due' = c
  BY <1>1, <1>2, <1>3 DEF Writing, OneAtATime, Due
<1> QED BY <1>4, <1>5, <1>6, <1>7, <1>8

LEMMA OneIsUnderWay ==
  ASSUME Types, OneAtATime, P!TypeOK, Len(calls) = Len(queue)
  PROVE  /\ main # << >> => HasBlock(Head(main)) /\ Tail(main) = << >> /\ main[1] = Head(main)
         /\ asked > 0 => Asking
         /\ deleting # << >> => Sweeping(Head(deleting)) /\ Tail(deleting) = << >>
         /\ queue # << >> =>
              /\ calls # << >> /\ deleting = << >>
              /\ \A i \in 2..Len(calls) : calls[i] = "none"
         /\ Quiet /\ deleting = << >> => AtRest /\ calls = << >>
<1>1. /\ calls \in Seq(Call) /\ main \in Seq(Block) /\ deleting \in Seq(Work) /\ asked \in Nat
      /\ queue \in Seq(P!Mutation)
  BY DEF Types, P!TypeOK
<1>2. /\ asked \in Nat /\ Len(calls) \in Nat /\ Len(main) \in Nat /\ Len(deleting) \in Nat
      /\ (calls = << >> <=> Len(calls) = 0) /\ (main = << >> <=> Len(main) = 0)
      /\ (deleting = << >> <=> Len(deleting) = 0) /\ (queue = << >> <=> Len(queue) = 0)
  BY <1>1, LenProperties, EmptySeq
<1>3. Len(main) + asked + Len(deleting) <= 1
  BY DEF OneAtATime
<1> DEFINE x == Len(main)
           z == Len(deleting)
<1>a. x \in Nat /\ z \in Nat /\ asked \in Nat /\ x + asked + z <= 1
  BY <1>2, <1>3
<1>b. (x # 0 => x = 1 /\ asked = 0 /\ z = 0) /\ (z # 0 => z = 1 /\ asked = 0 /\ x = 0)
  <2> HIDE DEF x, z
  <2> QED BY ONLY <1>a
<1>4. ASSUME main # << >> \/ asked > 0 \/ deleting # << >> PROVE Silent
  <2>1. calls # << >> => calls[1] = "none"
    BY <1>1, <1>4 DEF OneAtATime
  <2> QED BY <1>2, <2>1 DEF OneAtATime, Silent
<1>5. \A A : \A s \in Seq(A) : Len(s) = 1 => s = <<Head(s)>> /\ Tail(s) = << >> /\ s[1] = Head(s)
  <2> SUFFICES ASSUME NEW A, NEW s \in Seq(A), Len(s) = 1
               PROVE  s = <<Head(s)>> /\ Tail(s) = << >> /\ s[1] = Head(s)
    OBVIOUS
  <2>1. s # << >> /\ Head(s) = s[1] /\ Tail(s) \in Seq(A) /\ Len(Tail(s)) = 0
    BY EmptySeq, HeadTailProperties
  <2>2. Tail(s) = << >>
    BY <2>1, EmptySeq
  <2>3. s = <<s[1]>>
    OBVIOUS
  <2> QED BY <2>1, <2>2, <2>3
<1>6. main # << >> => HasBlock(Head(main)) /\ Tail(main) = << >> /\ main[1] = Head(main)
  <2> SUFFICES ASSUME main # << >> PROVE HasBlock(Head(main)) /\ Tail(main) = << >> /\ main[1] = Head(main)
    OBVIOUS
  <2>1. Len(main) = 1 /\ asked = 0 /\ Len(deleting) = 0
    BY <1>2, <1>b
  <2> QED BY <1>1, <1>2, <1>4, <1>5, <2>1 DEF HasBlock
<1>7. asked > 0 => Asking
  BY <1>1, <1>2, <1>3, <1>4 DEF Asking
<1>8. deleting # << >> => Sweeping(Head(deleting)) /\ Tail(deleting) = << >>
  <2> SUFFICES ASSUME deleting # << >> PROVE Sweeping(Head(deleting)) /\ Tail(deleting) = << >>
    OBVIOUS
  <2>1. Len(deleting) = 1 /\ asked = 0 /\ Len(main) = 0
    BY <1>2, <1>b
  <2>2. queue = << >> /\ calls = << >>
    BY <1>2 DEF OneAtATime
  <2> QED BY <1>1, <1>2, <1>5, <2>1, <2>2 DEF Sweeping
<1>9. queue # << >> =>
        /\ calls # << >> /\ deleting = << >>
        /\ \A i \in 2..Len(calls) : calls[i] = "none"
  BY <1>2 DEF OneAtATime
<1>10. Quiet /\ deleting = << >> => AtRest /\ calls = << >>
  BY <1>2 DEF Quiet, AtRest, Silent
<1> QED BY <1>6, <1>7, <1>8, <1>9, <1>10

-----------------------------------------------------------------------------
(* The inductive step for a user who waits, action by action.              *)
Held == OneAtATime /\ DueWhere /\ PageInv /\ ViewInv /\ NoCrash /\ ActsOnTapped

LEMMA OneElement ==
  \A c : /\ Append(<< >>, c) = <<c>> /\ <<c>> # << >>
         /\ <<c>>[1] = c /\ Head(<<c>>) = c /\ Len(<<c>>) = 1 /\ 2..Len(<<c>>) = {}
OBVIOUS

LEMMA RedrawnIs ==
  /\ flags = {} => Redrawn = Names
  /\ flags = {"backfromdetail"} => Redrawn = {"private", "public"}
  /\ flags = {"backfromdetail", "movetotrash"} => Redrawn = Names
  /\ flags = {"restoretrash"} => Redrawn = {"private", "trash"}
  /\ flags = {"removetrash"} => Redrawn = {"trash"}
BY DEF Redrawn, Names

LEMMA RedrawnWillBe ==
  /\ flags' = {} => Redrawn' = Names
  /\ flags' = {"backfromdetail"} => Redrawn' = {"private", "public"}
  /\ flags' = {"backfromdetail", "movetotrash"} => Redrawn' = Names
  /\ flags' = {"restoretrash"} => Redrawn' = {"private", "trash"}
  /\ flags' = {"removetrash"} => Redrawn' = {"trash"}
BY DEF Redrawn, Names

LEMMA Shown ==
  /\ Snapshot.private = Listed(Private) /\ Snapshot.public = Listed(Public)
  /\ Snapshot.trash = Listed(Trashed)
  /\ Snapshot.private' = Listed(Private)' /\ Snapshot.public' = Listed(Public)'
  /\ Snapshot.trash' = Listed(Trashed)'
BY DEF Snapshot

(* A user who may act finds everything settled. *)
LEMMA Waiting ==
  ASSUME Careful, TypeOK, Held, UserMayAct
  PROVE  /\ queue = << >> /\ calls = << >> /\ main = << >> /\ asked = 0 /\ deleting = << >>
         /\ AtRest /\ Due = "none" /\ Silent
<1>1. Quiet /\ deleting = << >>
  BY DEF UserMayAct, Idle
<1>2. /\ Types /\ P!TypeOK /\ Len(calls) = Len(queue) /\ OneAtATime /\ calls \in Seq(Call)
  BY TypeParts DEF Held, Types
<1>3. AtRest /\ calls = << >>
  BY <1>1, <1>2, OneIsUnderWay
<1>4. Due = "none"
  BY <1>2, <1>3, DueIs
<1> QED BY <1>1, <1>3, <1>4 DEF Quiet, AtRest

(* A new screen starts with a fetch, and the canvas with nothing. *)
LEMMA FreshHeld ==
  ASSUME TypeOK, TypeOK', Reset, outcome' = "none", screen' = "works", StartFetch(<< >>)
  PROVE  Held'
<1> DEFINE auth == [kind |-> "auth"]
<1>1. calls' \in Seq(Call) /\ Len(queue) \in Nat /\ DOMAIN rows' = Names
  BY LenProperties, ListsAre DEF TypeOK, P!TypeOK
<1>2. Silent'
  BY <1>1 DEF Reset, Silent
<1>3. main' = <<auth>> /\ lists' = NoLists
  BY DEF StartFetch
<1>4. HasBlock(auth)'
  BY <1>2, <1>3 DEF HasBlock, Reset
<1>5. OneAtATime' /\ Due' = "auth"
  BY <1>1, <1>4, DueWillBe
<1>6. Redrawn' = Names
  BY RedrawnWillBe DEF Reset
<1>7. DueWhere' /\ PageInv'
  BY <1>5 DEF DueWhere, PageInv, Reset, PageCalls
<1>8. ViewInv'
  BY <1>1, <1>3, <1>5, <1>6 DEF ViewInv
<1> QED BY <1>5, <1>7, <1>8 DEF Held, NoCrash, ActsOnTapped

LEMMA LeftHeld ==
  ASSUME TypeOK, TypeOK', Leave \/ Restart
  PROVE  Held'
<1>0. Reset /\ screen' = "canvas" /\ main' = << >> /\ outcome' = "none"
  BY DEF Leave, Restart
<1>1. calls' \in Seq(Call) /\ Len(queue) \in Nat
  BY LenProperties DEF TypeOK, P!TypeOK
<1>2. Silent'
  BY <1>0, <1>1 DEF Reset, Silent
<1>3. AtRest'
  BY <1>0, <1>2 DEF AtRest, Reset
<1>4. OneAtATime' /\ Due' = "none"
  BY <1>1, <1>3, DueWillBe
<1>5. DueWhere' /\ PageInv'
  BY <1>0, <1>4 DEF DueWhere, PageInv, Reset, PageCalls
<1>6. ViewInv'
  BY <1>0 DEF ViewInv
<1> QED BY <1>0, <1>4, <1>5, <1>6 DEF Held, NoCrash, ActsOnTapped

(* The canvas: a first save is never refused. *)
LEMMA SaveHeld ==
  ASSUME Careful, TypeOK, TypeOK', Held, NEW w \in Work, SaveDrawing(w)
  PROVE  Held'
<1>1. /\ queue = << >> /\ calls = << >> /\ main = << >> /\ asked = 0 /\ deleting = << >>
      /\ Due = "none"
  BY Waiting DEF SaveDrawing
<1>2. /\ screen = "canvas" /\ P!Write(w, "create") /\ calls' = Append(calls, "saved")
      /\ UNCHANGED <<screen, lists, rows, flags, index, page, alert, deleting,
                     main, asked, tapped, sweepable>> /\ outcome' = "none"
  BY DEF SaveDrawing, P!Create
<1>3. Head(queue').op = "create"
  BY <1>1, <1>2, FirstWrite DEF TypeOK, P!Op
<1>4. calls' = <<"saved">> /\ calls' \in Seq(Call)
  BY <1>1, <1>2 DEF TypeOK
<1>5. Writing("saved")'
  BY <1>1, <1>2, <1>3, <1>4 DEF Writing, Accepted
<1>6. OneAtATime' /\ Due' = "saved"
  BY <1>4, <1>5, DueWillBe
<1>7. page = NoPage /\ alert = "none"
  BY <1>2 DEF Held, DueWhere
<1>8. DueWhere'
  BY <1>2, <1>6, <1>7 DEF Held, DueWhere, PageCalls
<1>9. PageInv' /\ ViewInv'
  BY <1>2, <1>7 DEF PageInv, ViewInv
<1> QED BY <1>2, <1>6, <1>8, <1>9 DEF Held, NoCrash, ActsOnTapped

(* Taps that start nothing: the row tapped and the list agree. *)
LEMMA TapsHeld ==
  ASSUME Careful, TypeOK, TypeOK', Held,
         OpenPage("private") \/ OpenPage("public") \/ TapTrashRow \/ CancelAlert
           \/ ChooseRemove \/ TapTrashAll
  PROVE  Held'
<1>1. /\ queue = << >> /\ calls = << >> /\ main = << >> /\ asked = 0 /\ deleting = << >>
      /\ Due = "none" /\ AtRest
  BY Waiting DEF OpenPage, TapTrashRow, CancelAlert, ChooseRemove, TapTrashAll
<1>2. UNCHANGED <<data, calls, screen, lists, rows, flags, enabled, deleting, main, asked>>
  BY DEF OpenPage, TapTrashRow, CancelAlert, ChooseRemove, TapTrashAll
<1>3. AtRest' /\ calls' \in Seq(Call)
  BY <1>1, <1>2 DEF AtRest, Silent, TypeOK
<1>4. OneAtATime' /\ Due' = "none"
  BY <1>3, DueWillBe
<1>5. UNCHANGED <<local, queue>> /\ Snapshot' = Snapshot /\ Filed(Trashed)' = Filed(Trashed)
  BY <1>2, ShownSame DEF data, Filed
<1>6. ASSUME NEW which \in {"private", "public"}, OpenPage(which) PROVE Held'
  <2>1. /\ screen = "works" /\ enabled /\ page = NoPage /\ alert = "none" /\ alert' = alert
    BY <1>6 DEF OpenPage, OnWorks
  <2>2. lists = Snapshot /\ rows = lists /\ flags = {}
    BY <1>1, <2>1 DEF Held, ViewInv
  <2>3. PICK i \in 1..Len(rows[which]) :
          /\ page' = [work |-> lists[which][i], published |-> which = "public"]
          /\ outcome' = "none"
    BY <1>6, <2>2 DEF OpenPage
  <2>4. PICK p \in {Private, Public} : lists[which] = Listed(p)
    BY <2>2, Shown
  <2>5. PICK w \in Filed(p) : w = lists[which][i]
    BY <2>2, <2>3, <2>4, ListedTyped, ElementOfSeq
  <2>6. PICK b \in BOOLEAN : b = (which = "public")
    OBVIOUS
  <2>7. page'.work = w
    BY <2>3, <2>5, <2>6
  <2>8. local[w].doc # NoDoc /\ w \notin Filed(Trashed)
    BY <2>5 DEF Filed, Readable, Private, Public, Trashed
  <2>9. rows.trash = Snapshot.trash
    BY <2>2
  <2>10. PageInv'
    BY <1>2, <1>5, <2>2, <2>7, <2>8, <2>9 DEF PageInv
  <2>11. page' # NoPage
    <3>1. page' = [work |-> w, published |-> b] /\ w \in Work
      BY <2>3, <2>5, <2>6 DEF Filed
    <3> QED BY <3>1, NoPageAssumption
  <2>12. DueWhere'
    BY <1>2, <1>4, <2>1, <2>2 DEF DueWhere, PageCalls
  <2>13. ViewInv'
    BY <1>4, <2>11 DEF ViewInv
  <2> QED BY <1>4, <2>3, <2>10, <2>12, <2>13 DEF Held, NoCrash, ActsOnTapped
<1>7. CASE TapTrashRow \/ CancelAlert \/ ChooseRemove \/ TapTrashAll
  <2>1. /\ UNCHANGED page /\ outcome' = "none"
        /\ alert' = "none" \/
             (screen = "works" /\ enabled /\ page = NoPage)
    BY <1>7 DEF TapTrashRow, CancelAlert, ChooseRemove, TapTrashAll, OnWorks, Held, DueWhere
  <2>2. alert' \in {"actions", "sure"} =>
          index' \in 1..Len(rows.trash) /\ tapped' = rows.trash[index']
    BY <1>7 DEF TapTrashRow, CancelAlert, ChooseRemove, TapTrashAll, Held, DueWhere
  <2>3. DueWhere'
    BY <1>1, <1>2, <1>4, <1>5, <2>1, <2>2 DEF Held, DueWhere, PageCalls
  <2>4. PageInv'
    BY <1>1, <1>2, <1>5, <2>1 DEF Held, PageInv
  <2>5. ViewInv'
    BY <1>1, <1>2, <1>4, <1>5, <2>1 DEF Held, ViewInv
  <2> QED BY <1>4, <2>1, <2>3, <2>4, <2>5 DEF Held, NoCrash, ActsOnTapped
<1> QED BY <1>6, <1>7

(* The buttons of the page: the first of the two writes is accepted, and   *)
(* the trash stays drawn as it is, unless the work goes there.             *)
LEMMA PageHeld ==
  ASSUME Careful, TypeOK, TypeOK', PP!IInv, Held,
         PressPublish \/ PressRemovePublished \/ PressDelete
  PROVE  Held' /\ P!Next
<1>1. /\ queue = << >> /\ calls = << >> /\ main = << >> /\ asked = 0 /\ deleting = << >>
      /\ Due = "none"
  BY Waiting DEF PressPublish, PressRemovePublished, PressDelete, OnPage
<1>2. /\ page # NoPage /\ page \in [work: Work, published: BOOLEAN]
      /\ UNCHANGED <<ui, main, asked, tapped>> /\ outcome' = "none"
  BY DEF PressPublish, PressRemovePublished, PressDelete, OnPage, TypeOK
<1>3. PICK w \in Work : w = page.work
  BY <1>2
<1>4. /\ local[w].doc # NoDoc /\ w \notin Filed(Trashed) /\ rows.trash = Snapshot.trash
      /\ flags \subseteq {"backfromdetail"} /\ cloud[w] = local[w]
  BY <1>1, <1>2, <1>3, OwnerFacts DEF Held, PageInv
<1>5. PICK a \in {"publish", "private", "trash"}, b \in {"post", "unpost"},
           c \in {"published", "withdrawn", "trashed"} :
        /\ P!WriteBoth(w, a, b) /\ UNCHANGED <<cloud, unborn>>
        /\ calls' = calls \o <<c, "none">>
        /\ a = "trash" => c = "trashed"
  BY <1>3 DEF PressPublish, PressRemovePublished, PressDelete, P!Publish, P!Unpublish, P!Trash
<1>6. /\ Head(queue').op = a /\ Head(queue').work = w
      /\ local' = [local EXCEPT ![w] = P!Effect(b, P!Effect(a, local[w]))]
  BY <1>1, <1>5, FirstOfTwo DEF TypeOK, P!Op
<1>7. calls' = <<c, "none">> /\ calls' \in Seq(Call)
  BY <1>1, <1>5 DEF TypeOK
<1>8. Writing(c)'
  <2>1. calls' # << >> /\ calls'[1] = c /\ c # "none" /\ \A i \in 2..Len(calls') : calls'[i] = "none"
    BY <1>7
  <2>2. Accepted(Head(queue').op, cloud'[Head(queue').work])
    BY <1>4, <1>5, <1>6 DEF Accepted
  <2> QED BY <1>1, <1>2, <2>1, <2>2 DEF Writing, ui
<1>9. OneAtATime' /\ Due' = c
  BY <1>7, <1>8, DueWillBe
<1>10. screen = "works" /\ alert = "none"
  BY <1>2 DEF Held, DueWhere, TypeOK
<1>11. DueWhere'
  BY <1>2, <1>4, <1>9, <1>10 DEF Held, DueWhere, PageCalls, ui
<1>12. local \in [Work -> P!WorkState]
  BY DEF TypeOK, P!TypeOK
<1>13. /\ local'[w].doc # NoDoc
       /\ \A v \in Work \ {w} : local'[v] = local[v]
       /\ a # "trash" => local'[w].doc.public # -1
  <2>1. local[w] \in P!WorkState
    BY <1>12
  <2>2. local'[w] = P!Effect(b, P!Effect(a, local[w]))
    BY <1>6, <1>12
  <2>3. P!Effect(a, local[w]).doc \in P!WorkDoc
        /\ (a # "trash" => P!Effect(a, local[w]).doc.public # -1)
    BY <1>4, <2>1 DEF P!Effect, P!Merge, P!Update, P!WorkState, P!WorkDoc,
                      P!Public, P!Private, P!Trashed, P!Unset
  <2>4. P!Effect(a, local[w]) \in P!WorkState
    BY <2>1, PendingTyped DEF P!Op
  <2>5. local'[w].doc = P!Effect(a, local[w]).doc
    <3> DEFINE s == P!Effect(a, local[w])
    <3>1. s \in P!WorkState /\ local'[w] = P!Effect(b, s)
      BY <2>2, <2>4
    <3> HIDE DEF s
    <3>2. local'[w].doc = s.doc
      BY <3>1 DEF P!Effect, P!WorkState
    <3> QED BY <3>2 DEF s
  <2> QED BY <1>6, <1>12, <2>3, <2>5, Assumed
          DEF PP!NoDocAssumption, PP!WorkDoc, P!WorkDoc, PP!Trashed, PP!Private, PP!Public,
              PP!Unset, P!Trashed, P!Private, P!Public, P!Unset
<1>14. PageInv'
  <2>1. CASE c = "trashed"
    BY <1>2, <1>3, <1>4, <1>9, <1>13, <2>1 DEF PageInv, ui
  <2>2. CASE c # "trashed"
    <3>1. w \notin Filed(Trashed)'
      BY <1>5, <1>13, <2>2 DEF Filed, Trashed
    <3>2. Filed(Trashed)' = Filed(Trashed)
      BY <1>4, <1>13, <3>1 DEF Filed
    <3>3. Snapshot.trash' = Snapshot.trash
      BY <3>2, Shown, ShownSame
    <3> QED BY <1>2, <1>3, <1>4, <1>13, <3>1, <3>3 DEF PageInv, ui
  <2> QED BY <2>1, <2>2
<1>15. ViewInv'
  <2>1. Due' \notin {"auth", "query", "docs", "failed", "restored", "removed", "delete", "none"}
    BY <1>9
  <2> QED BY <2>1 DEF ViewInv
<1>16. P!Next
  <2>1. P!Publish(w) \/ P!Unpublish(w) \/ P!Trash(w)
    BY <1>3 DEF PressPublish, PressRemovePublished, PressDelete
  <2> QED BY <2>1 DEF P!Next, P!OwnerStep
<1> QED BY <1>2, <1>9, <1>11, <1>14, <1>15, <1>16 DEF Held, NoCrash, ActsOnTapped

(* The drag: the trash, which its fetch does not redraw, is up to date.    *)
LEMMA DragHeld ==
  ASSUME Careful, TypeOK, TypeOK', Held, DragDown
  PROVE  Held'
<1> DEFINE auth == [kind |-> "auth"]
<1>1. /\ queue = << >> /\ calls = << >> /\ main = << >> /\ asked = 0 /\ deleting = << >>
      /\ Due = "none" /\ Silent
  BY Waiting DEF DragDown, OnPage
<1>2. /\ page # NoPage /\ flags' = flags \cup {"backfromdetail"} /\ lists' = NoLists
      /\ page' \in {page, NoPage} /\ outcome' = "none"
      /\ UNCHANGED <<data, screen, rows, alert, deleting, asked>>
  BY DEF DragDown, OnPage, ClosePage, StartFetch
<1>3. main' = <<auth>>
  <2>1. main' \in {Append(main, auth), Append(WithoutPageCalls(main), auth)}
    BY DEF DragDown, StartFetch
  <2>2. WithoutPageCalls(main) = << >>
    BY <1>1, ChosenEmpty DEF WithoutPageCalls
  <2>3. Append(<< >>, auth) = <<auth>>
    OBVIOUS
  <2> HIDE DEF auth
  <2> QED BY <1>1, <2>1, <2>2, <2>3
<1>4. calls' \in Seq(Call) /\ Silent'
  <2>1. calls' = calls \/ calls' = [i \in 1..Len(calls) |-> IF calls[i] \in PageCalls THEN "none" ELSE calls[i]]
    BY DEF DragDown, ClosePage
  <2>2. calls' \in Seq(Call) /\ Len(calls') = Len(queue')
    BY DEF TypeOK
  <2>3. Len(calls') = 0
    BY <1>1, <1>2, <2>2, EmptySeq DEF data
  <2> QED BY <2>2, <2>3 DEF Silent
<1>5. HasBlock(auth)'
  BY <1>1, <1>2, <1>3, <1>4 DEF HasBlock
<1>6. OneAtATime' /\ Due' = "auth"
  BY <1>4, <1>5, DueWillBe
<1>7. flags' = {"backfromdetail"} /\ screen = "works" /\ alert = "none"
  BY <1>2 DEF Held, PageInv, DueWhere, TypeOK
<1>8. DueWhere'
  BY <1>2, <1>6, <1>7 DEF DueWhere, PageCalls
<1>9. UNCHANGED local /\ Snapshot' = Snapshot /\ Filed(Trashed)' = Filed(Trashed)
  BY <1>2, ShownSame DEF data, Filed
<1>10. /\ local[page.work].doc # NoDoc /\ page.work \notin Filed(Trashed)
       /\ rows.trash = Snapshot.trash
  BY <1>1, <1>2 DEF Held, PageInv
<1>11. PageInv'
  BY <1>2, <1>7, <1>9, <1>10 DEF PageInv
<1>12. ViewInv'
  <2>1. DOMAIN rows' = Names
    BY ListsAre DEF TypeOK
  <2>2. \A l \in DOMAIN rows' \ Redrawn' : rows'[l] = Snapshot'[l]
    BY <1>2, <1>7, <1>9, <1>10, <2>1, RedrawnWillBe DEF Names
  <2> QED BY <1>2, <1>6, <2>2 DEF ViewInv
<1> QED BY <1>2, <1>6, <1>8, <1>11, <1>12 DEF Held, NoCrash, ActsOnTapped

(* A work of the trash leaves the trash, and enters no list but the        *)
(* private one.                                                            *)
LEMMA OutOfTrash ==
  ASSUME local \in [Work -> P!WorkState], NEW w \in Filed(Trashed),
         NEW op \in {"private", "delete"},
         local' = [local EXCEPT ![w] = P!Effect(op, local[w])]
  PROVE  /\ Snapshot.public' = Snapshot.public
         /\ op = "delete" => Snapshot.private' = Snapshot.private
<1>1. w \in Work /\ local[w].doc # NoDoc /\ local[w].doc.public = -1 /\ local[w] \in P!WorkState
  BY DEF Filed, Readable, Trashed
<1>2. \A v \in Work \ {w} : local'[v] = local[v]
  OBVIOUS
<1>3. local'[w] = P!Effect(op, local[w])
  BY <1>1
<1>4. local'[w].doc = NoDoc \/ (op = "private" /\ local'[w].doc.public = 0)
  BY <1>1, <1>3 DEF P!Effect, P!Update, P!WorkState, P!WorkDoc, P!Private
<1>5. w \notin Filed(Public) /\ w \notin Filed(Public)'
  BY <1>1, <1>4 DEF Filed, Readable, Public
<1>6. Filed(Public)' = Filed(Public)
  BY <1>2, <1>5 DEF Filed
<1>7. op = "delete" => w \notin Filed(Private) /\ w \notin Filed(Private)'
  BY <1>1, <1>4 DEF Filed, Readable, Private
<1>8. op = "delete" => Filed(Private)' = Filed(Private)
  BY <1>2, <1>7 DEF Filed
<1> QED BY <1>6, <1>8, Shown, ShownSame

(* The trash: the row tapped is still the work's, and the work is trashed. *)
LEMMA TrashHeld ==
  ASSUME Careful, TypeOK, TypeOK', PP!IInv, Held, ChooseRestore \/ ConfirmRemove
  PROVE  Held' /\ P!Next
<1>1. /\ queue = << >> /\ calls = << >> /\ main = << >> /\ asked = 0 /\ deleting = << >>
      /\ Due = "none"
  BY Waiting DEF ChooseRestore, ConfirmRemove
<1>2. PICK op \in {"private", "delete"}, call \in {"restored", "removed"},
           missed \in {"restored another", "removed another"} :
        /\ ActOnTrash(op, call, missed) /\ (call = "removed" => op = "delete")
  BY DEF ChooseRestore, ConfirmRemove
<1>3. alert \in {"actions", "sure"}
  BY DEF ChooseRestore, ConfirmRemove
<1>4. /\ screen = "works" /\ enabled /\ page = NoPage
      /\ index \in 1..Len(rows.trash) /\ tapped = rows.trash[index]
  BY <1>3 DEF Held, DueWhere
<1>5. lists = Snapshot /\ rows = lists /\ flags = {}
  BY <1>1, <1>4 DEF Held, ViewInv
<1>6. lists.trash = Listed(Trashed) /\ index \in 1..Len(lists.trash) /\ tapped = lists.trash[index]
  BY <1>4, <1>5, Shown
<1>7. PICK w \in Filed(Trashed) : w = lists.trash[index]
  BY <1>6, ListedTyped, ElementOfSeq
<1>8. /\ P!Write(w, op) /\ calls' = Append(calls, call) /\ outcome' = "none" /\ alert' = "none"
      /\ UNCHANGED <<cloud, unborn, screen, lists, rows, flags, index, enabled,
                     page, deleting, main, asked, tapped, sweepable>>
  BY <1>2, <1>6, <1>7 DEF ActOnTrash
<1>9. w \in Work /\ local[w].doc # NoDoc /\ cloud[w] = local[w] /\ P!InTrashList(w)
  BY <1>1, OwnerFacts DEF Filed, Readable
<1>10. /\ Head(queue').op = op /\ Head(queue').work = w
       /\ local' = [local EXCEPT ![w] = P!Effect(op, local[w])]
  BY <1>1, <1>8, <1>9, FirstWrite DEF TypeOK, P!Op
<1>11. calls' = <<call>> /\ calls' \in Seq(Call)
  <2>2. calls' = <<call>>
    BY <1>1, <1>8, OneElement
  <2> QED BY <2>2 DEF TypeOK
<1>12. Writing(call)'
  <2>2. calls' # << >> /\ calls'[1] = call /\ call # "none" /\ \A i \in 2..Len(calls') : calls'[i] = "none"
    <3>1. calls' # << >> /\ calls'[1] = call /\ 2..Len(calls') = {}
      BY <1>11, OneElement
    <3>2. call # "none"
      OBVIOUS
    <3>3. \A i \in 2..Len(calls') : calls'[i] = "none"
      BY <3>1
    <3> QED BY <3>1, <3>2, <3>3
  <2>3. Accepted(Head(queue').op, cloud'[Head(queue').work])
    BY <1>8, <1>9, <1>10 DEF Accepted
  <2> QED BY <1>1, <1>8, <2>2, <2>3 DEF Writing
<1>13. OneAtATime' /\ Due' = call
  BY <1>11, <1>12, DueWillBe
<1>14. DueWhere' /\ PageInv'
  BY <1>4, <1>5, <1>8, <1>13 DEF DueWhere, PageInv, PageCalls
<1>15. ViewInv'
  <2>1. /\ Snapshot.public' = Snapshot.public
        /\ op = "delete" => Snapshot.private' = Snapshot.private
    BY <1>10, OutOfTrash DEF TypeOK, P!TypeOK
  <2> QED BY <1>2, <1>5, <1>8, <1>13, <2>1 DEF ViewInv
<1>16. P!Next
  <2>1. P!Restore(w) \/ P!Remove(w)
    BY <1>8, <1>9 DEF P!Restore, P!Remove
  <2> QED BY <1>9, <2>1 DEF P!Next, P!OwnerStep
<1> QED BY <1>8, <1>13, <1>14, <1>15, <1>16 DEF Held, NoCrash, ActsOnTapped

LEMMA SweepHeld ==
  ASSUME Careful, TypeOK, TypeOK', PP!IInv, Held, ConfirmTrashAll \/ DeleteNext
  PROVE  Held' /\ (P!Next \/ UNCHANGED data)
<1>0. calls' \in Seq(Call) /\ local \in [Work -> P!WorkState]
  BY DEF TypeOK, P!TypeOK
<1>1. CASE ConfirmTrashAll
  <2>1. /\ queue = << >> /\ calls = << >> /\ main = << >> /\ asked = 0 /\ deleting = << >>
        /\ Due = "none"
    BY <1>1, Waiting DEF ConfirmTrashAll
  <2>2. /\ Len(lists.trash) = 1 /\ deleting' = lists.trash /\ alert' = "none" /\ outcome' = "none"
        /\ alert # "none"
        /\ UNCHANGED <<data, calls, screen, lists, rows, flags, index, enabled,
                       page, main, asked, tapped, sweepable>>
    BY <1>1 DEF ConfirmTrashAll
  <2>3. screen = "works" /\ enabled /\ page = NoPage
    BY <2>2 DEF Held, DueWhere
  <2>4. lists = Snapshot /\ rows = lists /\ flags = {}
    BY <2>1, <2>3 DEF Held, ViewInv
  <2>5. PICK w \in Filed(Trashed) : w = lists.trash[1] /\ lists.trash \in Seq(Work)
    <3>1. lists.trash = Listed(Trashed)
      BY <2>4, Shown
    <3>2. lists.trash \in Seq(Work) /\ lists.trash \in Seq(Filed(Trashed))
      BY <3>1, ListedTyped
    <3> QED BY <2>2, <3>2, ElementOfSeq
  <2>6. deleting' = <<w>>
    BY <2>2, <2>5
  <2>7. Sweeping(w)'
    BY <2>1, <2>2, <2>6 DEF Sweeping, data
  <2>8. OneAtATime' /\ Due' = "delete"
    BY <1>0, <2>7, DueWillBe
  <2>9. UNCHANGED local /\ Snapshot' = Snapshot /\ Filed(Trashed)' = Filed(Trashed)
    BY <2>2, ShownSame DEF data, Filed
  <2>10. DueWhere' /\ PageInv'
    BY <2>2, <2>3, <2>4, <2>8 DEF DueWhere, PageInv, PageCalls
  <2>11. ViewInv'
    BY <2>2, <2>4, <2>6, <2>8, <2>9 DEF ViewInv
  <2> QED BY <2>2, <2>8, <2>10, <2>11 DEF Held, NoCrash, ActsOnTapped
<1>2. CASE DeleteNext
  <2>1. deleting # << >> /\ Types /\ P!TypeOK /\ Len(calls) = Len(queue) /\ OneAtATime
    BY <1>2, TypeParts DEF DeleteNext, Held
  <2>2. /\ main = << >> /\ asked = 0 /\ queue = << >> /\ calls = << >>
        /\ Tail(deleting) = << >> /\ deleting = <<Head(deleting)>>
    BY <2>1, OneIsUnderWay DEF Sweeping
  <2>3. Due = "delete"
    BY <2>1, OneIsUnderWay, DueIs DEF Types
  <2>4. /\ P!Write(Head(deleting), "delete") /\ calls' = Append(calls, "removed")
        /\ deleting' = Tail(deleting)
        /\ UNCHANGED <<cloud, unborn, screen, lists, rows, flags, index, enabled,
                       page, alert, main, asked, hist, sweepable>>
    BY <1>2 DEF DeleteNext
  <2>5. page = NoPage /\ flags = {} /\ alert = "none" /\ screen = "works"
    BY <2>3 DEF Held, DueWhere, TypeOK
  <2>6. PICK w \in Filed(Trashed) : w = Head(deleting)
    <3>1. deleting[1] = Head(deleting)
      BY <2>2
    <3> QED BY <2>3, <2>5, <3>1 DEF Held, ViewInv
  <2>7. w \in Work /\ P!InTrashList(w)
    BY OwnerFacts DEF Filed
  <2>8. /\ Head(queue').op = "delete"
        /\ local' = [local EXCEPT ![w] = P!Effect("delete", local[w])]
    BY <2>1, <2>2, <2>4, <2>6, <2>7, FirstWrite DEF P!Op
  <2>9. calls' = <<"removed">>
    BY <2>2, <2>4
  <2>10. Writing("removed")'
    BY <2>2, <2>4, <2>8, <2>9 DEF Writing, Accepted
  <2>11. OneAtATime' /\ Due' = "removed"
    BY <1>0, <2>10, DueWillBe
  <2>12. DueWhere' /\ PageInv'
    BY <2>4, <2>5, <2>11 DEF DueWhere, PageInv, PageCalls
  <2>13. ViewInv'
    <3>1. Snapshot.public' = Snapshot.public /\ Snapshot.private' = Snapshot.private
      BY <1>0, <2>8, OutOfTrash
    <3>2. rows.public = Snapshot.public /\ rows.private = Snapshot.private
      BY <2>3, <2>5 DEF Held, ViewInv
    <3> QED BY <2>4, <2>11, <3>1, <3>2 DEF ViewInv
  <2>14. P!Next
    <3>1. P!Remove(w)
      BY <2>4, <2>6, <2>7 DEF P!Remove
    <3> QED BY <2>7, <3>1 DEF P!Next, P!OwnerStep
  <2> QED BY <2>4, <2>11, <2>12, <2>13, <2>14 DEF Held, NoCrash, ActsOnTapped, hist
<1> QED BY <1>1, <1>2

(* The answer to a write changes nothing the owner sees: what was waited   *)
(* for becomes a block.                                                    *)
LEMMA DeliverHeld ==
  ASSUME TypeOK, TypeOK', Held, Deliver
  PROVE  Held' /\ P!Next
<1>1. /\ Types /\ P!TypeOK /\ Len(calls) = Len(queue) /\ OneAtATime
      /\ calls \in Seq(Call) /\ calls' \in Seq(Call) /\ main \in Seq(Block)
  BY TypeParts DEF Held, Types
<1>2. /\ queue # << >> /\ P!Deliver /\ calls' = Tail(calls) /\ UNCHANGED <<local, ui, asked, hist>>
      /\ main' = IF Head(calls) # "none" /\ Accepted(Head(queue).op, cloud[Head(queue).work])
                 THEN Append(main, [kind |-> Head(calls)]) ELSE main
  BY DEF Deliver, P!Deliver
<1>3. /\ calls # << >> /\ deleting = << >>
      /\ \A i \in 2..Len(calls) : calls[i] = "none"
  BY <1>1, <1>2, OneIsUnderWay
<1>4. /\ Len(calls) \in Nat /\ Len(calls) >= 1 /\ Head(calls) = calls[1]
      /\ Len(calls') = Len(calls) - 1 /\ \A i \in 1..Len(calls') : calls'[i] = calls[i + 1]
  <2>1. Len(calls) \in Nat \ {0}
    BY <1>1, <1>3, EmptySeq
  <2>2. Head(calls) = calls[1] /\ Len(Tail(calls)) = Len(calls) - 1
    BY <1>1, <1>3, HeadTailProperties
  <2>3. \A i \in 1..Len(Tail(calls)) : Tail(calls)[i] = calls[i + 1]
    BY <1>1, <1>3, <2>1, HeadTailProperties
  <2> QED BY <1>2, <2>1, <2>2, <2>3
<1>5. Silent'
  <2>1. \A i \in 1..Len(calls') : i + 1 \in 2..Len(calls)
    BY <1>4
  <2> QED BY <1>3, <1>4, <2>1 DEF Silent
<1>6. alert = "none"
  BY <1>2 DEF Held, DueWhere
<1>7. OneAtATime' /\ Due' = Due /\ (Due \in {"docs"} => main' = main)
  <2>1. CASE calls[1] # "none"
    <3>1. main = << >> /\ asked = 0 /\ Accepted(Head(queue).op, cloud[Head(queue).work])
      BY <1>1, <1>3, <2>1 DEF OneAtATime
    <3>2. Writing(calls[1])
      BY <1>3, <2>1, <3>1 DEF Writing
    <3>3. Due = calls[1]
      BY <1>1, <3>2, DueIs
    <3>4. PICK c \in Call : c = calls[1]
      BY <1>1, <1>4, ElementOfSeq
    <3>5. main' = <<[kind |-> c]>>
      BY <1>2, <1>4, <2>1, <3>1, <3>4, OneElement
    <3>6. HasBlock([kind |-> c])'
      BY <1>2, <1>3, <1>5, <3>1, <3>5 DEF HasBlock, ui
    <3>7. OneAtATime' /\ Due' = c
      BY <1>1, <3>6, DueWillBe
    <3> QED BY <3>3, <3>4, <3>7 DEF Call
  <2>2. CASE calls[1] = "none"
    <3>1. main' = main /\ asked' = asked /\ deleting' = << >>
      BY <1>2, <1>3, <1>4, <2>2 DEF ui
    <3>2. CASE main # << >>
      <4>1. HasBlock(Head(main))
        BY <1>1, <3>2, OneIsUnderWay
      <4>2. PICK b : b = Head(main)
        OBVIOUS
      <4>3. HasBlock(b)'
        BY <1>5, <3>1, <4>1, <4>2 DEF HasBlock
      <4> QED BY <1>1, <3>1, <4>1, <4>2, <4>3, DueIs, DueWillBe
    <3>3. CASE asked > 0
      <4>1. Asking
        BY <1>1, <3>3, OneIsUnderWay
      <4>2. Asking'
        BY <1>5, <3>1, <4>1 DEF Asking
      <4> QED BY <1>1, <3>1, <4>1, <4>2, DueIs, DueWillBe
    <3>4. CASE main = << >> /\ ~(asked > 0)
      <4>1. AtRest /\ asked = 0
        <5>1. asked = 0
          BY <1>1, <3>4 DEF Types
        <5>2. Silent
          BY <1>3, <1>4, <2>2 DEF Silent
        <5> QED BY <1>3, <3>4, <5>1, <5>2 DEF AtRest
      <4>2. AtRest'
        BY <1>5, <3>1, <3>4, <4>1 DEF AtRest
      <4> QED BY <1>1, <3>1, <4>1, <4>2, DueIs, DueWillBe
    <3> QED BY <3>2, <3>3, <3>4
  <2> QED BY <2>1, <2>2
<1>8. Snapshot' = Snapshot /\ Filed(Trashed)' = Filed(Trashed)
  BY <1>2, ShownSame DEF Filed
<1>9. DueWhere'
  BY <1>2, <1>6, <1>7 DEF Held, DueWhere, ui, PageCalls
<1>10. PageInv'
  BY <1>2, <1>7, <1>8 DEF Held, PageInv, ui
<1>11. ViewInv'
  <2>1. Redrawn' = Redrawn
    BY <1>2 DEF Redrawn, ui
  <2>2. deleting' = deleting
    BY <1>2 DEF ui
  <2> QED BY <1>2, <1>7, <1>8, <2>1, <2>2 DEF Held, ViewInv, ui
<1> QED BY <1>2, <1>7, <1>9, <1>10, <1>11 DEF Held, NoCrash, ActsOnTapped, hist, P!Next

(* The answer to a query, and its way through the main queue. *)
LEMMA AnswerHeld ==
  ASSUME TypeOK, TypeOK', Held, Answer
  PROVE  Held'
<1>1. /\ Types /\ P!TypeOK /\ Len(calls) = Len(queue) /\ OneAtATime
      /\ calls \in Seq(Call) /\ calls' \in Seq(Call)
  BY TypeParts DEF Held, Types
<1>2. /\ asked > 0 /\ asked' = asked - 1 /\ UNCHANGED <<data, calls, ui, hist>>
      /\ \/ main' = Append(main, [kind |-> "docs", docs |-> Snapshot])
         \/ main' = Append(main, [kind |-> "failed"])
  BY DEF Answer
<1>3. Asking /\ Due = "query"
  BY <1>1, <1>2, OneIsUnderWay, DueIs
<1>4. PICK b : /\ b \in {[kind |-> "docs", docs |-> Snapshot], [kind |-> "failed"]}
               /\ main' = Append(<< >>, b)
  BY <1>2, <1>3 DEF Asking
<1>5. main' = <<b>> /\ main'[1] = b
  BY <1>4, OneElement
<1>6. HasBlock(b)'
  BY <1>2, <1>3, <1>5 DEF HasBlock, Asking, Silent, ui
<1>7. OneAtATime' /\ Due' = b.kind /\ b.kind \in {"docs", "failed"}
  BY <1>1, <1>4, <1>6, DueWillBe
<1>8. Snapshot' = Snapshot /\ Filed(Trashed)' = Filed(Trashed) /\ Redrawn' = Redrawn
  BY <1>2, ShownSame DEF data, Filed, ui, Redrawn
<1>9. DueWhere'
  BY <1>2, <1>3, <1>7 DEF Held, DueWhere, ui, PageCalls
<1>10. PageInv'
  BY <1>2, <1>3, <1>7, <1>8 DEF Held, PageInv, ui, data
<1>11. ViewInv'
  <2>1. b.kind = "docs" => main'[1].docs = Snapshot
    BY <1>4, <1>5
  <2>2. screen = "works" => lists = NoLists /\ ~enabled
                              /\ \A l \in DOMAIN rows \ Redrawn : rows[l] = Snapshot[l]
    BY <1>3 DEF Held, ViewInv
  <2> QED BY <1>2, <1>7, <1>8, <2>1, <2>2 DEF ViewInv, ui
<1> QED BY <1>2, <1>7, <1>9, <1>10, <1>11 DEF Held, NoCrash, ActsOnTapped, hist

LEMMA BlockFirst ==
  ASSUME TypeOK, Held, main # << >>
  PROVE  /\ Due = Head(main).kind /\ Tail(main) = << >> /\ main[1] = Head(main)
         /\ asked = 0 /\ deleting = << >> /\ Silent
         /\ Head(main).kind # "none" => alert = "none"
<1>1. /\ Types /\ P!TypeOK /\ Len(calls) = Len(queue) /\ OneAtATime /\ calls \in Seq(Call)
  BY TypeParts DEF Held, Types
<1>2. HasBlock(Head(main)) /\ Tail(main) = << >> /\ main[1] = Head(main)
  BY <1>1, OneIsUnderWay
<1>3. Due = Head(main).kind
  BY <1>1, <1>2, DueIs
<1> QED BY <1>2, <1>3 DEF HasBlock, Held, DueWhere

(* Blocks that start a fetch. *)
LEMMA FetchHeld ==
  ASSUME TypeOK, TypeOK', Held, RunTrashed \/ RunRestored \/ RunRemoved
  PROVE  Held'
<1> DEFINE auth == [kind |-> "auth"]
<1>1. /\ main # << >> /\ Head(main).kind \in {"trashed", "restored", "removed"}
      /\ lists' = NoLists /\ outcome' = "none"
      /\ main' \in {Append(Tail(main), auth), Append(WithoutPageCalls(Tail(main)), auth)}
      /\ UNCHANGED <<data, screen, rows, index, enabled, alert, deleting, asked, tapped>>
  BY DEF RunTrashed, RunRestored, RunRemoved, RunTrashAnswer, StartFetch, Runs
<1>2. /\ Due = Head(main).kind /\ Tail(main) = << >> /\ asked = 0 /\ deleting = << >> /\ Silent
      /\ alert = "none"
  BY <1>1, BlockFirst
<1>3. main' = <<auth>>
  <2>1. WithoutPageCalls(<< >>) = << >>
    BY ChosenEmpty DEF WithoutPageCalls
  <2> HIDE DEF auth
  <2> QED BY <1>1, <1>2, <2>1, OneElement
<1>4. calls' \in Seq(Call) /\ calls \in Seq(Call) /\ Len(calls) \in Nat /\ DOMAIN rows' = Names
  BY LenProperties, ListsAre DEF TypeOK
<1>5. Silent'
  <2>1. \/ calls' = calls
        \/ calls' = [i \in 1..Len(calls) |-> IF calls[i] \in PageCalls THEN "none" ELSE calls[i]]
    BY DEF RunTrashed, RunRestored, RunRemoved, RunTrashAnswer, ClosePage
  <2> QED BY <1>2, <1>4, <2>1 DEF Silent
<1>6. HasBlock(auth)'
  BY <1>1, <1>2, <1>3, <1>5 DEF HasBlock
<1>7. OneAtATime' /\ Due' = "auth"
  BY <1>4, <1>6, DueWillBe
<1>8. screen = "works"
  BY <1>1, <1>2 DEF Held, DueWhere, TypeOK
<1>9. UNCHANGED local /\ Snapshot' = Snapshot
  BY <1>1, ShownSame DEF data
<1>10. CASE RunTrashed
  <2>1. page' = NoPage /\ flags' = flags \cup {"backfromdetail", "movetotrash"}
    BY <1>10 DEF RunTrashed, ClosePage
  <2>2. page # NoPage
    BY <1>2, <1>10 DEF RunTrashed, Runs, Held, DueWhere, PageCalls
  <2>3. flags' = {"backfromdetail", "movetotrash"}
    BY <2>1, <2>2 DEF Held, PageInv
  <2>4. Redrawn' = Names
    BY <2>3, RedrawnWillBe
  <2>5. DueWhere' /\ PageInv'
    BY <1>1, <1>2, <1>7, <1>8, <2>1, <2>3 DEF DueWhere, PageInv, PageCalls
  <2>6. ViewInv'
    BY <1>1, <1>4, <1>7, <2>4 DEF ViewInv
  <2> QED BY <1>1, <1>7, <2>5, <2>6 DEF Held, NoCrash, ActsOnTapped
<1>11. CASE RunRestored \/ RunRemoved
  <2>1. page = NoPage /\ flags = {} /\ page' = page
    BY <1>2, <1>11 DEF RunRestored, RunRemoved, RunTrashAnswer, Runs, Held, DueWhere
  <2>2. PICK flag \in {"restoretrash", "removetrash"} :
          /\ flags' = {flag}
          /\ flag = "removetrash" => Due = "removed"
    BY <1>2, <1>11, <2>1 DEF RunRestored, RunRemoved, RunTrashAnswer, Runs
  <2>3. DueWhere' /\ PageInv'
    BY <1>1, <1>2, <1>7, <1>8, <2>1, <2>2 DEF DueWhere, PageInv, PageCalls
  <2>4. /\ rows.public = Snapshot.public
        /\ flag = "removetrash" => rows.private = Snapshot.private
    BY <1>1, <1>2, <1>8, <1>11, <2>2 DEF RunRestored, RunRemoved, RunTrashAnswer, Runs, Held, ViewInv
  <2>5. \A l \in DOMAIN rows' \ Redrawn' : rows'[l] = Snapshot'[l]
    BY <1>1, <1>4, <1>9, <2>2, <2>4, RedrawnWillBe DEF Names
  <2>6. ViewInv'
    BY <1>1, <1>7, <2>5 DEF ViewInv
  <2> QED BY <1>1, <1>7, <2>3, <2>6 DEF Held, NoCrash, ActsOnTapped
<1> QED BY <1>10, <1>11

(* Blocks after which nothing, or the query, is under way. *)
LEMMA ListenerHeld ==
  ASSUME TypeOK, TypeOK', Held, RunListener
  PROVE  Held'
<1>1. /\ main # << >> /\ Head(main).kind = "auth" /\ main' = Tail(main) /\ enabled' = FALSE
      /\ asked' = asked + 1 /\ outcome' = "none"
      /\ UNCHANGED <<data, calls, screen, lists, rows, flags, index, page, alert,
                     deleting, tapped, sweepable>>
  BY DEF RunListener, Runs
<1>2. /\ Due = "auth" /\ Tail(main) = << >> /\ asked = 0 /\ deleting = << >> /\ Silent
      /\ alert = "none"
  BY <1>1, BlockFirst
<1>3. Asking'
  BY <1>1, <1>2 DEF Asking, Silent
<1>4. OneAtATime' /\ Due' = "query"
  BY <1>3, DueWillBe DEF TypeOK
<1>5. screen = "works"
  BY <1>2 DEF Held, DueWhere, TypeOK
<1>6. Snapshot' = Snapshot /\ Filed(Trashed)' = Filed(Trashed) /\ Redrawn' = Redrawn
  BY <1>1, ShownSame DEF data, Filed, Redrawn
<1>7. DueWhere'
  BY <1>1, <1>2, <1>4, <1>5 DEF Held, DueWhere, PageCalls
<1>8. PageInv'
  BY <1>1, <1>2, <1>4, <1>6 DEF Held, PageInv, data
<1>9. ViewInv'
  BY <1>1, <1>2, <1>4, <1>5, <1>6 DEF Held, ViewInv
<1> QED BY <1>1, <1>4, <1>7, <1>8, <1>9 DEF Held, NoCrash, ActsOnTapped

LEMMA ResultHeld ==
  ASSUME TypeOK, TypeOK', Held, RunResult
  PROVE  Held'
<1>1. /\ main # << >> /\ Head(main).kind = "docs" /\ main' = Tail(main)
      /\ lists' = Appended(Head(main).docs)
      /\ rows' = [l \in DOMAIN rows |-> IF l \in Redrawn THEN lists'[l] ELSE rows[l]]
      /\ flags' = flags \ Cleared /\ enabled' = TRUE /\ outcome' = "none"
      /\ UNCHANGED <<data, calls, screen, index, page, alert, deleting, asked, tapped>>
  BY DEF RunResult, HandleResult, Runs
<1>2. /\ Due = "docs" /\ Tail(main) = << >> /\ main[1] = Head(main)
      /\ asked = 0 /\ deleting = << >> /\ Silent /\ alert = "none"
  BY <1>1, BlockFirst
<1>3. AtRest'
  BY <1>1, <1>2 DEF AtRest, Silent
<1>4. OneAtATime' /\ Due' = "none"
  BY <1>3, DueWillBe DEF TypeOK
<1>5. screen = "works"
  BY <1>2 DEF Held, DueWhere, TypeOK
<1>6. /\ lists = NoLists /\ Head(main).docs = Snapshot
      /\ \A l \in DOMAIN rows \ Redrawn : rows[l] = Snapshot[l]
  BY <1>2, <1>5 DEF Held, ViewInv
<1>7. /\ rows \in Lists /\ rows' \in Lists /\ lists' \in Lists /\ DOMAIN NoLists = Names
      /\ \A l \in Names : NoLists[l] = << >> /\ Snapshot[l] \in Seq(Work)
  BY SnapshotTyped, ListsAre DEF TypeOK, NoLists, Names
<1>8. lists' = Snapshot
  <2>1. lists' = [l \in Names |-> << >> \o Snapshot[l]]
    BY <1>1, <1>6, <1>7 DEF Appended
  <2>2. \A l \in Names : << >> \o Snapshot[l] = Snapshot[l]
    BY <1>7, ConcatEmptySeq
  <2>3. Snapshot = [l \in Names |-> Snapshot[l]]
    BY SnapshotTyped, ListsAre
  <2> QED BY <2>1, <2>2, <2>3
<1>9. rows' = lists'
  <2>1. rows' = [l \in Names |-> Snapshot[l]]
    BY <1>1, <1>6, <1>7, <1>8, ListsAre
  <2>2. Snapshot = [l \in Names |-> Snapshot[l]]
    BY SnapshotTyped, ListsAre
  <2> QED BY <1>8, <2>1, <2>2
<1>10. flags' = {}
  <2>1. flags \in {{}, {"backfromdetail"}, {"backfromdetail", "movetotrash"},
                   {"restoretrash"}, {"removetrash"}}
    BY DEF Held, DueWhere
  <2> QED BY <1>1, <2>1 DEF Cleared
<1>11. Snapshot' = Snapshot /\ Filed(Trashed)' = Filed(Trashed)
  BY <1>1, ShownSame DEF data, Filed
<1>12. DueWhere'
  BY <1>1, <1>2, <1>4, <1>5, <1>10 DEF DueWhere, PageCalls
<1>13. PageInv'
  BY <1>1, <1>2, <1>8, <1>9, <1>10, <1>11 DEF Held, PageInv, data
<1>14. ViewInv'
  BY <1>4, <1>8, <1>9, <1>10, <1>11 DEF ViewInv
<1> QED BY <1>1, <1>4, <1>12, <1>13, <1>14 DEF Held, NoCrash, ActsOnTapped

LEMMA QuietBlocksHeld ==
  ASSUME TypeOK, TypeOK', Held,
         RunFailure \/ RunPageView("published") \/ RunPageView("withdrawn")
  PROVE  Held'
<1>1. /\ main # << >> /\ Head(main).kind \in {"failed", "published", "withdrawn"}
      /\ main' = Tail(main) /\ outcome' = "none"
      /\ UNCHANGED <<data, calls, screen, lists, rows, flags, index, enabled,
                     alert, deleting, asked, tapped, sweepable>>
  BY DEF RunFailure, RunPageView, Runs, ui
<1>2. /\ Due = Head(main).kind /\ Tail(main) = << >>
      /\ asked = 0 /\ deleting = << >> /\ Silent /\ alert = "none"
  BY <1>1, BlockFirst
<1>3. AtRest'
  BY <1>1, <1>2 DEF AtRest, Silent
<1>4. OneAtATime' /\ Due' = "none"
  BY <1>3, DueWillBe DEF TypeOK
<1>5. screen = "works"
  BY <1>1, <1>2 DEF Held, DueWhere, TypeOK
<1>6. Snapshot' = Snapshot /\ Filed(Trashed)' = Filed(Trashed)
  BY <1>1, ShownSame DEF data, Filed
<1>7. \/ page' = page /\ Due = "failed"
      \/ /\ page # NoPage /\ page' # NoPage /\ page'.work = page.work
         /\ Due \in {"published", "withdrawn"}
  <2>1. CASE RunFailure
    BY <1>2, <2>1 DEF RunFailure, Runs, ui
  <2>2. CASE RunPageView("published") \/ RunPageView("withdrawn")
    <3>1. PICK kind \in {"published", "withdrawn"} : RunPageView(kind)
      BY <2>2
    <3>2. Due = kind
      BY <1>2, <3>1 DEF RunPageView, Runs
    <3>3. page # NoPage
      BY <3>2 DEF Held, DueWhere, PageCalls
    <3>4. PICK shown \in BOOLEAN : shown = (kind = "published")
      OBVIOUS
    <3>5. page' = [page EXCEPT !.published = shown] /\ page \in [work: Work, published: BOOLEAN]
      BY <3>1, <3>3, <3>4 DEF RunPageView, TypeOK
    <3>6. page' \in [work: Work, published: BOOLEAN] /\ page'.work = page.work
      BY <3>5
    <3> QED BY <3>2, <3>3, <3>6, NoPageAssumption
  <2> QED BY <2>1, <2>2
<1>8. DueWhere'
  BY <1>1, <1>2, <1>4, <1>5 DEF Held, DueWhere, PageCalls
<1>9. PageInv'
  BY <1>1, <1>6, <1>7 DEF Held, PageInv, data
<1>10. ViewInv'
  <2>1. CASE Due = "failed"
    BY <1>1, <1>4, <1>5, <2>1 DEF Held, ViewInv
  <2>2. CASE page' # NoPage
    BY <1>4, <2>2 DEF ViewInv
  <2> QED BY <1>7, <2>1, <2>2
<1> QED BY <1>1, <1>4, <1>8, <1>9, <1>10 DEF Held, NoCrash, ActsOnTapped

LEMMA StutterHeld ==
  ASSUME Held, UNCHANGED vars
  PROVE  Held'
<1>1. UNCHANGED <<data, calls, ui, main, asked, hist>>
  BY DEF vars
<1>2. Due' = Due /\ Snapshot' = Snapshot /\ Filed(Trashed)' = Filed(Trashed) /\ Redrawn' = Redrawn
  BY <1>1, ShownSame DEF Due, data, ui, Filed, Redrawn
<1>3. OneAtATime'
  BY <1>1 DEF Held, OneAtATime, data, ui
<1>4. DueWhere'
  BY <1>1, <1>2 DEF Held, DueWhere, data, ui, hist
<1>5. PageInv'
  BY <1>1, <1>2 DEF Held, PageInv, data, ui
<1>6. ViewInv'
  BY <1>1, <1>2 DEF Held, ViewInv, ui
<1> QED BY <1>1, <1>3, <1>4, <1>5, <1>6 DEF Held, NoCrash, ActsOnTapped, hist

LEMMA HeldInit == Init => Held
<1> SUFFICES ASSUME Init PROVE Held
  OBVIOUS
<1>1. /\ calls = << >> /\ main = << >> /\ asked = 0 /\ deleting = << >>
      /\ screen = "canvas" /\ page = NoPage /\ alert = "none" /\ flags = {} /\ outcome = "none"
  BY DEF Init
<1>2. calls \in Seq(Call) /\ Len(calls) = 0
  BY <1>1, EmptySeq
<1>3. AtRest
  BY <1>1, <1>2 DEF AtRest, Silent
<1>4. OneAtATime /\ Due = "none"
  BY <1>2, <1>3, DueIs
<1>5. DueWhere /\ PageInv /\ ViewInv
  BY <1>1, <1>4 DEF DueWhere, PageInv, ViewInv, PageCalls
<1> QED BY <1>1, <1>4, <1>5 DEF Held, NoCrash, ActsOnTapped

LEMMA CarefulStep ==
  Careful => (TypeOK /\ PageAnswers /\ PP!IInv /\ Held /\ [Next]_vars =>
                /\ TypeOK' /\ PageAnswers' /\ PP!IInv' /\ Held'
                /\ [P!Next]_(P!vars))
<1> SUFFICES ASSUME Careful, TypeOK, PageAnswers, PP!IInv, Held, [Next]_vars
             PROVE  /\ TypeOK' /\ PageAnswers' /\ PP!IInv' /\ Held'
                    /\ P!Next \/ UNCHANGED data
  BY DEF P!vars, data
<1>1. TypeOK' /\ PageAnswers'
  BY StepTyped, PageAnswersStay
<1>2. SUFFICES Held' /\ (P!Next \/ UNCHANGED data)
  BY <1>1, OwnerStays
<1>3. CASE OpenWorks \/ RunSaved
  <2>1. /\ Reset /\ outcome' = "none" /\ screen' = "works" /\ StartFetch(<< >>)
    BY <1>3 DEF OpenWorks, RunSaved
  <2> QED BY <1>1, <2>1, FreshHeld DEF Reset
<1>4. CASE Leave \/ Restart
  BY <1>1, <1>4, LeftHeld DEF Leave, Restart, Reset
<1>5. ASSUME NEW w \in Work, SaveDrawing(w) PROVE Held' /\ P!Next
  BY <1>1, <1>5, SaveHeld DEF SaveDrawing, P!Next, P!OwnerStep
<1>6. CASE OpenPage("private") \/ OpenPage("public") \/ TapTrashRow \/ CancelAlert
             \/ ChooseRemove \/ TapTrashAll
  <2>1. UNCHANGED data
    BY <1>6 DEF OpenPage, TapTrashRow, CancelAlert, ChooseRemove, TapTrashAll
  <2> QED BY <1>1, <1>6, <2>1, TapsHeld
<1>7. CASE PressPublish \/ PressRemovePublished \/ PressDelete
  BY <1>1, <1>7, PageHeld
<1>8. CASE EdgePan
  BY <1>8 DEF EdgePan
<1>9. CASE DragDown
  BY <1>1, <1>9, DragHeld DEF DragDown
<1>10. CASE ChooseRestore \/ ConfirmRemove
  BY <1>1, <1>10, TrashHeld
<1>11. CASE ConfirmTrashAll \/ DeleteNext
  BY <1>1, <1>11, SweepHeld
<1>12. CASE Deliver
  BY <1>1, <1>12, DeliverHeld
<1>13. CASE Answer
  BY <1>1, <1>13, AnswerHeld DEF Answer
<1>14. CASE RunTrashed \/ RunRestored \/ RunRemoved
  <2>1. UNCHANGED data
    BY <1>14 DEF RunTrashed, RunRestored, RunRemoved, RunTrashAnswer
  <2> QED BY <1>1, <1>14, <2>1, FetchHeld
<1>15. CASE RunListener \/ RunResult
  <2>1. UNCHANGED data
    BY <1>15 DEF RunListener, RunResult, HandleResult
  <2> QED BY <1>1, <1>15, <2>1, ListenerHeld, ResultHeld
<1>16. CASE RunFailure \/ RunPageView("published") \/ RunPageView("withdrawn")
  <2>1. UNCHANGED data
    BY <1>16 DEF RunFailure, RunPageView
  <2> QED BY <1>1, <1>16, <2>1, QuietBlocksHeld
<1>17. CASE UNCHANGED vars
  BY <1>17, StutterHeld DEF vars
<1> QED BY <1>3, <1>4, <1>5, <1>6, <1>7, <1>8, <1>9, <1>10, <1>11, <1>12, <1>13, <1>14,
           <1>15, <1>16, <1>17 DEF Next, User, MainQueue

LEMMA CarefulAlways ==
  Careful => (Spec => [](TypeOK /\ PageAnswers /\ PP!IInv /\ Held) /\ [][P!Next]_(P!vars))
<1> DEFINE Inv == TypeOK /\ PageAnswers /\ PP!IInv /\ Held
<1> SUFFICES ASSUME Careful PROVE Spec => []Inv /\ [][P!Next]_(P!vars)
  OBVIOUS
<1>1. Init => Inv
  BY InitTyped, OwnerInit, HeldInit DEF Init
<1>2. Inv /\ [Next]_vars => Inv' /\ [P!Next]_(P!vars)
  BY CarefulStep
<1> QED BY <1>1, <1>2, PTL DEF Spec

(* For a user who waits, one thing at a time is under way, a view that is  *)
(* out of date is redrawn by the result that is due, and what a page or an *)
(* alert is about is where the owner's client says it is.                  *)
THEOREM CarefulInvariance == Careful => (Spec => []CarefulInv)
<1> SUFFICES ASSUME Careful PROVE Spec => []CarefulInv
  OBVIOUS
<1>1. TypeOK /\ PageAnswers /\ PP!IInv /\ Held => CarefulInv
  BY SameInv DEF CarefulInv, Held
<1>2. Spec => [](TypeOK /\ PageAnswers /\ PP!IInv /\ Held)
  BY CarefulAlways
<1> QED BY <1>1, <1>2, PTL

(* No handler reads a row its list does not have, if the user waits until  *)
(* nothing is under way: the app never stops there.                        *)
THEOREM RowsExist == Careful => (Spec => []NoCrash)
<1> SUFFICES ASSUME Careful PROVE Spec => []NoCrash
  OBVIOUS
<1>1. CarefulInv => NoCrash
  BY DEF CarefulInv
<1>2. Spec => []CarefulInv
  BY CarefulInvariance
<1> QED BY <1>1, <1>2, PTL

(* What the handlers open, restore and remove is what such a user tapped,  *)
(* although they look it up by its row in a list that is emptied and       *)
(* filled again by every fetch.                                            *)
THEOREM TapsAreMeant == Careful => (Spec => []ActsOnTapped)
<1> SUFFICES ASSUME Careful PROVE Spec => []ActsOnTapped
  OBVIOUS
<1>1. CarefulInv => ActsOnTapped
  BY DEF CarefulInv
<1>2. Spec => []CarefulInv
  BY CarefulInvariance
<1> QED BY <1>1, <1>2, PTL

(* Whenever nothing is under way on a screen such a user can touch, its    *)
(* lists and its three views are what the owner has, though each fetch     *)
(* redraws only the views its flags name.                                  *)
THEOREM ScreenIsCurrent == Careful => (Spec => []ShowsWhatIs)
<1> SUFFICES ASSUME Careful PROVE Spec => []ShowsWhatIs
  OBVIOUS
<1>1. TypeOK /\ Held => ShowsWhatIs
  <2> SUFFICES ASSUME TypeOK, Held, OnWorks, Quiet, deleting = << >>
               PROVE  lists = Snapshot /\ rows = lists
    BY DEF ShowsWhatIs
  <2>1. /\ Types /\ P!TypeOK /\ Len(calls) = Len(queue) /\ OneAtATime /\ calls \in Seq(Call)
    BY TypeParts DEF Held, Types
  <2>2. Due = "none"
    BY <2>1, OneIsUnderWay, DueIs
  <2> QED BY <2>2 DEF Held, ViewInv, OnWorks
<1>2. Spec => [](TypeOK /\ PageAnswers /\ PP!IInv /\ Held)
  BY CarefulAlways
<1> QED BY <1>1, <1>2, PTL

(* Each step of the screen is a step of the publication, or none: every    *)
(* write such a user makes it issue is one that module allows, so what is  *)
(* proved of publishing and withdrawing holds of the screen.               *)
THEOREM WritesArePublications == Careful => (Spec => ImplementsPublication)
<1> SUFFICES ASSUME Careful PROVE Spec => ImplementsPublication
  OBVIOUS
<1>1. Init => P!Init
  BY DEF Init
<1>2. Spec => [][P!Next]_(P!vars)
  BY CarefulAlways
<1> QED BY <1>1, <1>2, PTL DEF Spec, ImplementsPublication
=============================================================================
