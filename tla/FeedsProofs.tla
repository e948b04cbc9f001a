---------------------------- MODULE FeedsProofs ----------------------------
(* Proofs about Feeds, for any finite set of works and any bounds.  The    *)
(* owner's side is taken from the proofs about Publication.                *)
EXTENDS Feeds, SequenceTheorems, FiniteSetTheorems, TLAPS

PP == INSTANCE PublicationProofs

(* The list of a set of works has no other elements, and each once. *)
LEMMA ListOf ==
  ASSUME NEW S \in SUBSET Work
  PROVE  /\ SetToSeq(S) \in Seq(S)
         /\ \A i \in 1..Len(SetToSeq(S)) : SetToSeq(S)[i] \in S
         /\ IsInjective(SetToSeq(S))
<1>1. IsFiniteSet(S)
  BY WorkAssumption, FS_Subset
<1>2. Cardinality(S) \in Nat /\ ExistsBijection(1..Cardinality(S), S)
  BY <1>1, FS_CardinalityType
<1>3. \E f \in [1..Cardinality(S) -> S] : IsInjective(f)
  BY <1>2 DEF ExistsBijection, Bijection, Injection
<1>4. SetToSeq(S) \in [1..Cardinality(S) -> S] /\ IsInjective(SetToSeq(S))
  BY <1>3 DEF SetToSeq
<1>5. SetToSeq(S) \in Seq(S)
  BY <1>2, <1>4
<1> QED BY <1>4, <1>5, ElementOfSeq

(* A read that is answered leaves the others. *)
LEMMA Without ==
  ASSUME reading \in Seq(Work), NEW i \in 1..Len(reading)
  PROVE  /\ RemoveAt(reading, i) \in Seq(Work)
         /\ Len(RemoveAt(reading, i)) = Len(reading) - 1
         /\ \A j \in 1..Len(reading)-1 : \E k \in 1..Len(reading) : RemoveAt(reading, i)[j] = reading[k]
<1> DEFINE a == SubSeq(reading, 1, i-1)
           b == SubSeq(reading, i+1, Len(reading))
           n == Len(reading)
<1>1. n \in Nat /\ \A k \in 1..n : reading[k] \in Work
  BY ElementOfSeq
<1>2. /\ a \in Seq(Work) /\ Len(a) = i - 1
      /\ \A k \in 1..i-1 : a[k] = reading[k]
  <2>1. \A k \in 1..i-1 : reading[k] \in Work
    BY <1>1
  <2>2. /\ a \in Seq(Work) /\ Len(a) = IF 1 <= i-1 THEN (i-1)-1+1 ELSE 0
        /\ \A k \in 1..(i-1)-1+1 : a[k] = reading[1+k-1]
    BY <1>1, <2>1, SubSeqProperties
  <2> HIDE DEF a
  <2> QED BY <1>1, <2>2
<1>3. /\ b \in Seq(Work) /\ Len(b) = n - i
      /\ \A k \in 1..n-i : b[k] = reading[i+k]
  <2>1. \A k \in i+1..n : reading[k] \in Work
    BY <1>1
  <2>2. /\ b \in Seq(Work) /\ Len(b) = IF i+1 <= n THEN n-(i+1)+1 ELSE 0
        /\ \A k \in 1..n-(i+1)+1 : b[k] = reading[(i+1)+k-1]
    BY <1>1, <2>1, SubSeqProperties
  <2> HIDE DEF b
  <2> QED BY <1>1, <2>2
<1> HIDE DEF a, b
<1>4. /\ a \o b \in Seq(Work) /\ Len(a \o b) = n - 1
      /\ \A j \in 1..n-1 : (a \o b)[j] = IF j <= i-1 THEN a[j] ELSE b[j-(i-1)]
  <2>1. /\ a \o b \in Seq(Work) /\ Len(a \o b) = Len(a) + Len(b)
        /\ \A j \in 1..Len(a)+Len(b) :
             (a \o b)[j] = IF j <= Len(a) THEN a[j] ELSE b[j-Len(a)]
    BY <1>2, <1>3, ConcatProperties
  <2>2. Len(a) = i-1 /\ Len(b) = n-i /\ Len(a)+Len(b) = n-1
    BY <1>1, <1>2, <1>3
  <2> QED BY <2>1, <2>2
<1>5. ASSUME NEW j \in 1..n-1 PROVE \E k \in 1..n : (a \o b)[j] = reading[k]
  <2>0. j <= i-1 \/ j > i-1
    BY <1>1
  <2>1. CASE j <= i-1
    BY <1>1, <1>2, <1>4, <2>1
  <2>2. CASE j > i-1
    <3>1. j-(i-1) \in 1..n-i /\ i+(j-(i-1)) = j+1 /\ j+1 \in 1..n
      BY <1>1, <2>2
    <3>2. (a \o b)[j] = b[j-(i-1)]
      BY <1>1, <1>4, <2>2
    <3>3. b[j-(i-1)] = reading[i+(j-(i-1))]
      BY <1>3, <3>1
    <3> QED BY <3>1, <3>2, <3>3
  <2> QED BY <2>0, <2>1, <2>2
<1> QED BY <1>4, <1>5 DEF RemoveAt, a, b

(* The head of a queue, and what is left of it. *)
LEMMA HeadAndTail ==
  ASSUME NEW S, NEW s \in Seq(S), s # << >>
  PROVE  /\ Head(s) \in S /\ Head(s) = s[1] /\ 1 \in 1..Len(s)
         /\ Tail(s) \in Seq(S) /\ Len(Tail(s)) = Len(s) - 1
         /\ \A i \in 1..Len(s)-1 : i+1 \in 1..Len(s) /\ Tail(s)[i] = s[i+1]
<1>1. Len(s) \in Nat \ {0}
  BY EmptySeq
<1> QED BY <1>1, HeadTailProperties

-----------------------------------------------------------------------------
(* The owner's side, as proved in PublicationProofs. *)
LEMMA Assumed == PP!NoDocAssumption /\ PP!MaxQueueAssumption
BY NoDocAssumption, MaxQueueAssumption
   DEF PP!NoDocAssumption, PP!MaxQueueAssumption, PP!WorkDoc, WorkDoc,
       PP!Trashed, PP!Private, PP!Public, PP!Unset,
       Trashed, Private, Public, Unset

LEMMA OwnerInit == P!Init => PP!IInv
<1>1. P!Init => PP!Init
  BY DEF P!Init, PP!Init, P!Absent, PP!Absent
<1> QED BY <1>1, Assumed, PP!InitInv

LEMMA OwnerNext == P!Next => PP!Next
BY DEF P!Next, PP!Next, P!OwnerStep, PP!OwnerStep, P!Create, PP!Create,
       P!Publish, PP!Publish, P!Unpublish, PP!Unpublish, P!Trash, PP!Trash,
       P!Rename, PP!Rename, P!SaveEdits, PP!SaveEdits,
       P!Restore, PP!Restore, P!Remove, PP!Remove, P!Deliver, PP!Deliver,
       P!Write, PP!Write, P!WriteBoth, PP!WriteBoth, P!Pending, PP!Pending,
       P!OnPage, PP!OnPage, P!InTrashList, PP!InTrashList,
       P!Effect, PP!Effect, P!Accepted, PP!Accepted, P!Merge, PP!Merge,
       P!Update, PP!Update, P!Drawing, PP!Drawing, P!Trashed, PP!Trashed,
       P!Private, PP!Private, P!Public, PP!Public, P!Unset, PP!Unset

LEMMA SameSeen ==
  /\ \A w : P!Gone(w) <=> PP!Gone(w)
  /\ \A w : P!Seen(w) <=> PP!Seen(w)
BY DEF P!Gone, PP!Gone, P!Seen, PP!Seen, P!Readable, PP!Readable

LEMMA OwnerStays ==
  ASSUME PP!IInv, P!Next \/ UNCHANGED data
  PROVE  /\ PP!IInv'
         /\ \A w \in Work : /\ P!Seen(w) => P!Seen(w)'
                            /\ P!Gone(w) => P!Gone(w)'
                            /\ cloud'[w].posted => P!Seen(w)'
<1>1. [PP!Next]_(PP!vars)
  BY OwnerNext DEF PP!vars, data
<1>2. PP!IInv'
  BY <1>1, Assumed, PP!StepInv
<1>3. \A w \in Work : (PP!Seen(w) => PP!Seen(w)') /\ (PP!Gone(w) => PP!Gone(w)')
  BY <1>1, Assumed, PP!SeenStays
<1>4. \A w \in Work : cloud'[w].posted => PP!Seen(w)'
  <2>1. PP!IInv' => (\A w \in Work : cloud[w].posted => PP!Seen(w))'
    BY Assumed, PP!PostedIsSeen, PTL
  <2> QED BY <1>2, <2>1
<1>5. \A w : (P!Gone(w)' <=> PP!Gone(w)') /\ (P!Seen(w)' <=> PP!Seen(w)')
  BY DEF P!Gone, PP!Gone, P!Seen, PP!Seen, P!Readable, PP!Readable
<1> QED BY <1>2, <1>3, <1>4, <1>5, SameSeen

LEMMA OwnerTypes == PP!IInv => P!TypeOK
BY DEF PP!IInv, PP!TypeOK, P!TypeOK, PP!Mutation, P!Mutation, PP!WorkState, P!WorkState,
       PP!WorkDoc, P!WorkDoc, PP!Op, P!Op, PP!Trashed, PP!Private, PP!Public, PP!Unset,
       P!Trashed, P!Private, P!Public, P!Unset

-----------------------------------------------------------------------------
(* The types of the screen's own variables. *)
Types ==
  /\ enabled \in BOOLEAN
  /\ publicWorks \in Seq(Work) /\ reading \in Seq(Work)
  /\ {target, curr, card} \subseteq Work \cup {NoWork}
  /\ swipes \in Seq({"like", "pass"})
  /\ rising \in Nat /\ listing \in Nat
  /\ main \in Seq(Block)
  /\ hasty \in BOOLEAN

LEMMA TypeParts == PP!IInv => (TypeOK <=> Types)
BY OwnerTypes DEF TypeOK, Types

(* What the blocks of the main queue carry. *)
LEMMA BlockParts ==
  ASSUME NEW b \in Block
  PROVE  /\ b.kind \in {"list", "work", "failed"}
         /\ b.kind = "list" => b.works \subseteq Work
         /\ b.kind = "work" => b.work \in Work /\ b.found \in BOOLEAN
BY DEF Block

LEMMA Blocks ==
  /\ [kind |-> "failed"] \in Block
  /\ \A S \in SUBSET Work : [kind |-> "list", works |-> S] \in Block
  /\ \A w \in Work, f \in BOOLEAN : [kind |-> "work", work |-> w, found |-> f] \in Block
BY DEF Block

LEMMA TypesStay == Types /\ [Next]_vars => Types'
<1> SUFFICES ASSUME Types, [Next]_vars PROVE Types'
  OBVIOUS
<1>0. /\ enabled \in BOOLEAN /\ rising \in Nat /\ listing \in Nat
      /\ {target, curr, card} \subseteq Work \cup {NoWork}
      /\ publicWorks \in Seq(Work) /\ reading \in Seq(Work)
      /\ swipes \in Seq({"like", "pass"}) /\ main \in Seq(Block)
      /\ hasty \in BOOLEAN
  BY DEF Types
<1>1. ASSUME NEW kind \in {"like", "pass"}, Swipe(kind) PROVE Types'
  <2>1. swipes' \in Seq({"like", "pass"})
    BY <1>0, <1>1 DEF Swipe
  <2>2. hasty' \in BOOLEAN
    BY <1>0, <1>1 DEF Swipe, Haste
  <2> QED BY <1>0, <1>1, <2>1, <2>2 DEF Types, Swipe, net
<1>2. CASE SwipeEnds \/ SwipeBreaks
  <2>1. swipes # << >> /\ swipes' = Tail(swipes)
    BY <1>2 DEF SwipeEnds, SwipeBreaks
  <2>2. swipes' \in Seq({"like", "pass"})
    BY <1>0, <2>1
  <2>3. publicWorks' \in Seq(Work) /\ listing' \in Nat
    <3>1. CASE SwipeEnds
      <4>1. publicWorks' = << >> /\ listing' = listing + 1
        BY <3>1 DEF SwipeEnds
      <4> QED BY <1>0, <4>1, EmptySeq
    <3>2. CASE SwipeBreaks
      BY <1>0, <3>2 DEF SwipeBreaks, net
    <3> QED BY <1>2, <3>1, <3>2
  <2> QED BY <1>0, <1>2, <2>2, <2>3 DEF Types, SwipeEnds, SwipeBreaks, net
<1>3. CASE AnswerList
  <2>1. Entries \in SUBSET Work
    BY DEF Entries
  <2>2. PICK b \in Block : main' = Append(main, b)
    BY <1>3, <2>1, Blocks DEF AnswerList, Failed
  <2>3. main' \in Seq(Block)
    BY <1>0, <2>2
  <2>4. listing' \in Nat
    BY <1>0, <1>3 DEF AnswerList
  <2> QED BY <1>0, <1>3, <2>3, <2>4 DEF Types, AnswerList, feed
<1>4. CASE AnswerRead
  <2>1. PICK i \in 1..Len(reading) :
          /\ reading' = RemoveAt(reading, i)
          /\ \/ main' = Append(main, [kind |-> "work", work |-> reading[i],
                                      found |-> Readable(cloud[reading[i]])])
             \/ Failed
    BY <1>4 DEF AnswerRead
  <2>2. reading[i] \in Work /\ Readable(cloud[reading[i]]) \in BOOLEAN
    BY <1>0, <2>1, ElementOfSeq DEF Readable
  <2>3. PICK b \in Block : main' = Append(main, b)
    BY <2>1, <2>2, Blocks DEF Failed
  <2>4. main' \in Seq(Block)
    BY <1>0, <2>3
  <2>5. reading' \in Seq(Work)
    BY <1>0, <2>1, Without
  <2> QED BY <1>0, <1>4, <2>4, <2>5 DEF Types, AnswerRead, feed
<1>5. ASSUME main # << >>, main' = Tail(main)
      PROVE  main' \in Seq(Block) /\ Head(main) \in Block
  BY <1>0, <1>5, HeadTailProperties
<1>6. ASSUME NEW w \in Work, NEW works, UpdateData(w, works)
      PROVE  target' \in Work \cup {NoWork} /\ reading' \in Seq(Work)
  <2>1. Append(reading, w) \in Seq(Work)
    BY <1>0
  <2> QED BY <1>0, <1>6, <2>1 DEF UpdateData
<1>7. ASSUME NEW w \in Work, RunList(w) PROVE Types'
  <2>1. /\ main # << >> /\ main' = Tail(main) /\ Head(main).kind = "list"
        /\ publicWorks' = publicWorks \o SetToSeq(Head(main).works)
        /\ UpdateData(w, publicWorks')
    BY <1>7 DEF RunList, Runs
  <2>2. Head(main).works \subseteq Work
    BY <1>5, <2>1, BlockParts
  <2>3. SetToSeq(Head(main).works) \in Seq(Work)
    BY <2>2, ListOf, SeqMonotonic
  <2>4. publicWorks' \in Seq(Work)
    BY <1>0, <2>1, <2>3, ConcatProperties
  <2>5. target' \in Work \cup {NoWork} /\ reading' \in Seq(Work)
    BY <1>6, <2>1
  <2> QED BY <1>0, <1>5, <1>7, <2>1, <2>4, <2>5 DEF Types, RunList
<1>8. ASSUME NEW w \in Work, RunSame(w) PROVE Types'
  <2>1. main # << >> /\ main' = Tail(main) /\ UpdateData(w, publicWorks)
    BY <1>8 DEF RunSame, Runs
  <2>2. target' \in Work \cup {NoWork} /\ reading' \in Seq(Work)
    BY <1>6, <2>1
  <2> QED BY <1>0, <1>5, <1>8, <2>1, <2>2 DEF Types, RunSame
<1>9. CASE RunMissing \/ RunFailure
  <2>1. main # << >> /\ main' = Tail(main)
    BY <1>9 DEF RunMissing, RunFailure, Runs
  <2> QED BY <1>0, <1>5, <1>9, <2>1 DEF Types, RunMissing, RunFailure, feed
<1>10. CASE RunCard
  <2>1. main # << >> /\ main' = Tail(main) /\ Head(main).kind = "work"
    BY <1>10 DEF RunCard, Runs
  <2>2. Head(main).work \in Work
    BY <1>5, <2>1, BlockParts
  <2>3. rising' \in Nat
    BY <1>0, <1>10 DEF RunCard
  <2> QED BY <1>0, <1>5, <1>10, <2>1, <2>2, <2>3 DEF Types, RunCard
<1>11. CASE CardIsUp
  <2>1. rising' \in Nat
    BY <1>0, <1>11 DEF CardIsUp
  <2> QED BY <1>0, <1>11, <2>1 DEF Types, CardIsUp, net
<1>12. CASE OwnerStep
  BY <1>0, <1>12 DEF Types, OwnerStep, feed, net
<1>13. CASE UNCHANGED vars
  BY <1>0, <1>13 DEF Types, vars, feed, net
<1> QED BY <1>1, <1>2, <1>3, <1>4, <1>7, <1>8, <1>9, <1>10, <1>11, <1>12, <1>13
        DEF Next, MainQueue

-----------------------------------------------------------------------------
(* All that is on the way to the screen was on display. *)
Known == {w \in Work : P!Seen(w)}

LEMMA HeardStays ==
  ASSUME PP!IInv, Types, Heard, [Next]_vars
  PROVE  Heard'
<1>0. /\ publicWorks \in Seq(Work) /\ reading \in Seq(Work) /\ main \in Seq(Block)
  BY DEF Types
<1>1. /\ {w \in Work : cloud[w].posted} \subseteq Known
      /\ \A i \in 1..Len(publicWorks) : publicWorks[i] \in Known
      /\ \A i \in 1..Len(reading) : reading[i] \in Known
  <2>1. \A w \in Work : cloud[w].posted => P!Seen(w)
    BY Assumed, PP!PostedIsSeen, SameSeen
  <2>2. \A i \in 1..Len(publicWorks) : publicWorks[i] \in Work
    BY <1>0, ElementOfSeq
  <2>3. \A i \in 1..Len(reading) : reading[i] \in Work
    BY <1>0, ElementOfSeq
  <2> QED BY <2>1, <2>2, <2>3 DEF Heard, Known
<1> DEFINE Kept(b, heard) ==
      /\ b.kind = "list" => b.works \subseteq heard
      /\ b.kind = "work" /\ ~b.found => P!Gone(b.work)
<1>2. \A i \in 1..Len(main) : Kept(main[i], Known)
  <2>1. \A i \in 1..Len(main) : main[i] \in Block
    BY <1>0, ElementOfSeq
  <2>2. ASSUME NEW i \in 1..Len(main), main[i].kind = "list" PROVE main[i].works \subseteq Known
    BY <2>1, <2>2, BlockParts DEF Heard, Known
  <2> QED BY <2>2 DEF Heard
<1>3. ASSUME UNCHANGED data,
             \A i \in 1..Len(publicWorks') : publicWorks'[i] \in Known,
             \A i \in 1..Len(reading') : reading'[i] \in Known,
             \A i \in 1..Len(main') : Kept(main'[i], Known)
      PROVE  Heard'
  <2>1. \A w : (P!Seen(w)' <=> P!Seen(w)) /\ (P!Gone(w)' <=> P!Gone(w))
    BY <1>3 DEF data, P!Seen, P!Gone, P!Readable
  <2> QED BY <1>3, <2>1 DEF Heard, Known
<1>4. ASSUME NEW b, b \in Block, Kept(b, Known), main' = Append(main, b)
      PROVE  \A i \in 1..Len(main') : Kept(main'[i], Known)
  <2>1. /\ Len(main') = Len(main) + 1 /\ Len(main) \in Nat
        /\ main'[Len(main) + 1] = b
        /\ \A i \in 1..Len(main) : main'[i] = main[i]
    BY <1>0, <1>4, AppendProperties
  <2> HIDE DEF Kept
  <2> QED BY <1>2, <1>4, <2>1
<1>5. ASSUME main # << >>, main' = Tail(main)
      PROVE  /\ \A i \in 1..Len(main') : Kept(main'[i], Known)
             /\ Kept(Head(main), Known) /\ Head(main) \in Block
  <2>0. /\ Head(main) \in Block /\ Head(main) = main[1] /\ 1 \in 1..Len(main)
        /\ Len(Tail(main)) = Len(main) - 1
        /\ \A i \in 1..Len(main)-1 : i+1 \in 1..Len(main) /\ Tail(main)[i] = main[i+1]
    <3>1. /\ Head(main) \in Block /\ Len(Tail(main)) = Len(main) - 1
          /\ \A i \in 1..Len(Tail(main)) : Tail(main)[i] = main[i+1]
      BY <1>0, <1>5, HeadTailProperties
    <3>2. Len(main) \in Nat \ {0}
      BY <1>0, <1>5, EmptySeq
    <3> QED BY <3>1, <3>2
  <2>1. /\ Head(main) \in Block /\ Head(main) = main[1] /\ 1 \in 1..Len(main)
        /\ Len(main') = Len(main) - 1
        /\ \A i \in 1..Len(main)-1 : i+1 \in 1..Len(main) /\ main'[i] = main[i+1]
    BY <1>5, <2>0
  <2> HIDE DEF Kept
  <2> QED BY <1>2, <2>1
<1>6. ASSUME NEW w \in Work, NEW works, UpdateData(w, works),
             \A i \in 1..Len(works) : works[i] \in Known, works \in Seq(Work)
      PROVE  \A i \in 1..Len(reading') : reading'[i] \in Known
  <2>1. CASE works = << >>
    BY <1>1, <1>6, <2>1 DEF UpdateData
  <2>2. CASE works # << >>
    <3>1. target' = w /\ reading' = Append(reading, w) /\ w \in ToSet(works)
      BY <1>6, <2>2 DEF UpdateData
    <3>2. w \in Known
      BY <1>6, <3>1 DEF ToSet
    <3>3. /\ Len(reading') = Len(reading) + 1 /\ Len(reading) \in Nat
          /\ reading'[Len(reading) + 1] = w
          /\ \A i \in 1..Len(reading) : reading'[i] = reading[i]
      BY <1>0, <3>1, AppendProperties
    <3> QED BY <1>1, <3>1, <3>2, <3>3
  <2> QED BY <2>1, <2>2
<1> HIDE DEF Kept
<1>11. ASSUME NEW kind, Swipe(kind) PROVE Heard'
  BY <1>1, <1>2, <1>3, <1>11 DEF Swipe, net
<1>12. CASE SwipeEnds \/ SwipeBreaks
  <2>1. publicWorks' \in {publicWorks, << >>}
    BY <1>12 DEF SwipeEnds, SwipeBreaks
  <2>2. \A i \in 1..Len(publicWorks') : publicWorks'[i] \in Known
    BY <1>1, <2>1
  <2> QED BY <1>1, <1>2, <1>3, <1>12, <2>2 DEF SwipeEnds, SwipeBreaks, net
<1>13. CASE AnswerList
  <2>1. Entries \in SUBSET Work /\ Entries \subseteq Known
    BY <1>1 DEF Entries
  <2>2. PICK b \in Block : main' = Append(main, b) /\ Kept(b, Known)
    BY <1>13, <2>1, Blocks DEF AnswerList, Failed, Kept
  <2>3. \A i \in 1..Len(main') : Kept(main'[i], Known)
    BY <1>4, <2>2
  <2> QED BY <1>1, <1>3, <1>13, <2>3 DEF AnswerList, feed
<1>14. CASE AnswerRead
  <2>1. PICK i \in 1..Len(reading) :
          /\ reading' = RemoveAt(reading, i)
          /\ \/ main' = Append(main, [kind |-> "work", work |-> reading[i],
                                      found |-> Readable(cloud[reading[i]])])
             \/ Failed
    BY <1>14 DEF AnswerRead
  <2>2. /\ reading[i] \in Work /\ Readable(cloud[reading[i]]) \in BOOLEAN
        /\ P!Seen(reading[i])
    BY <1>0, <1>1, <2>1, ElementOfSeq DEF Readable, Known
  <2>3. ~Readable(cloud[reading[i]]) => P!Gone(reading[i])
    BY <2>2 DEF P!Seen, P!Readable, Readable
  <2>4. PICK b \in Block : main' = Append(main, b) /\ Kept(b, Known)
    BY <2>1, <2>2, <2>3, Blocks DEF Failed, Kept
  <2>5. \A k \in 1..Len(main') : Kept(main'[k], Known)
    BY <1>4, <2>4
  <2>6. \A k \in 1..Len(reading') : reading'[k] \in Known
    <3>1. /\ Len(RemoveAt(reading, i)) = Len(reading) - 1
          /\ \A j \in 1..Len(reading)-1 :
               \E k \in 1..Len(reading) : RemoveAt(reading, i)[j] = reading[k]
      <4>1. reading \in Seq(Work) /\ i \in 1..Len(reading)
        BY <1>0, <2>1
      <4> QED BY <4>1, Without
    <3> QED BY <1>1, <2>1, <3>1
  <2> QED BY <1>1, <1>3, <1>14, <2>5, <2>6 DEF AnswerRead, feed
<1>15. ASSUME NEW w \in Work, RunList(w) PROVE Heard'
  <2>1. /\ main # << >> /\ main' = Tail(main) /\ Head(main).kind = "list"
        /\ publicWorks' = publicWorks \o SetToSeq(Head(main).works)
        /\ UpdateData(w, publicWorks')
    BY <1>15 DEF RunList, Runs
  <2> DEFINE more == SetToSeq(Head(main).works)
  <2>2. Head(main).works \subseteq Work /\ Head(main).works \subseteq Known
    BY <1>5, <2>1, BlockParts DEF Kept
  <2>3. more \in Seq(Work) /\ \A i \in 1..Len(more) : more[i] \in Known
    BY <2>2, ListOf, SeqMonotonic
  <2> HIDE DEF more
  <2>4. /\ publicWorks' \in Seq(Work)
        /\ Len(publicWorks') = Len(publicWorks) + Len(more)
        /\ \A i \in 1..Len(publicWorks) + Len(more) :
             publicWorks'[i] = IF i <= Len(publicWorks) THEN publicWorks[i]
                               ELSE more[i - Len(publicWorks)]
    BY <1>0, <2>1, <2>3, ConcatProperties DEF more
  <2>5. ASSUME NEW i \in 1..Len(publicWorks') PROVE publicWorks'[i] \in Known
    <3>1. Len(publicWorks) \in Nat /\ Len(more) \in Nat
      BY <1>0, <2>3
    <3>2. CASE i <= Len(publicWorks)
      BY <1>1, <2>4, <3>1, <3>2
    <3>3. CASE i > Len(publicWorks)
      <4>1. i - Len(publicWorks) \in 1..Len(more)
        BY <2>4, <3>1, <3>3
      <4> QED BY <2>3, <2>4, <3>1, <3>3, <4>1
    <3> QED BY <2>4, <3>1, <3>2, <3>3
  <2>6. \A i \in 1..Len(reading') : reading'[i] \in Known
    BY <1>6, <2>1, <2>4, <2>5
  <2> QED BY <1>1, <1>3, <1>5, <1>15, <2>1, <2>5, <2>6 DEF RunList
<1>16. ASSUME NEW w \in Work, RunSame(w) PROVE Heard'
  <2>1. main # << >> /\ main' = Tail(main) /\ UpdateData(w, publicWorks)
    BY <1>16 DEF RunSame, Runs
  <2>2. \A i \in 1..Len(reading') : reading'[i] \in Known
    BY <1>0, <1>1, <1>6, <2>1
  <2> QED BY <1>1, <1>3, <1>5, <1>16, <2>1, <2>2 DEF RunSame
<1>17. CASE RunMissing \/ RunFailure
  <2>1. main # << >> /\ main' = Tail(main)
    BY <1>17 DEF RunMissing, RunFailure, Runs
  <2> QED BY <1>1, <1>3, <1>5, <1>17, <2>1 DEF RunMissing, RunFailure, feed
<1>18. CASE RunCard
  <2>1. main # << >> /\ main' = Tail(main)
    BY <1>18 DEF RunCard, Runs
  <2> QED BY <1>1, <1>3, <1>5, <1>18, <2>1 DEF RunCard
<1>19. CASE CardIsUp
  BY <1>1, <1>2, <1>3, <1>19 DEF CardIsUp, net
<1>20. CASE UNCHANGED vars
  BY <1>1, <1>2, <1>3, <1>20 DEF vars, feed, net
<1>21. CASE OwnerStep
  <2>1. P!Next /\ UNCHANGED <<feed, net>>
    BY <1>21 DEF OwnerStep
  <2>2. \A w \in Work : (P!Seen(w) => P!Seen(w)') /\ (P!Gone(w) => P!Gone(w)')
    BY <2>1, OwnerStays
  <2>3. publicWorks' = publicWorks /\ reading' = reading /\ main' = main
    BY <2>1 DEF feed, net
  <2>4. \A i \in 1..Len(publicWorks) : P!Seen(publicWorks[i])'
    <3>1. ASSUME NEW i \in 1..Len(publicWorks) PROVE P!Seen(publicWorks[i])'
      <4>1. PICK x \in Work : x = publicWorks[i] /\ P!Seen(x)
        BY <1>1 DEF Known
      <4>2. P!Seen(x)'
        BY <2>2, <4>1
      <4> QED BY <2>3, <4>1, <4>2 DEF P!Seen, P!Readable, P!Gone
    <3> QED BY <3>1
  <2>5. \A i \in 1..Len(reading) : P!Seen(reading[i])'
    <3>1. ASSUME NEW i \in 1..Len(reading) PROVE P!Seen(reading[i])'
      <4>1. PICK x \in Work : x = reading[i] /\ P!Seen(x)
        BY <1>1 DEF Known
      <4>2. P!Seen(x)'
        BY <2>2, <4>1
      <4> QED BY <2>3, <4>1, <4>2 DEF P!Seen, P!Readable, P!Gone
    <3> QED BY <3>1
  <2>6. ASSUME NEW i \in 1..Len(main)
        PROVE  /\ main[i].kind = "list" => \A w \in main[i].works : P!Seen(w)'
               /\ main[i].kind = "work" /\ ~main[i].found => P!Gone(main[i].work)'
    <3>1. Kept(main[i], Known) /\ main[i] \in Block
      BY <1>0, <1>2, ElementOfSeq
    <3>2. CASE main[i].kind = "work"
      <4>1. PICK x \in Work : x = main[i].work
        BY <3>1, <3>2, BlockParts
      <4>2. ~main[i].found => P!Gone(x)
        BY <3>1, <3>2, <4>1 DEF Kept
      <4>3. ~main[i].found => P!Gone(x)'
        BY <2>2, <4>2
      <4>4. ~main[i].found => P!Gone(main[i].work)'
        BY <2>3, <4>1, <4>3 DEF P!Gone
      <4> QED BY <3>2, <4>4
    <3>3. CASE main[i].kind # "work"
      BY <2>2, <3>1, <3>3 DEF Kept, Known
    <3> QED BY <3>2, <3>3
  <2> QED BY <2>3, <2>4, <2>5, <2>6 DEF Heard
<1> QED BY <1>11, <1>12, <1>13, <1>14, <1>15, <1>16, <1>17, <1>18, <1>19, <1>20, <1>21
        DEF Next, MainQueue

-----------------------------------------------------------------------------
(* While the user waits for the cards, one thing happens after the other.  *)
LEMMA InTurnStays ==
  ASSUME ~hasty', Types, InTurn, [Next]_vars
  PROVE  InTurn'
<1>0. /\ rising \in Nat /\ listing \in Nat /\ enabled \in BOOLEAN
      /\ Len(swipes) \in Nat /\ Len(reading) \in Nat /\ Len(main) \in Nat
      /\ reading \in Seq(Work) /\ main \in Seq(Block) /\ swipes \in Seq({"like", "pass"})
  BY DEF Types
<1>1. /\ Len(swipes) + listing + Len(reading) + Len(main) + rising <= 1
      /\ \A i \in 1..Len(reading) : reading[i] = target
      /\ \A i \in 1..Len(main) : main[i].kind = "work" => main[i].work = target
      /\ rising + Len(swipes) > 0 => card # NoWork
      /\ enabled /\ card # NoWork =>
           Len(swipes) + listing + Len(reading) + Len(main) + rising = rising
      /\ card # NoWork /\ (enabled \/ rising + Len(swipes) > 0) => target = card
  BY DEF InTurn, Busy
<1>2. ASSUME Len(swipes') + listing' + Len(reading') + Len(main') + rising' <= 1,
             \A i \in 1..Len(reading') : reading'[i] = target',
             \A i \in 1..Len(main') : main'[i].kind = "work" => main'[i].work = target',
             rising' + Len(swipes') > 0 => card' # NoWork,
             enabled' /\ card' # NoWork =>
               Len(swipes') + listing' + Len(reading') + Len(main') + rising' = rising',
             card' # NoWork /\ (enabled' \/ rising' + Len(swipes') > 0) => target' = card'
      PROVE  InTurn'
  BY <1>2 DEF InTurn, Busy
<1>3. ASSUME main # << >>, main' = Tail(main)
      PROVE  /\ Len(main) = 1 /\ Len(main') = 0
             /\ Len(swipes) = 0 /\ listing = 0 /\ Len(reading) = 0 /\ rising = 0
             /\ card # NoWork => enabled = FALSE
             /\ Head(main).kind = "work" => Head(main).work = target
  <2>1. Len(main) \in Nat \ {0} /\ Len(Tail(main)) = Len(main) - 1
    BY <1>0, <1>3, EmptySeq, HeadTailProperties
  <2>2. /\ Len(main) = 1 /\ Len(main') = 0
        /\ Len(swipes) = 0 /\ listing = 0 /\ Len(reading) = 0 /\ rising = 0
    BY <1>0, <1>1, <1>3, <2>1
  <2>3. Head(main) = main[1] /\ 1 \in 1..Len(main)
    BY <1>0, <2>2
  <2>4. card # NoWork => enabled = FALSE
    BY <1>0, <1>1, <2>2
  <2> QED BY <1>1, <2>2, <2>3, <2>4
<1>4. ASSUME NEW w \in Work, NEW works, UpdateData(w, works),
             Len(reading) = 0
      PROVE  /\ Len(reading') \in {0, 1}
             /\ \A i \in 1..Len(reading') : reading'[i] = target'
  <2>1. CASE works = << >>
    BY <1>1, <1>4, <2>1 DEF UpdateData
  <2>2. CASE works # << >>
    <3>1. target' = w /\ reading' = Append(reading, w)
      BY <1>4, <2>2 DEF UpdateData
    <3>2. Len(reading') = Len(reading) + 1 /\ reading'[Len(reading) + 1] = w
      BY <1>0, <3>1, AppendProperties
    <3> QED BY <1>4, <3>1, <3>2
  <2> QED BY <2>1, <2>2
<1>5. ASSUME NEW w \in Work, RunList(w) \/ RunSame(w) PROVE InTurn'
  <2>1. /\ main # << >> /\ main' = Tail(main)
        /\ \E works : UpdateData(w, works)
        /\ UNCHANGED <<enabled, card, swipes, rising, listing>>
    BY <1>5 DEF RunList, RunSame, Runs
  <2>2. /\ Len(main') = 0
        /\ Len(swipes) = 0 /\ listing = 0 /\ Len(reading) = 0 /\ rising = 0
        /\ card # NoWork => enabled = FALSE
    BY <1>3, <2>1
  <2>3. /\ Len(reading') \in {0, 1}
        /\ \A i \in 1..Len(reading') : reading'[i] = target'
    BY <1>4, <2>1, <2>2
  <2>4. /\ Len(swipes') = 0 /\ listing' = 0 /\ Len(main') = 0 /\ rising' = 0
        /\ (card' # NoWork => enabled' = FALSE)
    BY <2>1, <2>2
  <2>5. Len(swipes') + listing' + Len(reading') + Len(main') + rising' <= 1
    BY <2>3, <2>4
  <2>6. ~(rising' + Len(swipes') > 0) /\ ~(enabled' /\ card' # NoWork)
    BY <2>4
  <2>7. \A i \in 1..Len(main') : FALSE
    BY <2>4
  <2> QED BY <1>2, <2>3, <2>5, <2>6, <2>7
<1>6. CASE RunMissing \/ RunFailure
  <2>1. /\ main # << >> /\ main' = Tail(main)
        /\ UNCHANGED <<enabled, target, card, swipes, rising, listing, reading>>
    BY <1>6 DEF RunMissing, RunFailure, Runs, feed
  <2>2. /\ Len(main') = 0
        /\ Len(swipes) = 0 /\ listing = 0 /\ Len(reading) = 0 /\ rising = 0
        /\ card # NoWork => enabled = FALSE
    BY <1>3, <2>1
  <2>3. /\ Len(swipes') = 0 /\ listing' = 0 /\ Len(reading') = 0 /\ Len(main') = 0
        /\ rising' = 0 /\ (card' # NoWork => enabled' = FALSE)
    BY <2>1, <2>2
  <2> QED BY <1>2, <2>3
<1>7. CASE RunCard
  <2>1. /\ main # << >> /\ main' = Tail(main) /\ Head(main).kind = "work"
        /\ card' = Head(main).work /\ rising' = rising + 1
        /\ UNCHANGED <<enabled, target, swipes, listing, reading>>
    BY <1>7 DEF RunCard, Runs
  <2>2. Head(main) \in Block
    BY <1>0, <2>1, HeadTailProperties
  <2>3. Head(main).work \in Work
    BY <2>1, <2>2, BlockParts
  <2>4. /\ Len(main') = 0 /\ Len(swipes) = 0 /\ listing = 0 /\ Len(reading) = 0 /\ rising = 0
        /\ card' = target /\ card' # NoWork
    BY <1>3, <2>1, <2>3, NoWorkAssumption
  <2>5. /\ Len(swipes') = 0 /\ listing' = 0 /\ Len(reading') = 0 /\ Len(main') = 0
        /\ rising' = 1 /\ card' # NoWork /\ target' = card'
    BY <2>1, <2>4
  <2> QED BY <1>2, <2>5
<1>8. ASSUME NEW kind \in {"like", "pass"}, Swipe(kind) PROVE InTurn'
  <2>1. /\ enabled /\ card # NoWork /\ rising = 0 /\ enabled' = FALSE
        /\ swipes' = Append(swipes, kind)
        /\ UNCHANGED <<target, card, rising, listing, reading, main>>
    <3>1. card # NoWork /\ ~(rising > 0)
      BY <1>8, Zenon DEF Swipe, Haste
    <3>2. rising = 0
      BY <1>0, <3>1
    <3> QED BY <1>8, <3>1, <3>2 DEF Swipe, net
  <2>2. Len(swipes) = 0 /\ listing = 0 /\ Len(reading) = 0 /\ Len(main) = 0 /\ target = card
    BY <1>0, <1>1, <2>1
  <2>3. Len(swipes') = 1
    BY <1>0, <2>1, <2>2
  <2> QED BY <1>2, <2>1, <2>2, <2>3
<1>9. CASE SwipeEnds \/ SwipeBreaks
  <2>1. /\ swipes # << >> /\ swipes' = Tail(swipes)
        /\ listing' \in {listing, listing + 1}
        /\ UNCHANGED <<enabled, target, card, rising, reading, main>>
    BY <1>9 DEF SwipeEnds, SwipeBreaks, net
  <2>2. Len(swipes) \in Nat \ {0} /\ Len(Tail(swipes)) = Len(swipes) - 1
    BY <1>0, <2>1, EmptySeq, HeadTailProperties
  <2>3. /\ Len(swipes) = 1 /\ Len(swipes') = 0 /\ listing = 0
        /\ Len(reading) = 0 /\ Len(main) = 0 /\ rising = 0
    BY <1>0, <1>1, <2>1, <2>2
  <2>4. card # NoWork /\ enabled = FALSE
    BY <1>0, <1>1, <2>3
  <2> QED BY <1>2, <2>1, <2>3, <2>4
<1>10. CASE AnswerList
  <2>1. /\ listing > 0 /\ listing' = listing - 1
        /\ UNCHANGED <<enabled, target, card, swipes, rising, reading>>
    BY <1>10 DEF AnswerList, feed
  <2>2. PICK b : main' = Append(main, b) /\ b.kind # "work"
    <3>1. CASE Failed
      BY <3>1 DEF Failed
    <3>2. CASE main' = Append(main, [kind |-> "list", works |-> Entries])
      BY <3>2
    <3> QED BY <1>10, <3>1, <3>2 DEF AnswerList
  <2>3. /\ Len(swipes) = 0 /\ listing = 1 /\ Len(reading) = 0 /\ Len(main) = 0 /\ rising = 0
        /\ ~(enabled /\ card # NoWork)
    BY <1>0, <1>1, <2>1
  <2>4. Len(main') = 1 /\ main'[1] = b
    BY <1>0, <2>2, <2>3
  <2> QED BY <1>2, <2>1, <2>2, <2>3, <2>4
<1>11. CASE AnswerRead
  <2>1. PICK i \in 1..Len(reading) :
          /\ reading' = RemoveAt(reading, i)
          /\ \/ main' = Append(main, [kind |-> "work", work |-> reading[i],
                                      found |-> Readable(cloud[reading[i]])])
             \/ Failed
    BY <1>11 DEF AnswerRead
  <2>2. /\ Len(swipes) = 0 /\ listing = 0 /\ Len(reading) = 1 /\ Len(main) = 0 /\ rising = 0
        /\ ~(enabled /\ card # NoWork)
    <3>1. Len(reading) > 0
      BY <1>0, <2>1
    <3>2. /\ Len(swipes) = 0 /\ listing = 0 /\ Len(reading) = 1 /\ Len(main) = 0 /\ rising = 0
      <4>1. Len(swipes) + listing + Len(reading) + Len(main) + rising <= 1
        BY <1>1
      <4>2. /\ rising \in Nat /\ listing \in Nat /\ Len(swipes) \in Nat
            /\ Len(reading) \in Nat /\ Len(main) \in Nat
        BY <1>0
      <4>3. \A a, b, c, d, e \in Nat :
              a + b + c + d + e <= 1 /\ c > 0 => a = 0 /\ b = 0 /\ c = 1 /\ d = 0 /\ e = 0
        OBVIOUS
      <4> QED BY ONLY <3>1, <4>1, <4>2, <4>3
    <3>3. ~(enabled /\ card # NoWork)
      BY <1>1, <3>2
    <3> QED BY <3>2, <3>3
  <2>3. PICK b : main' = Append(main, b) /\ (b.kind = "work" => b.work = target)
    BY <1>1, <2>1 DEF Failed
  <2>4. Len(main') = 1 /\ main'[1] = b
    BY <1>0, <2>2, <2>3
  <2>5. Len(reading') = 0
    BY <1>0, <2>1, <2>2, Without
  <2>6. UNCHANGED <<enabled, target, card, swipes, rising, listing>>
    BY <1>11 DEF AnswerRead, feed
  <2> QED BY <1>2, <2>2, <2>3, <2>4, <2>5, <2>6
<1>12. CASE CardIsUp
  <2>1. /\ rising > 0 /\ rising' = rising - 1 /\ enabled' = TRUE
        /\ UNCHANGED <<target, card, swipes, listing, reading, main>>
    BY <1>12 DEF CardIsUp, net
  <2>2. /\ Len(swipes) = 0 /\ listing = 0 /\ Len(reading) = 0 /\ Len(main) = 0 /\ rising = 1
        /\ card # NoWork /\ target = card
    BY <1>0, <1>1, <2>1
  <2> QED BY <1>2, <2>1, <2>2
<1>13. CASE OwnerStep \/ UNCHANGED vars
  <2>1. UNCHANGED <<feed, net>>
    BY <1>13 DEF OwnerStep, vars
  <2> QED BY <1>0, <1>1, <1>2, <2>1 DEF feed, net
<1> QED BY <1>5, <1>6, <1>7, <1>8, <1>9, <1>10, <1>11, <1>12, <1>13 DEF Next, MainQueue

(* The list is empty when an answer comes, so that the answer is the list. *)
LEMMA FreshStays ==
  ASSUME ~hasty', Types, InTurn, Fresh, IsInjective(publicWorks), [Next]_vars
  PROVE  Fresh' /\ IsInjective(publicWorks')
<1>0. /\ rising \in Nat /\ listing \in Nat
      /\ Len(swipes) \in Nat /\ Len(reading) \in Nat /\ Len(main) \in Nat
      /\ main \in Seq(Block)
  BY DEF Types
<1>1. Len(swipes) + listing + Len(reading) + Len(main) + rising <= 1
  BY DEF InTurn, Busy
<1>2. CASE UNCHANGED <<publicWorks, listing, main>>
  BY <1>2 DEF Fresh
<1>3. CASE SwipeEnds
  <2>1. publicWorks' = << >>
    BY <1>3 DEF SwipeEnds
  <2> QED BY <2>1 DEF Fresh, IsInjective
<1>4. CASE AnswerList
  <2>1. publicWorks = << >> /\ publicWorks' = publicWorks
    BY <1>4 DEF AnswerList, feed, Fresh
  <2> QED BY <2>1 DEF Fresh
<1>5. CASE AnswerRead
  <2>1. UNCHANGED <<publicWorks, listing>>
    BY <1>5 DEF AnswerRead, feed
  <2>2. PICK b : main' = Append(main, b) /\ b.kind # "list"
    BY <1>5 DEF AnswerRead, Failed
  <2>3. /\ Len(main') = Len(main) + 1 /\ main'[Len(main) + 1] = b
        /\ \A i \in 1..Len(main) : main'[i] = main[i]
    BY <1>0, <2>2, AppendProperties
  <2>4. \A i \in 1..Len(main') : main'[i].kind = "list" => i \in 1..Len(main)
    BY <1>0, <2>2, <2>3
  <2> QED BY <2>1, <2>3, <2>4 DEF Fresh
<1>6. ASSUME main # << >>, main' = Tail(main) PROVE Len(main') = 0 /\ listing = 0
  <2>1. Len(main) \in Nat \ {0} /\ Len(Tail(main)) = Len(main) - 1
    BY <1>0, <1>6, EmptySeq, HeadTailProperties
  <2> QED BY <1>0, <1>1, <1>6, <2>1
<1>7. ASSUME NEW w \in Work, RunList(w) PROVE Fresh' /\ IsInjective(publicWorks')
  <2>1. /\ main # << >> /\ main' = Tail(main) /\ Head(main).kind = "list"
        /\ publicWorks' = publicWorks \o SetToSeq(Head(main).works)
        /\ listing' = listing
    BY <1>7 DEF RunList, Runs
  <2>2. /\ Head(main) \in Block /\ Head(main) = main[1] /\ 1 \in 1..Len(main)
    BY <1>0, <2>1, HeadAndTail
  <2>3. publicWorks = << >> /\ Head(main).works \in SUBSET Work
    BY <2>1, <2>2, BlockParts DEF Fresh
  <2> DEFINE all == SetToSeq(Head(main).works)
  <2>4. all \in Seq(Work) /\ IsInjective(all)
    BY <2>3, ListOf, SeqMonotonic
  <2> HIDE DEF all
  <2>5. << >> \o all = all
    BY <2>4, ConcatEmptySeq
  <2>6. publicWorks' = all
    BY <2>1, <2>3, <2>5 DEF all
  <2>7. Len(main') = 0 /\ listing' = 0
    BY <1>6, <2>1
  <2>8. Fresh'
    BY <2>7 DEF Fresh
  <2>9. IsInjective(publicWorks')
    BY <2>4, <2>6 DEF IsInjective
  <2> QED BY <2>8, <2>9
<1>8. CASE RunMissing \/ RunFailure \/ RunCard \/ \E w \in Work : RunSame(w)
  <2>1. main # << >> /\ main' = Tail(main) /\ UNCHANGED <<publicWorks, listing>>
    BY <1>8 DEF RunMissing, RunFailure, RunCard, RunSame, Runs, feed
  <2> QED BY <1>6, <2>1 DEF Fresh
<1>9. CASE ~SwipeEnds /\ ~AnswerList /\ ~AnswerRead /\ ~MainQueue
  BY <1>2, <1>9 DEF Next, vars, feed, net, Swipe, SwipeBreaks, CardIsUp, OwnerStep
<1> QED BY <1>3, <1>4, <1>5, <1>7, <1>8, <1>9 DEF MainQueue

(* Nobody has waited who does not wait now. *)
LEMMA HastyStays == [Next]_vars /\ hasty => hasty'
BY DEF Next, MainQueue, vars, Swipe, Haste, SwipeEnds, SwipeBreaks, AnswerList, AnswerRead,
       RunList, RunSame, RunMissing, RunCard, RunFailure, CardIsUp, OwnerStep

(* A step that sends a like sends it for the card, and one that kills the  *)
(* screen has read a removed work, but for a hasty user's first like.      *)
LEMMA Outcomes ==
  ASSUME Types, Heard, ~hasty => Waiting, [Next]_vars
  PROVE  /\ ~hasty' => outcome' # "liked another"
         /\ outcome' = "crash" /\ outcome # "crash"
              => \/ Runs("work") /\ local[Head(main).work].doc = NoDoc
                 \/ hasty /\ target = NoWork
<1>1. CASE SwipeEnds
  <2>1. /\ rising \in Nat /\ Len(swipes) \in Nat /\ Len(swipes) > 0 /\ hasty' = hasty
        /\ rising + Len(swipes) > 0
    BY <1>1, EmptySeq DEF SwipeEnds, Types
  <2>2. ASSUME ~hasty PROVE card # NoWork /\ target = card
    <3>1. InTurn
      BY <2>2 DEF Waiting
    <3> QED BY <2>1, <3>1 DEF InTurn
  <2>3. ~hasty => LikeOutcome = "liked"
    BY <2>2 DEF LikeOutcome
  <2>4. LikeOutcome = "crash" => target = NoWork
    BY DEF LikeOutcome
  <2>5. outcome' \in {LikeOutcome, "none"}
    BY <1>1 DEF SwipeEnds
  <2>6. CASE hasty
    BY <2>1, <2>4, <2>5, <2>6
  <2>7. CASE ~hasty
    BY <2>3, <2>5, <2>7
  <2> QED BY <2>6, <2>7
<1>2. CASE RunMissing
  <2>1. /\ Runs("work") /\ main # << >> /\ ~Head(main).found
        /\ outcome' = "crash"
    BY <1>2 DEF RunMissing, Runs
  <2>2. Len(main) \in Nat \ {0} /\ Head(main) = main[1]
    BY <2>1, EmptySeq DEF Types
  <2>3. P!Gone(main[1].work)
    BY <2>1, <2>2 DEF Heard, Runs
  <2> QED BY <2>1, <2>2, <2>3 DEF P!Gone
<1>3. CASE ~SwipeEnds /\ ~RunMissing
  <2>1. outcome' = "liked another" \/ outcome' = "crash" => outcome' = outcome
    BY <1>3 DEF Next, MainQueue, vars, Swipe, SwipeBreaks, AnswerList, AnswerRead, RunList,
                RunSame, RunCard, RunFailure, CardIsUp, OwnerStep, UpdateData
  <2> QED BY <2>1, HastyStays DEF Waiting
<1> QED BY <1>1, <1>2, <1>3

(* The inductive invariant, with the owner's. *)
Inv == PP!IInv /\ Types /\ Heard /\ (~hasty => Waiting)

LEMMA FeedInit == Init => Inv
<1> SUFFICES ASSUME Init PROVE Inv
  OBVIOUS
<1>1. PP!IInv
  BY OwnerInit DEF Init
<1>2. /\ publicWorks = << >> /\ reading = << >> /\ main = << >> /\ swipes = << >>
      /\ Len(publicWorks) = 0 /\ Len(reading) = 0 /\ Len(main) = 0 /\ Len(swipes) = 0
      /\ target = NoWork /\ curr = NoWork /\ card = NoWork
      /\ rising = 0 /\ listing = 1 /\ enabled = TRUE /\ hasty = FALSE /\ outcome = "none"
  BY DEF Init
<1>3. Types
  <2>1. hasty \in BOOLEAN /\ enabled \in BOOLEAN
    BY <1>2
  <2>2. /\ publicWorks \in Seq(Work) /\ reading \in Seq(Work)
        /\ swipes \in Seq({"like", "pass"}) /\ main \in Seq(Block)
    BY <1>2, EmptySeq
  <2>3. {target, curr, card} \subseteq Work \cup {NoWork}
    BY <1>2
  <2>4. rising \in Nat /\ listing \in Nat
    BY <1>2
  <2> QED BY <2>1, <2>2, <2>3, <2>4 DEF Types
<1>4. Heard
  BY <1>2 DEF Heard
<1>5. InTurn
  BY <1>2 DEF InTurn, Busy
<1>6. Fresh /\ IsInjective(publicWorks)
  BY <1>2 DEF Fresh, IsInjective
<1> QED BY <1>1, <1>2, <1>3, <1>4, <1>5, <1>6 DEF Inv, Waiting

LEMMA FeedStep == Inv /\ [Next]_vars => Inv'
<1> SUFFICES ASSUME Inv, [Next]_vars PROVE Inv'
  OBVIOUS
<1>1. P!Next \/ UNCHANGED data
  BY DEF Next, MainQueue, vars, Swipe, SwipeEnds, SwipeBreaks, AnswerList, AnswerRead, RunList,
         RunSame, RunMissing, RunCard, RunFailure, CardIsUp, OwnerStep
<1>2. PP!IInv'
  BY <1>1, OwnerStays DEF Inv
<1>3. Types' /\ Heard'
  BY TypesStay, HeardStays DEF Inv
<1>4. ASSUME ~hasty' PROVE Waiting'
  <2>1. Types /\ Heard /\ Waiting
    BY <1>4, HastyStays DEF Inv
  <2>2. InTurn'
    BY <1>4, <2>1, InTurnStays DEF Waiting
  <2>3. Fresh' /\ IsInjective(publicWorks')
    BY <1>4, <2>1, FreshStays DEF Waiting
  <2>4. outcome' # "liked another"
    BY <1>4, <2>1, Outcomes
  <2> QED BY <2>2, <2>3, <2>4 DEF Waiting
<1> QED BY <1>2, <1>3, <1>4 DEF Inv

-----------------------------------------------------------------------------
(* Type correctness of the feed and of the owner's side under it. *)
THEOREM TypeCorrect == Spec => []TypeOK
<1>1. Inv => TypeOK
  BY TypeParts DEF Inv
<1> QED BY <1>1, FeedInit, FeedStep, PTL DEF Spec

(* A user who waits for the first card likes the work on the card (like).  *)
THEOREM LikesAreMeant == Spec => []LikesWhatIsShown
<1>1. Inv => LikesWhatIsShown
  BY DEF Inv, Waiting, LikesWhatIsShown
<1> QED BY <1>1, FeedInit, FeedStep, PTL DEF Spec

(* For such a user, two answers never add up in the list (fetch).          *)
THEOREM AnswersDoNotAddUp == Spec => []ListedOnce
<1>1. Inv => ListedOnce
  BY DEF Inv, Waiting, ListedOnce
<1> QED BY <1>1, FeedInit, FeedStep, PTL DEF Spec

(* The feed dies only of a work whose owner removed it between the two     *)
(* reads (the forced unwraps of updateData), or of a like that was sent    *)
(* before any work was chosen, by a user who did not wait (like).          *)
THEOREM OnlyRemovalCrashes == Spec => CrashOnlyIfRemoved
<1> DEFINE Read == outcome' = "crash" /\ outcome # "crash"
                     => \/ Runs("work") /\ local[Head(main).work].doc = NoDoc
                        \/ hasty /\ target = NoWork
<1>1. Inv /\ [Next]_vars => [Read]_vars
  BY Outcomes DEF Inv
<1> QED BY <1>1, FeedInit, FeedStep, PTL DEF Spec, CrashOnlyIfRemoved

(* The work that comes up is the one the screen holds, for a user who      *)
(* waits: what is compared with the work just seen is the work drawn.      *)
LEMMA ComesUp ==
  ~hasty' /\ Types /\ InTurn /\ card = curr /\ [Next]_vars =>
    /\ card' = curr'
    /\ rising' > rising => card' # card \/ Len(publicWorks) = 1
<1> SUFFICES ASSUME ~hasty', Types, InTurn, card = curr, [Next]_vars
             PROVE  /\ card' = curr'
                    /\ rising' > rising => card' # card \/ Len(publicWorks) = 1
  OBVIOUS
<1>0. rising \in Nat /\ main \in Seq(Block)
  BY DEF Types
<1>1. CASE RunCard
  <2>1. /\ main # << >> /\ Head(main).kind = "work" /\ IsNew
        /\ card' = Head(main).work /\ curr' = target
    BY <1>1 DEF RunCard, Runs
  <2>2. Len(main) \in Nat \ {0} /\ Head(main) = main[1]
    BY <1>0, <2>1, EmptySeq
  <2>3. Head(main).work = target
    BY <2>1, <2>2 DEF InTurn
  <2> QED BY <2>1, <2>3 DEF IsNew
<1>2. CASE CardIsUp
  BY <1>0, <1>2 DEF CardIsUp
<1>3. CASE ~RunCard /\ ~CardIsUp
  <2>1. UNCHANGED <<card, curr, rising>>
    BY <1>3 DEF Next, MainQueue, vars, feed, net, Swipe, SwipeEnds, SwipeBreaks, AnswerList,
                AnswerRead, RunList, RunSame, RunMissing, RunFailure, OwnerStep
  <2> QED BY <1>0, <2>1
<1> QED BY <1>1, <1>2, <1>3

(* For such a user, a card that comes up is not the one just seen, unless  *)
(* it is the only one there is (updateData, "same art recieved").          *)
THEOREM AnotherComesUp == Spec => NoRepeat
<1> DEFINE Same == ~hasty => card = curr
           Other == ~hasty /\ rising' > rising => card' # card \/ Len(publicWorks) = 1
<1>1. Init => Same
  BY DEF Init
<1>2. Inv /\ Same /\ [Next]_vars => Same' /\ [Other]_vars
  <2> SUFFICES ASSUME Inv, Same, [Next]_vars PROVE Same' /\ [Other]_vars
    OBVIOUS
  <2>1. CASE ~hasty'
    BY <2>1, ComesUp, HastyStays DEF Inv, Waiting
  <2>2. CASE hasty'
    <3>1. hasty \/ rising' = rising
      BY <2>2 DEF Next, MainQueue, vars, feed, net, Swipe, SwipeEnds, SwipeBreaks, AnswerList,
                  AnswerRead, RunList, RunSame, RunMissing, RunCard, RunFailure, CardIsUp, OwnerStep
    <3>2. rising \in Nat
      BY DEF Inv, Types
    <3> QED BY <2>2, <3>1, <3>2
  <2> QED BY <2>1, <2>2
<1> QED BY <1>1, <1>2, FeedInit, FeedStep, PTL DEF Spec, NoRepeat
=============================================================================
