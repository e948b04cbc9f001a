---------------------------- MODULE PopularProofs ----------------------------
(* Proofs about Popular, for any works, limit and bounds.  The owner's     *)
(* side is taken from the proofs about Publication, as in FeedsProofs.     *)
EXTENDS Popular, SequenceTheorems, FiniteSetTheorems, TLAPS

PP == INSTANCE PublicationProofs

(* The owner's side, as proved in PublicationProofs. *)
LEMMA Assumed == PP!NoDocAssumption /\ PP!MaxQueueAssumption
BY NoDocAssumption, MaxQueueAssumption
   DEF PP!NoDocAssumption, PP!MaxQueueAssumption, PP!WorkDoc, WorkDoc,
       PP!Trashed, PP!Private, PP!Public, PP!Unset,
       Trashed, Private, Public, Unset

LEMMA OwnerInit == P!Init => PP!IInv
<1>1. P!Init => PP!Init
  BY DEF P!Init, PP!Init, P!Absent, PP!Absent
<1> QED BY <1>1, Assumed, PP!InitInv

LEMMA OwnerNext == P!Next => PP!Next
BY DEF P!Next, PP!Next, P!OwnerStep, PP!OwnerStep, P!Create, PP!Create,
       P!Publish, PP!Publish, P!Unpublish, PP!Unpublish, P!Trash, PP!Trash,
       P!Rename, PP!Rename, P!SaveEdits, PP!SaveEdits,
       P!Restore, PP!Restore, P!Remove, PP!Remove, P!Deliver, PP!Deliver,
       P!Write, PP!Write, P!WriteBoth, PP!WriteBoth, P!Pending, PP!Pending,
       P!OnPage, PP!OnPage, P!InTrashList, PP!InTrashList,
       P!Effect, PP!Effect, P!Accepted, PP!Accepted, P!Merge, PP!Merge,
       P!Update, PP!Update, P!Drawing, PP!Drawing, P!Trashed, PP!Trashed,
       P!Private, PP!Private, P!Public, PP!Public, P!Unset, PP!Unset

LEMMA SameSeen ==
  /\ \A w : P!Gone(w) <=> PP!Gone(w)
  /\ \A w : P!Seen(w) <=> PP!Seen(w)
BY DEF P!Gone, PP!Gone, P!Seen, PP!Seen, P!Readable, PP!Readable

LEMMA OwnerStays ==
  ASSUME PP!IInv, P!Next \/ UNCHANGED data
  PROVE  /\ PP!IInv'
         /\ \A w \in Work : /\ P!Seen(w) => P!Seen(w)'
                            /\ P!Gone(w) => P!Gone(w)'
                            /\ cloud'[w].posted => P!Seen(w)'
<1>1. [PP!Next]_(PP!vars)
  BY OwnerNext DEF PP!vars, data
<1>2. PP!IInv'
  BY <1>1, Assumed, PP!StepInv
<1>3. \A w \in Work : (PP!Seen(w) => PP!Seen(w)') /\ (PP!Gone(w) => PP!Gone(w)')
  BY <1>1, Assumed, PP!SeenStays
<1>4. \A w \in Work : cloud'[w].posted => PP!Seen(w)'
  <2>1. PP!IInv' => (\A w \in Work : cloud[w].posted => PP!Seen(w))'
    BY Assumed, PP!PostedIsSeen, PTL
  <2> QED BY <1>2, <2>1
<1>5. \A w : (P!Gone(w)' <=> PP!Gone(w)') /\ (P!Seen(w)' <=> PP!Seen(w)')
  BY DEF P!Gone, PP!Gone, P!Seen, PP!Seen, P!Readable, PP!Readable
<1> QED BY <1>2, <1>3, <1>4, <1>5, SameSeen

LEMMA OwnerTypes == PP!IInv => P!TypeOK
BY DEF PP!IInv, PP!TypeOK, P!TypeOK, PP!Mutation, P!Mutation, PP!WorkState, P!WorkState,
       PP!WorkDoc, P!WorkDoc, PP!Op, P!Op, PP!Trashed, PP!Private, PP!Public, PP!Unset,
       P!Trashed, P!Private, P!Public, P!Unset

-----------------------------------------------------------------------------
(* What the blocks of the main queue carry. *)
LEMMA BlockParts ==
  ASSUME NEW b \in Block
  PROVE  /\ b.kind \in {"list", "work", "failed"}
         /\ b.kind = "list" => b.works \subseteq Work
         /\ b.kind = "work" => b.work \in Work /\ b.found \in BOOLEAN
BY DEF Block

LEMMA Blocks ==
  /\ [kind |-> "failed"] \in Block
  /\ \A S \in SUBSET Work : [kind |-> "list", works |-> S] \in Block
  /\ \A w \in Work, f \in BOOLEAN : [kind |-> "work", work |-> w, found |-> f] \in Block
BY DEF Block

(* The head of a queue, and what is left of it. *)
LEMMA HeadAndTail ==
  ASSUME main \in Seq(Block), main # << >>
  PROVE  /\ Head(main) \in Block /\ Head(main) = main[1] /\ 1 \in 1..Len(main)
         /\ Tail(main) \in Seq(Block) /\ Len(Tail(main)) = Len(main) - 1
         /\ \A i \in 1..Len(Tail(main)) :
              i+1 \in 1..Len(main) /\ i+1 # 1 /\ Tail(main)[i] = main[i+1]
<1>1. Len(main) \in Nat \ {0}
  BY EmptySeq
<1>2. /\ Head(main) \in Block /\ Tail(main) \in Seq(Block)
      /\ Len(Tail(main)) = Len(main) - 1
      /\ \A i \in 1..Len(Tail(main)) : Tail(main)[i] = main[i+1]
  BY HeadTailProperties
<1> QED BY <1>1, <1>2

(* One more block. *)
LEMMA Back ==
  ASSUME main \in Seq(Block), NEW b \in Block
  PROVE  /\ Append(main, b) \in Seq(Block) /\ Len(Append(main, b)) = Len(main) + 1
         /\ Len(main) \in Nat
         /\ \A i \in 1..Len(main) : Append(main, b)[i] = main[i]
         /\ Append(main, b)[Len(main) + 1] = b
BY AppendProperties

(* A work read is the last of the works read. *)
LEMMA OneMore ==
  ASSUME popularworks \in Seq(Work), NEW x \in Work
  PROVE  /\ Append(popularworks, x) \in Seq(Work)
         /\ Len(Append(popularworks, x)) = Len(popularworks) + 1
         /\ Append(popularworks, x) # << >>
         /\ ToSet(Append(popularworks, x)) = ToSet(popularworks) \cup {x}
         /\ IsInjective(popularworks) /\ x \notin ToSet(popularworks)
              => IsInjective(Append(popularworks, x))
<1> DEFINE n  == Len(popularworks)
           pw == Append(popularworks, x)
<1>1. /\ n \in Nat /\ DOMAIN popularworks = 1..n
      /\ pw \in Seq(Work) /\ Len(pw) = n + 1 /\ DOMAIN pw = 1..n+1 /\ pw # << >>
      /\ \A i \in 1..n : pw[i] = popularworks[i]
      /\ pw[n+1] = x
  BY AppendProperties, LenProperties
<1> HIDE DEF n, pw
<1>2. ToSet(pw) = ToSet(popularworks) \cup {x}
  <2>1. \A i \in 1..n+1 : i = n+1 \/ i \in 1..n
    BY <1>1
  <2>2. n+1 \in 1..n+1 /\ \A i \in 1..n : i \in 1..n+1
    BY <1>1
  <2> QED BY <1>1, <2>1, <2>2 DEF ToSet
<1>3. ASSUME IsInjective(popularworks), x \notin ToSet(popularworks) PROVE IsInjective(pw)
  <2>1. \A i \in 1..n+1 : i = n+1 \/ i \in 1..n
    BY <1>1
  <2>2. \A i \in 1..n : popularworks[i] # x
    BY <1>1, <1>3 DEF ToSet
  <2> QED BY <1>1, <1>3, <2>1, <2>2 DEF IsInjective
<1> QED BY <1>1, <1>2, <1>3 DEF n, pw
-----------------------------------------------------------------------------
(* The types of the screen's own variables. *)
Types ==
  /\ popularlist \in SUBSET Work /\ reading \subseteq popularlist
  /\ popularworks \in Seq(Work) /\ rows \in Seq(Work)
  /\ image = {} \/ \E w \in Work : image = {w}
  /\ main \in Seq(Block)
  /\ count \in Nat
  /\ shared \in SUBSET Work

PInv == Types /\ Displayed /\ InOrder /\ EachOnce /\ Drawn

(* What the invariant says of a block. *)
Fits(b) ==
  /\ b.kind = "list" => b.works \subseteq shared
  /\ b.kind = "work" =>
       /\ b.work \in popularlist \ (reading \cup ToSet(popularworks))
       /\ ~b.found => P!Gone(b.work)

LEMMA Parts ==
  ASSUME PInv
  PROVE  /\ popularlist \in SUBSET Work /\ popularlist \subseteq shared
         /\ reading \subseteq popularlist \ ToSet(popularworks)
         /\ popularworks \in Seq(Work) /\ rows \in Seq(Work) /\ main \in Seq(Block)
         /\ Len(popularworks) \in Nat /\ Len(main) \in Nat
         /\ count = Len(popularworks) /\ shared \in SUBSET Work
         /\ IsInjective(popularworks) /\ ToSet(popularworks) \subseteq popularlist
         /\ \A i \in 1..Len(main) : main[i] \in Block /\ Fits(main[i])
         /\ \A i, j \in 1..Len(main) :
              main[i].kind = "work" /\ main[j].kind = "work" /\ i # j
                => main[j].work # main[i].work
<1>1. \A i \in 1..Len(main) : main[i] \in Block
  BY ElementOfSeq DEF PInv, Types
<1>2. \A i \in 1..Len(main) : Fits(main[i])
  BY DEF PInv, InOrder, EachOnce, Fits
<1>3. \A i, j \in 1..Len(main) :
        main[i].kind = "work" /\ main[j].kind = "work" /\ i # j
          => main[j].work # main[i].work
  BY DEF PInv, EachOnce
<1> QED BY <1>1, <1>2, <1>3 DEF PInv, Types, InOrder, EachOnce

(* Taking the oldest block leaves the others as they were. *)
LEMMA Taken ==
  ASSUME PInv, main # << >>, main' = Tail(main)
  PROVE  /\ Head(main) \in Block /\ Fits(Head(main)) /\ Head(main) = main[1]
         /\ Len(main) \in Nat \ {0}
         /\ main' \in Seq(Block) /\ Len(main') = Len(main) - 1
         /\ \A i \in 1..Len(main') :
              /\ i+1 \in 1..Len(main) /\ i+1 # 1 /\ main'[i] = main[i+1]
              /\ main[1].kind = "work" /\ main[i+1].kind = "work"
                   => main[i+1].work # main[1].work
<1>0. main \in Seq(Block)
  BY DEF PInv, Types
<1>1. /\ Head(main) \in Block /\ Head(main) = main[1]
      /\ Tail(main) \in Seq(Block) /\ Len(Tail(main)) = Len(main) - 1
      /\ \A i \in 1..Len(Tail(main)) : Tail(main)[i] = main[i+1]
  BY <1>0, HeadTailProperties
<1>2. Len(main) \in Nat \ {0}
  BY <1>0, EmptySeq
<1>3. /\ 1 \in 1..Len(main)
      /\ \A i \in 1..Len(main)-1 : i+1 \in 1..Len(main) /\ i+1 # 1
  BY <1>2
<1>4. /\ \A i \in 1..Len(main) : Fits(main[i])
      /\ \A i, j \in 1..Len(main) :
           main[i].kind = "work" /\ main[j].kind = "work" /\ i # j
             => main[j].work # main[i].work
  BY Parts
<1>5. Fits(Head(main))
  BY <1>1, <1>3, <1>4
<1>6. ASSUME NEW i \in 1..Len(main')
      PROVE  /\ i+1 \in 1..Len(main) /\ i+1 # 1 /\ main'[i] = main[i+1]
             /\ main[1].kind = "work" /\ main[i+1].kind = "work"
                  => main[i+1].work # main[1].work
  <2>1. i+1 \in 1..Len(main) /\ i+1 # 1 /\ main'[i] = main[i+1]
    BY <1>1, <1>3
  <2> QED BY <1>3, <1>4, <2>1
<1> QED BY <1>1, <1>2, <1>5, <1>6

(* While a block is in the queue with others, none is the list. *)
LEMMA ListAlone ==
  ASSUME PInv, NEW k \in 1..Len(main), main[k].kind = "list"
  PROVE  /\ Len(main) = 1 /\ reading = {} /\ popularworks = << >> /\ ~asked
         /\ main[k].works \subseteq shared
BY DEF PInv, InOrder

(* What is displayed does not depend on the screen. *)
LEMMA StillDisplayed ==
  ASSUME UNCHANGED <<data, shared>>
  PROVE  /\ Displayed' <=> Displayed
         /\ \A w : P!Gone(w)' <=> P!Gone(w)
<1>1. \A w : (P!Seen(w)' <=> P!Seen(w)) /\ (P!Gone(w)' <=> P!Gone(w))
  BY DEF data, P!Seen, P!Gone, P!Readable
<1> QED BY <1>1 DEF Displayed, data

-----------------------------------------------------------------------------
(* A block that was taken, and works that are not the next of any other:   *)
(* what remains of the queue fits.                                         *)
LEMMA Remains ==
  ASSUME PInv, main # << >>, main' = Tail(main), Types', Drawn', Head(main).kind # "list",
         UNCHANGED <<data, shared, asked, popularlist, reading>>,
         count' = Len(popularworks'), IsInjective(popularworks'),
         ToSet(popularworks') \subseteq popularlist \ reading,
         \/ popularworks' = popularworks
         \/ /\ Head(main).kind = "work"
            /\ ToSet(popularworks') = ToSet(popularworks) \cup {Head(main).work}
  PROVE  PInv'
<1>1. /\ Len(main) \in Nat \ {0} /\ Len(main') = Len(main) - 1 /\ Head(main) = main[1]
      /\ \A i \in 1..Len(main') :
           /\ i+1 \in 1..Len(main) /\ i+1 # 1 /\ main'[i] = main[i+1]
           /\ main[1].kind = "work" /\ main[i+1].kind = "work"
                => main[i+1].work # main[1].work
  BY Taken
<1>2. /\ \A i \in 1..Len(main) : Fits(main[i])
      /\ \A i, j \in 1..Len(main) :
           main[i].kind = "work" /\ main[j].kind = "work" /\ i # j
             => main[j].work # main[i].work
  BY Parts
<1>3. Displayed' /\ \A w : P!Gone(w)' <=> P!Gone(w)
  BY StillDisplayed DEF PInv
<1>4. InOrder'
  <2>1. ~asked
    BY DEF PInv, InOrder
  <2>2. ASSUME NEW i \in 1..Len(main'), main'[i].kind = "list" PROVE FALSE
    <3>1. PICK k \in 1..Len(main) : k = i+1 /\ main'[i] = main[k]
      BY <1>1
    <3>2. Len(main) = 1
      BY <2>2, <3>1, ListAlone
    <3>3. 1..Len(main') = {}
      BY <1>1, <3>2
    <3> QED BY <3>3
  <2> QED BY <2>1, <2>2 DEF InOrder
<1>5. EachOnce'
  <2>1. ASSUME NEW i \in 1..Len(main'), main'[i].kind = "work"
        PROVE  /\ main'[i].work \in popularlist \ (reading \cup ToSet(popularworks'))
               /\ ~main'[i].found => P!Gone(main'[i].work)
               /\ \A j \in 1..Len(main') :
                    j # i /\ main'[j].kind = "work" => main'[j].work # main'[i].work
    <3>1. PICK k \in 1..Len(main) :
            /\ k = i+1 /\ main'[i] = main[k]
            /\ main[1].kind = "work" /\ main[k].kind = "work"
                => main[k].work # main[1].work
      BY <1>1
    <3>2. Fits(main[k])
      BY <1>2
    <3>3. PICK x : x = main[k].work
      OBVIOUS
    <3>4. /\ x \in popularlist \ (reading \cup ToSet(popularworks))
          /\ ~main[k].found => P!Gone(x)
      BY <2>1, <3>1, <3>2, <3>3 DEF Fits
    <3>5. x \notin ToSet(popularworks')
      BY <1>1, <2>1, <3>1, <3>3, <3>4
    <3>7. ~main'[i].found => P!Gone(main'[i].work)
      BY <3>1, <3>3, <3>4 DEF P!Gone
    <3>8. ASSUME NEW j \in 1..Len(main'), j # i, main'[j].kind = "work"
          PROVE  main'[j].work # main'[i].work
      <4>1. PICK l \in 1..Len(main) : l = j+1 /\ main'[j] = main[l]
        BY <1>1
      <4>2. l # k
        BY <3>1, <3>8, <4>1
      <4>3. main[k].kind = "work" /\ main[l].kind = "work"
        BY <2>1, <3>1, <3>8, <4>1
      <4> QED BY <1>2, <3>1, <4>1, <4>2, <4>3
    <3> QED BY <3>1, <3>3, <3>4, <3>5, <3>7, <3>8
  <2>2. /\ popularlist \subseteq shared /\ reading \subseteq popularlist
        /\ ToSet(popularworks') \subseteq popularlist
        /\ reading \subseteq popularlist \ ToSet(popularworks')
    BY DEF PInv, EachOnce
  <2>3. ToSet(popularworks)' = ToSet(popularworks') /\ IsInjective(popularworks)'
    BY DEF ToSet, IsInjective
  <2> QED BY <1>3, <2>1, <2>2, <2>3 DEF EachOnce
<1> QED BY <1>3, <1>4, <1>5 DEF PInv
-----------------------------------------------------------------------------
(* The answers. *)
LEMMA QueryStays ==
  ASSUME PInv, AnswerQuery
  PROVE  PInv'
<1>0. /\ main \in Seq(Block) /\ shared \in SUBSET Work
      /\ main = << >> /\ reading = {} /\ popularworks = << >>
  BY DEF PInv, Types, InOrder, AnswerQuery
<1>1. /\ asked' = FALSE
      /\ UNCHANGED <<data, screen, reading, shared>>
      /\ UNCHANGED <<popularlist, popularworks, count, rows, image, reading, shared>>
  BY DEF AnswerQuery, screen
<1>2. Displayed' /\ \A w : P!Gone(w)' <=> P!Gone(w)
  BY <1>1, StillDisplayed DEF PInv
<1>3. main' = main \/ \E S \in SUBSET shared : main' = Append(main, [kind |-> "list", works |-> S])
  <2>1. {w \in Work : cloud[w].posted} \subseteq shared
    BY DEF PInv, Displayed
  <2> QED BY <2>1 DEF AnswerQuery, MostLiked
<1>4. CASE main' = main
  <2>1. Types'
    BY <1>1, <1>4 DEF PInv, Types
  <2>2. InOrder' /\ EachOnce' /\ Drawn'
    BY <1>0, <1>1, <1>4 DEF PInv, InOrder, EachOnce, Drawn
  <2> QED BY <1>2, <2>1, <2>2 DEF PInv
<1>5. CASE main' # main
  <2>1. PICK S \in SUBSET shared : main' = Append(main, [kind |-> "list", works |-> S])
    BY <1>3, <1>5
  <2>2. PICK b \in Block : b.kind = "list" /\ b.works = S /\ main' = Append(main, b)
    BY <1>0, <2>1, Blocks
  <2>3. main' \in Seq(Block) /\ Len(main') = 1 /\ main'[1] = b
    BY <1>0, <2>2, Back
  <2>4. \A i \in 1..Len(main') : main'[i].kind = "list" /\ main'[i].works \subseteq shared
    BY <2>2, <2>3
  <2>5. Types'
    BY <1>1, <2>3 DEF PInv, Types
  <2>6. InOrder'
    BY <1>0, <1>1, <2>3, <2>4 DEF PInv, InOrder
  <2>7. EachOnce' /\ Drawn'
    BY <1>1, <2>4 DEF PInv, EachOnce, Drawn
  <2> QED BY <1>2, <2>5, <2>6, <2>7 DEF PInv
<1> QED BY <1>4, <1>5

LEMMA ReadStays ==
  ASSUME PInv, AnswerRead
  PROVE  PInv'
<1>0. /\ main \in Seq(Block) /\ shared \in SUBSET Work
      /\ popularlist \in SUBSET Work /\ popularlist \subseteq shared
      /\ reading \subseteq popularlist \ ToSet(popularworks)
  BY DEF PInv, Types, EachOnce
<1>1. PICK w \in reading :
        /\ reading' = reading \ {w}
        /\ \/ main' = Append(main, [kind |-> "work", work |-> w,
                                    found |-> Readable(cloud[w])])
           \/ main' = Append(main, [kind |-> "failed"])
  BY DEF AnswerRead, Failed
<1>2. /\ UNCHANGED <<data, shared>>
      /\ UNCHANGED <<popularlist, popularworks, count, rows, image, asked>>
  BY DEF AnswerRead, screen
<1>3. Displayed' /\ \A x : P!Gone(x)' <=> P!Gone(x)
  BY <1>2, StillDisplayed DEF PInv
<1>4. /\ w \in Work /\ w \in shared /\ P!Seen(w) /\ Readable(cloud[w]) \in BOOLEAN
  BY <1>0, <1>1 DEF PInv, Displayed, Readable
<1>5. ~Readable(cloud[w]) => P!Gone(w)
  BY <1>4 DEF P!Seen, P!Readable, Readable
<1>6. PICK b \in Block :
        /\ main' = Append(main, b) /\ b.kind # "list"
        /\ b.kind = "work" => b.work = w /\ (~b.found => P!Gone(w))
  BY <1>1, <1>4, <1>5, Blocks
<1>7. /\ main' \in Seq(Block) /\ Len(main') = Len(main) + 1 /\ Len(main) \in Nat
      /\ main'[Len(main) + 1] = b
      /\ \A i \in 1..Len(main) : main'[i] = main[i]
  BY <1>0, <1>6, Back
<1>8. \A i \in 1..Len(main') : i \in 1..Len(main) \/ i = Len(main) + 1
  BY <1>7
<1>9. \A i \in 1..Len(main) : main[i].kind # "list"
  BY <1>1, ListAlone
<1>10. ~asked
  BY <1>1 DEF PInv, InOrder
<1>11. /\ \A i \in 1..Len(main) : Fits(main[i])
       /\ \A i, j \in 1..Len(main) :
            main[i].kind = "work" /\ main[j].kind = "work" /\ i # j
              => main[j].work # main[i].work
  BY Parts
<1>12. \A i \in 1..Len(main) : main[i].kind = "work" => main[i].work # w
  BY <1>1, <1>11 DEF Fits
<1>13. Types' /\ Drawn'
  BY <1>0, <1>1, <1>2, <1>7 DEF PInv, Types, Drawn
<1>14. InOrder'
  <2>1. \A i \in 1..Len(main') : main'[i].kind # "list"
    BY <1>6, <1>7, <1>8, <1>9
  <2> QED BY <1>2, <1>10, <2>1 DEF PInv, InOrder
<1>15. EachOnce'
  <2>1. ASSUME NEW i \in 1..Len(main'), main'[i].kind = "work"
        PROVE  /\ main'[i].work \in popularlist \ (reading' \cup ToSet(popularworks))
               /\ ~main'[i].found => P!Gone(main'[i].work)
    <3>1. CASE i = Len(main) + 1
      <4>1. main'[i] = b /\ b.work = w
        BY <1>6, <1>7, <2>1, <3>1
      <4>2. w \in popularlist \ (reading' \cup ToSet(popularworks))
        BY <1>0, <1>1
      <4>3. ~b.found => P!Gone(b.work)
        BY <1>6, <2>1, <4>1 DEF P!Gone
      <4> QED BY <4>1, <4>2, <4>3 DEF P!Gone
    <3>2. CASE i \in 1..Len(main)
      <4>1. main'[i] = main[i] /\ Fits(main[i])
        BY <1>7, <1>11, <3>2
      <4>2. /\ main[i].work \in popularlist \ (reading \cup ToSet(popularworks))
            /\ ~main[i].found => P!Gone(main[i].work)
        BY <2>1, <4>1 DEF Fits
      <4> QED BY <1>1, <4>1, <4>2 DEF P!Gone
    <3> QED BY <1>8, <3>1, <3>2
  <2>2. ASSUME NEW i \in 1..Len(main'), NEW j \in 1..Len(main'),
               main'[i].kind = "work", main'[j].kind = "work", j # i
        PROVE  main'[j].work # main'[i].work
    <3>1. CASE i \in 1..Len(main) /\ j \in 1..Len(main)
      <4>1. main'[i] = main[i] /\ main'[j] = main[j]
        BY <1>7, <3>1
      <4> QED BY <1>11, <2>2, <3>1, <4>1
    <3>2. CASE i = Len(main) + 1 /\ j \in 1..Len(main)
      BY <1>6, <1>7, <1>12, <2>2, <3>2
    <3>3. CASE j = Len(main) + 1 /\ i \in 1..Len(main)
      BY <1>6, <1>7, <1>12, <2>2, <3>3
    <3> QED BY <1>8, <2>2, <3>1, <3>2, <3>3
  <2>3. /\ popularlist \subseteq shared /\ IsInjective(popularworks)
        /\ ToSet(popularworks) \subseteq popularlist
    BY DEF PInv, EachOnce
  <2>4. reading' \subseteq popularlist \ ToSet(popularworks)
    BY <1>0, <1>1
  <2> QED BY <1>2, <1>3, <2>1, <2>2, <2>3, <2>4 DEF EachOnce
<1> QED BY <1>3, <1>13, <1>14, <1>15 DEF PInv

-----------------------------------------------------------------------------
(* The main queue. *)
LEMMA ListStays ==
  ASSUME PInv, RunList
  PROVE  PInv'
<1>1. /\ main # << >> /\ main' = Tail(main) /\ Head(main).kind = "list"
      /\ popularlist' = Head(main).works /\ reading' = Head(main).works
      /\ popularworks' = << >> /\ count' = 0
      /\ UNCHANGED <<data, shared>> /\ UNCHANGED <<rows, image, asked>>
  BY DEF RunList, Runs
<1>2. /\ Head(main) = main[1] /\ Head(main) \in Block
      /\ Len(main) \in Nat \ {0} /\ main' \in Seq(Block) /\ Len(main') = Len(main) - 1
  BY <1>1, Taken
<1>3. /\ Len(main) = 1 /\ reading = {} /\ popularworks = << >> /\ ~asked
      /\ Head(main).works \subseteq shared
  <2>1. 1 \in 1..Len(main) /\ main[1].kind = "list"
    BY <1>1, <1>2
  <2> QED BY <1>2, <2>1, ListAlone
<1>4. \A i \in 1..Len(main') : FALSE
  BY <1>2, <1>3
<1>5. /\ shared \in SUBSET Work /\ << >> \in Seq(Work) /\ Len(<< >>) = 0
      /\ ToSet(<< >>) = {} /\ IsInjective(<< >>)
  BY DEF PInv, Types, ToSet, IsInjective
<1>6. Types'
  BY <1>1, <1>2, <1>3, <1>5 DEF PInv, Types
<1>7. Displayed'
  BY <1>1, StillDisplayed DEF PInv
<1>8. InOrder'
  BY <1>1, <1>3, <1>4, <1>5 DEF InOrder
<1>9. EachOnce'
  BY <1>1, <1>3, <1>4, <1>5 DEF EachOnce
<1>10. Drawn'
  BY <1>1, <1>3 DEF PInv, Drawn
<1> QED BY <1>6, <1>7, <1>8, <1>9, <1>10 DEF PInv

LEMMA WorkStays ==
  ASSUME PInv, RunWork
  PROVE  PInv'
<1>1. /\ main # << >> /\ main' = Tail(main) /\ Head(main).kind = "work"
      /\ popularworks' = Append(popularworks, Head(main).work)
      /\ count' = count + 1
      /\ rows' = IF count' >= 2 THEN popularworks' ELSE rows
      /\ UNCHANGED <<data, shared, asked, popularlist, reading>>
      /\ UNCHANGED image
  BY DEF RunWork, Runs, Reload
<1>2. /\ Fits(Head(main)) /\ Head(main) \in Block /\ main' \in Seq(Block)
  BY <1>1, Taken
<1>3. PICK x \in Work : /\ x = Head(main).work
                        /\ x \in popularlist \ (reading \cup ToSet(popularworks))
  BY <1>1, <1>2, BlockParts DEF Fits
<1>4. /\ popularworks \in Seq(Work) /\ Len(popularworks) \in Nat
      /\ count = Len(popularworks) /\ rows \in Seq(Work)
      /\ IsInjective(popularworks) /\ ToSet(popularworks) \subseteq popularlist
      /\ reading \subseteq popularlist \ ToSet(popularworks)
  BY Parts
<1>5. /\ popularworks' \in Seq(Work)
      /\ Len(popularworks') = Len(popularworks) + 1
      /\ ToSet(popularworks') = ToSet(popularworks) \cup {x}
      /\ IsInjective(popularworks')
  BY <1>1, <1>3, <1>4, OneMore
<1>6. count' = Len(popularworks') /\ count' \in Nat
  BY <1>1, <1>4, <1>5
<1>7. rows' \in Seq(Work)
  BY <1>1, <1>4, <1>5
<1>8. Types'
  BY <1>1, <1>2, <1>5, <1>6, <1>7 DEF PInv, Types
<1>9. Drawn'
  <2>1. (rows # << >> => rows = popularworks) /\ image \subseteq ToSet(rows)
    BY DEF PInv, Drawn
  <2>2. ToSet(<< >>) = {}
    BY DEF ToSet
  <2>3. image \subseteq ToSet(popularworks)
    BY <2>1, <2>2
  <2>4. CASE count' >= 2
    <3>1. rows' = popularworks' /\ image' \subseteq ToSet(popularworks')
      BY <1>1, <1>5, <2>3, <2>4
    <3> QED BY <3>1 DEF Drawn, ToSet
  <2>5. CASE ~(count' >= 2)
    <3>1. Len(popularworks) = 0
      BY <1>1, <1>4, <2>5
    <3>2. rows = << >> /\ rows' = << >> /\ image' = {}
      BY <1>1, <1>4, <2>1, <2>2, <2>5, <3>1, EmptySeq
    <3> QED BY <3>2 DEF Drawn
  <2> QED BY <2>4, <2>5
<1>10. Head(main).kind # "list" /\ ToSet(popularworks') \subseteq popularlist \ reading
  BY <1>1, <1>3, <1>4, <1>5
<1> QED BY <1>1, <1>3, <1>5, <1>6, <1>8, <1>9, <1>10, Remains

LEMMA OtherStays ==
  ASSUME PInv, RunMissing \/ RunFailure
  PROVE  PInv'
<1>1. /\ main # << >> /\ main' = Tail(main) /\ Head(main).kind # "list"
      /\ UNCHANGED <<data, shared, asked, popularlist, reading>>
      /\ UNCHANGED <<popularworks, count, image>>
      /\ rows' \in {rows, popularworks}
  BY DEF RunMissing, RunFailure, Runs, Reload
<1>2. main' \in Seq(Block)
  BY <1>1, Taken
<1>3. /\ popularworks \in Seq(Work) /\ rows \in Seq(Work)
      /\ count = Len(popularworks)
      /\ IsInjective(popularworks) /\ ToSet(popularworks) \subseteq popularlist
      /\ reading \subseteq popularlist \ ToSet(popularworks)
  BY Parts
<1>4. Types'
  BY <1>1, <1>2, <1>3 DEF PInv, Types
<1>5. Drawn'
  <2>1. (rows # << >> => rows = popularworks) /\ image \subseteq ToSet(rows)
    BY DEF PInv, Drawn
  <2>2. ToSet(<< >>) = {}
    BY DEF ToSet
  <2>3. /\ rows' # << >> => rows' = popularworks
        /\ image \subseteq ToSet(rows')
    BY <1>1, <2>1, <2>2
  <2> QED BY <1>1, <2>3 DEF Drawn, ToSet
<1>6. /\ count' = Len(popularworks') /\ IsInjective(popularworks')
      /\ ToSet(popularworks') \subseteq popularlist \ reading
  BY <1>1, <1>3
<1> QED BY <1>1, <1>4, <1>5, <1>6, Remains

-----------------------------------------------------------------------------
(* The user and the owner. *)
LEMMA TapStays ==
  ASSUME PInv, TapRow \/ CloseImage
  PROVE  PInv' /\ (crashed' => crashed)
<1>1. /\ UNCHANGED <<data, shared>>
      /\ UNCHANGED <<asked, reading, main, popularlist, popularworks, count, rows>>
  BY DEF TapRow, CloseImage
<1>2. (rows # << >> => rows = popularworks) /\ rows \in Seq(Work)
  BY DEF PInv, Drawn, Types
<1>3. /\ crashed' => crashed
      /\ image' = {} \/ \E w \in Work : image' = {w} /\ w \in ToSet(rows)
  <2>1. CASE CloseImage
    BY <2>1 DEF CloseImage
  <2>2. CASE TapRow
    <3>1. PICK i \in DOMAIN rows :
            IF i \in DOMAIN popularworks
            THEN image' = {popularworks[i]} /\ crashed' = FALSE
            ELSE image' = image /\ crashed' = TRUE
      BY <2>2 DEF TapRow
    <3>2. rows = popularworks /\ rows[i] \in Work /\ rows[i] \in ToSet(rows)
      BY <1>2, <3>1, ElementOfSeq DEF ToSet
    <3> QED BY <3>1, <3>2
  <2> QED BY <2>1, <2>2
<1>4. Types'
  BY <1>1, <1>3 DEF PInv, Types
<1>5. Drawn'
  BY <1>1, <1>2, <1>3 DEF Drawn
<1>6. Displayed' /\ \A w : P!Gone(w)' <=> P!Gone(w)
  BY <1>1, StillDisplayed DEF PInv
<1>7. InOrder' /\ EachOnce'
  BY <1>1, <1>6 DEF PInv, InOrder, EachOnce
<1> QED BY <1>3, <1>4, <1>5, <1>6, <1>7 DEF PInv

LEMMA IdleStays ==
  ASSUME PInv, UNCHANGED vars
  PROVE  PInv'
<1>1. UNCHANGED <<data, shared>> /\ UNCHANGED <<screen, asked, reading, main>>
  BY DEF vars
<1>2. Displayed' /\ \A w : P!Gone(w)' <=> P!Gone(w)
  BY <1>1, StillDisplayed DEF PInv
<1> QED BY <1>1, <1>2 DEF PInv, Types, InOrder, EachOnce, Drawn, screen

LEMMA OwnerKeeps ==
  ASSUME PP!IInv, PInv, OwnerStep
  PROVE  PInv'
<1>1. /\ P!Next /\ shared' = shared \cup {w \in Work : cloud'[w].posted}
      /\ UNCHANGED <<asked, reading, main, popularlist, popularworks, count, rows, image>>
  BY DEF OwnerStep, screen
<1>2. \A w \in Work : /\ P!Seen(w) => P!Seen(w)'
                      /\ P!Gone(w) => P!Gone(w)'
                      /\ cloud'[w].posted => P!Seen(w)'
  BY <1>1, OwnerStays
<1>3. shared \in SUBSET Work /\ shared \subseteq shared' /\ shared' \in SUBSET Work
  BY <1>1 DEF PInv, Types
<1>4. Types' /\ Drawn'
  BY <1>1, <1>3 DEF PInv, Types, Drawn
<1>5. Displayed'
  <2>1. {w \in Work : cloud'[w].posted} \subseteq shared'
    BY <1>1
  <2>2. \A w \in shared' : P!Seen(w)'
    BY <1>1, <1>2, <1>3 DEF PInv, Displayed
  <2> QED BY <2>1, <2>2 DEF Displayed
<1>6. InOrder'
  BY <1>1, <1>3 DEF PInv, InOrder
<1>7. EachOnce'
  <2>1. ASSUME NEW i \in 1..Len(main), main[i].kind = "work", ~main[i].found
        PROVE  P!Gone(main[i].work)'
    <3>1. popularlist \in SUBSET Work /\ Fits(main[i])
      BY Parts
    <3>2. PICK x \in Work : x = main[i].work /\ P!Gone(x)
      BY <2>1, <3>1 DEF Fits
    <3>3. P!Gone(x)'
      BY <1>2, <3>2
    <3> QED BY <1>1, <3>2, <3>3 DEF P!Gone
  <2> QED BY <1>1, <1>3, <2>1 DEF PInv, EachOnce
<1> QED BY <1>4, <1>5, <1>6, <1>7 DEF PInv

-----------------------------------------------------------------------------
(* The inductive invariant. *)
LEMMA PopularInit == Init => PP!IInv /\ PInv
<1> SUFFICES ASSUME Init PROVE PP!IInv /\ PInv
  OBVIOUS
<1>1. PP!IInv
  BY OwnerInit DEF Init
<1>2. \A w \in Work : ~cloud[w].posted
  BY DEF Init, P!Init, P!Absent
<1>3. /\ asked = TRUE /\ reading = {} /\ main = << >> /\ Len(main) = 0
      /\ popularlist = {} /\ popularworks = << >> /\ count = 0 /\ Len(popularworks) = 0
      /\ rows = << >> /\ image = {} /\ shared = {}
  BY DEF Init
<1>4. ToSet(<< >>) = {} /\ IsInjective(<< >>)
  BY DEF ToSet, IsInjective
<1>5. Types /\ Displayed
  BY <1>2, <1>3 DEF Types, Displayed
<1>6. InOrder /\ EachOnce /\ Drawn
  BY <1>3, <1>4 DEF InOrder, EachOnce, Drawn
<1> QED BY <1>1, <1>5, <1>6 DEF PInv

LEMMA PopularStep == PP!IInv /\ PInv /\ [Next]_vars => PP!IInv' /\ PInv'
<1> SUFFICES ASSUME PP!IInv, PInv, [Next]_vars PROVE PP!IInv' /\ PInv'
  OBVIOUS
<1>1. P!Next \/ UNCHANGED data
  BY DEF Next, MainQueue, vars, AnswerQuery, AnswerRead, RunList, RunWork, RunMissing,
         RunFailure, TapRow, CloseImage, OwnerStep
<1>2. PP!IInv'
  BY <1>1, OwnerStays
<1>3. PInv'
  BY QueryStays, ReadStays, ListStays, WorkStays, OtherStays, TapStays, IdleStays, OwnerKeeps
     DEF Next, MainQueue
<1> QED BY <1>2, <1>3

(* A step that kills the screen has read a removed work. *)
LEMMA Killed ==
  PInv /\ [Next]_vars =>
    (crashed' /\ ~crashed =>
       main # << >> /\ Head(main).kind = "work" /\ local[Head(main).work].doc = NoDoc)
<1> SUFFICES ASSUME PInv, [Next]_vars, crashed', ~crashed
             PROVE  main # << >> /\ Head(main).kind = "work" /\ local[Head(main).work].doc = NoDoc
  OBVIOUS
<1>1. ~(TapRow \/ CloseImage)
  BY TapStays
<1>2. RunMissing
  BY <1>1 DEF Next, MainQueue, vars, screen, AnswerQuery, AnswerRead, RunList, RunWork,
              RunFailure, OwnerStep
<1>3. main # << >> /\ main' = Tail(main) /\ Head(main).kind = "work" /\ ~Head(main).found
  BY <1>2 DEF RunMissing, Runs
<1>4. Fits(Head(main))
  BY <1>3, Taken
<1> QED BY <1>3, <1>4 DEF Fits, P!Gone

-----------------------------------------------------------------------------
(* Type correctness of the screen and of the owner's side under it. *)
THEOREM TypeCorrect == Spec => []TypeOK
<1>1. PP!IInv /\ PInv => TypeOK
  <2> SUFFICES ASSUME PP!IInv, PInv PROVE TypeOK
    OBVIOUS
  <2>1. Types /\ reading \subseteq popularlist
    BY DEF PInv, EachOnce
  <2>2. Cardinality(image) <= 1 /\ image \subseteq Work
    <3>1. CASE image = {}
      BY <3>1, FS_EmptySet
    <3>2. CASE image # {}
      <4>1. PICK w \in Work : image = {w}
        BY <2>1, <3>2 DEF Types
      <4>2. Cardinality({w}) = 1
        BY FS_Singleton
      <4> QED BY <4>1, <4>2
    <3> QED BY <3>1, <3>2
  <2> QED BY <2>1, <2>2, OwnerTypes DEF TypeOK, Types
<1> QED BY <1>1, PopularInit, PopularStep, PTL DEF Spec

(* Whatever the owner does and in whatever order the reads come back, the  *)
(* rows are the works read, each once, all of them listed and once on      *)
(* display (getPictures).                                                  *)
THEOREM RowsStayArrivals == Spec => []RowsAreArrivals
<1>1. PInv => RowsAreArrivals
  BY DEF PInv, EachOnce, Drawn, RowsAreArrivals
<1> QED BY <1>1, PopularInit, PopularStep, PTL DEF Spec

(* Only a work removed for good between the two reads kills the screen     *)
(* (the forced unwraps of WorksData), and a row that is tapped never does. *)
THEOREM OnlyRemovalKills == Spec => CrashOnlyIfRemoved
BY PopularInit, PopularStep, Killed, PTL DEF Spec, CrashOnlyIfRemoved
=============================================================================
