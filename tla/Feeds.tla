------------------------------- MODULE Feeds -------------------------------
(***************************************************************************)
(* The Feeds screen of another user, reading what module Publication       *)
(* writes.  A card takes two reads that no transaction joins: the entries  *)
(* of PublishedWorks, then the work one of them names; the owner's writes  *)
(* reach the server between them.  The fields of the screen say which work *)
(* a like is for, so they must still be about the card when it is swiped.  *)
(***************************************************************************)
EXTENDS Firestore, Sequences, FiniteSets, SequencesExt

CONSTANTS
  MaxQueue,    (* bounds the owner's pending writes                        *)
  MaxBusy,     (* bounds the fetches the user starts before they end       *)
  MaxHasty,    (* bounds the works drawn, once the user has been hasty     *)
  NoWork       (* no work: the fields before the first card                *)

ASSUME MaxQueueAssumption == MaxQueue \in Nat
ASSUME MaxHastyAssumption == MaxHasty \in Nat
ASSUME NoWorkAssumption == NoWork \notin Work
ASSUME WorkAssumption == IsFiniteSet(Work)

VARIABLES
  cloud, local, queue, unborn,   (* as in module Publication               *)
  enabled,     (* view.isUserInteractionEnabled                            *)
  publicWorks, (* the entries fetched, in the order of the last shuffle    *)
  target,      (* authorID and workID: the work a like is for              *)
  curr,        (* curr_workID                                              *)
  card,        (* the work drawn on the card                               *)
  swipes,      (* the swipes whose animation has not ended                 *)
  rising,      (* the number of cards whose animation has not ended        *)
  listing,     (* the number of reads of PublishedWorks under way          *)
  reading,     (* the works being read, oldest first                       *)
  main,        (* the main queue                                           *)
  hasty,       (* history: the user swiped before the first card was up    *)
  outcome      (* history: what the last step of the screen came to        *)

data == <<cloud, local, queue, unborn>>
feed == <<enabled, publicWorks, target, curr, card, swipes, rising>>
net  == <<listing, reading, main>>
vars == <<data, feed, net, hasty, outcome>>

P == INSTANCE Publication

Block == [kind: {"list"}, works: SUBSET Work]
           \cup [kind: {"work"}, work: Work, found: BOOLEAN]
           \cup [kind: {"failed"}]

(* viewDidLoad has called fetch().                                         *)
Init ==
  /\ P!Init
  /\ enabled = TRUE
  /\ publicWorks = << >>
  /\ target = NoWork /\ curr = NoWork /\ card = NoWork
  /\ swipes = << >> /\ rising = 0
  /\ listing = 1 /\ reading = << >> /\ main = << >>
  /\ hasty = FALSE /\ outcome = "none"

Running == outcome # "crash"

-----------------------------------------------------------------------------
Busy == Len(swipes) + listing + Len(reading) + Len(main) + rising

Drawn == Work \ unborn

(* The screen is enabled from the start: the first swipe need not wait for *)
(* the first card.                                                         *)
Haste ==
  /\ hasty' = (hasty \/ card = NoWork \/ rising > 0)
  /\ hasty' => Cardinality(Drawn) <= MaxHasty

(* Mutant: a swipe leaves the screen enabled.                              *)
SwipeOn(kind) ==
  /\ Running /\ enabled /\ Busy < MaxBusy
  /\ Haste
  /\ swipes' = Append(swipes, kind)
  /\ UNCHANGED <<data, enabled, publicWorks, target, curr, card, rising, net, outcome>>

(* like() and pass(): the screen is disabled until a card has come up, the *)
(* rest happens when the animation of the swipe ends.                      *)
Swipe(kind) ==
  /\ Running /\ enabled /\ Busy < MaxBusy
  /\ Haste
  /\ enabled' = FALSE
  /\ swipes' = Append(swipes, kind)
  /\ UNCHANGED <<data, publicWorks, target, curr, card, rising, net, outcome>>

(* The path of a document cannot have an empty segment.                    *)
LikeOutcome ==
  IF target = NoWork THEN "crash"
  ELSE IF target = card THEN "liked" ELSE "liked another"

(* The completion of an animation that was interrupted does nothing.       *)
SwipeBreaks ==
  /\ Running /\ swipes # << >>
  /\ outcome' = "failed"
  /\ swipes' = Tail(swipes)
  /\ UNCHANGED <<data, enabled, publicWorks, target, curr, card, rising, net, hasty>>

(* Mutant: fetch() keeps the entries of the fetch before.                  *)
SwipeEndsKeeping ==
  /\ Running /\ swipes # << >>
  /\ outcome' = IF Head(swipes) = "like" THEN LikeOutcome ELSE "none"
  /\ swipes' = Tail(swipes)
  /\ listing' = listing + 1
  /\ UNCHANGED <<data, enabled, publicWorks, target, curr, card, rising, reading, main, hasty>>

SwipeEnds ==
  /\ Running /\ swipes # << >>
  /\ outcome' = IF Head(swipes) = "like" THEN LikeOutcome ELSE "none"
  /\ swipes' = Tail(swipes)
  /\ publicWorks' = << >>
  /\ listing' = listing + 1
  /\ UNCHANGED <<data, enabled, target, curr, card, rising, reading, main, hasty>>

-----------------------------------------------------------------------------
(* The server answers; the reads of single works in any order.             *)
Failed == main' = Append(main, [kind |-> "failed"])

Entries == {w \in Work : cloud[w].posted}

AnswerList ==
  /\ listing > 0
  /\ listing' = listing - 1
  /\ \/ main' = Append(main, [kind |-> "list", works |-> Entries])
     \/ Failed
  /\ UNCHANGED <<data, feed, reading, hasty, outcome>>

AnswerRead ==
  \E i \in 1..Len(reading) :
    /\ reading' = RemoveAt(reading, i)
    /\ \/ main' = Append(main, [kind |-> "work", work |-> reading[i],
                                found |-> Readable(cloud[reading[i]])])
       \/ Failed
    /\ UNCHANGED <<data, feed, listing, hasty, outcome>>

-----------------------------------------------------------------------------
Runs(kind) == Running /\ main # << >> /\ Head(main).kind = kind

(* updateData(): takes the first entry of the shuffled list and reads its  *)
(* work; with no entry it returns, and nothing more happens.               *)
UpdateData(w, works) ==
  IF works = << >>
  THEN outcome' = "empty" /\ UNCHANGED <<target, reading>>
  ELSE /\ w \in ToSet(works)
       /\ target' = w
       /\ reading' = Append(reading, w)
       /\ outcome' = "none"

RunList(w) ==
  /\ Runs("list")
  /\ main' = Tail(main)
  /\ publicWorks' = publicWorks \o SetToSeq(Head(main).works)
  /\ UpdateData(w, publicWorks')
  /\ UNCHANGED <<data, enabled, curr, card, swipes, rising, listing, hasty>>

(* Mutants: the same art is taken again, or never, not even if it is the   *)
(* only one.                                                               *)
IsNewAlways == TRUE
IsNewStrictly == target # curr

(* The completion of getDocument draws the work it was answered with, but  *)
(* compares and keeps the id the screen holds now.                         *)
IsNew == Len(publicWorks) = 1 \/ target # curr

RunMissing ==
  /\ Runs("work") /\ ~Head(main).found
  /\ main' = Tail(main)
  /\ outcome' = "crash"
  /\ UNCHANGED <<data, feed, listing, reading, hasty>>

RunCard ==
  /\ Runs("work") /\ Head(main).found /\ IsNew
  /\ main' = Tail(main)
  /\ curr' = target
  /\ card' = Head(main).work
  /\ rising' = rising + 1
  /\ outcome' = "none"
  /\ UNCHANGED <<data, enabled, publicWorks, target, swipes, listing, reading, hasty>>

(* "same art recieved. Try to get another one."                            *)
RunSame(w) ==
  /\ Runs("work") /\ Head(main).found /\ ~IsNew
  /\ main' = Tail(main)
  /\ UpdateData(w, publicWorks)
  /\ UNCHANGED <<data, enabled, publicWorks, curr, card, swipes, rising, listing, hasty>>

(* An error is only logged.                                                *)
RunFailure ==
  /\ Runs("failed")
  /\ main' = Tail(main)
  /\ outcome' = "failed"
  /\ UNCHANGED <<data, feed, listing, reading, hasty>>

(* showCard(): the end of its animation enables the screen.                *)
CardIsUp ==
  /\ Running /\ rising > 0
  /\ rising' = rising - 1
  /\ enabled' = TRUE
  /\ UNCHANGED <<data, publicWorks, target, curr, card, swipes, net, hasty, outcome>>

-----------------------------------------------------------------------------
(* The owner and the owner's client, on another device.                    *)
OwnerStep ==
  /\ P!Next
  /\ hasty => Cardinality(Drawn') <= MaxHasty
  /\ UNCHANGED <<feed, net, hasty, outcome>>

MainQueue ==
  \/ \E w \in Work : RunList(w) \/ RunSame(w)
  \/ RunMissing \/ RunCard \/ RunFailure

Next ==
  \/ Swipe("like") \/ Swipe("pass") \/ SwipeEnds \/ SwipeBreaks
  \/ AnswerList \/ AnswerRead \/ MainQueue \/ CardIsUp
  \/ OwnerStep

(* shuffle() is random: a card that keeps being drawn again is followed by *)
(* another one at last, if there is another one.                           *)
DrawsAnother == \E w \in Work \ {curr} : RunList(w) \/ RunSame(w)

Spec ==
  /\ Init /\ [][Next]_vars
  /\ WF_vars(SwipeEnds) /\ WF_vars(AnswerList) /\ WF_vars(AnswerRead)
  /\ WF_vars(MainQueue) /\ WF_vars(CardIsUp)
  /\ SF_vars(DrawsAnother)
-----------------------------------------------------------------------------
(* Type invariant of the feed.                                             *)
TypeOK ==
  /\ P!TypeOK
  /\ enabled \in BOOLEAN
  /\ publicWorks \in Seq(Work) /\ reading \in Seq(Work)
  /\ {target, curr, card} \subseteq Work \cup {NoWork}
  /\ swipes \in Seq({"like", "pass"})
  /\ rising \in Nat /\ listing \in Nat
  /\ main \in Seq(Block)
  /\ hasty \in BOOLEAN

(* A like of a user who waits for the first card goes to the work on the   *)
(* card, although the id it is sent to is replaced as soon as the next     *)
(* entry is chosen (like, updateData).                                     *)
LikesWhatIsShown == ~hasty => outcome # "liked another"

(* For such a user the list holds each published work once: fetch() clears *)
(* it and each answer appends to it, so that nothing but the screen, which *)
(* stays disabled until a card is up, keeps two answers from adding up.    *)
ListedOnce == ~hasty => IsInjective(publicWorks)

(* For such a user the feed never dies of what the owner does (the forced  *)
(* unwraps of updateData).                                                 *)
NeverCrashes == ~hasty => outcome # "crash"

(* It dies of a removal at most: withdrawing or trashing the work between  *)
(* the two reads is harmless, and so is every order the owner's writes can *)
(* arrive in.  Only a hasty user has another way to kill it, a like before *)
(* any work was chosen (the empty path of like).                           *)
CrashOnlyIfRemoved ==
  [][outcome' = "crash" /\ outcome # "crash"
       => \/ Runs("work") /\ local[Head(main).work].doc = NoDoc
          \/ hasty /\ target = NoWork]_vars

(* A card that comes up is not the one just seen, unless it is the only    *)
(* one there is, for a user who waits.                                     *)
NoRepeat == [][~hasty /\ rising' > rising => card' # card \/ Len(publicWorks) = 1]_vars

(* The answers of two fetches have added up to a list of several entries,  *)
(* all of the work just seen: none of them is another one, and count == 1  *)
(* does not hold either.                                                   *)
Doubled == hasty /\ Len(publicWorks) > 1 /\ ToSet(publicWorks) = {curr}

(* The screen is enabled again after a swipe, of hasty users too: a card   *)
(* comes up, unless the feed is empty or dead, or the animation or a read  *)
(* has just failed.  The fetches of a hasty user may overlap, and that has *)
(* one more dead end, in which updateData calls itself for ever.           *)
EnabledAgain ==
  ~enabled ~> (enabled \/ outcome \in {"empty", "crash", "failed"} \/ Doubled)

-----------------------------------------------------------------------------
(* The inductive invariant: all that is on the way to the screen names     *)
(* works that were on display, and an answer without a work names a        *)
(* removed one; and while the user waits for the cards, at most one thing  *)
(* is under way, so that the fields are about the card when it matters and *)
(* the list is empty when an answer comes.                                 *)
Heard ==
  /\ \A i \in 1..Len(publicWorks) : P!Seen(publicWorks[i])
  /\ \A i \in 1..Len(reading) : P!Seen(reading[i])
  /\ \A i \in 1..Len(main) :
       /\ main[i].kind = "list" => \A w \in main[i].works : P!Seen(w)
       /\ main[i].kind = "work" /\ ~main[i].found => P!Gone(main[i].work)

InTurn ==
  /\ Busy <= 1
  /\ \A i \in 1..Len(reading) : reading[i] = target
  /\ \A i \in 1..Len(main) : main[i].kind = "work" => main[i].work = target
  /\ rising + Len(swipes) > 0 => card # NoWork
  /\ enabled /\ card # NoWork => Busy = rising
  /\ card # NoWork /\ (enabled \/ rising + Len(swipes) > 0) => target = card

Fresh ==
  /\ listing > 0 => publicWorks = << >>
  /\ \A i \in 1..Len(main) : main[i].kind = "list" => publicWorks = << >>

Waiting == InTurn /\ Fresh /\ IsInjective(publicWorks) /\ outcome # "liked another"

FeedInv == TypeOK /\ Heard /\ (~hasty => Waiting)
=============================================================================
