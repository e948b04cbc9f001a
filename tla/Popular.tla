------------------------------ MODULE Popular ------------------------------
(***************************************************************************)
(* The Popular screen of another user: one query for the most liked        *)
(* entries of PublishedWorks, then one read per entry, all under way at    *)
(* once, while the owner's writes of module Publication go on arriving.    *)
(* Which entries are liked most is left open: any of them may be.          *)
(***************************************************************************)
EXTENDS Firestore, Sequences, FiniteSets, FiniteSetsExt, SequencesExt

CONSTANTS
  MaxQueue,   (* bounds the owner's pending writes                         *)
  Limit       (* the number of entries asked for                           *)

ASSUME MaxQueueAssumption == MaxQueue \in Nat
ASSUME LimitAssumption == Limit \in Nat

VARIABLES
  cloud, local, queue, unborn,   (* as in module Publication               *)
  asked,         (* the query is under way                                 *)
  popularlist,   (* the works of the entries it returned                   *)
  reading,       (* those of them still being read                         *)
  main,          (* the main queue                                         *)
  popularworks,  (* the works read, in the order they arrived              *)
  count,         (* the variable getPictures counts them with              *)
  rows,          (* the rows drawn at the last reloadData                  *)
  image,         (* the work on the image page, a set of one or none       *)
  shared,        (* history: the works that were ever on display           *)
  crashed        (* history: a forced unwrap failed                        *)

data   == <<cloud, local, queue, unborn>>
screen == <<popularlist, popularworks, count, rows, image, crashed>>
vars   == <<data, screen, asked, reading, main, shared>>

P == INSTANCE Publication

Block == [kind: {"list"}, works: SUBSET Work]
           \cup [kind: {"work"}, work: Work, found: BOOLEAN]
           \cup [kind: {"failed"}]

(* viewDidLoad has called fetchPopulars.                                   *)
Init ==
  /\ P!Init
  /\ asked = TRUE /\ reading = {} /\ main = << >>
  /\ popularlist = {} /\ popularworks = << >> /\ count = 0
  /\ rows = << >> /\ image = {}
  /\ shared = {} /\ crashed = FALSE

-----------------------------------------------------------------------------
(* The server answers, the reads of single works in any order.             *)
Failed == main' = Append(main, [kind |-> "failed"])

MostLiked(top) ==
  LET posted == {w \in Work : cloud[w].posted} IN
  /\ top \subseteq posted
  /\ Cardinality(top) = Min({Limit, Cardinality(posted)})

(* A failed query is logged, and nothing follows.                          *)
AnswerQuery ==
  /\ asked /\ asked' = FALSE
  /\ \/ \E top \in SUBSET Work :
          MostLiked(top) /\ main' = Append(main, [kind |-> "list", works |-> top])
     \/ main' = main
  /\ UNCHANGED <<data, screen, reading, shared>>

AnswerRead ==
  \E w \in reading :
    /\ reading' = reading \ {w}
    /\ \/ main' = Append(main, [kind |-> "work", work |-> w,
                                found |-> Readable(cloud[w])])
       \/ Failed
    /\ UNCHANGED <<data, screen, asked, shared>>

-----------------------------------------------------------------------------
Runs(kind) == ~crashed /\ main # << >> /\ Head(main).kind = kind

(* getPictures: reads every entry's work.                                  *)
RunList ==
  /\ Runs("list")
  /\ main' = Tail(main)
  /\ popularlist' = Head(main).works
  /\ reading' = Head(main).works
  /\ popularworks' = << >> /\ count' = 0
  /\ UNCHANGED <<data, rows, image, crashed, asked, shared>>

(* Mutants: the comparison the wrong way round, and off by one.            *)
ReloadEarly(n, works) == rows' = IF n <= 1 THEN works ELSE rows
ReloadLate(n, works) == rows' = IF n > 2 THEN works ELSE rows

(* The rows are drawn anew from the second work on: "when there is only    *)
(* one object, it wont cause a flicker".                                   *)
Reload(n, works) == rows' = IF n >= 2 THEN works ELSE rows

RunWork ==
  /\ Runs("work") /\ Head(main).found
  /\ main' = Tail(main)
  /\ popularworks' = Append(popularworks, Head(main).work)
  /\ count' = count + 1
  /\ Reload(count', popularworks')
  /\ UNCHANGED <<data, popularlist, image, crashed, asked, reading, shared>>

RunMissing ==
  /\ Runs("work") /\ ~Head(main).found
  /\ main' = Tail(main)
  /\ crashed' = TRUE
  /\ UNCHANGED <<data, popularlist, popularworks, count, rows, image, asked, reading, shared>>

RunFailure ==
  /\ Runs("failed")
  /\ main' = Tail(main)
  /\ Reload(count, popularworks)
  /\ UNCHANGED <<data, popularlist, popularworks, count, image, crashed, asked, reading, shared>>

(* didSelectItemAt and prepare: the row was drawn, the work is looked up.  *)
TapRow ==
  /\ ~crashed /\ image = {}
  /\ \E i \in DOMAIN rows :
       IF i \in DOMAIN popularworks
       THEN image' = {popularworks[i]} /\ crashed' = FALSE
       ELSE image' = image /\ crashed' = TRUE
  /\ UNCHANGED <<data, popularlist, popularworks, count, rows, asked, reading, main, shared>>

CloseImage ==
  /\ ~crashed /\ image # {} /\ image' = {}
  /\ UNCHANGED <<data, popularlist, popularworks, count, rows, crashed, asked, reading, main, shared>>

OwnerStep ==
  /\ P!Next
  /\ shared' = shared \cup {w \in Work : cloud'[w].posted}
  /\ UNCHANGED <<screen, asked, reading, main>>

MainQueue == RunList \/ RunWork \/ RunMissing \/ RunFailure

Next ==
  \/ AnswerQuery \/ AnswerRead \/ MainQueue
  \/ TapRow \/ CloseImage \/ OwnerStep

(* The network answers and the main thread runs its queue.                 *)
Spec ==
  /\ Init /\ [][Next]_vars
  /\ WF_vars(AnswerQuery) /\ WF_vars(AnswerRead) /\ WF_vars(MainQueue)
-----------------------------------------------------------------------------
(* Type invariant of the screen.                                           *)
TypeOK ==
  /\ P!TypeOK
  /\ popularlist \in SUBSET Work /\ reading \subseteq popularlist
  /\ popularworks \in Seq(Work) /\ rows \in Seq(Work)
  /\ Cardinality(image) <= 1 /\ image \subseteq Work
  /\ main \in Seq(Block)
  /\ count \in Nat

Arrived == ~asked /\ reading = {} /\ main = << >>

(* No work is shown twice and no answer mixes up two of them: the rows are *)
(* the works read, in the order they came, and stay so when a later read   *)
(* fails (getPictures shares its counter and list among its completions).  *)
RowsAreArrivals ==
  /\ IsInjective(popularworks)
  /\ ToSet(popularworks) \subseteq popularlist \cap shared
  /\ rows # << >> => rows = popularworks
  /\ image \subseteq ToSet(rows)

(* The screen dies of a work removed between the two reads at most.        *)
CrashOnlyIfRemoved ==
  [][crashed' /\ ~crashed =>
       main # << >> /\ Head(main).kind = "work" /\ local[Head(main).work].doc = NoDoc]_vars

(* Every listed work gets its row, in whatever order the answers come,     *)
(* unless a read failed or killed the screen.                              *)
ListedIsShown ==
  \A w \in Work :
    (w \in popularlist /\ Cardinality(popularlist) >= 2)
      ~> (w \in ToSet(rows) \/ crashed \/ (Arrived /\ count < Cardinality(popularlist)))

-----------------------------------------------------------------------------
(* The inductive invariant: the query comes first, then every listed work  *)
(* is in one place at most, being read, answered or among the works read;  *)
(* and all of them were on display.                                        *)
InOrder ==
  /\ asked => main = << >> /\ reading = {} /\ popularworks = << >>
  /\ \A i \in 1..Len(main) : main[i].kind = "list" =>
       /\ Len(main) = 1 /\ reading = {} /\ popularworks = << >> /\ ~asked
       /\ main[i].works \subseteq shared
  /\ count = Len(popularworks)

EachOnce ==
  /\ popularlist \subseteq shared
  /\ IsInjective(popularworks)
  /\ ToSet(popularworks) \subseteq popularlist
  /\ reading \subseteq popularlist \ ToSet(popularworks)
  /\ \A i \in 1..Len(main) : main[i].kind = "work" =>
       /\ main[i].work \in popularlist \ (reading \cup ToSet(popularworks))
       /\ ~main[i].found => P!Gone(main[i].work)
       /\ \A j \in 1..Len(main) :
            j # i /\ main[j].kind = "work" => main[j].work # main[i].work

Drawn == (rows # << >> => rows = popularworks) /\ image \subseteq ToSet(rows)

Displayed ==
  /\ {w \in Work : cloud[w].posted} \subseteq shared
  /\ \A w \in shared : P!Seen(w)

PopularInv == TypeOK /\ Displayed /\ InOrder /\ EachOnce /\ Drawn
=============================================================================
