---------------------------- MODULE WorksScreen ----------------------------
(***************************************************************************)
(* The Works screen, the detail page above it and its alerts, on top of    *)
(* the pending writes of module Publication.                               *)
(*                                                                         *)
(* Everything the app does runs on the main thread: taps, and the blocks   *)
(* that the auth listener, the queries and the writes complete with, which *)
(* are dispatched to the main queue and run in that order.  Between two of *)
(* them anything can happen, so the lists a tap was aimed at need not be   *)
(* the lists its handler reads.                                            *)
(***************************************************************************)
EXTENDS Firestore, Sequences, FiniteSets, SequencesExt

CONSTANTS
  WorkOrder,     (* the works in the order of their ids, the order in      *)
                 (* which a query returns them                             *)
  MaxQueue,      (* bounds the pending writes                              *)
  MaxBusy,       (* bounds the answers, queries and blocks the user keeps  *)
                 (* the app waiting for                                    *)
  Careful,       (* TRUE: the user waits until nothing is under way, closes *)
                 (* the page by the drag only, and empties the trash only  *)
                 (* when it holds a single work                            *)
  MayFail,       (* TRUE: a query may be answered by an error              *)
  NoPage         (* no detail page is open                                 *)

ASSUME WorkOrderAssumption == WorkOrder \in Seq(Work)
ASSUME MaxQueueAssumption == MaxQueue \in Nat
ASSUME NoPageAssumption == NoPage \notin [work: Work, published: BOOLEAN]

VARIABLES
  cloud, local, queue, unborn,   (* as in module Publication               *)
  calls,      (* the completion of each pending write, in queue order      *)
  screen,     (* "canvas" or "works"                                       *)
  lists,      (* privateWorks, publicWorks, trashedWorks                   *)
  rows,       (* the rows the three views drew at their last reloadData    *)
  flags,      (* those of backfromdetail, movetotrash, restoretrash,       *)
              (* removetrash that are true                                 *)
  index,      (* the row last tapped                                       *)
  enabled,    (* view.isUserInteractionEnabled                             *)
  sweepable,  (* trashAllButton.isEnabled                                  *)
  page,       (* the work of the open detail page and the view it shows    *)
  alert,      (* the alert on top, if any                                  *)
  deleting,   (* what the loop of trashAll has still to delete             *)
  main,       (* the main queue                                            *)
  asked,      (* the queries not answered yet                              *)
  tapped,     (* history: the work in the row last tapped                  *)
  outcome     (* history: what the last block did, for the properties      *)

data == <<cloud, local, queue, unborn>>
ui   == <<screen, lists, rows, flags, index, enabled, sweepable, page, alert, deleting>>
hist == <<tapped, outcome>>
vars == <<data, calls, ui, main, asked, hist>>

P == INSTANCE Publication

Call == {"none", "saved", "published", "withdrawn", "trashed", "restored", "removed"}

Lists == [private: Seq(Work), public: Seq(Work), trash: Seq(Work)]

NoLists == [private |-> << >>, public |-> << >>, trash |-> << >>]

Flag == {"backfromdetail", "movetotrash", "restoretrash", "removetrash"}

Block == [kind: {"auth", "failed"} \cup Call] \cup [kind: {"docs"}, docs: Lists]

(* The elements of s that are in S, in the order of s.                     *)
Chosen(s, S) ==
  LET upto[n \in 0..Len(s)] ==
        IF n = 0 THEN << >>
        ELSE IF s[n] \in S THEN Append(upto[n-1], s[n]) ELSE upto[n-1]
  IN  upto[Len(s)]

Init ==
  /\ P!Init
  /\ calls = << >>
  /\ screen = "canvas"
  /\ lists = NoLists /\ rows = NoLists
  /\ flags = {} /\ index = 1 /\ enabled = TRUE /\ sweepable = TRUE
  /\ page = NoPage /\ alert = "none" /\ deleting = << >>
  /\ main = << >> /\ asked = 0
  /\ tapped \in Work /\ outcome = "none"

-----------------------------------------------------------------------------
Idle == deleting = << >> /\ outcome # "crash"

Quiet == queue = << >> /\ main = << >> /\ asked = 0

UserMayAct == Idle /\ (Careful => Quiet)

(* What is under way for the screen: each write that is waited for turns   *)
(* into a block, a fetch, a query and its result, one at a time.  Only the *)
(* user adds to it, so the bound never holds up the app itself.            *)
UnderWay == Len(main) + asked + Len(Chosen(calls, Call \ {"none"}))

Room(n) == UnderWay + n <= MaxBusy

OnWorks == screen = "works" /\ enabled /\ page = NoPage /\ alert = "none"

(* Mutant: fetch() without the three assignments it starts with.           *)
StartFetchOnTop(rest) ==
  /\ UNCHANGED lists
  /\ main' = Append(rest, [kind |-> "auth"])

(* fetch(): the three lists are emptied at once, the rest happens when the *)
(* new auth listener is called, a turn of the main queue later.            *)
StartFetch(rest) ==
  /\ lists' = NoLists
  /\ main' = Append(rest, [kind |-> "auth"])

(* A screen that is left or opened anew forgets everything but the writes: *)
(* their completions are gone with it.                                     *)
Reset ==
  /\ rows' = NoLists /\ flags' = {} /\ index' = 1 /\ enabled' = TRUE
  /\ sweepable' = TRUE /\ deleting' = << >>
  /\ page' = NoPage /\ alert' = "none" /\ asked' = 0
  /\ calls' = [i \in 1..Len(queue) |-> "none"]
  /\ UNCHANGED <<data, tapped>>

(* viewDidLoad of a new Works screen.                                      *)
OpenWorks ==
  /\ screen = "canvas" /\ enabled /\ UserMayAct
  /\ screen' = "works"
  /\ Reset /\ StartFetch(<< >>)
  /\ outcome' = "none"

(* The user leaves by the new-art button or the side menu.                 *)
Leave ==
  /\ OnWorks /\ UserMayAct
  /\ screen' = "canvas" /\ lists' = NoLists /\ main' = << >>
  /\ Reset
  /\ outcome' = "none"

(* The app is killed, or crashes, and is started again, at any moment.     *)
Restart ==
  /\ screen' = "canvas" /\ lists' = NoLists /\ main' = << >>
  /\ Reset
  /\ outcome' = "none"

(* CanvasViewController.savePixelArt.                                      *)
SaveDrawing(w) ==
  /\ screen = "canvas" /\ enabled /\ UserMayAct /\ Room(1)
  /\ P!Create(w)
  /\ calls' = Append(calls, "saved")
  /\ enabled' = FALSE
  /\ UNCHANGED <<screen, lists, rows, flags, index, page, alert, deleting,
                 main, asked, tapped, sweepable>>
  /\ outcome' = "none"

-----------------------------------------------------------------------------
(* didSelectItemAt and prepare: the row comes from what was drawn, the     *)
(* work from the list as it is now.                                        *)
OpenPage(which) ==
  /\ OnWorks /\ UserMayAct
  /\ \E i \in 1..Len(rows[which]) :
       /\ index' = i
       /\ tapped' = rows[which][i]
       /\ IF i \in 1..Len(lists[which])
          THEN /\ page' = [work |-> lists[which][i], published |-> which = "public"]
               /\ outcome' = IF lists[which][i] = rows[which][i]
                             THEN "none" ELSE "opened another"
          ELSE page' = page /\ outcome' = "crash"
  /\ UNCHANGED <<data, calls, screen, lists, rows, flags, enabled, alert,
                 deleting, main, asked, sweepable>>

(* Page buttons.  The publish button shows in the private view, the one    *)
(* that withdraws in the published view, the trash button in both.         *)
OnPage == page # NoPage /\ UserMayAct

PressPublish ==
  /\ OnPage /\ ~page.published /\ Room(1)
  /\ P!Publish(page.work)
  /\ calls' = calls \o <<"published", "none">>
  /\ UNCHANGED <<ui, main, asked, tapped>> /\ outcome' = "none"

PressRemovePublished ==
  /\ OnPage /\ page.published /\ Room(1)
  /\ P!Unpublish(page.work)
  /\ calls' = calls \o <<"withdrawn", "none">>
  /\ UNCHANGED <<ui, main, asked, tapped>> /\ outcome' = "none"

PressDelete ==
  /\ OnPage /\ Room(1)
  /\ P!Trash(page.work)
  /\ calls' = calls \o <<"trashed", "none">>
  /\ UNCHANGED <<ui, main, asked, tapped>> /\ outcome' = "none"

(* Completions that address a page no longer on screen do nothing.         *)
PageCalls == {"published", "withdrawn", "trashed"}

ClosePage ==
  /\ page' = NoPage
  /\ calls' = [i \in 1..Len(calls) |->
                 IF calls[i] \in PageCalls THEN "none" ELSE calls[i]]

StayingBlock == {b \in Block : b.kind \notin PageCalls}

WithoutPageCalls(blocks) == Chosen(blocks, StayingBlock)

(* done(): the edge pan dismisses the page; the delegate is not told.      *)
EdgePan ==
  /\ OnPage /\ ~Careful /\ ClosePage
  /\ main' = WithoutPageCalls(main)
  /\ UNCHANGED <<data, screen, lists, rows, flags, index, enabled, alert,
                 deleting, asked, tapped, sweepable>>
  /\ outcome' = "none"

(* presentationControllerWillDismiss is called when the drag begins; the   *)
(* page may stay, if the drag is cancelled.                                *)
DragDown ==
  /\ OnPage /\ Room(1)
  /\ flags' = flags \cup {"backfromdetail"}
  /\ \/ page' = page /\ calls' = calls /\ StartFetch(main)
     \/ ClosePage /\ StartFetch(WithoutPageCalls(main))
  /\ UNCHANGED <<data, screen, rows, index, enabled, alert, deleting, asked,
                 tapped, sweepable>>
  /\ outcome' = "none"

-----------------------------------------------------------------------------
(* didSelectRowAt of the trash table.                                      *)
TapTrashRow ==
  /\ OnWorks /\ UserMayAct
  /\ \E i \in 1..Len(rows.trash) : index' = i /\ tapped' = rows.trash[i]
  /\ alert' = "actions"
  /\ UNCHANGED <<data, calls, screen, lists, rows, flags, enabled, page,
                 deleting, main, asked, sweepable>>
  /\ outcome' = "none"

CancelAlert ==
  /\ alert # "none" /\ UserMayAct
  /\ alert' = "none"
  /\ UNCHANGED <<data, calls, screen, lists, rows, flags, index, enabled,
                 page, deleting, main, asked, tapped, sweepable>>
  /\ outcome' = "none"

(* The handlers of the alert read trashedWorks[index] when they run.       *)
ActOnTrash(op, call, missed) ==
  /\ Room(1)
  /\ alert' = "none"
  /\ IF index \in 1..Len(lists.trash)
     THEN LET w == lists.trash[index] IN
          /\ P!Write(w, op)
          /\ calls' = Append(calls, call)
          /\ outcome' = IF w = tapped THEN "none" ELSE missed
     ELSE UNCHANGED <<queue, local, calls>> /\ outcome' = "crash"
  /\ UNCHANGED <<cloud, unborn, screen, lists, rows, flags, index, enabled,
                 page, deleting, main, asked, tapped, sweepable>>

ChooseRestore ==
  alert = "actions" /\ UserMayAct /\ ActOnTrash("private", "restored", "restored another")

ChooseRemove ==
  /\ alert = "actions" /\ UserMayAct
  /\ alert' = "sure"
  /\ UNCHANGED <<data, calls, screen, lists, rows, flags, index, enabled,
                 page, deleting, main, asked, tapped, sweepable>>
  /\ outcome' = "none"

ConfirmRemove ==
  alert = "sure" /\ UserMayAct /\ ActOnTrash("delete", "removed", "removed another")

(* trashAll(): the button is enabled while a result showed trash; after    *)
(* two alerts, the handler loops over the list.                            *)
TapTrashAll ==
  /\ OnWorks /\ UserMayAct
  /\ sweepable
  /\ alert' = "sweep"
  /\ UNCHANGED <<data, calls, screen, lists, rows, flags, index, enabled,
                 page, deleting, main, asked, tapped, sweepable>>
  /\ outcome' = "none"

ConfirmTrashAll ==
  /\ alert = "sweep" /\ UserMayAct
  /\ Careful => Len(lists.trash) = 1
  /\ Room(Len(lists.trash))
  /\ alert' = "none"
  /\ deleting' = lists.trash
  /\ UNCHANGED <<data, calls, screen, lists, rows, flags, index, enabled,
                 page, main, asked, tapped, sweepable>>
  /\ outcome' = "none"

DeleteNext ==
  /\ deleting # << >>
  /\ P!Write(Head(deleting), "delete")
  /\ calls' = Append(calls, "removed")
  /\ deleting' = Tail(deleting)
  /\ UNCHANGED <<cloud, unborn, screen, lists, rows, flags, index, enabled,
                 page, alert, main, asked, hist, sweepable>>

-----------------------------------------------------------------------------
(* The server answers the oldest write; its completion goes to the main    *)
(* queue.  A refused write's completion only logs.                         *)
Deliver ==
  /\ P!Deliver
  /\ calls' = Tail(calls)
  /\ main' = IF Head(calls) # "none" /\ Accepted(Head(queue).op, cloud[Head(queue).work])
             THEN Append(main, [kind |-> Head(calls)])
             ELSE main
  /\ UNCHANGED <<ui, asked, hist>>

(* A query returns the client's view of the collection at that time, the   *)
(* pending writes included, online or from the cache; or it fails.         *)
Filed(p) == {w \in Work : Readable(local[w]) /\ local[w].doc.public = p}

Listed(p) == Chosen(WorkOrder, Filed(p))

(* Mutant: the trash list takes every work that is not private.            *)
SnapshotByElse == [private |-> Listed(Private), public |-> Listed(Public),
                   trash |-> Listed(Public) \o Listed(Trashed)]

Snapshot == [private |-> Listed(Private), public |-> Listed(Public), trash |-> Listed(Trashed)]

Answer ==
  /\ asked > 0
  /\ asked' = asked - 1
  /\ \/ main' = Append(main, [kind |-> "docs", docs |-> Snapshot])
     \/ MayFail /\ main' = Append(main, [kind |-> "failed"])
  /\ UNCHANGED <<data, calls, ui, hist>>

-----------------------------------------------------------------------------
(* The blocks of the main queue.                                           *)
Runs(kind) == Idle /\ main # << >> /\ Head(main).kind = kind

(* The auth listener: disables the screen and asks for the documents.      *)
RunListener ==
  /\ Runs("auth")
  /\ main' = Tail(main)
  /\ enabled' = FALSE
  /\ asked' = asked + 1
  /\ UNCHANGED <<data, calls, screen, lists, rows, flags, index, page, alert,
                 deleting, tapped, sweepable>>
  /\ outcome' = "none"

(* The completion of getDocuments: appends what it got, redraws what the   *)
(* flags say and enables the screen.                                       *)
Appended(docs) == [l \in DOMAIN lists |-> lists[l] \o docs[l]]

(* Mutants: a reloadData is missing.                                       *)
RedrawnPrivateOnly ==
  IF "backfromdetail" \in flags THEN {"private"} ELSE {"private", "public", "trash"}
RedrawnNoTrash ==
  IF flags # {} THEN {"private", "public"} ELSE {"private", "public", "trash"}

Redrawn ==
  IF "backfromdetail" \in flags
  THEN {"private", "public"} \cup (IF "movetotrash" \in flags THEN {"trash"} ELSE {})
  ELSE IF "restoretrash" \in flags THEN {"private", "trash"}
  ELSE IF "removetrash" \in flags THEN {"trash"}
  ELSE {"private", "public", "trash"}

(* Mutant: movetotrash is not reset.                                       *)
ClearedBut ==
  IF "backfromdetail" \in flags THEN {"backfromdetail"}
  ELSE IF "restoretrash" \in flags THEN {"restoretrash"}
  ELSE {"removetrash"}

Cleared ==
  IF "backfromdetail" \in flags THEN {"backfromdetail", "movetotrash"}
  ELSE IF "restoretrash" \in flags THEN {"restoretrash"}
  ELSE {"removetrash"}

HandleResult(enable) ==
  /\ Runs("docs")
  /\ main' = Tail(main)
  /\ lists' = Appended(Head(main).docs)
  /\ rows' = [l \in DOMAIN rows |-> IF l \in Redrawn THEN lists'[l] ELSE rows[l]]
  /\ flags' = flags \ Cleared
  /\ enabled' = enable /\ sweepable' = (lists'.trash # << >>)
  /\ outcome' = "none"
  /\ UNCHANGED <<data, calls, screen, index, page, alert, deleting, asked, tapped>>

(* Mutant: the screen is enabled by the first load only.                   *)
RunResultDisabled == HandleResult(flags = {})

RunResult == HandleResult(TRUE)

(* The completion with an error only logs it.                              *)
RunFailure ==
  /\ Runs("failed")
  /\ main' = Tail(main)
  /\ UNCHANGED <<data, calls, ui, asked, tapped>>
  /\ outcome' = "none"

(* canvas_to_works, from the completion of the canvas's save.              *)
RunSaved ==
  /\ Runs("saved")
  /\ screen' = "works"
  /\ Reset /\ StartFetch(<< >>)
  /\ outcome' = "none"

RunPageView(kind) ==
  /\ Runs(kind)
  /\ main' = Tail(main)
  /\ page' = [page EXCEPT !.published = (kind = "published")]
  /\ UNCHANGED <<data, calls, screen, lists, rows, flags, index, enabled,
                 alert, deleting, asked, tapped, sweepable>>
  /\ outcome' = "none"

(* unwind_works from the page: unwindToWorks.                              *)
RunTrashed ==
  /\ Runs("trashed")
  /\ ClosePage
  /\ flags' = flags \cup {"backfromdetail", "movetotrash"}
  /\ StartFetch(WithoutPageCalls(Tail(main)))
  /\ UNCHANGED <<data, screen, rows, index, enabled, alert, deleting, asked,
                 tapped, sweepable>>
  /\ outcome' = "none"

RunTrashAnswer(kind, flag) ==
  /\ Runs(kind)
  /\ flags' = flags \cup {flag}
  /\ StartFetch(Tail(main))
  /\ UNCHANGED <<data, calls, screen, rows, index, enabled, page, alert,
                 deleting, asked, tapped, sweepable>>
  /\ outcome' = "none"

RunRestored == RunTrashAnswer("restored", "restoretrash")
RunRemoved  == RunTrashAnswer("removed", "removetrash")

-----------------------------------------------------------------------------
User ==
  \/ OpenWorks \/ Leave \/ Restart \/ (\E w \in Work : SaveDrawing(w))
  \/ OpenPage("private") \/ OpenPage("public")
  \/ PressPublish \/ PressRemovePublished \/ PressDelete
  \/ EdgePan \/ DragDown
  \/ TapTrashRow \/ CancelAlert \/ ChooseRestore \/ ChooseRemove
  \/ ConfirmRemove \/ TapTrashAll \/ ConfirmTrashAll

MainQueue ==
  \/ RunListener \/ RunResult \/ RunFailure \/ RunSaved
  \/ RunPageView("published") \/ RunPageView("withdrawn")
  \/ RunTrashed \/ RunRestored \/ RunRemoved

Next == User \/ MainQueue \/ DeleteNext \/ Deliver \/ Answer

(* The main thread runs its queue and the loop of trashAll, and the        *)
(* network answers sooner or later; the user may stop at any moment.       *)
Spec ==
  /\ Init /\ [][Next]_vars
  /\ WF_vars(MainQueue) /\ WF_vars(DeleteNext) /\ WF_vars(Deliver) /\ WF_vars(Answer)
-----------------------------------------------------------------------------
(* Type invariant of the screen.                                           *)
TypeOK ==
  /\ P!TypeOK
  /\ calls \in Seq(Call) /\ Len(calls) = Len(queue)
  /\ screen \in {"canvas", "works"}
  /\ lists \in Lists /\ rows \in Lists /\ deleting \in Seq(Work)
  /\ flags \in SUBSET Flag
  /\ index \in Nat \ {0}
  /\ enabled \in BOOLEAN /\ sweepable \in BOOLEAN
  /\ page \in [work: Work, published: BOOLEAN] \cup {NoPage}
  /\ alert \in {"none", "actions", "sure", "sweep"}
  /\ main \in Seq(Block)
  /\ asked \in Nat

(* The handlers never read a row their list does not have (prepare,        *)
(* restore_handle, the confirmed removal).                                 *)
NoCrash == outcome # "crash"

(* What is opened, restored or removed is what the user tapped, although   *)
(* the handlers look it up again by its row.                               *)
ActsOnTapped == outcome \notin {"opened another", "restored another", "removed another"}

(* The same for a removal, which the user is asked to confirm: "Do you     *)
(* really want to remove it permanently?"                                  *)
RemovesTapped == outcome # "removed another"

Fetching ==
  \/ asked > 0
  \/ \E i \in 1..Len(main) : main[i].kind \in {"auth", "docs"}

(* Once nothing is under way on a screen the owner can touch, it shows     *)
(* what the owner has: every work once, in its list, and the three views   *)
(* draw their lists (fetch, and the flags of the handlers that call it).   *)
ShowsWhatIs ==
  OnWorks /\ Quiet /\ deleting = << >>
    => lists = Snapshot /\ rows = lists

(* A flag is set only while some fetch is under way that will answer it:   *)
(* one that stayed would make a later result redraw the wrong views.       *)
FlagsSettle == flags # {} => Fetching

(* The screen is never left disabled while every query succeeds: the last  *)
(* block of a fetch is the one that enables it.                            *)
Reenabled == ~enabled ~> (enabled \/ ~NoCrash)

(* Every write the screen issues is one the publication allows: no page    *)
(* acts on a removed work, and the trash list never on a published one.    *)
ImplementsPublication == P!Init /\ [][P!Next]_(P!vars)

-----------------------------------------------------------------------------
(* The inductive invariants behind the safety properties.                  *)

(* A completion that addresses the page is on its way only while the page  *)
(* is open: closing it drops the others (the type invariant needs this).   *)
PageAnswers ==
  page = NoPage =>
    calls \in Seq(Call \ PageCalls) /\ main \in Seq(StayingBlock)

(* The fetches under way: their listeners to be called, their queries to   *)
(* be answered and their results to be shown.                              *)
FetchBlock == {b \in Block : b.kind \in {"auth", "docs"}}

Fetches == asked + Len(Chosen(main, FetchBlock))

(* While no query fails: a fetch is under way for each flag, and a result  *)
(* clears one of them, movetotrash being cleared with backfromdetail.      *)
FlagsInv ==
  /\ "movetotrash" \in flags => "backfromdetail" \in flags
  /\ Cardinality(flags \ {"movetotrash"}) <= Fetches

(* The one thing that is under way for a careful user.                     *)
Due ==
  CASE main # << >>                         -> main[1].kind
    [] main = << >> /\ asked > 0            -> "query"
    [] main = << >> /\ asked = 0 /\ deleting # << >>  -> "delete"
    [] main = << >> /\ asked = 0 /\ deleting = << >> /\ calls # << >> -> calls[1]
    [] OTHER -> "none"

(* There is never a second one; a write that is waited for is the oldest,  *)
(* and the server will accept it.                                          *)
OneAtATime ==
  /\ Len(main) + asked + Len(deleting) <= 1
  /\ \A i \in 2..Len(calls) : calls[i] = "none"
  /\ calls # << >> /\ calls[1] # "none" =>
       /\ main = << >> /\ asked = 0 /\ deleting = << >>
       /\ Accepted(Head(queue).op, cloud[Head(queue).work])
  /\ deleting # << >> => queue = << >>

(* What can be due on which screen, and what an open alert is about.       *)
DueWhere ==
  /\ screen = "canvas" => Due \in {"none", "saved"} /\ page = NoPage
  /\ screen = "works" => Due # "saved"
  /\ alert # "none" =>
       Due = "none" /\ queue = << >> /\ screen = "works" /\ enabled /\ page = NoPage
  /\ alert \in {"actions", "sure"} =>
       index \in 1..Len(rows.trash) /\ tapped = rows.trash[index]
  /\ Due \in PageCalls => page # NoPage
  /\ Due \in {"restored", "removed", "delete"} => page = NoPage /\ flags = {}
  /\ flags \in {{}, {"backfromdetail"}, {"backfromdetail", "movetotrash"},
                {"restoretrash"}, {"removetrash"}}

(* The page shows a work the owner has; the trash behind it stays drawn    *)
(* as it is until the page moves its work there.                           *)
PageInv ==
  page # NoPage =>
    /\ flags \subseteq {"backfromdetail"}
    /\ local[page.work].doc # NoDoc
    /\ Due # "trashed" =>
         page.work \notin Filed(Trashed) /\ rows.trash = Snapshot.trash

(* A view that is out of date will be redrawn by the result that is due.   *)
ViewInv ==
  screen = "works" =>
    /\ Due \in {"auth", "query", "docs"} =>
         /\ lists = NoLists
         /\ \A l \in DOMAIN rows \ Redrawn : rows[l] = Snapshot[l]
    /\ Due = "docs" => main[1].docs = Snapshot
    /\ Due \in {"query", "docs", "failed"} => ~enabled
    /\ Due \in {"restored", "removed", "delete"} => rows.public = Snapshot.public
    /\ Due \in {"removed", "delete"} => rows.private = Snapshot.private
    /\ Due = "delete" => deleting[1] \in Filed(Trashed)
    /\ Due = "none" /\ enabled /\ page = NoPage =>
         lists = Snapshot /\ rows = lists /\ flags = {}

CarefulInv ==
  /\ TypeOK /\ PageAnswers /\ P!IInv /\ OneAtATime /\ DueWhere /\ PageInv /\ ViewInv
  /\ NoCrash /\ ActsOnTapped
=============================================================================
