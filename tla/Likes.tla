------------------------------- MODULE Likes --------------------------------
(***************************************************************************)
(* The two counters of likes of a published work: one in the work, which   *)
(* its owner sees, one in its PublishedWorks entry, by which the Popular   *)
(* screen ranks.  A like of another user is an increment of each; the      *)
(* owner's editor resets the work's, and publishing writes the entry's     *)
(* from the number the owner's page was opened with.                       *)
(***************************************************************************)
EXTENDS Integers, Sequences

CONSTANTS
  MaxLikes,   (* bounds the likes given                                    *)
  MaxQueue    (* bounds the pending writes of the owner                    *)

NoEntry == -1

VARIABLES
  work,     (* the server: the likes in the work, and whether it is public *)
  entry,    (* the server: the likes in the entry, NoEntry without one     *)
  page,     (* the owner's detail page: the likes it was opened with,      *)
            (* whether it shows the work as published, whether it is up    *)
  owner,    (* the pending writes of the owner, oldest first               *)
  fan,      (* the pending writes of the other user, oldest first          *)
  card,     (* the other user's feed shows the work                        *)
  given     (* history: the number of likes given                          *)

vars == <<work, entry, page, owner, fan, card, given>>

Write(kind, likes) == [kind |-> kind, likes |-> likes]

Init ==
  /\ work = [likes |-> 0, public |-> FALSE]
  /\ entry = NoEntry
  /\ page = [likes |-> 0, public |-> FALSE, state |-> "closed"]
  /\ owner = << >> /\ fan = << >>
  /\ card = FALSE
  /\ given = 0

-----------------------------------------------------------------------------
(* What a pending write makes of the work; the entry is not read by its    *)
(* owner.                                                                  *)
OnWork(m, s) ==
  CASE m.kind = "private" -> [s EXCEPT !.public = FALSE]
    [] m.kind = "public"  -> [s EXCEPT !.public = TRUE]
    [] m.kind = "reset"   -> [s EXCEPT !.likes = 0]
    [] m.kind = "like"    -> [s EXCEPT !.likes = @ + 1]
    [] OTHER              -> s

(* An increment of a missing entry is refused and has no effect.           *)
OnEntry(m, e) ==
  CASE m.kind = "post"   -> m.likes
    [] m.kind = "unpost" -> NoEntry
    [] m.kind = "rank"   -> IF e = NoEntry THEN e ELSE e + 1
    [] OTHER             -> e

Issue(writes) ==
  /\ Len(owner) + Len(writes) <= MaxQueue
  /\ owner' = owner \o writes
  /\ UNCHANGED <<work, entry, fan, card, given>>

(* A work is tapped in the list that was fetched when nothing was pending. *)
Open ==
  /\ page.state = "closed" /\ owner = << >>
  /\ page' = [likes |-> work.likes, public |-> work.public, state |-> "open"]
  /\ UNCHANGED <<work, entry, owner, fan, card, given>>

Close ==
  /\ page.state = "open"
  /\ page' = [page EXCEPT !.state = "closed"]
  /\ UNCHANGED <<work, entry, owner, fan, card, given>>

Publish ==
  /\ page.state = "open" /\ ~page.public
  /\ Issue(<<Write("public", 0), Write("post", page.likes)>>)
  /\ UNCHANGED page

RemovePublished ==
  /\ page.state = "open" /\ page.public
  /\ Issue(<<Write("private", 0), Write("unpost", 0)>>)
  /\ UNCHANGED page

(* The editor, reachable from a private page only, is disabled until the   *)
(* colors are saved, and then hands its number of likes back to the page.  *)
SaveEdits ==
  /\ page.state = "open" /\ ~page.public
  /\ Issue((IF page.likes > 0 THEN <<Write("reset", 0)>> ELSE << >>)
             \o <<Write("colors", 0)>>)
  /\ page' = [page EXCEPT !.likes = 0, !.state = "saving"]

(* The completions move the page to the other view, or back from the       *)
(* editor.                                                                 *)
Completed(m) ==
  CASE m.kind = "public"  -> [page EXCEPT !.public = TRUE]
    [] m.kind = "private" -> [page EXCEPT !.public = FALSE]
    [] m.kind = "colors"  -> [page EXCEPT !.state = "open"]
    [] OTHER              -> page

DeliverOwner ==
  /\ owner # << >>
  /\ LET m == Head(owner) IN
       /\ work' = OnWork(m, work)
       /\ entry' = OnEntry(m, entry)
       /\ page' = Completed(m)
  /\ owner' = Tail(owner)
  /\ UNCHANGED <<fan, card, given>>

-----------------------------------------------------------------------------
(* The feed of the other user draws the work while its entry is there, and *)
(* keeps the card; a like goes to the work first.                          *)
ShowCard ==
  /\ ~card /\ entry # NoEntry
  /\ card' = TRUE
  /\ UNCHANGED <<work, entry, page, owner, fan, given>>

Like ==
  /\ card /\ given < MaxLikes
  /\ given' = given + 1
  /\ card' = FALSE
  /\ fan' = fan \o <<Write("like", 0), Write("rank", 0)>>
  /\ UNCHANGED <<work, entry, page, owner>>

DeliverFan ==
  /\ fan # << >>
  /\ work' = OnWork(Head(fan), work)
  /\ entry' = OnEntry(Head(fan), entry)
  /\ fan' = Tail(fan)
  /\ UNCHANGED <<page, owner, card, given>>

Next ==
  \/ Open \/ Close \/ Publish \/ RemovePublished \/ SaveEdits \/ DeliverOwner
  \/ ShowCard \/ Like \/ DeliverFan

Spec == Init /\ [][Next]_vars
-----------------------------------------------------------------------------
(* Once no write is pending, a published work is ranked by the likes it    *)
(* has: the entry's counter is the work's (publish, like, saveEdits).      *)
RankedAsLiked ==
  owner = << >> /\ fan = << >> /\ entry # NoEntry => entry = work.likes
=============================================================================
