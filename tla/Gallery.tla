------------------------------ MODULE Gallery ------------------------------
(***************************************************************************)
(* What publication promises, with no documents, no writes and no queue.   *)
(* The owner moves a work between four places at once; the display, where  *)
(* the other users look, follows in its own time and may pass through any  *)
(* number of intermediate states, but it is only ever out of step with the *)
(* works that are dirty, those whose last move it has not caught up with.  *)
(***************************************************************************)
EXTENDS FiniteSets

CONSTANT Work

VARIABLES place, display, dirty

gallery == <<place, display, dirty>>

Place == {"new", "private", "public", "trashed", "gone"}

Alive == {"private", "public", "trashed"}

Init ==
  /\ place   = [w \in Work |-> "new"]
  /\ display = {}
  /\ dirty   = {}

(* The owner draws a work, moves it or touches it where it is; a work that *)
(* is public must be taken down before it can be removed for good.         *)
MayMove(from, to) ==
  \/ from = "new" /\ to = "private"
  \/ from \in Alive /\ to \in Alive
  \/ from \in {"private", "trashed", "gone"} /\ to = "gone"

Move(w, to) ==
  /\ MayMove(place[w], to)
  /\ place' = [place EXCEPT ![w] = to]
  /\ dirty' = dirty \cup {w}
  /\ UNCHANGED display

(* The display changes for one dirty work; it may stop being dirty only    *)
(* when it is displayed exactly as the owner wants it.                     *)
Relay(w) ==
  /\ w \in dirty
  /\ display' \in {display \cup {w}, display \ {w}}
  /\ \/ dirty' = dirty
     \/ dirty' = dirty \ {w} /\ (w \in display' <=> place[w] = "public")
  /\ UNCHANGED place

Next == \E w \in Work : (\E to \in Place : Move(w, to)) \/ Relay(w)

Spec == Init /\ [][Next]_gallery

(* The promise: a work that is not dirty is on display exactly when it is  *)
(* in the public place; a work never drawn is never on display.            *)
Faithful ==
  \A w \in Work :
    /\ w \notin dirty => (w \in display <=> place[w] = "public")
    /\ place[w] = "new" => w \notin display \cup dirty
=============================================================================
