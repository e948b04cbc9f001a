------------------------------- MODULE Outbox -------------------------------
(***************************************************************************)
(* What the Firestore client promises about writes, with no streams and no *)
(* pipeline: each user of the device has an outbox that survives restarts; *)
(* its writes reach the server oldest first, leave the outbox oldest first *)
(* and only after the server has dealt with them, and whoever issued one   *)
(* is told the outcome at most once, in the order of issue, unless the app *)
(* was restarted since.                                                    *)
(***************************************************************************)
EXTENDS Naturals, Sequences

CONSTANT User

VARIABLES
  count,     (* writes issued; the n-th write is called n                  *)
  box,       (* for each user, the writes not settled, oldest first        *)
  reached,   (* the writes the server has dealt with at least once         *)
  waiting,   (* the writes whose issuer waits for the outcome              *)
  told       (* the writes whose issuer was told, in the order of telling  *)

outbox == <<count, box, reached, waiting, told>>

Init ==
  /\ count   = 0
  /\ box     = [u \in User |-> << >>]
  /\ reached = {}
  /\ waiting = {}
  /\ told    = << >>

Put(u) ==
  /\ count' = count + 1
  /\ box' = [box EXCEPT ![u] = Append(@, count')]
  /\ waiting' = waiting \cup {count'}
  /\ UNCHANGED <<reached, told>>

(* No write overtakes an older one of the same user on its first way.      *)
Reach(u) ==
  /\ \E i \in DOMAIN box[u] :
       /\ box[u][i] \notin reached
       /\ \A j \in 1..(i-1) : box[u][j] \in reached
       /\ reached' = reached \cup {box[u][i]}
  /\ UNCHANGED <<count, box, waiting, told>>

Tell(n) ==
  told' = IF n \in waiting THEN Append(told, n) ELSE told

Settle(u) ==
  /\ box[u] # << >>
  /\ Head(box[u]) \in reached
  /\ Tell(Head(box[u]))
  /\ waiting' = waiting \ {Head(box[u])}
  /\ box' = [box EXCEPT ![u] = Tail(@)]
  /\ UNCHANGED <<count, reached>>

(* The app dies: nobody waits any more.  It may die just after telling an  *)
(* outcome, before it has noted that the write is settled.                 *)
Forget ==
  /\ waiting' = {}
  /\ \/ UNCHANGED told
     \/ \E u \in User : /\ box[u] # << >>
                        /\ Head(box[u]) \in reached
                        /\ Tell(Head(box[u]))
  /\ UNCHANGED <<count, box, reached>>

Next == Forget \/ \E u \in User : Put(u) \/ Reach(u) \/ Settle(u)

Spec == Init /\ [][Next]_outbox
=============================================================================
