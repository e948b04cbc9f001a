------------------------------- MODULE Resent -------------------------------
(***************************************************************************)
(* Publication over a connection that loses results: a pending write stays *)
(* in the queue after the server has carried it out, until its result is   *)
(* read, and when the call breaks before that the client sends it again    *)
(* with all that follow (PendingWrites has the protocol; here it is        *)
(* reduced to how far the server has come with the present call).          *)
(***************************************************************************)
EXTENDS Publication

VARIABLE done    (* the oldest writes of the queue the server has carried  *)
                 (* out on the present call, their results not yet read    *)

resentVars == <<vars, done>>

ResentInit == Init /\ done = 0

Owner == (\E w \in Work : OwnerStep(w)) /\ UNCHANGED done

Unserved == queue[done + 1]

CarryOut ==
  /\ done < Len(queue)
  /\ Accepted(Unserved.op, cloud[Unserved.work])
  /\ cloud' = [cloud EXCEPT ![Unserved.work] = Effect(Unserved.op, @)]
  /\ done' = done + 1
  /\ UNCHANGED <<local, queue, unborn>>

(* The result of the oldest write is read.                                 *)
Confirm ==
  /\ done > 0
  /\ done' = done - 1
  /\ queue' = Tail(queue)
  /\ UNCHANGED <<cloud, local, unborn>>

(* Mutant: the refusal of one write drops the whole pipeline.              *)
RefuseAll ==
  /\ done < Len(queue)
  /\ ~Accepted(Unserved.op, cloud[Unserved.work])
  /\ done' = 0
  /\ queue' = << >>
  /\ UNCHANGED <<cloud, local, unborn>>

(* The server refuses a write and ends the call: the client takes the      *)
(* oldest write of its pipeline to be the refused one, drops it and starts *)
(* again with those that are left.                                         *)
Refuse ==
  /\ done < Len(queue)
  /\ ~Accepted(Unserved.op, cloud[Unserved.work])
  /\ done' = 0
  /\ queue' = Tail(queue)
  /\ UNCHANGED <<cloud, local, unborn>>

(* Mutant: the write whose result was lost is sent after the others.       *)
ResendLast ==
  /\ done > 0
  /\ done' = 0
  /\ queue' = Append(Tail(queue), Head(queue))
  /\ UNCHANGED <<cloud, local, unborn>>

(* The call breaks: all that is still in the queue is sent again.          *)
Resend == done > 0 /\ done' = 0 /\ UNCHANGED vars

ResentNext == Owner \/ CarryOut \/ Confirm \/ Refuse \/ Resend

ResentSpec == ResentInit /\ [][ResentNext]_resentVars

-----------------------------------------------------------------------------
(* Once none of a work's writes is pending, the server has what the owner  *)
(* sees: carrying the last writes out again changes nothing in the end.    *)
SettledIsShown == \A w \in Work : ~HasPending(w) => cloud[w] = local[w]

(* A merging write carried out again on a removed work brings it back      *)
(* without its drawing, and its entry with it; that happens only while the *)
(* removal is still pending.                                               *)
HollowOnlyIfRemoved ==
  \A w \in Work :
    \/ cloud[w].doc # NoDoc => cloud[w].doc.full /\ cloud[w].doc.public # Unset
    \/ local[w].doc = NoDoc /\ HasPending(w)

-----------------------------------------------------------------------------
(* The inductive invariant.  What is lost on the way is the order of the   *)
(* server's states, since writes are carried out again from any state the  *)
(* former calls have left; what lasts is that the last write of each kind  *)
(* decides.                                                                *)
Of(q, i, w, ops) == q[i].work = w /\ q[i].op \in ops

NoneFrom(q, k, w, ops) == \A i \in k..Len(q) : ~Of(q, i, w, ops)

Lists  == {"post", "unpost"}
Makes  == {"create", "publish", "rename"}
Places == {"create", "publish", "private", "trash", "delete"}

PlacedBy(op) ==
  CASE op = "publish" -> Public
    [] op = "trash"   -> Trashed
    [] OTHER          -> Private

(* The last write of a kind leaves what the owner sees; the first save of  *)
(* a work is ahead of all its other writes, and on a removed work every    *)
(* write that could bring it back is followed by a removal.                *)
Lasting(q, client, w) ==
  /\ \A i \in 1..Len(q) :
       Of(q, i, w, Lists) /\ NoneFrom(q, i+1, w, Lists)
         => (client[w].posted <=> q[i].op = "post")
  /\ client[w].doc # NoDoc =>
       /\ NoneFrom(q, 1, w, {"delete"})
       /\ \A i, j \in 1..Len(q) : Of(q, i, w, {"create"}) /\ j < i => q[j].work # w
       /\ \A i \in 1..Len(q) :
            Of(q, i, w, Places) /\ NoneFrom(q, i+1, w, Places)
              => client[w].doc.public = PlacedBy(q[i].op)
  /\ client[w].doc = NoDoc =>
       \A i \in 1..Len(q) :
         Of(q, i, w, Makes) => ~NoneFrom(q, i+1, w, {"delete"})

(* Where the writes from the k-th on, the ones to be carried out yet, do   *)
(* not decide, the server has what the owner sees already.                 *)
Leading(q, k, server, client, w) ==
  /\ NoneFrom(q, k, w, Lists) => server[w].posted = client[w].posted
  /\ client[w].doc # NoDoc =>
       /\ server[w].doc = NoDoc => ~NoneFrom(q, k, w, {"create"})
       /\ server[w].doc # NoDoc => server[w].doc.full /\ server[w].doc.public # Unset
       /\ NoneFrom(q, k, w, Places) => server[w].doc.public = client[w].doc.public
  /\ client[w].doc = NoDoc =>
       (NoneFrom(q, k, w, {"delete"}) => server[w].doc = NoDoc)

Replayed(q, k, server, client, fresh) ==
  /\ \A w \in Work : Lasting(q, client, w) /\ Leading(q, k, server, client, w)
  /\ \A w \in fresh : server[w] = Absent /\ NoneFrom(q, 1, w, Op)

ResentInv ==
  /\ OwnersView
  /\ done \in 0..Len(queue)
  /\ Replayed(queue, done + 1, cloud, local, unborn)
=============================================================================
