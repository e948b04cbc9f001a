---------------------------- MODULE Publication ----------------------------
(***************************************************************************)
(* Publication of the works of one owner: the writes that the canvas, the  *)
(* detail page, the rename popup, the editor and the trash list issue, the *)
(* queue of pending writes the Firestore client keeps for the user, and    *)
(* the server the other users read from.                                   *)
(*                                                                         *)
(* The app never uses a batch or a transaction: publishing, withdrawing    *)
(* and trashing a work are two independent writes, to the work and to its  *)
(* PublishedWorks entry, delivered one after the other, possibly long      *)
(* after the screen issued them and possibly after the app was killed and  *)
(* started again (the queue is persistent, so neither is a step here).     *)
(* Here no result of a write is lost and the server carries each out once; *)
(* Resent drops that assumption, PendingWrites models the client itself.   *)
(***************************************************************************)
EXTENDS Firestore, Sequences

CONSTANT MaxQueue    (* bounds the writes waiting in the queue             *)

ASSUME MaxQueueAssumption == MaxQueue \in Nat

VARIABLES
  cloud,     (* the server: the two documents of each work                 *)
  local,     (* the owner's client: the cloud with the pending writes on   *)
             (* top of it, what every read of the owner's screens returns  *)
  queue,     (* the pending writes, oldest first                           *)
  unborn     (* the uuids not drawn yet                                    *)

vars == <<cloud, local, queue, unborn>>

(* A pending write.  "after" is the local view of the work's documents     *)
(* right after it was issued, as the client computes it.                   *)
Mutation == [op: Op, work: Work, after: WorkState]

Init ==
  /\ cloud  = [w \in Work |-> Absent]
  /\ local  = [w \in Work |-> Absent]
  /\ queue  = << >>
  /\ unborn = Work

-----------------------------------------------------------------------------
(* The client puts a write at the end of the queue and applies it to its   *)
(* view at once; the screens do not wait for the server.                   *)
Pending(op, w, s) == [op |-> op, work |-> w, after |-> Effect(op, s)]

Write(w, op) ==
  /\ Len(queue) < MaxQueue
  /\ queue' = Append(queue, Pending(op, w, local[w]))
  /\ local' = [local EXCEPT ![w] = Effect(op, @)]

(* Two writes issued by one handler.                                       *)
WriteBoth(w, first, second) ==
  /\ Len(queue) + 1 < MaxQueue
  /\ queue' = Append(Append(queue, Pending(first, w, local[w])),
                     Pending(second, w, Effect(first, local[w])))
  /\ local' = [local EXCEPT ![w] = Effect(second, Effect(first, @))]

(* The canvas saves a drawing under a new uuid.                            *)
Create(w) ==
  /\ w \in unborn
  /\ unborn' = unborn \ {w}
  /\ Write(w, "create")
  /\ UNCHANGED cloud

(* Mutants: a page on a work that was removed meanwhile, or never saved.   *)
OnPageRemoved(w) == w \notin unborn
OnPageUnsaved(w) == TRUE

(* The detail page opens on a work of the private or the public list.  Its *)
(* buttons are not disabled while a write is pending, so each of them can  *)
(* follow any other.                                                       *)
OnPage(w) == local[w].doc # NoDoc

Publish(w)   == OnPage(w) /\ WriteBoth(w, "publish", "post")
                          /\ UNCHANGED <<cloud, unborn>>

(* Mutant: the entry of PublishedWorks is forgotten.                       *)
UnpublishHalf(w) == OnPage(w) /\ Write(w, "private") /\ UNCHANGED <<cloud, unborn>>

Unpublish(w) == OnPage(w) /\ WriteBoth(w, "private", "unpost")
                          /\ UNCHANGED <<cloud, unborn>>

(* Mutant: the trash button removes the work for good.                     *)
TrashRemoves(w) == OnPage(w) /\ WriteBoth(w, "unpost", "delete")
                             /\ UNCHANGED <<cloud, unborn>>

Trash(w)     == OnPage(w) /\ WriteBoth(w, "trash", "unpost")
                          /\ UNCHANGED <<cloud, unborn>>
Rename(w)    == OnPage(w) /\ Write(w, "rename")
                          /\ UNCHANGED <<cloud, unborn>>

(* The editor resets the likes before it saves the colors, if it was       *)
(* opened on a work with likes.                                            *)
SaveEdits(w) == OnPage(w) /\ (Write(w, "colors") \/ WriteBoth(w, "likes", "colors"))
                          /\ UNCHANGED <<cloud, unborn>>

(* Mutant: the trash list shows published works too.                       *)
AnyInTrashList(w) == w \notin unborn

(* The trash list shows a work until the server has confirmed its restore  *)
(* or its removal, so either can be asked for again meanwhile.  That it    *)
(* never shows a work published meanwhile is an assumption on the screen;  *)
(* WorksScreen says for which users it holds.                              *)
InTrashList(w) == w \notin unborn /\ ~local[w].posted

Restore(w) == InTrashList(w) /\ Write(w, "private")
                             /\ UNCHANGED <<cloud, unborn>>
Remove(w)  == InTrashList(w) /\ Write(w, "delete")
                             /\ UNCHANGED <<cloud, unborn>>

(* Mutant: a write the server refuses is tried again for ever.             *)
DeliverInsists ==
  /\ queue # << >>
  /\ LET m == Head(queue) IN
       /\ Accepted(m.op, cloud[m.work])
       /\ cloud' = [cloud EXCEPT ![m.work] = Effect(m.op, @)]
  /\ queue' = Tail(queue)
  /\ UNCHANGED <<local, unborn>>

(* The write stream: the server answers the oldest write.  A write it      *)
(* refuses leaves the queue without effect.                                *)
Deliver ==
  /\ queue # << >>
  /\ LET m == Head(queue) IN
       cloud' = IF Accepted(m.op, cloud[m.work])
                THEN [cloud EXCEPT ![m.work] = Effect(m.op, @)]
                ELSE cloud
  /\ queue' = Tail(queue)
  /\ UNCHANGED <<local, unborn>>

OwnerStep(w) ==
  \/ Create(w) \/ Publish(w) \/ Unpublish(w) \/ Trash(w)
  \/ Rename(w) \/ SaveEdits(w) \/ Restore(w) \/ Remove(w)

Next == (\E w \in Work : OwnerStep(w)) \/ Deliver

(* The network is back sooner or later and the client retries.  Nothing is *)
(* assumed of the owner.                                                   *)
Spec == Init /\ [][Next]_vars /\ WF_vars(Deliver)

-----------------------------------------------------------------------------
(* Type invariant of the server, the client's view and the queue.          *)
TypeOK ==
  /\ cloud  \in [Work -> WorkState]
  /\ local  \in [Work -> WorkState]
  /\ queue  \in Seq(Mutation)
  /\ unborn \in SUBSET Work

HasPending(w) == \E i \in 1..Len(queue) : queue[i].work = w

(* Once no write of a work is pending, the server's two documents agree:   *)
(* the work says public exactly when PublishedWorks lists it, whatever     *)
(* buttons were pressed, in whatever order, before the earlier writes were *)
(* confirmed (publish, removePublished, deletebutton, restore_handle).     *)
SettledAgree == \A w \in Work : ~HasPending(w) => Agree(cloud[w])

(* At every moment, an entry of PublishedWorks names a work that exists    *)
(* with its drawing, also between the two writes of a handler: Feeds and   *)
(* Popular read the entry and then unwrap the work's fields by force.      *)
PostedIsReadable == \A w \in Work : cloud[w].posted => Readable(cloud[w])

(* The merging writes of publish and rename never bring back a removed     *)
(* work as a document without a drawing.                                   *)
NoHollowWork ==
  \A w \in Work : cloud[w].doc # NoDoc =>
                    cloud[w].doc.full /\ cloud[w].doc.public # Unset

(* A write of the app is never refused by the server, except one on a work *)
(* the owner has removed already.                                          *)
RefusedOnlyIfRemoved ==
  queue # << >> =>
    LET m == Head(queue) IN
      \/ Accepted(m.op, cloud[m.work])
      \/ m.after.doc = NoDoc /\ m.work \notin unborn

(* A work appears on the server by its first save only, never by a later   *)
(* merging write, and vanishes from it only after the owner removed it.    *)
BornOnceGoneForGood ==
  [][\A w \in Work :
       /\ (cloud[w].doc = NoDoc /\ cloud'[w].doc # NoDoc) => Head(queue).op = "create"
       /\ (cloud[w].doc # NoDoc /\ cloud'[w].doc = NoDoc) => local[w].doc = NoDoc]_vars

(* A work the owner publishes reaches the other users, or the owner        *)
(* withdraws it first; a withdrawn work leaves them likewise, whatever     *)
(* writes of other works are ahead of it and refused.                      *)
DisplayFollows ==
  \A w \in Work : \A shown \in BOOLEAN :
    (local[w].posted = shown) ~> (cloud[w].posted = shown \/ local[w].posted # shown)

-----------------------------------------------------------------------------
(* The inductive invariant behind the safety properties.  The writes of a  *)
(* work form a chain: the oldest one starts from the server's documents,   *)
(* each next one from the documents its predecessor leaves, and the newest *)
(* one leaves what the owner's client shows.                               *)
Same(q, i, w) == q[i].work = w

NoneOf(q, lo, hi, w) == \A k \in lo..hi : ~Same(q, k, w)

Chained(q, server, client) ==
  /\ \A j \in 1..Len(q) :
       NoneOf(q, 1, j-1, q[j].work)
         => q[j].after = Effect(q[j].op, server[q[j].work])
  /\ \A i, j \in 1..Len(q) :
       i < j /\ Same(q, i, q[j].work) /\ NoneOf(q, i+1, j-1, q[j].work)
         => q[j].after = Effect(q[j].op, q[i].after)
  /\ \A i \in 1..Len(q) :
       NoneOf(q, i+1, Len(q), q[i].work) => q[i].after = client[q[i].work]
  /\ \A w \in Work : NoneOf(q, 1, Len(q), w) => server[w] = client[w]

(* A state of a work's documents no handler leaves behind otherwise.       *)
Sound(s) ==
  /\ s.doc # NoDoc => s.doc.full /\ s.doc.public # Unset
  /\ s.posted => s.doc # NoDoc

(* Every state a work passes through on its way from the server to the     *)
(* client's view is sound, and a removed work stays removed.               *)
Coherent(q, server, client, fresh) ==
  /\ Chained(q, server, client)
  /\ \A w \in Work : Sound(server[w]) /\ Sound(client[w])
  /\ \A i \in 1..Len(q) :
       /\ Sound(q[i].after)
       /\ q[i].after.doc = NoDoc => client[q[i].work].doc = NoDoc
  /\ \A w \in fresh : client[w] = Absent /\ NoneOf(q, 1, Len(q), w)

(* The inductive invariant: between handlers, the client's view of the two *)
(* documents of a work agrees, and the queue leads from the server to it.  *)
IInv ==
  /\ TypeOK
  /\ Coherent(queue, cloud, local, unborn)
  /\ \A w \in Work : Agree(local[w])

(* The part of it that only the owner's steps can disturb.                 *)
OwnersView ==
  /\ TypeOK
  /\ \A w \in Work : Sound(local[w]) /\ Agree(local[w])
  /\ \A w \in unborn : local[w] = Absent

(* What another user may count on who has once seen a work on display: it  *)
(* can be read, unless its owner has removed it, and then for good.        *)
Gone(w) == w \notin unborn /\ local[w].doc = NoDoc

Seen(w) == w \notin unborn /\ (Readable(cloud[w]) \/ Gone(w))

-----------------------------------------------------------------------------
(* What the owner and the other users observe, as the gallery they believe *)
(* in: a work is in one place of the owner's, and on display or not.       *)
PlaceOf(w) ==
  IF w \in unborn THEN "new"
  ELSE IF local[w].doc = NoDoc THEN "gone"
  ELSE IF local[w].doc.public = Public THEN "public"
  ELSE IF local[w].doc.public = Trashed THEN "trashed"
  ELSE "private"

G == INSTANCE Gallery WITH
       place   <- [w \in Work |-> PlaceOf(w)],
       display <- {w \in Work : cloud[w].posted},
       dirty   <- {w \in Work : HasPending(w)}

(* The writes and their queue implement the gallery: every handler is one  *)
(* atomic change of the owner's, every delivery a step towards displaying  *)
(* it, and what no write is pending for is displayed as the owner wants.   *)
ImplementsGallery == G!Spec
=============================================================================
