----------------------------- MODULE Firestore -----------------------------
(***************************************************************************)
(* The part of the Firestore client and server that the screens rely on:   *)
(* what each write the app issues does to the two documents of one work,   *)
(* the work itself in the owner's collection (collection(userID)/uuid) and *)
(* its entry in the shared collection PublishedWorks (same uuid).          *)
(*                                                                         *)
(* A work document is abstracted to two facts: whether it carries the      *)
(* drawing (name, colors, gridSize, written together by the canvas), and   *)
(* its field "public".  Every write is named for the call that issues it.  *)
(***************************************************************************)
EXTENDS Integers

CONSTANTS
  Work,      (* the uuids of the works                                     *)
  NoDoc      (* the value of a document that does not exist                *)

(* The values of the field "public"; Unset: the field is absent.           *)
Trashed == -1
Private == 0
Public  == 1
Unset   == 2

WorkDoc == [full: BOOLEAN, public: {Trashed, Private, Public, Unset}]

ASSUME NoDocAssumption == NoDoc \notin WorkDoc

(* The two documents of one work.                                          *)
WorkState == [doc: WorkDoc \cup {NoDoc}, posted: BOOLEAN]

Absent == [doc |-> NoDoc, posted |-> FALSE]

(* What the canvas saves.                                                  *)
Drawing == [full |-> TRUE, public |-> Private]

Op == { "create",    \* setData of the whole document, by the canvas
        "publish",   \* setData(mergeFields: public, author, date)
        "private",   \* updateData(public: 0)
        "trash",     \* updateData(public: -1)
        "rename",    \* setData(mergeFields: name)
        "likes",     \* updateData(likes: 0), by the editor
        "colors",    \* updateData(colors)
        "delete",    \* delete the work
        "post",      \* setData of the PublishedWorks entry
        "unpost" }   \* delete the PublishedWorks entry

(* updateData carries the precondition that the document exists; the       *)
(* server refuses the write otherwise.                                     *)
Accepted(op, s) == op \in {"private", "trash", "likes", "colors"} => s.doc # NoDoc

(* Mutant: setData without mergeFields replaces the whole document.        *)
MergeOverwrites(doc, p) == [full |-> FALSE, public |-> p]

(* setData(mergeFields:) creates the document when there is none, with     *)
(* only the fields of the mask.                                            *)
Merge(doc, p) ==
  IF doc = NoDoc THEN [full |-> FALSE, public |-> p]
  ELSE IF p = Unset THEN doc ELSE [doc EXCEPT !.public = p]

Update(doc, p) == IF doc = NoDoc THEN doc ELSE [doc EXCEPT !.public = p]

Effect(op, s) ==
  CASE op = "create"  -> [s EXCEPT !.doc = Drawing]
    [] op = "publish" -> [s EXCEPT !.doc = Merge(@, Public)]
    [] op = "private" -> [s EXCEPT !.doc = Update(@, Private)]
    [] op = "trash"   -> [s EXCEPT !.doc = Update(@, Trashed)]
    [] op = "rename"  -> [s EXCEPT !.doc = Merge(@, Unset)]
    [] op = "likes"   -> s
    [] op = "colors"  -> s
    [] op = "delete"  -> [s EXCEPT !.doc = NoDoc]
    [] op = "post"    -> [s EXCEPT !.posted = TRUE]
    [] op = "unpost"  -> [s EXCEPT !.posted = FALSE]

(* What the app reads of a document: a drawing it can show.                *)
Readable(s) == s.doc # NoDoc /\ s.doc.full

IsPublic(s) == s.doc # NoDoc /\ s.doc.public = Public

(* The two places that say a work is published agree.                      *)
Agree(s) == s.posted <=> IsPublic(s)
=============================================================================
