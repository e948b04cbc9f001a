# PixArt in TLA+

PixArt is an iOS app (Swift, UIKit) for drawing pixel art on a grid and sharing
it. All shared state is in Cloud Firestore, reached through the Firestore
client vendored under `Pixart/Pods`; there is no server code of its own. This
directory holds TLA+ models of the parts whose correctness depends on order:
the writes that publish and withdraw works, the client's write path they
go through, the three screens that read the result back through asynchronous
queries, the login and what is stored of it, and the canvas with its layers of
cells. Source paths below are relative to `src/Pixart/Pixart/` unless they
start with `Pods/`, `Documents/`.

Contents: [inventory](#inventory), [modules](#modules), [runs](#runs),
[bounds](#bounds), [fairness](#fairness), [proofs](#proofs),
[disagreements](#disagreements-between-the-code-and-what-is-said-of-it),
[not modelled](#what-is-not-modelled), [plan](#plan).

## Inventory

A *work* has two documents on the server: the work itself, in the owner's
collection (`collection(userID)/uuid`, fields name, colors, gridSize, likes,
`public`), and, while it is published, an *entry* in the collection
`PublishedWorks` under the same uuid (userID, workID, likes). `public` is 0
(private), 1 (public) or -1 (trashed).

| component | state | operations | talks to |
|---|---|---|---|
| Firestore documents (`Pods/…/model/*_mutation.cc`) | the two documents of each work | set, merge, update, delete; preconditions | the write stream |
| Pending writes (`Pods/…/core/sync_engine.mm`, `remote/remote_store.cc`, `write_stream.cc`, `stream.cc`, `local/local_store.cc`, `leveldb_mutation_queue.cc`) | mutation queue and stream token of each user, persisted; local view; callbacks, pipeline, state of the stream and of its call, not persisted | write locally, fill the pipeline, open and shake hands, send, take a result, drop a refused write, back off, idle out, change of user, restart | every screen that writes; its callbacks go to the main queue |
| Detail page and rename popup (`WorksDetailViewController`, `RenamePopupViewController`) | the work it was opened on, the view it shows | publish, withdraw, trash, rename, close | pending writes; Works screen (delegate, unwind segue) |
| Works screen (`WorksViewController`) | three lists, what the three views drew, four flags, tapped row, enabled or not, alerts | fetch and its two callbacks, open a page, restore, remove, empty the trash | pending writes, queries, auth listener |
| Feeds screen (`FeedsViewController`) | entries, the target of a like, the current card, enabled or not, animations | swipe (like, pass), fetch, pick, draw, show | reads of both collections |
| Popular screen, image page (`PopularViewController`, `ImageViewController`) | entries, works read, counter, rows | query, concurrent reads, reload, open a row | reads of both collections |
| Work editor (`WorksEditingViewController`) | the grid being edited, likes at opening | save: reset likes, write colors | pending writes, detail page |
| Canvas (`CanvasViewController`, `GridView`, popups) | grid of cells, size, name | draw, resize, save under a new uuid | pending writes, Works screen, local settings |
| Session and local settings (`LoginViewController`, `ServerAPI`, `LocalStorage`, `SideMenuViewController`, `ProfileViewController`) | Firebase session; one Core Data row: login, alias, canvas size, launch option | log in, sign up, log out, automatic login, save settings | every screen (auth state) |
| Likes | a counter on the work, one on the entry, copies on open pages | increment both, reset, copy at publication | Feeds, editor, detail page |
| Dead controllers (`TrashDetailViewController`, `SignupViewController`, `_CanvasViewController`) | | | nothing reaches them |
| Launch animation, scene delegate, cells, extensions | none of their own | | |

What is hard here, and what being correct means:

* **Two writes, no transaction.** `publish`, `removePublished` and
  `deletebutton` each write the work and its entry by separate calls. The
  buttons are not disabled meanwhile, the device may be offline for days, other
  users read between the two. *Correct:* when the writes have arrived the two
  documents agree, whatever was pressed; at every moment an entry names a work
  with a drawing; no merging write brings a removed work back.
* **Rows looked up twice.** The Works screen remembers the row that was tapped
  and looks the work up in a list again when an alert is answered; `fetch()`
  empties the lists at once, refills them a network round trip later, and redraws
  only the views its flags name. *Correct:* a tap acts on what was tapped, no
  index is out of range, an enabled screen at rest shows what the owner has.
* **Overlapping fetches.** Every page closed, row restored and row removed starts
  one; all share the flags and the lists. *Correct:* no flag outlives the fetches under way,
  the screen never stays disabled.
* **Two reads, no transaction.** Feeds and Popular read an entry, then the work
  it names, and unwrap its fields by force. *Correct:* a like goes to the card
  shown, the screen comes back after each swipe, only a removal can hurt it.
* **One row for every account.** A login is saved twice, first without the user's
  choice of automatic login; logging out ends neither the Firebase session nor
  the settings. *Correct:* behind the login the row is there and names the
  session's account; no login starts by itself unless it was chosen, and one that
  was chosen is lost only if the app is killed between the two saves.
* **Cells that stay.** Resizing lays new cells over the old ones and keeps their
  dictionary entries; the size is kept a second time by the controller.
  *Correct:* what is saved is what is seen, under its own size, and untouched cells
  keep their color through any number of edits.
* **Crashes.** The write queue survives a restart, the callbacks do not
  (`sync_engine.mm:381`).
* **Answers without names.** A response of the write stream names no write: it is
  taken to be about the front of the pipeline, and so is the error that ends a
  call. A call may break between a write and its result, and the next call names
  no earlier one, so the write is sent again. *Correct:* every result reaches whoever
  issued that write, nothing overtakes, nothing is left behind, and carrying a
  write out again does no lasting harm.
* **Two counters of likes.** The work has one and its entry has one; a like
  increments both by two writes, publishing copies a number read earlier, the
  editor resets one. *Correct:* Popular ranks by the likes a work has (it does not,
  see below).

`PROJECT.json` lists these hazards one by one, at their lines, with the
properties that would catch each going wrong.

## Modules

```
Firestore ── Publication ──(INSTANCE P)── WorksScreen ── MCWorksScreen, WorksScreenProofs
                │   │  │ └─(INSTANCE P)── Feeds       ── MCFeeds, FeedsProofs
                │   │  └───(INSTANCE P)── Popular     ── MCPopular, PopularProofs
                │   ├── MCPublication
                │   └── Resent ── MCResent, ResentProofs
                ├──(INSTANCE G)── Gallery
                └── PublicationProofs ──(INSTANCE PP)── FeedsProofs, PopularProofs, WorksScreenProofs

PendingWrites ── MCPendingWrites      Session ── MCSession    Canvas ── MCCanvas
   │   └──(INSTANCE O)── Outbox          └── SessionProofs    └── CanvasProofs
   └── PendingProofs                                          Likes ── MCLikes
```

**Firestore** – the documents and what each kind of write does to them. A work
document keeps two facts, whether it carries the drawing and its field `public`;
the entry is there or not. `Effect` is one case per call of the app
(`setData`, `setData(mergeFields:)`, `updateData`, `delete`); `Accepted` is the
server's precondition on `updateData`.

**Publication** – one owner. `cloud` is the server, `local` what the owner's
client answers (server state with the pending writes applied), `queue` the
pending writes, `unborn` the uuids not yet drawn. One action per handler:
`Create` (`savePixelArt`), `Publish`, `Unpublish` (`removePublished`), `Trash`
(`deletebutton`), `Rename`, `SaveEdits`, `Restore` (`restore_handle`), `Remove`
(`delete_handle`, `trashAll`); and `Deliver`, the server's answer to the oldest
write, accepted or refused. A restart of the app changes none of the four
variables, so it is a stuttering step here (it is an action of WorksScreen,
where it does lose something). `InTrashList` is an assumption about the screen:
the trash list is never used to restore a work published meanwhile. WorksScreen
says for whom it holds.

**Gallery** – the abstract specification: an owner moves works between four
places atomically, and a display follows. `Publication` implements it under the
mapping `G` (place from `local`, display from `cloud`, dirty = has a pending
write); the property is `ImplementsGallery`.

**WorksScreen** – the owner's device: the screen, the detail page, the alerts and
the main queue, on top of the write queue. User actions are taps and gestures;
system actions are the blocks that run on the main queue one at a time
(`RunListener`, `RunResult`, `RunSaved`, `RunTrashed`, …), the server's answers
(`Deliver`, `Answer`) and the loop of `trashAll`. `lists` are the arrays the
handlers index, `rows` what the views drew: the difference is the hazard. Every
write is an action of `Publication` through `INSTANCE`, and
`ImplementsPublication` checks that the screen never issues one Publication does
not allow. That is what discharges the assumption `InTrashList`.
`tapped` and `outcome` are history variables. `Chosen` picks the elements of a sequence
that are in a set; it is a recursive function, which can be proved about, where
`SelectSeq` would do for TLC alone.

**Feeds**, **Popular** – another user's device, composed with the whole of
Publication as environment (`OwnerStep`). `target` is the id a like is sent to,
`card` what is drawn. The screen is enabled before its first card, and nothing keeps a
user from swiping then: `hasty`, a history variable that every swipe updates (`Haste`),
says that this has happened. `outcome` is history too, as is Popular's `shared` (works ever on
display).

**Session** – the login screen with its automatic login and its signup form, the
launch animation, the side menu and the profile, over three places that know who
is logged in: `user` (the Firebase session, which a logout does not end), `row`
(the one Core Data row) and `form` (the fields). A login goes through the stages
of `attempt`: asked, accepted by the server, signed in (the client has stored the
session), saved (`ServerAPI.login` has stored the login, without automatic
login), and done (`LoginDone`: saved again with the choice, next screen). `Restart`
kills the app between any two of them. An alias in the row is named by the account
that chose it. An animation may end with `finished` false (`frozen`, `cut`). `chosen`
is history: whose last completed login had automatic login ticked, until a
logout. `interrupted` is history too: the app was killed between the two saves of a
login, and none was completed since.

**Canvas** – the canvas with its two popups, and the detail page and editor of one
work. A grid is `size`, `views` (one layer of views for each `makeCells`, the last
covers the others) and `cells` (for each position, the layer its dictionary entry
points to). `size` of the controller, `option` of the popup, `stored` of the Core
Data row and the grid's own size are separate, as in the code. A color is one
component: a shade on screen, of which `Fine` in a row are stored as the same value
(`CodeOf`, `ShadeOf`). A touch is a position in half cells, also outside the grid,
where a pan may go on. `screen = "crashed"` is a forced unwrap that failed;
`SavedUnderItsSize` excludes it. `touched` is history.

**PendingWrites** – the client's write path, one action per operation on its worker
queue: `WriteMutations` (with `LocalStore::WriteLocally` and the refill it ends
in), the steps of a call (`ResumeStartWithCredentials`, `OnHandshakeResponse`,
`OnMutationResult`, `OnStreamFinish`), the timers (`BackoffElapsed`, `IdleTimeout`),
the faults (`Break`, `HandleCredentialChange`, `Restart`) and two steps of the
server. `FillWritePipeline` is one operator, used by all who call it. `queue` and
`saved` are durable; `up` and `down` are what is under way on the present call
and die with it. A batch has the `id` the code gives it, which may be given
again after a restart, and a history number `n`, which the code does not have: the
properties use `n` to say whether the right issuer was told. Each user writes to
one document, and `wanted` is what it would be had each write been carried out once.

**Outbox** – the abstract specification of that path: an outbox for each user,
that is emptied from the front after the server dealt with the front, and issuers
who are told at most once, in order. `PendingWrites` implements it
(`ImplementsOutbox`, mapping `O`).

**Resent** – Publication again, over a connection that loses results: `done` is how
many of the oldest writes the server has carried out on the present call, `Resend`
is a call that breaks, `Refuse` takes the front of the pipeline for the refused
write as the client does. Publication itself executes each write once.

**Likes** – one work with its two counters, the owner's page (with the number it was
opened with) and another user's likes. It is kept apart since no other property
depends on the numbers.

The MC modules only give the constants values.

## Runs

| run | shows | size |
|---|---|---|
| `publication` | two works, four pending writes: two-write handlers overlap. Agreement once settled, readable entries, no resurrection, refusals only of removed works, implementation of Gallery, and (liveness) the display follows the owner | 67k states |
| `pending` | two users on one device, a pipeline of two, three writes of four kinds, two faults anywhere: the inductive invariant of the proofs, callbacks told the truth, no failing assertion, the server left as if each write had been carried out once (an increment perhaps twice), implementation of Outbox, and (liveness) the queue of a user who stays is emptied | 222k |
| `resent` | two works, five pending writes, results lost at any moment: the server ends up with what the owner sees, Gallery is still implemented, a work without its drawing only while its removal is pending | 1.4M |
| `likes_stale` | **violation**: a published work with nothing pending is not ranked by its likes | |
| `works_careful` | three works, failing queries and restarts, a careful user: no crash, taps act on what was tapped, an enabled screen at rest shows exactly what the owner has, only writes Publication allows | 20k |
| `works_hasty` | one work, a user who waits for nothing: no flag outlives the fetches under way, the screen is always enabled again | 140k |
| `works_removal` | **violation**: the confirmed removal hits another work | |
| `feeds` | two works, failing reads, interrupted swipes, users who wait and hasty ones. As long as the user has waited for the first card: likes go to the card, the answers of two queries never add up in the list, no card is repeated while there is another, only a removal kills the feed. Of every user: the feed dies of a removal or of a like before any work was chosen, and a card comes up after every swipe, unless the feed is empty or dead, something failed, or overlapping fetches have doubled the list | 201k |
| `feeds_crash` | **violation**: the feed crashes on fetch | |
| `popular` | concurrent reads, some failing: rows are the works read, once each, in order; only a removal kills the screen; every listed work gets its row, in any order of answers, unless a read failed | 81k |
| `session` | two accounts, killed up to twice, interrupted animations: the row names the session's account, the stored choice is the one made, on every screen and before every start, but between the two saves of a login and after a kill there; no login starts by itself unless chosen, and one that was chosen does at every start, with the same exception; the login screen never stays disabled | 79k |
| `canvas` | two sizes, a grid laid twice, three shades: exported is what is shown, saved under its size, untouched cells keep their color, the page agrees with the document, a touch paints under the finger | 316k |

Each property of a passing run has a mutant in `PROJECT.json`: a plausible slip in
one definition (a forgotten second write, a missing `reloadData`, an off-by-one
in a comparison…) under which TLC finds the property violated. The mutated
definitions stand beside the originals and are marked *Mutant*.

**Who the user is.** Some properties hold only for users with some patience, and
the constant says so rather than the guard of an action hiding it:

* `Careful` (WorksScreen): the user acts when nothing is under way, closes the
  page by dragging it down, and empties the trash when it holds one work. Without
  it `ActsOnTapped`, `ShowsWhatIs` and `ImplementsPublication` fail, each by a
  scenario of a few steps: the removal of `works_removal`; two fetches appending
  to the same lists; a page closed by `done()`, which tells nobody, leaving a
  list that shows the state before the page's writes; a drag that is cancelled
  after its fetch began, a publication on the page, and a restore of the stale
  row, which leaves a private work in `PublishedWorks`.
* `hasty` (Feeds) is no constant: every behaviour is explored, and a property that needs a
  user who waited for the first card begins with `~hasty`. The screen is enabled from the
  start. An earlier like addresses the document with the empty id, which raises, or
  the work of a card that is not drawn yet; an earlier swipe of either kind starts a second
  fetch, whose answer is appended to the first one's. With one work published the list
  then holds it twice, and `updateData` calls itself for ever: `Doubled`, the one dead
  end that `EnabledAgain` excepts for hasty users alone (without the exception TLC finds it).
* `interrupted` (Session): the first save of a login stores that automatic login is off
  (`ServerAPI.swift:23`), the second what the user chose. An app killed between them has
  lost the choice, even one made long before, if the login had started by itself.
  `ChoiceIsStored` and `Remembered` say that this is the only way to lose it.
* `MayFail` (WorksScreen): a query may be answered by an error. It is FALSE for
  `Reenabled`: the code leaves the Works screen disabled after a failed query
  (`WorksViewController.swift:199`).

Elsewhere failures may always happen, and a liveness property names those after
which the code promises nothing: a failed read or an interrupted swipe in Feeds
leaves the screen disabled; with two entries and one failed read Popular draws
nothing (`PopularViewController.swift:86`); the launch screen and the slides of
the login form wait for `finished == true` and never recover otherwise.

`CHECK_DEADLOCK FALSE` is given for the screens and the session only: their users
may stop at any moment, the app may have crashed or be stuck on its launch
screen, and a bound may be reached. Publication and Canvas never deadlock.

## Bounds

* `MaxQueue`, pending writes: 4 in `publication`, so that two handlers of two writes
  overlap completely, or one of two and two of one; 2 or 3 on the screens, where one
  handler's pair is what matters (3 in `works_hasty` lets a pair and a single
  write wait together). A handler that needs more room than is left is not
  enabled; the proofs need no bound.
* `MaxBusy`, what a user has started and not yet seen the end of (fetches, queries,
  blocks; swipes and reads in Feeds). Only user actions are guarded by it, so the
  system itself is never held up and liveness is not weakened: 2 gives overlapping
  fetches, 3 a write, a fetch and a query together.
* `MaxHasty` (Feeds): 1, the number of works that may be drawn once the user has been
  hasty. One work is what doubles a list and what can be removed between the reads; with two,
  the overlapping fetches of a hasty user are beyond TLC. Users who wait have two.
* works: one where the property does not tell works apart (flags, enabling), two
  where a row can come to mean another work and for Popular's `count >= 2`, three
  where a list has to change around a work that stays.
* `Limit` (Popular): 2 for the code's limit, against two works; which entries are most
  liked is left open, so every subset of the right size is tried.
* `MaxRestarts` (Session): 2, so that the app can be killed in a login and again in the
  automatic login that follows; the proofs need no bound. Two accounts, two sizes.
* `MaxLayers`, `MaxTouched` (Canvas): a grid of either size laid once more, larger,
  smaller or as large, is enough for stale entries and for a lost size; one cell
  touched leaves others that are not, and each layer counts anew. Sizes 1 and 2 stand
  for 8 to 32, stored values 0 and 1 for 0 to 255, `Fine` 2 for the shades between
  two of them.
* `MaxPending` (PendingWrites): 2 for the code's ten, so that with three writes the pipeline
  is full, is refilled and leaves a write behind; `MaxWrites` 3 and `MaxFaults` 2 let a write be
  sent three times, or an id be given again after a restart (four writes pass too, in two
  million states). Every user's writes go to one document, where their order shows most.
* `MaxQueue` is 5 in `resent`: a pair, another pair and a removal wait together.
* `MaxLikes` 2 and `MaxQueue` 4 (Likes) are enough for the violation, which takes one like.

## Fairness

Weak fairness of the server's answers (`Deliver`, `Answer`, `AnswerList`, …): the
Firestore client retries with backoff for ever and drops what is permanently
refused (`remote_store.cc:481`), so an answer comes once the network is back. Weak
fairness of the main queue, of the `trashAll` loop and of animation ends: UIKit
runs them while the app is in the foreground. Strong fairness in Feeds of
`DrawsAnother`: `shuffle()` is random, so with two entries it does not put the
work just seen first for ever. In Session: weak fairness of the authentication
server's answers (a broken connection is a refusal), of the callbacks and of the
animations. In PendingWrites: weak fairness of the client's steps, which are posted on its
worker queue or are timers, and of the server while a call lasts; faults are finitely many,
which stands for a network that is back for long enough in the end. Nothing is assumed of
users: no user action is fair.

## Proofs

`tlapm` checks `PublicationProofs`, `WorksScreenProofs`, `ResentProofs`, `FeedsProofs`,
`PopularProofs`, `CanvasProofs`, `PendingProofs` and `SessionProofs`. Every safety invariant
and every action property that a passing run checks, and every refinement, is a theorem of
one of them. `PublicationProofs` and `ResentProofs` hold for every set of works and every
queue bound, from the assumptions `NoDocAssumption` (NoDoc is not a document) and
`MaxQueueAssumption`, which TLC evaluates in the runs.

`TypeOK` and `SettledAgree` are not inductive: that the server's documents agree when
the queue is empty depends on every write that is still in the queue. The
strengthening is `IInv`:

* every pending write carries `after`, the owner's view right after it was issued.
  `Chained` says that the writes of one work form a chain: the oldest starts from the
  server's documents, each next one from what its predecessor left, the newest leaves
  the owner's view; a work with no pending write is the same at both ends;
* every state on the chain is `Sound` (an existing document has its drawing and a
  status, an entry has a work), and once removed a work stays removed;
* the owner's view of every work agrees, since handlers run to their end.

`AppendChained` and `TailChained` show that issuing and delivering a write keep
chains; `RefusedIsNoEffect` that a refused write would have changed nothing, so the
chain steps over it; `AppendCoherent`, `OneWrite`, `TwoWrites` and `DeliverKeeps` lift
this to the handlers, and `StepInv` has one step per action. From `Invariance`
follow `TypeCorrect`, `EventualAgreement`, `EntriesReadable`, `DrawingsStay`,
`RefusalsAreHarmless`, the action property `NoResurrection`, and `Refinement`:
Publication implements Gallery, each handler being one `Move` and each delivery one
`Relay`. `Promise` proves of the abstract gallery alone that a work which is not dirty is on
display exactly when it is public, and `PromiseKept` carries that over to the code's writes
by the refinement.

`WorksScreenProofs` is about the owner's device, whose writes are Publication's, for any works,
any order of the server's lists, any bounds, failing queries and restarts.
Assumptions: `WorkOrderAssumption` (an answer lists works), `MaxQueueAssumption`, `NoPageAssumption`
(no page is the page `NoPage`).

* `TypeCorrect` holds for every user. It needs `PageAnswers`: a completion that addresses the
  page is on its way only while there is a page, since closing it drops the others.
* `FlagsAnswered` (`FlagsSettle`) holds for every user as long as no query fails, however many
  fetches overlap. `FlagsInv` counts: there are never more flags raised, `movetotrash` aside,
  than fetches under way (`Fetches`: listeners to be called, queries to be answered, results to be
  shown), since every handler that raises one starts a fetch, and every result clears one if
  any is left. Without failures the fetches end, and no flag is left with them.
* For a `Careful` user `CarefulInvariance` proves `CarefulInv`. The four properties speak of
  moments, a tap or a screen at rest; the invariant has to say of every moment between them what
  is still missing. `OneAtATime`: at most one block, query, removal of the loop or awaited
  write is under way, and an awaited write is the oldest, so that its answer is about it. `Due`
  names it, and `DueWhere` says on which screen it can be due, with which flags, and that an open
  alert is about the row drawn under it. `PageInv`: the page shows a work the owner has, and the
  trash drawn behind it stays as it is until the page moves its work there. `ViewInv`: a
  view that does not show what the owner has is among those the result that is due will redraw
  (`Redrawn`, from the flags); when nothing is due, lists and rows are what the owner has.
  From it follow `RowsExist` (`NoCrash`), `TapsAreMeant` (`ActsOnTapped`), `ScreenIsCurrent`
  (`ShowsWhatIs`) and `WritesArePublications` (`ImplementsPublication`). The last one lets
  Publication's invariant be used here: that a write of the screen is one Publication allows
  needs the screen to be right, and that the screen is right needs what Publication promises, so
  the two are proved in one induction. (`CarefulInv` also holds as an INVARIANT of
  `WorksCareful.cfg`, and `FlagsInv` of `WorksHasty.cfg`; the runs name only what follows.)

Induction over a sequence is needed for `Chosen`. The library's induction rules cannot be
used, since they take an operator; `Induction` and `SeqInduction` state it for the set of the
numbers, or prefixes, for which a fact holds, from the well-foundedness of the naturals.

`ResentProofs` proves the same promise when results are lost. The chain is of no use there: a
write carried out again starts from whatever the former calls have left. What lasts is that
the last write of each kind decides. `ResentInv` says of the kinds (posting or not, the place
of the work, making or removing it) that the last pending write of each leaves what the
owner sees (`Lasting`), that a kind with no write left to be carried out on this call is
right on the server already (`Leading`), and that a write which could bring a removed work
back is followed by its removal. The owner's own view, `OwnersView`, is the part of `IInv`
that needs no server, and is shared. From `ResentInvariance` follow `ResendingSettles`,
`HollowIsRemoved` and `ResentRefinement`.

`FeedsProofs` and `PopularProofs` are about another user's screens over an owner who never
stops; they take the owner's side from `PublicationProofs` by `INSTANCE`. What a reader may
count on is `Seen` (a work that was on display has its drawing, or was removed by its owner) and
`Gone` (it was removed, and stays so); `PostedIsSeen` and `SeenStays` prove that from `IInv`. The
screens then carry it along every step an answer takes. `Heard` says that all on its way to the
feed was on display and that a missing work is a removed one, for every user. `InTurn` says that,
as long as the user has not been hasty, swipe, query, read and animation take turns, so that
`target` is the card's whenever a like is sent, and `Fresh` that the list is empty when an
answer comes. `TypeCorrect`, `LikesAreMeant`, `AnswersDoNotAddUp`, `OnlyRemovalCrashes` and
`AnotherComesUp` follow for any finite set of works (`WorkAssumption`: the list of an answer is
made of a set) and any bounds. For Popular, `InOrder` says that the query comes before the reads,
`EachOnce` that every listed work is in one place at most, being read, answered or
among the works read, and `Drawn` that the rows are those works once drawn: `TypeCorrect`,
`RowsStayArrivals` and `OnlyRemovalKills`.

`CanvasProofs` holds for any set of sizes with a largest one (`SizeAssumption`), any number of
stored values and of shades between them (`CodeAssumption`, `FineAssumption`), any layers, edits
and restarts. `CanvasInv` says what a grid is that was laid any number of times (`Laid`: the
dictionary leads from each position of the present size to the last layer, whatever it holds
elsewhere), what a document is (`Good`: a color for each cell of its size), that the
controller's size is the grid's (`Drawn`) and that the editor shows the page's colors but for
what was touched (`Edited`). `Covered` and `Touched` show that laying and painting keep a grid,
`Codes` that a stored color comes back from the screen as it went. All five properties of the run follow:
`ShownIsExported`, `SizesAgree`, `ColorsKept`, `PageStaysDoc` and `FingerPaints`.

`SessionProofs` holds for every set of accounts and sizes, any number of restarts and
with or without interruptions. `StoredIsSession` speaks of the screens behind the login
only, so it says nothing of the states that lead there, and `ChoiceIsStored` says nothing
between the two saves of a login.
`IInv` adds `Underway` (an attempt has the disabled login screen for itself, so the
fields cannot change under it, and from stage to stage the session and then the row
name its account) and `Revocable` (a stored automatic login, and a form filled from
it while the opening animation runs, are for the account that chose it).
`Invariance` has one step per action; `LoginIsSession`, `ChoiceStays` and the
action property `AutoIsChosen` follow.

`PendingProofs` holds for any users, any length of the pipeline and any number of writes and
faults, from `OpsAssumption` and `BoundsAssumption`. That a result reaches its issuer
(`ToldTruth`) depends on everything between the queue and the wire, so `IInv` says of each
stage what it holds of the one before: ids and history numbers grow along a queue
(`Ascending`), the pipeline is the front of the user's queue, as long as it may be
(`Filled`), the results to be read, the refused write if there is one, and the requests
still to be answered are, in this order, the pipeline (`Matched`), who waits does so for
a write still in its queue under the id it was given (`Awaited`: this is what makes ids
given twice harmless), a result stands for a write carried out (`Answered`), and the
stream is in a state that fits (`Coherent`). The refill is the hard step: `Fetched` looks for
the place after the last id of the pipeline, and the lemmas show that this is where the
pipeline ends in the queue. `ToldIsTrue`, `AssertionsHold` and `Refinement` (to Outbox)
follow; the refinement needs `Unshared` as well, that a write is in one queue only and is
awaited once. All of this is `Paired`, the first part of `IInv`.

The second part, `Settling`, is what `Convergence` (`Converges`) needs. What a whole sequence of writes
does to a document would be a fold, but only three facts of it survive being cut off and
carried out again, and `LeadsTo` says them of the pending writes without one: the last write that
makes or removes the document decides whether it exists, the last one that sets its value is
its value, and the increments after the former are its likes. It says so of all that is
pending, which will be `Left` again when the call breaks, and relates what is `Left` on this call
to the server's document. Four lemmas about `LeadsTo` are the argument: `Issued` (a write joins
the end), `Dealt` (the server carries out or refuses the first that is left), `Dropped` (the oldest
leaves the queue) and `LeftAgain` (the call ends; increments may then count twice, unless there is
no document to increment, which is why a refusal, which happens to missing documents only, loses
nothing).

Only model-checked: liveness (`DisplayFollows`, `Drains`, `Reenabled`, `EnabledAgain`,
`ListedIsShown`, `Remembered`), which is out of the prover's reach, and everything about
Likes, where the run is a disagreement.

## Disagreements between the code and what is said of it

* `works_removal`: the alert asks about "this work", the handler removes whatever is
  now in that row (`WorksViewController.swift:370,373`). A page closed by dragging
  right after its trash button, then a tap on a row of the trash: the fetch ends while
  the alert is open.
* `feeds_crash`: "Feeds view crashes on fetch … Should be fixed after wiping database"
  (`Documents/sprintPlanning.md:131`); it also happens with clean data, when the owner
  withdraws and removes a work between the two reads.
* `likes_stale`: the Popular page is "fetching most liked artworks from server"
  (`Documents/Contributions.md:11`); it orders them by the entry's counter, which `publish`
  overwrites with the number the page was opened with, which the editor does not reset, and
  which can be incremented or refused alone.

Two more are no contradiction of a document, but worth knowing. The settings of a login stay
in the Core Data row when another account logs in (`LocalStorage.swift:22`): alias, size and launch
option are the former user's. And a merging write whose result is lost after the work's
removal brings the work back without its drawing until the removal is carried out again;
`PostedIsReadable`, which holds when every write is carried out once, does not hold then
(`HollowOnlyIfRemoved` is what does).

## What is not modelled

* A second device of the same account, whose handlers interleave with this one's;
  the callbacks of auth listeners left from earlier fetches (each `fetch()` adds one and
  none is removed) when another account signs in.
* The app being killed between the two calls of one handler: they are adjacent
  statements, and `WriteBoth` takes both in one step.
* Two fetches of the Works screen under a careful user: the properties of `works_careful`
  do not hold when fetches overlap, and its user waits, also before a restart. Overlaps and
  restarts at any moment are explored by `works_hasty`, for the flags and the enabling only.
* Floating point: `htmlRGBA` computes `Int(CGFloat(c) / 255 * 255)` (`UIColorExtension.swift:33`), Canvas
  with whole numbers. That the rounding of these two steps never changes a stored value is
  assumed, not checked; in IEEE double precision it holds for each of the 256 values.
* Names, authors, dates, layout, zooming, animations other than those that gate
  interaction, the share sheet, the side menu's looks; passwords, which are right or
  wrong, and the wording of the errors.
* Google sign-in: the app delegate handles it, but no screen has its button.
* Of the Firestore client: batches of several mutations, `waitForPendingWrites` and the
  switch for the network, none of which the app uses; listens, the cache of remote documents and
  its garbage collection. Of refusals only those by precondition (NOT_FOUND) are modelled:
  the security rules are not in the repository. What is assumed of the server, beyond the
  code: it answers the requests of a call in their order, carries out every request it
  receives, and has stopped handling a broken call before it handles the next one.
* The rest of `Pods/`, nearly all of the repository's lines: gRPC, BoringSSL, Abseil,
  LevelDB and the other Firebase libraries are vendored, and the app's correctness depends on
  them only through what is modelled of the Firestore client.
* The dead controllers, which nothing instantiates.

## Plan

1. *(done)* Firestore, Publication, Gallery and their proofs; WorksScreen, Feeds,
   Popular on top of them.
2. *(done)* PendingWrites, Outbox and their proofs; Resent; Likes.
3. *(done)* Session and its proofs; Canvas.
4. **Two devices** of one account: two queues into one server; what is left of
   `SettledAgree`.
5. Account changes while auth listeners of old fetches are alive: Session composed
   with WorksScreen.
6. *(done)* Proofs about Resent, Feeds and Popular over Publication's invariant, and about
   Canvas.
7. *(done)* Proofs about WorksScreen, for a careful user and, of types and flags, for every user;
   `Converges` of PendingWrites.
8. PendingWrites shown to implement the queue of Resent; so far both are modelled from the
   code, at two levels of detail, and compared by hand.
9. The restart of the app inside Publication's pairs of writes, and what `SettledAgree` becomes.
