------------------------------- MODULE Canvas -------------------------------
(***************************************************************************)
(* Drawing, resizing, saving and editing a work.  A GridView never lets go *)
(* of a cell: every resize lays a new layer of views over the old ones and *)
(* overwrites the dictionary only where the new grid has cells.  What is   *)
(* saved is read from the dictionary, under a size the controller keeps    *)
(* apart, and every reader unwraps each cell of that size by force.        *)
(***************************************************************************)
EXTENDS Integers, Sequences, FiniteSets, SequencesExt, FiniteSetsExt

CONSTANTS
  Size,        (* Application.canvas_sizes                                 *)
  DefaultSize, (* 8                                                        *)
  MaxCode,     (* the largest value a color component is stored as: 255    *)
  Fine,        (* the shades on screen from one of them to the next        *)
  NoDoc,       (* no document                                              *)
  MaxLayers,   (* bounds the layers of a grid                              *)
  MaxTouched   (* bounds the cells painted on a grid                       *)

ASSUME SizeAssumption ==
  /\ Size \subseteq Nat \ {0} /\ DefaultSize \in Size
  /\ \E largest \in Size : \A n \in Size : n <= largest
ASSUME CodeAssumption == MaxCode \in Nat
ASSUME FineAssumption == Fine \in Nat \ {0}

VARIABLES
  screen,      (* the screen or popup on top                               *)
  stored,      (* canvas_size of the Core Data row                         *)
  background,  (* Application.canvas_backgroundColor                       *)
  option,      (* the size selected in the settings popup, 0 without one   *)
  size,        (* canvas_size of the canvas's controller, 0 without one    *)
  grid,        (* the GridView of the canvas or of the editor              *)
  pen,         (* its drawingColor                                         *)
  touched,     (* history: the cells touched since the grid was laid out   *)
  doc,         (* the document of the work, as the server has it           *)
  sent,        (* the write of it that is not acknowledged                 *)
  page         (* what the detail page holds: gridSize and colors          *)

store == <<stored, background>>
canvas == <<option, size>>
drawing == <<grid, pen, touched>>
work == <<doc, sent, page>>
vars == <<screen, store, canvas, drawing, work>>

Pos(n) == (0..n - 1) \X (0..n - 1)

Key == Pos(Max(Size))

(* One component stands for the four of a color.                           *)
Code == 0..MaxCode
Shade == 0..MaxCode * Fine

White == MaxCode * Fine
Black == 0

(* Mutant: the component is divided by 256.                                *)
ShadeOf256(code) == IF code = 0 THEN 0 ELSE code * Fine - 1

(* htmlRGBA cuts a component off to one of 256 values; init(hexString:)    *)
(* turns such a value into a component again.                              *)
CodeOf(shade) == shade \div Fine

ShadeOf(code) == code * Fine

(* Mutant: Half() rounds.                                                  *)
HalfRounded(x) == (x + 1) \div 2

(* Int(): the finger's position, in half cells, is cut off towards zero.   *)
Half(x) == IF x >= 0 THEN x \div 2 ELSE -((-x) \div 2)

-----------------------------------------------------------------------------
NoGrid == [size |-> 0, views |-> << >>, cells |-> [k \in Key |-> 0]]

(* Mutant: a cell the dictionary has already is not made again.            *)
LayCellsReused(g, n, shades) ==
  [size  |-> n,
   views |-> Append(g.views, shades),
   cells |-> [k \in Key |-> IF k \in Pos(n) /\ g.cells[k] = 0 THEN Len(g.views) + 1 ELSE g.cells[k]]]

(* makeCells() and loadCanvas(): a view for each position, over all others *)
(* there are; the dictionary maps a position to the layer of its view.     *)
LayCells(g, n, shades) ==
  [size  |-> n,
   views |-> Append(g.views, shades),
   cells |-> [k \in Key |-> IF k \in Pos(n) THEN Len(g.views) + 1 ELSE g.cells[k]]]

MakeCells(g, n, shade) == LayCells(g, n, [k \in Pos(n) |-> shade])

(* The forced unwrap of loadCanvas() and of CanvasPreview.makeCells().     *)
Loadable(d) == Pos(d.size) \subseteq DOMAIN d.colors

LoadCanvas(d) == LayCells(NoGrid, d.size, [k \in Pos(d.size) |-> ShadeOf(d.colors[k])])

(* handleGesturePan() and handleGestureTap().                              *)
Painted(g, k, shade) ==
  IF k \in Key /\ g.cells[k] # 0
  THEN [g EXCEPT !.views[g.cells[k]][k] = shade] ELSE g

(* What the user sees: the last layer covers the others.                   *)
Shown(g) == Last(g.views)

ExportColors(g) ==
  [k \in {k \in Pos(g.size) : g.cells[k] # 0} |-> CodeOf(g.views[g.cells[k]][k])]

FetchCanvasSize == IF stored \in Size THEN stored ELSE DefaultSize

-----------------------------------------------------------------------------
Fresh == pen' = Black /\ touched' = {}

(* viewDidLoad() of the canvas lays white cells, whatever background is    *)
(* chosen.                                                                 *)
OpenCanvas(n) ==
  /\ screen' = "canvas"
  /\ option' = 0 /\ size' = n
  /\ grid' = MakeCells(NoGrid, n, White)
  /\ Fresh

(* The controller of the canvas or of the editor goes, and its grid.       *)
Leave ==
  /\ option' = 0 /\ size' = 0
  /\ grid' = NoGrid
  /\ Fresh

Init ==
  /\ screen = "canvas"
  /\ stored = DefaultSize /\ background = White
  /\ option = 0 /\ size = DefaultSize
  /\ grid = MakeCells(NoGrid, DefaultSize, White)
  /\ pen = Black /\ touched = {}
  /\ doc = NoDoc /\ sent = NoDoc /\ page = NoDoc

OnGrid == screen \in {"canvas", "editor"}

PickColor(shade) ==
  /\ OnGrid
  /\ pen' = shade
  /\ UNCHANGED <<screen, store, canvas, grid, touched, work>>

(* Where a finger can be, in half cells: a cell beyond each edge.          *)
Reach == -2..2 * grid.size + 1

(* A pan goes on when the finger has left the grid.                        *)
Touch(x, y) ==
  LET k == <<Half(x), Half(y)>> IN
  /\ OnGrid
  /\ k \in Key \ touched => Cardinality(touched) < MaxTouched
  /\ grid' = Painted(grid, k, pen)
  /\ touched' = touched \cup ({k} \cap Key)
  /\ UNCHANGED <<screen, store, canvas, pen, work>>

-----------------------------------------------------------------------------
(* The settings popup.                                                     *)
OpenSettings ==
  /\ screen = "canvas"
  /\ screen' = "settings"
  /\ option' = size
  /\ UNCHANGED <<store, size, drawing, work>>

ChangeSettings ==
  /\ screen = "settings"
  /\ \/ option' \in Size /\ UNCHANGED background
     \/ background' \in {Black, White} /\ UNCHANGED option
  /\ UNCHANGED <<screen, stored, size, drawing, work>>

(* The background chosen stays chosen.                                     *)
CancelSettings ==
  /\ screen = "settings"
  /\ screen' = "canvas" /\ option' = 0
  /\ UNCHANGED <<store, size, drawing, work>>

Apply ==
  /\ screen = "settings"
  /\ Len(grid.views) < MaxLayers
  /\ screen' = "applying"
  /\ stored' = option
  /\ UNCHANGED <<background, canvas, drawing, work>>

(* Mutant: the unwind segue does not hand over the size.                   *)
AppliedSizeKept ==
  /\ screen = "applying"
  /\ screen' = "canvas" /\ option' = 0
  /\ grid' = MakeCells(grid, option, background)
  /\ touched' = {}
  /\ UNCHANGED <<store, size, pen, work>>

(* prepare(for:) hands the size to the canvas, whose unwind action lays    *)
(* new cells, also for the same size.                                      *)
Applied ==
  /\ screen = "applying"
  /\ screen' = "canvas" /\ option' = 0
  /\ size' = option
  /\ grid' = MakeCells(grid, size', background)
  /\ touched' = {}
  /\ UNCHANGED <<store, pen, work>>

-----------------------------------------------------------------------------
(* save() asks for a name; done() saves, cancel() goes back.               *)
Save ==
  /\ screen = "canvas"
  /\ screen' = "naming"
  /\ UNCHANGED <<store, canvas, drawing, work>>

CancelNaming ==
  /\ screen = "naming"
  /\ screen' = "canvas"
  /\ UNCHANGED <<store, canvas, drawing, work>>

(* savePixelArt() of the canvas: a new document, under the controller's    *)
(* size.                                                                   *)
SavePixelArt ==
  /\ screen = "naming"
  /\ screen' = "saving"
  /\ sent' = [size |-> size, colors |-> ExportColors(grid)]
  /\ UNCHANGED <<store, canvas, drawing, doc, page>>

(* savePixelArt() of the editor: the colors of the same document.          *)
SaveEdits ==
  /\ screen = "editor"
  /\ screen' = "storing"
  /\ sent' = [page EXCEPT !.colors = ExportColors(grid)]
  /\ UNCHANGED <<store, canvas, drawing, doc, page>>

(* Mutant: the page the editor returns to keeps its colors.                *)
AcknowledgedUntold ==
  /\ screen \in {"saving", "storing"}
  /\ doc' = sent /\ sent' = NoDoc
  /\ screen' = IF screen = "saving" THEN "works" ELSE "page"
  /\ Leave
  /\ UNCHANGED <<store, page>>

(* The write arrives: the canvas goes to the Works screen, the editor back *)
(* to its page, with the new colors (prepare).                             *)
Acknowledged ==
  /\ screen \in {"saving", "storing"}
  /\ doc' = sent /\ sent' = NoDoc
  /\ \/ screen = "saving" /\ screen' = "works" /\ UNCHANGED page
     \/ screen = "storing" /\ screen' = "page" /\ page' = sent
  /\ Leave
  /\ UNCHANGED store

(* The write is refused: the drawing can be saved again.                   *)
Refused ==
  /\ screen \in {"saving", "storing"}
  /\ sent' = NoDoc
  /\ screen' = IF screen = "saving" THEN "canvas" ELSE "editor"
  /\ UNCHANGED <<store, canvas, drawing, doc, page>>

-----------------------------------------------------------------------------
(* The detail page takes what the Works screen has fetched.                *)
OpenPage ==
  /\ screen = "works" /\ doc # NoDoc
  /\ screen' = "page" /\ page' = doc
  /\ UNCHANGED <<store, canvas, drawing, doc, sent>>

OpenEditor ==
  /\ screen = "page"
  /\ IF Loadable(page) THEN screen' = "editor" /\ grid' = LoadCanvas(page)
                       ELSE screen' = "crashed" /\ grid' = NoGrid
  /\ Fresh
  /\ UNCHANGED <<store, canvas, work>>

(* back() of the editor.                                                   *)
Back ==
  /\ screen = "editor"
  /\ screen' = "page" /\ Leave
  /\ UNCHANGED <<store, work>>

ClosePage ==
  /\ screen = "page"
  /\ screen' = "works" /\ page' = NoDoc
  /\ UNCHANGED <<store, canvas, drawing, doc, sent>>

(* newPressed() of the Works screen.                                       *)
New ==
  /\ screen = "works"
  /\ OpenCanvas(FetchCanvasSize)
  /\ UNCHANGED <<store, work>>

ToWorks ==
  /\ screen = "canvas"
  /\ screen' = "works" /\ Leave
  /\ UNCHANGED <<store, work>>

(* A pending write outlives the app, the background chosen does not.       *)
Restart ==
  /\ screen # "crashed"
  /\ OpenCanvas(FetchCanvasSize)
  /\ background' = White
  /\ doc' = IF sent = NoDoc THEN doc ELSE sent
  /\ sent' = NoDoc /\ page' = NoDoc
  /\ UNCHANGED stored

Next ==
  \/ \E shade \in Shade : PickColor(shade)
  \/ \E x, y \in Reach : Touch(x, y)
  \/ OpenSettings \/ ChangeSettings \/ CancelSettings \/ Apply \/ Applied
  \/ Save \/ CancelNaming \/ SavePixelArt \/ SaveEdits \/ Acknowledged \/ Refused
  \/ OpenPage \/ OpenEditor \/ Back \/ ClosePage \/ New \/ ToWorks \/ Restart

Spec == Init /\ [][Next]_vars
-----------------------------------------------------------------------------
Doc == [size : Size, colors : UNION {[Pos(n) -> Code] : n \in Size}]

(* Type invariant of the canvas.                                           *)
TypeOK ==
  /\ screen \in {"canvas", "settings", "applying", "naming", "saving", "works", "page",
                 "editor", "storing", "crashed"}
  /\ stored \in Size /\ {option, size} \subseteq Size \cup {0}
  /\ {background, pen} \subseteq Shade
  /\ grid.size \in Size \cup {0}
  /\ \A i \in 1..Len(grid.views) : \E n \in Size : grid.views[i] \in [Pos(n) -> Shade]
  /\ grid.cells \in [Key -> 0..Len(grid.views)]
  /\ touched \subseteq Key
  /\ {doc, sent, page} \subseteq Doc \cup {NoDoc}

(* What would be saved is what is seen: no cell of an earlier, larger grid *)
(* is exported, and none of the cells shown is missing (exportColors).     *)
ExportIsShown ==
  grid # NoGrid =>
    ExportColors(grid) = [k \in Pos(grid.size) |-> CodeOf(Shown(grid)[k])]

(* A drawing is saved under its own size, after any number of resizes,     *)
(* cancelled popups, edits and restarts, so that no reader of a work ends  *)
(* on a cell without a color (loadCanvas).                                 *)
SavedUnderItsSize ==
  /\ sent # NoDoc => DOMAIN sent.colors = Pos(sent.size)
  /\ screen # "crashed"

(* A touch changes at most the cell under the finger; cells of the first   *)
(* row and column also when the finger has just left the grid.             *)
Under(k, at) ==
  \A c \in {1, 2} : at[c] \in 2 * k[c] - (IF k[c] = 0 THEN 1 ELSE 0)..2 * k[c] + 1

PaintsUnderFinger ==
  [][OnGrid /\ grid.views # grid'.views =>
       \A x, y \in Reach : Touch(x, y) =>
         \A k \in Pos(grid.size) : Shown(grid')[k] # Shown(grid)[k] => Under(k, <<x, y>>)]_vars

(* However often a work is edited and saved, a cell the user does not      *)
(* touch keeps its stored color: the conversions between the color on      *)
(* screen and the stored one do not drift (UIColorExtension).              *)
UntouchedKept ==
  screen \in {"editor", "storing"} =>
    \A k \in Pos(page.size) \ touched : ExportColors(grid)[k] = page.colors[k]

(* The detail page shows what the document holds, after an edit that was   *)
(* saved, refused or given up, so that the next edit builds on it.         *)
PageIsDoc == screen \in {"page", "editor"} => page = doc

-----------------------------------------------------------------------------
(* The inductive invariant.  A grid with cells has one for each position,  *)
(* and the dictionary leads from each to the last layer; where the grid is *)
(* larger or smaller than former ones, its entries lead to former layers.  *)
Layer == UNION {[Pos(n) -> Shade] : n \in Size}

Laid(g) ==
  /\ g \in [size : Size, views : Seq(Layer), cells : [Key -> Nat]]
  /\ Len(g.views) > 0
  /\ \A k \in Key : g.cells[k] <= Len(g.views)
  /\ Shown(g) \in [Pos(g.size) -> Shade]
  /\ \A k \in Pos(g.size) : g.cells[k] = Len(g.views)

(* A document or a copy of it that has a color for each cell.              *)
Good(d) == \E n \in Size : d \in [size : {n}, colors : [Pos(n) -> Code]]

Settled ==
  /\ stored \in Size /\ {background, pen} \subseteq Shade
  /\ {option, size} \subseteq Size \cup {0}
  /\ touched \subseteq Key
  /\ \A d \in {doc, sent, page} : d = NoDoc \/ Good(d)

(* The controller's size is the grid's wherever a canvas is open.          *)
Drawn ==
  /\ screen \in {"canvas", "settings", "applying", "naming", "saving"} =>
       Laid(grid) /\ grid.size = size
  /\ screen \in {"settings", "applying"} => option \in Size
  /\ screen \in {"saving", "storing"} => Good(sent)

(* What the editor shows is the page's drawing but for what was touched.   *)
Edited ==
  /\ screen \in {"page", "editor", "storing"} => Good(page) /\ page = doc
  /\ screen \in {"editor", "storing"} =>
       /\ Laid(grid) /\ grid.size = page.size
       /\ \A k \in Pos(page.size) \ touched : Shown(grid)[k] = ShadeOf(page.colors[k])
  /\ screen \in {"works", "page"} => grid = NoGrid

CanvasInv ==
  /\ screen \in {"canvas", "settings", "applying", "naming", "saving", "works", "page",
                 "editor", "storing"}
  /\ Settled /\ Drawn /\ Edited
=============================================================================
