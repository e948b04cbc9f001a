---------------------------- MODULE CanvasProofs ----------------------------
(* Proofs about Canvas, for any sizes of which one is the largest, any     *)
(* number of shades and any number of resizes, edits and restarts.         *)
EXTENDS Canvas, SequenceTheorems, TLAPS

(* Every grid lies within the largest. *)
LEMMA Positions ==
  /\ \A n \in Size : Pos(n) \subseteq Key
  /\ \A n \in Size : n \in Nat
<1>1. Max(Size) \in Size /\ \A n \in Size : Max(Size) >= n
  <2>1. PICK m \in Size : \A n \in Size : m >= n
    BY SizeAssumption
  <2> QED BY <2>1 DEF Max
<1>2. \A n \in Size : n \in Nat
  BY SizeAssumption
<1> QED BY <1>1, <1>2 DEF Pos, Key

(* A component is stored as one of the values, and comes back as it went.  *)
LEMMA Codes ==
  /\ \A shade \in Shade : CodeOf(shade) \in Code
  /\ \A code \in Code : ShadeOf(code) \in Shade /\ CodeOf(ShadeOf(code)) = code
  /\ White \in Shade /\ Black \in Shade
<1>1. ASSUME NEW shade \in Shade PROVE CodeOf(shade) \in Code
  BY CodeAssumption, FineAssumption DEF Shade, Code, CodeOf
<1>2. ASSUME NEW code \in Code PROVE ShadeOf(code) \in Shade
  BY CodeAssumption, FineAssumption DEF Shade, Code, ShadeOf
<1>3. ASSUME NEW code \in Code PROVE CodeOf(ShadeOf(code)) = code
  BY CodeAssumption, FineAssumption DEF Code, CodeOf, ShadeOf
<1>4. White \in Shade /\ Black \in Shade
  BY CodeAssumption, FineAssumption DEF Shade, White, Black
<1> QED BY <1>1, <1>2, <1>3, <1>4

-----------------------------------------------------------------------------
(* A new layer covers the grid, whatever grid it is laid on (makeCells).   *)
LEMMA Covered ==
  ASSUME NEW g, Laid(g) \/ g = NoGrid, NEW n \in Size, NEW shades \in [Pos(n) -> Shade]
  PROVE  /\ Laid(LayCells(g, n, shades))
         /\ LayCells(g, n, shades).size = n
         /\ Shown(LayCells(g, n, shades)) = shades
<1> DEFINE h == LayCells(g, n, shades)
           m == Len(g.views)
<1>1. /\ g.views \in Seq(Layer) /\ g.cells \in [Key -> Nat]
      /\ m \in Nat /\ \A k \in Key : g.cells[k] <= m
  <2>1. CASE Laid(g)
    BY <2>1, LenProperties DEF Laid
  <2>2. CASE g = NoGrid
    BY <2>2 DEF NoGrid
  <2> QED BY <2>1, <2>2
<1>2. shades \in Layer
  BY DEF Layer
<1>3. /\ h.size = n
      /\ h.views = Append(g.views, shades)
      /\ h.cells = [k \in Key |-> IF k \in Pos(n) THEN m + 1 ELSE g.cells[k]]
      /\ h = [size |-> h.size, views |-> h.views, cells |-> h.cells]
  BY DEF LayCells
<1> HIDE DEF h
<1>4. /\ h.views \in Seq(Layer) /\ Len(h.views) = m + 1 /\ h.views[m + 1] = shades
  BY <1>1, <1>2, <1>3, AppendProperties
<1> HIDE DEF m
<1>5. /\ h.cells \in [Key -> Nat]
      /\ \A k \in Key : h.cells[k] <= m + 1
      /\ \A k \in Pos(n) : h.cells[k] = m + 1
  BY <1>1, <1>3, Positions
<1>6. h \in [size : Size, views : Seq(Layer), cells : [Key -> Nat]]
  BY <1>3, <1>4, <1>5
<1>7. Shown(h) = shades
  BY <1>4 DEF Shown, Last
<1>8. Len(h.views) > 0
  BY <1>1, <1>4
<1>9. Laid(h)
  BY <1>3, <1>4, <1>5, <1>6, <1>7, <1>8 DEF Laid
<1> QED BY <1>3, <1>7, <1>9 DEF h

(* A touch changes one cell at most, and shows it (handleGesturePan).      *)
LEMMA Touched ==
  ASSUME NEW g, Laid(g), NEW k, NEW shade \in Shade
  PROVE  /\ Laid(Painted(g, k, shade))
         /\ Painted(g, k, shade).size = g.size
         /\ \A p \in Pos(g.size) :
              Shown(Painted(g, k, shade))[p] = IF p = k THEN shade ELSE Shown(g)[p]
<1> DEFINE m == Len(g.views)
           v == g.views
<1>1. /\ g \in [size : Size, views : Seq(Layer), cells : [Key -> Nat]]
      /\ v \in Seq(Layer) /\ m \in Nat \ {0}
      /\ Shown(g) = v[m] /\ v[m] \in [Pos(g.size) -> Shade]
      /\ g.size \in Size /\ Pos(g.size) \subseteq Key
      /\ \A p \in Pos(g.size) : g.cells[p] = m
      /\ \A p \in Key : g.cells[p] \in Nat /\ g.cells[p] <= m
  BY LenProperties, Positions DEF Laid, Shown, Last
<1>2. CASE k \in Key /\ g.cells[k] # 0
  <2> DEFINE c == g.cells[k]
             x == [v EXCEPT ![c] = [v[c] EXCEPT ![k] = shade]]
             h == [g EXCEPT !.views = x]
  <2>1. Painted(g, k, shade) = h
    BY <1>1, <1>2 DEF Painted
  <2>2. c \in 1..m /\ DOMAIN v = 1..m
    BY <1>1, <1>2
  <2>3. v[c] \in Layer
    BY <1>1, <2>2, ElementOfSeq
  <2>4. [v[c] EXCEPT ![k] = shade] \in Layer
    <3>1. PICK n \in Size : v[c] \in [Pos(n) -> Shade]
      BY <2>3 DEF Layer
    <3>2. [v[c] EXCEPT ![k] = shade] \in [Pos(n) -> Shade]
      BY <3>1
    <3> QED BY <3>2 DEF Layer
  <2> HIDE DEF c
  <2>5. x \in Seq(Layer) /\ Len(x) = m
    BY <1>1, <2>2, <2>4, ExceptSeq
  <2>6. x[m] = IF c = m THEN [v[m] EXCEPT ![k] = shade] ELSE v[m]
    BY <1>1, <2>2
  <2>7. /\ h \in [size : Size, views : Seq(Layer), cells : [Key -> Nat]]
        /\ h.size = g.size /\ h.views = x /\ h.cells = g.cells
    BY <1>1, <2>5
  <2> HIDE DEF h, x
  <2>8. Shown(h) = x[m]
    BY <2>5, <2>7 DEF Shown, Last
  <2>9. x[m] \in [Pos(g.size) -> Shade]
    BY <1>1, <2>6
  <2>10. \A p \in Pos(g.size) : x[m][p] = IF p = k THEN shade ELSE v[m][p]
    BY <1>1, <2>6 DEF c
  <2>11. Laid(h)
    BY <1>1, <2>5, <2>7, <2>8, <2>9 DEF Laid
  <2> QED BY <1>1, <2>1, <2>7, <2>8, <2>10, <2>11
<1>3. CASE ~(k \in Key /\ g.cells[k] # 0)
  <2>1. Painted(g, k, shade) = g
    BY <1>3 DEF Painted
  <2>2. k \notin Pos(g.size)
    BY <1>1, <1>3
  <2> QED BY <2>1, <2>2
<1> QED BY <1>2, <1>3

(* What is exported is what the last layer shows (exportColors).           *)
LEMMA Exported ==
  ASSUME NEW g, Laid(g)
  PROVE  /\ ExportColors(g) = [k \in Pos(g.size) |-> CodeOf(Shown(g)[k])]
         /\ ExportColors(g) \in [Pos(g.size) -> Code]
         /\ g.size \in Size
<1>1. /\ Len(g.views) \in Nat \ {0} /\ g.size \in Size
      /\ \A k \in Pos(g.size) : g.cells[k] = Len(g.views)
      /\ Shown(g) = g.views[Len(g.views)]
      /\ Shown(g) \in [Pos(g.size) -> Shade]
  BY LenProperties DEF Laid, Shown, Last
<1>2. {k \in Pos(g.size) : g.cells[k] # 0} = Pos(g.size)
  BY <1>1
<1>3. ExportColors(g) = [k \in Pos(g.size) |-> CodeOf(Shown(g)[k])]
  BY <1>1, <1>2 DEF ExportColors
<1> QED BY <1>1, <1>3, Codes

(* A document with a color for each cell can be loaded, and shows it.      *)
LEMMA Loaded ==
  ASSUME NEW d, Good(d)
  PROVE  /\ d.size \in Size /\ d.colors \in [Pos(d.size) -> Code]
         /\ Loadable(d)
         /\ Laid(LoadCanvas(d)) /\ LoadCanvas(d).size = d.size
         /\ \A k \in Pos(d.size) : Shown(LoadCanvas(d))[k] = ShadeOf(d.colors[k])
<1>1. d.size \in Size /\ d.colors \in [Pos(d.size) -> Code]
  BY DEF Good
<1>2. Loadable(d)
  BY <1>1 DEF Loadable
<1> DEFINE shades == [k \in Pos(d.size) |-> ShadeOf(d.colors[k])]
<1>3. shades \in [Pos(d.size) -> Shade]
  BY <1>1, Codes
<1>4. LoadCanvas(d) = LayCells(NoGrid, d.size, shades)
  BY DEF LoadCanvas
<1>5. \A k \in Pos(d.size) : shades[k] = ShadeOf(d.colors[k])
  OBVIOUS
<1> HIDE DEF shades
<1> QED BY <1>1, <1>2, <1>3, <1>4, <1>5, Covered
-----------------------------------------------------------------------------
(* A white canvas, of any size. *)
LEMMA Opened ==
  ASSUME NEW n \in Size, OpenCanvas(n),
         stored' \in Size, background' \in Shade,
         \A d \in {doc', sent', page'} : d = NoDoc \/ Good(d)
  PROVE  CanvasInv'
<1>1. [k \in Pos(n) |-> White] \in [Pos(n) -> Shade]
  BY Codes
<1>2. Laid(grid') /\ grid'.size = n
  BY <1>1, Covered DEF OpenCanvas, MakeCells
<1>3. /\ screen' = "canvas" /\ option' = 0 /\ size' = n
      /\ pen' \in Shade /\ touched' = {}
  BY Codes DEF OpenCanvas, Fresh
<1> QED BY <1>2, <1>3 DEF CanvasInv, Settled, Drawn, Edited

LEMMA CanvasInit == Init => CanvasInv
<1> SUFFICES ASSUME Init PROVE CanvasInv
  OBVIOUS
<1>1. DefaultSize \in Size
  BY SizeAssumption
<1>2. [k \in Pos(DefaultSize) |-> White] \in [Pos(DefaultSize) -> Shade]
  BY Codes
<1>3. Laid(grid) /\ grid.size = DefaultSize
  BY <1>1, <1>2, Covered DEF Init, MakeCells
<1> QED BY <1>1, <1>3, Codes DEF Init, CanvasInv, Settled, Drawn, Edited

(* The steps that leave grid and documents alone. *)
LEMMA Aside ==
  ASSUME CanvasInv,
         \/ \E shade \in Shade : PickColor(shade)
         \/ OpenSettings \/ ChangeSettings \/ CancelSettings \/ Apply
         \/ Save \/ CancelNaming \/ ClosePage \/ UNCHANGED vars
  PROVE  CanvasInv'
<1>0. Black \in Shade /\ White \in Shade
  BY Codes
<1>1. ASSUME NEW shade \in Shade, PickColor(shade) PROVE CanvasInv'
  BY <1>1 DEF PickColor, OnGrid, store, canvas, work, CanvasInv, Settled, Drawn, Edited
<1>2. CASE OpenSettings
  <2>1. size \in Size
    BY <1>2 DEF OpenSettings, CanvasInv, Drawn, Laid
  <2> QED BY <1>2, <2>1 DEF OpenSettings, store, drawing, work, CanvasInv, Settled, Drawn, Edited
<1>3. CASE ChangeSettings
  BY <1>0, <1>3 DEF ChangeSettings, drawing, work, CanvasInv, Settled, Drawn, Edited
<1>4. CASE CancelSettings
  BY <1>4 DEF CancelSettings, store, drawing, work, CanvasInv, Settled, Drawn, Edited
<1>5. CASE Apply
  BY <1>5 DEF Apply, canvas, drawing, work, CanvasInv, Settled, Drawn, Edited
<1>6. CASE Save \/ CancelNaming
  BY <1>6 DEF Save, CancelNaming, store, canvas, drawing, work,
              CanvasInv, Settled, Drawn, Edited
<1>7. CASE ClosePage
  BY <1>7 DEF ClosePage, store, canvas, drawing, CanvasInv, Settled, Drawn, Edited
<1>8. CASE UNCHANGED vars
  BY <1>8 DEF vars, store, canvas, drawing, work, CanvasInv, Settled, Drawn, Edited
<1> QED BY <1>1, <1>2, <1>3, <1>4, <1>5, <1>6, <1>7, <1>8

LEMMA TouchStays ==
  ASSUME CanvasInv, NEW x, NEW y, Touch(x, y)
  PROVE  CanvasInv'
<1> DEFINE k == <<Half(x), Half(y)>>
<1>1. /\ OnGrid /\ grid' = Painted(grid, k, pen)
      /\ touched' = touched \cup ({k} \cap Key)
      /\ UNCHANGED <<screen, stored, background, option, size, pen, doc, sent, page>>
  BY DEF Touch, store, canvas, work
<1> HIDE DEF k
<1>2. Laid(grid) /\ pen \in Shade
  BY <1>1 DEF OnGrid, CanvasInv, Drawn, Edited, Settled
<1>3. /\ Laid(grid') /\ grid'.size = grid.size
      /\ \A p \in Pos(grid.size) : Shown(grid')[p] = IF p = k THEN pen ELSE Shown(grid)[p]
  BY <1>1, <1>2, Touched
<1>4. Settled' /\ Drawn'
  BY <1>1, <1>3 DEF OnGrid, CanvasInv, Settled, Drawn
<1>5. CASE screen = "canvas"
  BY <1>1, <1>4, <1>5 DEF CanvasInv, Edited
<1>6. CASE screen = "editor"
  <2>1. /\ Good(page) /\ page = doc /\ grid.size = page.size
        /\ \A p \in Pos(page.size) \ touched : Shown(grid)[p] = ShadeOf(page.colors[p])
    BY <1>6 DEF CanvasInv, Edited
  <2>2. page.size \in Size /\ Pos(page.size) \subseteq Key
    BY <2>1, Loaded, Positions
  <2>3. ASSUME NEW p \in Pos(page.size) \ touched'
        PROVE  Shown(grid')[p] = ShadeOf(page.colors[p])
    <3>1. p # k /\ p \in Pos(page.size) \ touched
      BY <1>1, <2>2, <2>3
    <3> QED BY <1>3, <2>1, <3>1
  <2>4. Edited'
    BY <1>1, <1>3, <1>6, <2>1, <2>3 DEF Edited
  <2> QED BY <1>1, <1>4, <1>6, <2>4 DEF CanvasInv
<1> QED BY <1>1, <1>5, <1>6 DEF OnGrid

LEMMA AppliedStays ==
  ASSUME CanvasInv, Applied
  PROVE  CanvasInv'
<1>1. /\ screen' = "canvas" /\ option' = 0 /\ size' = option /\ touched' = {}
      /\ grid' = LayCells(grid, option, [k \in Pos(option) |-> background])
      /\ UNCHANGED <<stored, background, pen, doc, sent, page>>
  BY DEF Applied, MakeCells, store, work
<1>2. Laid(grid) /\ option \in Size /\ background \in Shade
  BY DEF Applied, CanvasInv, Drawn, Settled
<1>3. Laid(grid') /\ grid'.size = option
  BY <1>1, <1>2, Covered
<1> QED BY <1>1, <1>2, <1>3 DEF CanvasInv, Settled, Drawn, Edited

LEMMA SaveStays ==
  ASSUME CanvasInv, SavePixelArt \/ SaveEdits
  PROVE  CanvasInv'
<1>1. UNCHANGED <<stored, background, option, size, grid, pen, touched, doc, page>>
  BY DEF SavePixelArt, SaveEdits, store, canvas, drawing
<1>2. Laid(grid)
  BY DEF SavePixelArt, SaveEdits, CanvasInv, Drawn, Edited
<1>3. ExportColors(grid) \in [Pos(grid.size) -> Code] /\ grid.size \in Size
  BY <1>2, Exported
<1>4. CASE SavePixelArt
  <2>1. screen = "naming" /\ screen' = "saving" /\ grid.size = size
    BY <1>4 DEF SavePixelArt, CanvasInv, Drawn
  <2>2. sent' = [size |-> size, colors |-> ExportColors(grid)]
    BY <1>4 DEF SavePixelArt
  <2>3. Good(sent')
    BY <1>3, <2>1, <2>2 DEF Good
  <2> QED BY <1>1, <2>1, <2>3 DEF CanvasInv, Settled, Drawn, Edited
<1>5. CASE SaveEdits
  <2>1. screen = "editor" /\ screen' = "storing" /\ grid.size = page.size /\ Good(page)
    BY <1>5 DEF SaveEdits, CanvasInv, Edited
  <2>2. sent' = [page EXCEPT !.colors = ExportColors(grid)]
    BY <1>5 DEF SaveEdits
  <2>3. Good(sent')
    BY <1>3, <2>1, <2>2 DEF Good
  <2> QED BY <1>1, <2>1, <2>3 DEF CanvasInv, Settled, Drawn, Edited
<1> QED BY <1>4, <1>5

LEMMA AnswerStays ==
  ASSUME CanvasInv, Acknowledged \/ Refused
  PROVE  CanvasInv'
<1>1. Black \in Shade
  BY Codes
<1>2. screen \in {"saving", "storing"} /\ Good(sent)
  BY DEF Acknowledged, Refused, CanvasInv, Drawn
<1>3. CASE Acknowledged
  <2>1. /\ doc' = sent /\ sent' = NoDoc
        /\ option' = 0 /\ size' = 0 /\ grid' = NoGrid /\ pen' = Black /\ touched' = {}
        /\ UNCHANGED <<stored, background>>
        /\ \/ screen = "saving" /\ screen' = "works" /\ UNCHANGED page
           \/ screen = "storing" /\ screen' = "page" /\ page' = sent
    BY <1>3 DEF Acknowledged, Leave, Fresh, store
  <2> QED BY <1>1, <1>2, <2>1 DEF CanvasInv, Settled, Drawn, Edited
<1>4. CASE Refused
  <2>1. /\ sent' = NoDoc
        /\ screen' = IF screen = "saving" THEN "canvas" ELSE "editor"
        /\ UNCHANGED <<stored, background, option, size, grid, pen, touched, doc, page>>
    BY <1>4 DEF Refused, store, canvas, drawing
  <2> QED BY <1>2, <2>1 DEF CanvasInv, Settled, Drawn, Edited
<1> QED BY <1>3, <1>4

LEMMA PageStays ==
  ASSUME CanvasInv, OpenPage \/ OpenEditor \/ Back \/ ToWorks
  PROVE  CanvasInv'
<1>1. Black \in Shade
  BY Codes
<1>2. CASE OpenPage
  BY <1>2 DEF OpenPage, store, canvas, drawing, CanvasInv, Settled, Drawn, Edited
<1>3. CASE OpenEditor
  <2>1. screen = "page" /\ Good(page) /\ page = doc
    BY <1>3 DEF OpenEditor, CanvasInv, Edited
  <2>2. /\ Loadable(page) /\ Laid(LoadCanvas(page)) /\ LoadCanvas(page).size = page.size
        /\ \A k \in Pos(page.size) : Shown(LoadCanvas(page))[k] = ShadeOf(page.colors[k])
    BY <2>1, Loaded
  <2>3. /\ screen' = "editor" /\ grid' = LoadCanvas(page)
        /\ pen' = Black /\ touched' = {}
        /\ UNCHANGED <<stored, background, option, size, doc, sent, page>>
    BY <1>3, <2>2 DEF OpenEditor, Fresh, store, canvas, work
  <2>4. Edited'
    BY <2>1, <2>2, <2>3 DEF Edited
  <2> QED BY <1>1, <2>3, <2>4 DEF CanvasInv, Settled, Drawn
<1>4. CASE Back \/ ToWorks
  <2>1. /\ option' = 0 /\ size' = 0 /\ grid' = NoGrid /\ pen' = Black /\ touched' = {}
        /\ UNCHANGED <<stored, background, doc, sent, page>>
        /\ \/ screen = "editor" /\ screen' = "page"
           \/ screen = "canvas" /\ screen' = "works"
    BY <1>4 DEF Back, ToWorks, Leave, Fresh, store, work
  <2> QED BY <1>1, <2>1 DEF CanvasInv, Settled, Drawn, Edited
<1> QED BY <1>2, <1>3, <1>4

LEMMA StartStays ==
  ASSUME CanvasInv, New \/ Restart
  PROVE  CanvasInv'
<1>1. FetchCanvasSize \in Size
  BY SizeAssumption DEF FetchCanvasSize
<1>2. White \in Shade
  BY Codes
<1>3. /\ stored' \in Size /\ background' \in Shade /\ OpenCanvas(FetchCanvasSize)
      /\ \A d \in {doc', sent', page'} : d = NoDoc \/ Good(d)
  BY <1>2 DEF New, Restart, store, work, CanvasInv, Settled
<1> QED BY <1>1, <1>3, Opened

LEMMA CanvasStep == CanvasInv /\ [Next]_vars => CanvasInv'
BY Aside, TouchStays, AppliedStays, SaveStays, AnswerStays, PageStays, StartStays DEF Next

-----------------------------------------------------------------------------
(* The inductive invariant: a grid leads from each position to the last    *)
(* layer, documents have a color for each cell, the sizes agree.           *)
THEOREM CanvasInvariance == Spec => []CanvasInv
BY CanvasInit, CanvasStep, PTL DEF Spec

(* Type correctness of the canvas. *)
THEOREM TypeCorrect == Spec => []TypeOK
<1>1. CanvasInv => TypeOK
  <2> SUFFICES ASSUME CanvasInv PROVE TypeOK
    OBVIOUS
  <2>1. Laid(grid) \/ grid = NoGrid
    BY DEF CanvasInv, Drawn, Edited
  <2>2. /\ grid.size \in Size \cup {0}
        /\ \A i \in 1..Len(grid.views) : \E n \in Size : grid.views[i] \in [Pos(n) -> Shade]
        /\ grid.cells \in [Key -> 0..Len(grid.views)]
    <3>1. CASE Laid(grid)
      <4>1. /\ grid.size \in Size /\ grid.views \in Seq(Layer) /\ Len(grid.views) \in Nat
            /\ grid.cells \in [Key -> Nat]
            /\ \A k \in Key : grid.cells[k] <= Len(grid.views)
        BY <3>1, LenProperties DEF Laid
      <4>2. \A i \in 1..Len(grid.views) : grid.views[i] \in Layer
        BY <4>1, ElementOfSeq
      <4> QED BY <4>1, <4>2 DEF Layer
    <3>2. CASE grid = NoGrid
      BY <3>2 DEF NoGrid
    <3> QED BY <2>1, <3>1, <3>2
  <2>3. \A d : Good(d) => d \in Doc
    BY DEF Good, Doc
  <2> QED BY <2>2, <2>3 DEF TypeOK, CanvasInv, Settled
<1> QED BY <1>1, CanvasInvariance, PTL

(* What would be saved is what is seen, after any resizes (exportColors).  *)
THEOREM ShownIsExported == Spec => []ExportIsShown
<1>1. CanvasInv => ExportIsShown
  <2> SUFFICES ASSUME CanvasInv, grid # NoGrid
               PROVE  ExportColors(grid) = [k \in Pos(grid.size) |-> CodeOf(Shown(grid)[k])]
    BY DEF ExportIsShown
  <2>1. Laid(grid)
    BY DEF CanvasInv, Drawn, Edited
  <2> QED BY <2>1, Exported
<1> QED BY <1>1, CanvasInvariance, PTL

(* A drawing is saved under its own size, and every reader of a work finds *)
(* each of its cells (savePixelArt, loadCanvas).                           *)
THEOREM SizesAgree == Spec => []SavedUnderItsSize
<1>1. CanvasInv => SavedUnderItsSize
  <2> SUFFICES ASSUME CanvasInv PROVE SavedUnderItsSize
    OBVIOUS
  <2>1. sent # NoDoc => Good(sent)
    BY DEF CanvasInv, Settled
  <2>2. sent # NoDoc => DOMAIN sent.colors = Pos(sent.size)
    BY <2>1, Loaded
  <2> QED BY <2>2 DEF SavedUnderItsSize, CanvasInv
<1> QED BY <1>1, CanvasInvariance, PTL

(* A cell that is not touched keeps its stored color through any number of *)
(* edits: the conversions do not drift (UIColorExtension).                 *)
THEOREM ColorsKept == Spec => []UntouchedKept
<1>1. CanvasInv => UntouchedKept
  <2> SUFFICES ASSUME CanvasInv, screen \in {"editor", "storing"},
                      NEW k \in Pos(page.size) \ touched
               PROVE  ExportColors(grid)[k] = page.colors[k]
    BY DEF UntouchedKept
  <2>1. /\ Laid(grid) /\ grid.size = page.size /\ Good(page)
        /\ Shown(grid)[k] = ShadeOf(page.colors[k])
    BY DEF CanvasInv, Edited
  <2>2. page.colors[k] \in Code
    BY <2>1, Loaded
  <2>3. ExportColors(grid)[k] = CodeOf(Shown(grid)[k])
    BY <2>1, Exported
  <2> QED BY <2>1, <2>2, <2>3, Codes
<1> QED BY <1>1, CanvasInvariance, PTL

(* The detail page shows the document, after an edit saved, refused or     *)
(* given up (prepare, back).                                               *)
THEOREM PageStaysDoc == Spec => []PageIsDoc
<1>1. CanvasInv => PageIsDoc
  BY DEF CanvasInv, Edited, PageIsDoc
<1> QED BY <1>1, CanvasInvariance, PTL

(* A touch changes the cell under the finger only (handleGesturePan).      *)
THEOREM FingerPaints == Spec => PaintsUnderFinger
<1>1. CanvasInv /\ [Next]_vars =>
        (OnGrid /\ grid.views # grid'.views =>
           \A x, y \in Reach : Touch(x, y) =>
             \A k \in Pos(grid.size) : Shown(grid')[k] # Shown(grid)[k] => Under(k, <<x, y>>))
  <2> SUFFICES ASSUME CanvasInv, OnGrid, NEW x \in Reach, NEW y \in Reach, Touch(x, y),
                      NEW k \in Pos(grid.size), Shown(grid')[k] # Shown(grid)[k]
               PROVE  Under(k, <<x, y>>)
    OBVIOUS
  <2>1. Laid(grid) /\ pen \in Shade
    BY DEF OnGrid, CanvasInv, Drawn, Edited, Settled
  <2>2. grid' = Painted(grid, <<Half(x), Half(y)>>, pen)
    BY DEF Touch
  <2>3. k = <<Half(x), Half(y)>>
    BY <2>1, <2>2, Touched
  <2>4. grid.size \in Nat
    BY <2>1, Positions DEF Laid
  <2>5. x \in Int /\ y \in Int
    BY <2>4 DEF Reach
  <2>6. k[1] \in Nat /\ k[2] \in Nat /\ k[1] = Half(x) /\ k[2] = Half(y)
    BY <2>3, <2>4 DEF Pos
  <2>7. ASSUME NEW z \in Int, Half(z) \in Nat
        PROVE  z \in 2 * Half(z) - (IF Half(z) = 0 THEN 1 ELSE 0)..2 * Half(z) + 1
    BY <2>7 DEF Half
  <2>8. /\ x \in 2 * k[1] - (IF k[1] = 0 THEN 1 ELSE 0)..2 * k[1] + 1
        /\ y \in 2 * k[2] - (IF k[2] = 0 THEN 1 ELSE 0)..2 * k[2] + 1
    BY <2>5, <2>6, <2>7
  <2> QED BY <2>8 DEF Under
<1> QED BY <1>1, CanvasInit, CanvasStep, PTL DEF Spec, PaintsUnderFinger
=============================================================================
