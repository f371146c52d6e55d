---------------------------- MODULE ScreenProofs ----------------------------
(***************************************************************************)
(* Proofs about TouchGeometry and Screen, for every window, kernel, X      *)
(* server and every value of the layout constants that GeometryAssumption  *)
(* allows.  A window never changes, so what TouchGeometry says of a touch  *)
(* is arithmetic on one state.  Drawing keeps to one strip of the window,  *)
(* and touches go on as TouchGeometry describes them.  A picture is        *)
(* followed through every step to the screen: into the bits of a canvas,   *)
(* a Frame message, the frame that PaperPad accepts, and from there into   *)
(* mapped memory or into the bitmaps of an X server.                       *)
(***************************************************************************)
EXTENDS Screen, SequenceTheorems, FiniteSetTheorems, TLAPS

-----------------------------------------------------------------------------
(* Touches and the layout.                                                 *)

Typed ==
    /\ width \in WindowSizes /\ height \in WindowSizes
    /\ touched \in BOOLEAN
    /\ x \in Int /\ y \in Int

LEMMA Halves ==
    ASSUME NEW n \in Nat
    PROVE  /\ n \div 2 \in Nat
           /\ 2 * (n \div 2) <= n /\ n <= 2 * (n \div 2) + 1
  OBVIOUS

LEMMA Thirds ==
    ASSUME NEW n \in Nat
    PROVE  /\ n \div 3 \in Nat
           /\ 3 * (n \div 3) <= n /\ n <= 3 * (n \div 3) + 2
  OBVIOUS

\* Every state of the specification has its type.
THEOREM TypeCorrect == Spec => []Typed
<1>1. Init => Typed
  <2>. SUFFICES ASSUME Init PROVE Typed
    OBVIOUS
  <2>1. touched \in BOOLEAN
    BY Zenon DEF Init
  <2>. QED
    BY <2>1, SMT DEF Init, Typed
<1>2. Typed /\ [Next]_vars => Typed'
  <2>. SUFFICES ASSUME Typed, [Next]_vars PROVE Typed'
    OBVIOUS
  <2>1. touched' \in BOOLEAN
    BY Zenon DEF Typed, Next, Touch, vars
  <2>2. width' = width /\ height' = height
    BY Zenon DEF Next, Touch, vars
  <2>3. x' \in Int /\ y' \in Int
    <3>1. CASE Next
      BY <3>1, GeometryAssumption DEF Next, Touch, Coordinates
    <3>2. CASE UNCHANGED vars
      BY <3>2 DEF vars, Typed
    <3>. QED
      BY <3>1, <3>2
  <2>. QED
    BY <2>1, <2>2, <2>3, Zenon DEF Typed
<1>. QED
  BY <1>1, <1>2, PTL DEF Spec
-----------------------------------------------------------------------------
(* PaperPad's layout.                                                      *)

\* The sizes of the layout: capped, never negative, and the strip is whole
\* wherever Exit or the indicator is.
LEMMA LayoutSizes ==
    ASSUME Typed
    PROVE  /\ LayoutWidth \in 1 .. MAX_COORDINATE
           /\ LayoutHeight \in 1 .. MAX_COORDINATE
           /\ SystemHeight \in 1 .. SYSTEM_UI_HEIGHT
           /\ RemoteHeight \in 0 .. MAX_COORDINATE
           /\ RemoteHeight + SystemHeight = LayoutHeight
  BY GeometryAssumption, SMT
  DEF Typed, WindowSizes, LayoutWidth, LayoutHeight, SystemHeight, RemoteHeight, Least

LEMMA ExitLeftInt ==
    ASSUME Typed
    PROVE  /\ ExitLeft \in Nat
           /\ ExitLeft >= CELL_MARGIN
           /\ HasIndicator => ExitLeft = 2 * CELL_MARGIN + CONNECTION_INDICATOR_DIAMETER
  BY GeometryAssumption, SMT DEF ExitLeft

\* What it is to lie in each of the areas, in coordinates.
LEMMA Areas ==
    /\ InRemote(x, y) <=> 0 <= x /\ x < 0 + LayoutWidth /\ 0 <= y /\ y < 0 + RemoteHeight
    /\ InExit(x, y) <=> /\ HasExit
                       /\ ExitLeft <= x /\ x < ExitLeft + (LayoutWidth - ExitLeft - CELL_MARGIN)
                       /\ RemoteHeight <= y /\ y < RemoteHeight + SystemHeight
    /\ InIndicator(x, y) <=> /\ HasIndicator
                            /\ CELL_MARGIN <= x /\ x < CELL_MARGIN + CONNECTION_INDICATOR_DIAMETER
                            /\ IndicatorTop <= y /\ y < IndicatorTop + CONNECTION_INDICATOR_DIAMETER
    /\ Contains(system_ui_region, x, y) <=> /\ 0 <= x /\ x < 0 + LayoutWidth
                                           /\ RemoteHeight <= y
                                           /\ y < RemoteHeight + SystemHeight
  BY Zenon DEF InRemote, InExit, InIndicator, Contains, Rect, remote_viewport, exit_bounds,
               connection_indicator_bounds, system_ui_region

LEMMA IndicatorBelowRemote ==
    ASSUME Typed, HasIndicator
    PROVE  IndicatorTop \in Nat /\ IndicatorTop >= RemoteHeight
<1>1. SystemHeight - CONNECTION_INDICATOR_DIAMETER \in Nat
  BY LayoutSizes, GeometryAssumption, SMT DEF HasIndicator
<1>. QED
  BY <1>1, Halves, LayoutSizes, GeometryAssumption, SMT DEF IndicatorTop

\* A touch has one owner at most, and Exit lies in PaperPad's strip.
THEOREM TouchHasOneOwner == Spec => []OneOwner
<1>1. Typed => OneOwner
  <2>. SUFFICES ASSUME Typed PROVE OneOwner
    OBVIOUS
  <2>1. x \in Int /\ y \in Int
    BY Zenon DEF Typed
  <2>2. ~(InRemote(x, y) /\ InExit(x, y))
    BY <2>1, Areas, LayoutSizes, SMT
  <2>3. ~(InExit(x, y) /\ InIndicator(x, y))
    BY <2>1, Areas, LayoutSizes, ExitLeftInt, GeometryAssumption, SMT
  <2>4. ~(InRemote(x, y) /\ InIndicator(x, y))
    BY <2>1, Areas, LayoutSizes, IndicatorBelowRemote, SMT
  <2>5. InExit(x, y) => Contains(system_ui_region, x, y)
    BY <2>1, Areas, LayoutSizes, ExitLeftInt, GeometryAssumption, SMT
  <2>. QED
    BY <2>2, <2>3, <2>4, <2>5, Zenon DEF OneOwner
<1>. QED
  BY <1>1, TypeCorrect, PTL
-----------------------------------------------------------------------------
(* PaperSpoon's grid on the viewport of that layout.                       *)

LEMMA Side ==
    ASSUME Typed, grid_cell_side(LayoutWidth, RemoteHeight) > 0
    PROVE  /\ grid_cell_side(LayoutWidth, RemoteHeight) \in Nat
           /\ 3 * grid_cell_side(LayoutWidth, RemoteHeight) + 6 * CELL_MARGIN <= LayoutWidth
           /\ 3 * grid_cell_side(LayoutWidth, RemoteHeight) + FixedOverhead <= RemoteHeight
<1>. DEFINE third == LayoutWidth \div 3
            free == Positive(RemoteHeight - FixedOverhead)
            side == grid_cell_side(LayoutWidth, RemoteHeight)
<1>1. third \in Nat /\ 3 * third <= LayoutWidth
  BY LayoutSizes, GeometryAssumption, Thirds
<1>2. FixedOverhead \in Nat
  BY GeometryAssumption, SMT DEF FixedOverhead
<1>3. free \in Nat /\ (RemoteHeight - FixedOverhead >= 0 => free = RemoteHeight - FixedOverhead)
                   /\ (RemoteHeight - FixedOverhead < 0 => free = 0)
  BY <1>2, LayoutSizes, GeometryAssumption, SMT DEF Positive
<1>4. free \div 3 \in Nat /\ 3 * (free \div 3) <= free
  BY <1>3, Thirds
<1>5. side = Least(Positive(third - 2 * CELL_MARGIN), free \div 3)
  BY Zenon DEF grid_cell_side
<1>6. Positive(third - 2 * CELL_MARGIN) \in Nat
      /\ (Positive(third - 2 * CELL_MARGIN) > 0 => Positive(third - 2 * CELL_MARGIN) = third - 2 * CELL_MARGIN)
  <2>. HIDE DEF third
  <2>. QED
    BY <1>1, GeometryAssumption, SMT DEF Positive
<1>7. side \in Nat /\ side <= Positive(third - 2 * CELL_MARGIN) /\ side <= free \div 3
  <2>. HIDE DEF third, free, side
  <2>. QED
    BY <1>4, <1>5, <1>6, SMT DEF Least
<1>. HIDE DEF third, free
<1>. QED
  BY <1>1, <1>2, <1>3, <1>4, <1>6, <1>7, LayoutSizes, GeometryAssumption, SMT

Cell == grid_cell_side(LayoutWidth, RemoteHeight)
ColumnLeft(column) == CELL_MARGIN + ((LayoutWidth - 2 * CELL_MARGIN - Cell) * column) \div 2
RowTop(row) == GRID_TOP_INSET + row * (Cell + 2 * CELL_MARGIN)

\* The three columns lie apart, and inside the viewport.
LEMMA Columns ==
    ASSUME Typed, Cell > 0
    PROVE  /\ \A column \in 0 .. 2 : ColumnLeft(column) \in Nat
           /\ 0 < ColumnLeft(0)
           /\ ColumnLeft(0) + Cell < ColumnLeft(1)
           /\ ColumnLeft(1) + Cell < ColumnLeft(2)
           /\ ColumnLeft(2) + Cell < LayoutWidth
<1>. DEFINE k == LayoutWidth - 2 * CELL_MARGIN - Cell
<1>1. k \in Nat /\ k >= 2 * Cell + 4 * CELL_MARGIN /\ Cell \in Nat
  BY Side, LayoutSizes, GeometryAssumption, SMT DEF Cell
<1>2. /\ ColumnLeft(0) = CELL_MARGIN + (k * 0) \div 2
      /\ ColumnLeft(1) = CELL_MARGIN + (k * 1) \div 2
      /\ ColumnLeft(2) = CELL_MARGIN + (k * 2) \div 2
  BY Zenon DEF ColumnLeft
<1>3. LayoutWidth = k + 2 * CELL_MARGIN + Cell
  BY <1>1, LayoutSizes, GeometryAssumption, SMT
<1>. HIDE DEF k
<1>4. (k * 0) \div 2 = 0 /\ (k * 2) \div 2 = k /\ k * 1 = k
  BY <1>1, SMT
<1>5. k \div 2 \in Nat /\ 2 * (k \div 2) <= k /\ k <= 2 * (k \div 2) + 1
  BY <1>1, Halves
<1>6. /\ ColumnLeft(0) = CELL_MARGIN
      /\ ColumnLeft(1) = CELL_MARGIN + k \div 2
      /\ ColumnLeft(2) = CELL_MARGIN + k
  BY <1>2, <1>4, GeometryAssumption, SMT
<1>. HIDE DEF ColumnLeft
<1>7. \A column \in 0 .. 2 : ColumnLeft(column) \in Nat
  <2>. SUFFICES ASSUME NEW column \in 0 .. 2 PROVE ColumnLeft(column) \in Nat
    OBVIOUS
  <2>1. column = 0 \/ column = 1 \/ column = 2
    OBVIOUS
  <2>. QED
    BY <2>1, <1>1, <1>5, <1>6, GeometryAssumption, SMT
<1>. QED
  BY <1>1, <1>3, <1>5, <1>6, <1>7, GeometryAssumption, SMT

\* The three rows lie apart, inside the viewport and above its status bar.
LEMMA Rows ==
    ASSUME Typed, Cell > 0
    PROVE  /\ \A row \in 0 .. 2 : RowTop(row) \in Nat
           /\ 0 <= RowTop(0)
           /\ RowTop(0) + Cell < RowTop(1)
           /\ RowTop(1) + Cell < RowTop(2)
           /\ RowTop(2) + Cell <= RemoteHeight - STATUS_BAR_HEIGHT
<1>1. Cell \in Nat /\ 3 * Cell + FixedOverhead <= RemoteHeight
  BY Side DEF Cell
<1>2. FixedOverhead = GRID_TOP_INSET + 4 * CELL_MARGIN + STATUS_BAR_HEIGHT
  BY GeometryAssumption, SMT DEF FixedOverhead
<1>. HIDE DEF Cell
<1>3. /\ RowTop(0) = GRID_TOP_INSET
      /\ RowTop(1) = GRID_TOP_INSET + Cell + 2 * CELL_MARGIN
      /\ RowTop(2) = GRID_TOP_INSET + 2 * Cell + 4 * CELL_MARGIN
  BY <1>1, GeometryAssumption, SMT DEF RowTop
<1>4. \A row \in 0 .. 2 : RowTop(row) \in Nat
  <2>. SUFFICES ASSUME NEW row \in 0 .. 2 PROVE RowTop(row) \in Nat
    OBVIOUS
  <2>1. row = 0 \/ row = 1 \/ row = 2
    OBVIOUS
  <2>. QED
    BY <2>1, <1>1, <1>3, GeometryAssumption, SMT
<1>. QED
  BY <1>1, <1>2, <1>3, <1>4, LayoutSizes, GeometryAssumption, SMT

\* What it is for a point to be on a button, in coordinates.
LEMMA OnButton ==
    ASSUME Typed, NEW px \in Int, NEW py \in Int,
           NEW cell \in ButtonsAt(LayoutWidth, RemoteHeight, px, py)
    PROVE  /\ Cell > 0 /\ Cell \in Nat
           /\ cell \in Cells /\ cell[1] \in 0 .. 2 /\ cell[2] \in 0 .. 2
           /\ ColumnLeft(cell[2]) <= px /\ px < ColumnLeft(cell[2]) + Cell
           /\ RowTop(cell[1]) <= py /\ py < RowTop(cell[1]) + Cell
<1>1. cell \in Cells /\ Cell > 0
      /\ Contains(button_bounds(LayoutWidth, RemoteHeight, cell[1], cell[2]), px, py)
  BY Zenon DEF ButtonsAt, Cell
<1>2. button_bounds(LayoutWidth, RemoteHeight, cell[1], cell[2]) =
          Rect(ColumnLeft(cell[2]), RowTop(cell[1]), Cell, Cell)
  BY Zenon DEF button_bounds, ColumnLeft, RowTop, Cell
<1>3. cell[1] \in 0 .. 2 /\ cell[2] \in 0 .. 2
  BY <1>1, SMT DEF Cells
<1>4. Contains(Rect(ColumnLeft(cell[2]), RowTop(cell[1]), Cell, Cell), px, py)
  BY <1>1, <1>2
<1>5. /\ ColumnLeft(cell[2]) <= px /\ px < ColumnLeft(cell[2]) + Cell
      /\ RowTop(cell[1]) <= py /\ py < RowTop(cell[1]) + Cell
  BY <1>4, Zenon DEF Contains, Rect
<1>6. Cell \in Nat
  BY <1>1, Side DEF Cell
<1>. QED
  BY <1>1, <1>3, <1>5, <1>6

\* A button lies inside the viewport and above its status bar.
LEMMA ButtonInside ==
    ASSUME Typed, NEW px \in Int, NEW py \in Int,
           NEW cell \in ButtonsAt(LayoutWidth, RemoteHeight, px, py)
    PROVE  /\ 0 <= px /\ px < LayoutWidth
           /\ 0 <= py /\ py < RemoteHeight - STATUS_BAR_HEIGHT
<1>1. cell[1] = 0 \/ cell[1] = 1 \/ cell[1] = 2
  BY OnButton
<1>2. cell[2] = 0 \/ cell[2] = 1 \/ cell[2] = 2
  BY OnButton
<1>3. Cell > 0 /\ Cell \in Nat
  BY OnButton
<1>4. /\ ColumnLeft(0) \in Nat /\ ColumnLeft(1) \in Nat /\ ColumnLeft(2) \in Nat
      /\ RowTop(0) \in Nat /\ RowTop(1) \in Nat /\ RowTop(2) \in Nat
  BY <1>3, Columns, Rows
<1>. HIDE DEF Cell, ColumnLeft, RowTop
<1>5. 0 <= px /\ px < LayoutWidth
  BY <1>2, <1>3, <1>4, OnButton, Columns, LayoutSizes, SMT
<1>6. 0 <= py /\ py < RemoteHeight - STATUS_BAR_HEIGHT
  BY <1>1, <1>3, <1>4, OnButton, Rows, LayoutSizes, GeometryAssumption, SMT
<1>. QED
  BY <1>5, <1>6

\* The exclusive corner that ends a contact, and a touch that is not in the
\* viewport, are on no button.
THEOREM CancelMisses == Spec => []CancelPointMisses
<1>1. Typed => CancelPointMisses
  <2>. SUFFICES ASSUME Typed PROVE CancelPointMisses
    OBVIOUS
  <2>1. LayoutWidth <= MAX_SIZE /\ RemoteHeight <= MAX_SIZE
    BY LayoutSizes, GeometryAssumption, SMT
  <2>2. ButtonsAt(LayoutWidth, RemoteHeight, LayoutWidth, RemoteHeight) = {}
    <3>1. LayoutWidth \in Int /\ RemoteHeight \in Int
      BY LayoutSizes
    <3>2. ASSUME NEW cell \in ButtonsAt(LayoutWidth, RemoteHeight, LayoutWidth, RemoteHeight)
          PROVE  FALSE
      BY <3>1, ButtonInside, SMT
    <3>. QED
      BY <3>2
  <2>3. ASSUME ~InRemote(x, y)
        PROVE  ButtonsAt(LayoutWidth, RemoteHeight, x, y) = {}
    <3>1. x \in Int /\ y \in Int
      BY Zenon DEF Typed
    <3>2. ASSUME NEW cell \in ButtonsAt(LayoutWidth, RemoteHeight, x, y)
          PROVE  FALSE
      BY <2>3, <3>1, ButtonInside, Areas, LayoutSizes, GeometryAssumption, SMT
    <3>. QED
      BY <3>2
  <2>. QED
    BY <2>1, <2>2, <2>3, Zenon DEF CancelPointMisses
<1>. QED
  BY <1>1, TypeCorrect, PTL

\* A touch is on one button at most, and never on the status bar; the layout
\* of the grid does not overflow.
THEOREM TouchHitsOneButton == Spec => []OneButton
<1>1. Typed => OneButton
  <2>. SUFFICES ASSUME Typed PROVE OneButton
    OBVIOUS
  <2>0. x \in Int /\ y \in Int
    BY Zenon DEF Typed
  <2>1. ASSUME NEW a \in ButtonsAt(LayoutWidth, RemoteHeight, x, y),
               NEW b \in ButtonsAt(LayoutWidth, RemoteHeight, x, y)
        PROVE  a = b
    <3>1. /\ a[1] \in {0, 1, 2} /\ a[2] \in {0, 1, 2} /\ b[1] \in {0, 1, 2} /\ b[2] \in {0, 1, 2}
          /\ Cell > 0 /\ Cell \in Nat /\ a \in Cells /\ b \in Cells
      BY <2>0, OnButton
    <3>2. /\ ColumnLeft(0) \in Nat /\ ColumnLeft(1) \in Nat /\ ColumnLeft(2) \in Nat
          /\ RowTop(0) \in Nat /\ RowTop(1) \in Nat /\ RowTop(2) \in Nat
      BY <3>1, Columns, Rows
    <3>3. /\ ColumnLeft(a[2]) <= x /\ x < ColumnLeft(a[2]) + Cell
          /\ ColumnLeft(b[2]) <= x /\ x < ColumnLeft(b[2]) + Cell
          /\ RowTop(a[1]) <= y /\ y < RowTop(a[1]) + Cell
          /\ RowTop(b[1]) <= y /\ y < RowTop(b[1]) + Cell
      BY <2>0, OnButton
    <3>. HIDE DEF Cell, ColumnLeft, RowTop
    <3>4. a[2] = b[2]
      BY <2>0, <3>1, <3>2, <3>3, Columns, SMT
    <3>5. a[1] = b[1]
      BY <2>0, <3>1, <3>2, <3>3, Rows, SMT
    <3>. QED
      BY <3>1, <3>4, <3>5 DEF Cells
  <2>2. ASSUME ButtonsAt(LayoutWidth, RemoteHeight, x, y) # {}
        PROVE  y < StatusTop(RemoteHeight)
    <3>1. PICK cell \in ButtonsAt(LayoutWidth, RemoteHeight, x, y) : TRUE
      BY <2>2
    <3>2. y \in Int /\ 0 <= y /\ y < RemoteHeight - STATUS_BAR_HEIGHT
      BY <2>0, <3>1, ButtonInside
    <3>3. StatusTop(RemoteHeight) = RemoteHeight - STATUS_BAR_HEIGHT
      BY <3>2, LayoutSizes, GeometryAssumption, SMT DEF StatusTop, Least
    <3>. QED
      BY <3>2, <3>3
  <2>3. ASSUME Cell > 0
        PROVE  /\ GRID_TOP_INSET + 3 * Cell + 4 * CELL_MARGIN <= MAX_SIZE
               /\ Cell + 2 * CELL_MARGIN <= LayoutWidth
    <3>1. /\ Cell \in Nat /\ 3 * Cell + 6 * CELL_MARGIN <= LayoutWidth
          /\ 3 * Cell + FixedOverhead <= RemoteHeight
      BY <2>3, Side DEF Cell
    <3>2. FixedOverhead = GRID_TOP_INSET + 4 * CELL_MARGIN + STATUS_BAR_HEIGHT
      BY GeometryAssumption, SMT DEF FixedOverhead
    <3>. QED
      BY <3>1, <3>2, LayoutSizes, GeometryAssumption, SMT
  <2>. QED
    BY <2>1, <2>2, <2>3, Zenon DEF OneButton, Cell
<1>. QED
  BY <1>1, TypeCorrect, PTL

-----------------------------------------------------------------------------
(* Touches on a screen that is drawn on.                                   *)

\* Drawing does not move a touch: Screen implements TouchGeometry.
THEOREM ScreenImplementsTouches == ScreenSpec => Spec
<1>1. ScreenInit => Init
  BY DEF ScreenInit
<1>2. [Touched \/ Draw]_screenVars => [Next]_vars
  BY DEF Touched, Draw, DrawOnFramebuffer, DrawOnServer, screenVars, touchVars, vars
<1> QED
  BY <1>1, <1>2, PTL DEF ScreenSpec, Spec

\* What OneOwner says of a touch holds on a screen that is drawn on too.
THEOREM ScreenTouchesHaveOneOwner == ScreenSpec => []OneOwner
  BY ScreenImplementsTouches, TouchHasOneOwner, PTL

-----------------------------------------------------------------------------
(* Lines of memory.                                                        *)

\* Two multiples of a number are that number apart, or equal.
LEMMA Multiples ==
    ASSUME NEW L \in Nat \ {0}, NEW q \in Int, NEW d \in Int,
           -L < (q - d) * L, (q - d) * L < L
    PROVE  q = d
<1>1. CASE q - d >= 1
  <2>1. (q - d) * L >= L
    BY <1>1, SMT
  <2> QED
    BY <2>1, SMT
<1>2. CASE q - d <= -1
  <2>1. (q - d) * L <= -L
    BY <1>2, SMT
  <2> QED
    BY <2>1, SMT
<1> QED
  BY <1>1, <1>2, SMT

\* A place in memory is told by a line and a column, in one way.
LEMMA LineAndColumn ==
    ASSUME NEW L \in Nat \ {0}, NEW q \in Int, NEW r \in 0 .. L - 1
    PROVE  (q * L + r) \div L = q /\ (q * L + r) % L = r
<1>. DEFINE n == q * L + r
            d == n \div L
            m == n % L
<1>1. n \in Int
  BY SMT
<1>2. d \in Int /\ m \in 0 .. L - 1 /\ n = d * L + m
  BY <1>1, SMT
<1>3. (q - d) * L = m - r
  BY <1>1, <1>2, SMT
<1>4. q = d
  <2>. HIDE DEF d, m, n
  <2> QED
    BY <1>2, <1>3, Multiples, SMT
<1> QED
  BY <1>1, <1>2, <1>3, <1>4, SMT

LEMMA Quotient ==
    ASSUME NEW L \in Nat \ {0}, NEW n \in Nat
    PROVE  n \div L \in Nat /\ n < (n \div L + 1) * L
<1>. DEFINE q == n \div L
            r == n % L
<1>1. q \in Nat /\ r \in 0 .. L - 1 /\ n = q * L + r
  BY SMT
<1>. HIDE DEF q, r
<1>2. (q + 1) * L = q * L + L
  BY <1>1, SMT
<1>3. q * L \in Int
  BY <1>1, SMT
<1>4. n < (q + 1) * L
  BY <1>1, <1>2, <1>3, SMT
<1> QED
  BY <1>1, <1>4 DEF q

-----------------------------------------------------------------------------
(* Drawing.                                                                *)

\* While a backend draws, the window is as large as its layout, and mapped
\* memory belongs to metadata that was validated for this window.
Ready ==
    /\ Typed
    /\ display \in {"x11", "mxcfb"} => DOMAIN panel = Points(Window)
    /\ display = "mxcfb" =>
           /\ kernel \in Kernels
           /\ from_kernel(kernel)
           /\ DOMAIN memory = 0 .. visible_mapping_len(kernel) - 1

\* A strip that drawings are confined to, and the rectangle it is.
Strip(rect) == rect = remote_viewport \/ rect = system_ui_region

LEMMA StripSize ==
    ASSUME Typed, NEW rect, Strip(rect)
    PROVE  /\ rect.x = 0 /\ rect.width = LayoutWidth
           /\ rect.y \in Nat /\ rect.height \in Nat
           /\ rect.y + rect.height <= LayoutHeight
           /\ LayoutWidth \in Nat /\ LayoutWidth <= width
           /\ LayoutHeight \in Nat /\ LayoutHeight <= height
<1>1. /\ LayoutWidth \in Nat /\ LayoutHeight \in Nat /\ SystemHeight \in Nat
      /\ RemoteHeight \in Nat /\ RemoteHeight + SystemHeight = LayoutHeight
  BY LayoutSizes, GeometryAssumption, SMT
<1>2. LayoutWidth <= width /\ LayoutHeight <= height
  BY GeometryAssumption, SMT DEF Typed, WindowSizes, LayoutWidth, LayoutHeight, Least
<1>3. CASE rect = remote_viewport
  BY <1>1, <1>2, <1>3, SMT DEF remote_viewport, Rect
<1>4. CASE rect = system_ui_region
  BY <1>1, <1>2, <1>4, SMT DEF system_ui_region, Rect
<1> QED
  BY <1>3, <1>4 DEF Strip

\* A point of the window in a rectangle is one of its points.
LEMMA PointInStrip ==
    ASSUME Typed, NEW rect, Strip(rect), NEW p \in Points(Window),
           Contains(rect, p[1], p[2])
    PROVE  p \in Points(rect)
<1>1. /\ LayoutWidth \in Nat /\ LayoutHeight \in Nat
      /\ p \in (0 .. 0 + LayoutWidth - 1) \X (0 .. 0 + LayoutHeight - 1)
  BY StripSize DEF Points, Window, Rect
<1>2. p = <<p[1], p[2]>> /\ p[1] \in Int /\ p[2] \in Int
  BY <1>1
<1>3. /\ rect.x \in Int /\ rect.y \in Int /\ rect.width \in Int /\ rect.height \in Int
  BY StripSize
<1>4. /\ p[1] \in rect.x .. rect.x + rect.width - 1
      /\ p[2] \in rect.y .. rect.y + rect.height - 1
  BY <1>2, <1>3, SMT DEF Contains
<1> QED
  BY <1>2, <1>4 DEF Points

\* The kernel's numbers that rows are computed from.
LEMMA Lines ==
    ASSUME Typed, kernel \in Kernels, from_kernel(kernel)
    PROVE  /\ kernel.xoffset \in Nat /\ kernel.yoffset \in Nat
           /\ kernel.line_length \in Nat \ {0}
           /\ kernel.xoffset + width <= kernel.line_length
<1>1. /\ kernel.xoffset \in Nat /\ kernel.yoffset \in Nat /\ kernel.line_length \in Nat
      /\ kernel.virtual_width \in Nat
  BY FramebufferAssumption
<1>2. width \in Nat \ {0}
  BY GeometryAssumption DEF Typed, WindowSizes
<1> QED
  BY <1>1, <1>2, SMT DEF from_kernel, VisibleInVirtual, VirtualInMemory

\* A byte that is written for a strip is seen in that strip.
LEMMA WrittenIsSeenInStrip ==
    ASSUME Typed, kernel \in Kernels, from_kernel(kernel),
           NEW rect, Strip(rect), NEW offset \in Int,
           offset - RowOffset(rect, 0) >= 0,
           (offset - RowOffset(rect, 0)) % kernel.line_length < rect.width,
           (offset - RowOffset(rect, 0)) \div kernel.line_length < rect.height
    PROVE  Place(offset) \in Points(rect)
<1>. DEFINE L == kernel.line_length
            xo == kernel.xoffset
            yo == kernel.yoffset
            distance == offset - RowOffset(rect, 0)
            column == distance % L
            row == distance \div L
<1>1. L \in Nat \ {0} /\ xo \in Nat /\ yo \in Nat /\ xo + width <= L
  BY Lines
<1>2. /\ rect.x = 0 /\ rect.width \in Nat /\ rect.width <= width
      /\ rect.y \in Nat /\ rect.height \in Nat /\ width \in Int
  BY StripSize, GeometryAssumption DEF Typed, WindowSizes
<1>3. RowOffset(rect, 0) = (yo + rect.y) * L + xo /\ RowOffset(rect, 0) \in Int
  BY <1>1, <1>2, SMT DEF RowOffset
<1>4. distance \in Nat
  BY <1>3, SMT
<1>5. column \in Nat /\ row \in Nat /\ distance = row * L + column
  BY <1>1, <1>4, SMT
<1>6. column < rect.width /\ row < rect.height
  OBVIOUS
<1>. HIDE DEF column, row
<1>7. offset = (yo + rect.y + row) * L + (xo + column)
  <2>1. offset = distance + RowOffset(rect, 0)
    BY <1>3, SMT
  <2>. HIDE DEF distance, L, xo, yo
  <2>2. (yo + rect.y + row) * L = (yo + rect.y) * L + row * L
    BY <1>1, <1>2, <1>5, SMT
  <2> QED
    BY <2>1, <2>2, <1>1, <1>2, <1>3, <1>5, SMT
<1>8. xo + column \in 0 .. L - 1 /\ yo + rect.y + row \in Int
  BY <1>1, <1>2, <1>5, <1>6, SMT
<1>9. offset \div L = yo + rect.y + row /\ offset % L = xo + column
  <2>. HIDE DEF distance, L, xo, yo
  <2> QED
    BY <1>1, <1>7, <1>8, LineAndColumn
<1>10. Place(offset) = <<column, rect.y + row>>
  BY <1>1, <1>2, <1>5, <1>9, SMT DEF Place
<1>11. column \in rect.x .. rect.x + rect.width - 1
       /\ rect.y + row \in rect.y .. rect.y + rect.height - 1
  BY <1>2, <1>5, <1>6, SMT
<1> QED
  BY <1>10, <1>11 DEF Points

-----------------------------------------------------------------------------
(* Steps.                                                                  *)

\* Nothing that the layout depends on changes in a drawing.
LEMMA LayoutStays ==
    ASSUME Typed, UNCHANGED touchVars
    PROVE  /\ Typed'
           /\ Points(Window)' = Points(Window)
           /\ \A k : from_kernel(k)' = from_kernel(k)
           /\ \A k : visible_mapping_len(k)' = visible_mapping_len(k)
<1>1. width' = width /\ height' = height /\ touched' = touched /\ x' = x /\ y' = y
  BY DEF touchVars
<1>2. Typed'
  BY <1>1, Zenon DEF Typed
<1>3. Points(Window)' = Points(Window)
  BY <1>1 DEF Points, Window, Rect, LayoutWidth, LayoutHeight
<1>4. ASSUME NEW k PROVE from_kernel(k)' = from_kernel(k)
  BY <1>1 DEF from_kernel, VisibleInVirtual, VirtualInMemory, SystemHeight, RemoteHeight,
              LayoutHeight
<1>5. ASSUME NEW k PROVE visible_mapping_len(k)' = visible_mapping_len(k)
  BY <1>1 DEF visible_mapping_len
<1> QED
  BY <1>2, <1>3, <1>4, <1>5

\* Whatever is presented in a strip, and whatever the kernel says to it.
LEMMA PresentKeepsDomains ==
    ASSUME NEW rect, NEW prepared, NEW pixels, NEW accepted,
           DOMAIN panel = Points(Window), Present(rect, prepared, pixels, accepted)
    PROVE  DOMAIN panel' = Points(Window) /\ DOMAIN memory' = DOMAIN memory
  BY DEF Present, Refreshed, Written

\* Only points of the strip that is presented change.
LEMMA PresentRefreshesStrip ==
    ASSUME Typed, DOMAIN panel = Points(Window), NEW rect, Strip(rect),
           NEW prepared, NEW pixels, NEW accepted,
           Present(rect, prepared, pixels, accepted)
    PROVE  \A p \in DOMAIN panel : panel'[p] # panel[p] => p \in Points(rect)
<1>. SUFFICES ASSUME NEW p \in DOMAIN panel, panel'[p] # panel[p]
              PROVE  p \in Points(rect)
  OBVIOUS
<1>1. panel' = Refreshed(rect)
  BY DEF Present
<1>2. Contains(rect, p[1], p[2])
  BY <1>1 DEF Refreshed
<1> QED
  BY <1>2, PointInStrip

LEMMA PresentChangesStrip ==
    ASSUME Ready, display = "mxcfb", NEW rect, Strip(rect),
           NEW prepared, NEW pixels, NEW accepted,
           Present(rect, prepared, pixels, accepted)
    PROVE  ChangesOneStrip
<1>1. /\ Typed /\ DOMAIN panel = Points(Window)
      /\ kernel \in Kernels /\ from_kernel(kernel)
      /\ DOMAIN memory = 0 .. visible_mapping_len(kernel) - 1
  BY DEF Ready
<1>2. \A p \in DOMAIN panel : panel'[p] # panel[p] => p \in Points(rect)
  BY <1>1, PresentRefreshesStrip
<1>3. ASSUME NEW offset \in DOMAIN memory, memory'[offset] # memory[offset]
      PROVE  Place(offset) \in Points(rect)
  <2>1. memory' = Written(rect, pixels)
    BY <1>3 DEF Present
  <2>2. /\ offset - RowOffset(rect, 0) >= 0
        /\ (offset - RowOffset(rect, 0)) % kernel.line_length < rect.width
        /\ (offset - RowOffset(rect, 0)) \div kernel.line_length < rect.height
    BY <1>3, <2>1 DEF Written
  <2>3. offset \in Int
    BY <1>1, <1>3, SMT
  <2> QED
    BY <1>1, <2>2, <2>3, WrittenIsSeenInStrip
<1>4. rect \in {remote_viewport, system_ui_region}
  BY DEF Strip
<1> QED
  BY <1>2, <1>3, <1>4 DEF ChangesOneStrip

\* An upload draws on the viewport only, cleared before or not.
LEMMA BlittedChangesViewport ==
    ASSUME Ready, display = "x11", UNCHANGED framebufferVars,
           NEW bitmap, NEW chunks, NEW other, other \in {panel, Cleared},
           panel' = Blitted(bitmap, chunks, other)
    PROVE  ChangesOneStrip
<1>1. Typed /\ DOMAIN panel = Points(Window)
  BY DEF Ready
<1>2. ASSUME NEW p \in DOMAIN panel, panel'[p] # panel[p]
      PROVE  p \in Points(remote_viewport)
  <2>1. Contains(remote_viewport, p[1], p[2]) \/ other[p] # panel[p]
    BY <1>1, <1>2 DEF Blitted
  <2>2. other[p] # panel[p] => Contains(remote_viewport, p[1], p[2])
    BY <1>1, <1>2 DEF Cleared
  <2> QED
    BY <1>1, <1>2, <2>1, <2>2, PointInStrip DEF Strip
<1>3. memory' = memory
  BY DEF framebufferVars
<1> QED
  BY <1>2, <1>3 DEF ChangesOneStrip

\* Ready where a drawing may have been, and where none was.
LEMMA DrawingKeepsReady ==
    ASSUME Ready, UNCHANGED touchVars, display' = display,
           DOMAIN panel' = DOMAIN panel, kernel' = kernel, DOMAIN memory' = DOMAIN memory
    PROVE  Ready'
<1>1. /\ Typed' /\ Points(Window)' = Points(Window)
      /\ from_kernel(kernel)' = from_kernel(kernel)
      /\ visible_mapping_len(kernel)' = visible_mapping_len(kernel)
  <2>1. Typed
    BY DEF Ready
  <2>2. width' = width /\ height' = height
    BY DEF touchVars
  <2>3. from_kernel(kernel)' = from_kernel(kernel)
    BY <2>2 DEF from_kernel, VisibleInVirtual, VirtualInMemory, SystemHeight, RemoteHeight,
                LayoutHeight
  <2>4. visible_mapping_len(kernel)' = visible_mapping_len(kernel)
    BY <2>2 DEF visible_mapping_len
  <2> QED
    BY <2>1, <2>3, <2>4, LayoutStays
<1> QED
  BY <1>1 DEF Ready

LEMMA FramebufferStep ==
    ASSUME Ready, DrawOnFramebuffer
    PROVE  Ready' /\ ChangesOneStrip
<1>1. UNCHANGED touchVars /\ Typed
  BY DEF DrawOnFramebuffer, Ready
<1>2. ASSUME NEW k \in Kernels, OpenFramebuffer(k)
      PROVE  Ready' /\ ChangesOneStrip
  <2>1. ChangesOneStrip
    BY <1>2 DEF OpenFramebuffer, ChangesOneStrip
  <2>2. CASE display' = "refused"
    BY <1>1, <2>1, <2>2, LayoutStays DEF Ready
  <2>3. CASE display' = "mxcfb"
    <3>1. /\ kernel' = k /\ from_kernel(k)
          /\ DOMAIN memory' = 0 .. visible_mapping_len(k) - 1
          /\ DOMAIN panel' = Points(Window)
      BY <1>2, <2>3 DEF OpenFramebuffer
    <3>2. /\ Typed' /\ Points(Window)' = Points(Window)
          /\ width' = width /\ height' = height
      BY <1>1, LayoutStays DEF touchVars
    <3>3. from_kernel(kernel)'
      BY <3>1, <3>2 DEF from_kernel, VisibleInVirtual, VirtualInMemory, SystemHeight,
                        RemoteHeight, LayoutHeight
    <3>4. visible_mapping_len(kernel)' = visible_mapping_len(k)
      BY <3>1, <3>2 DEF visible_mapping_len
    <3> QED
      BY <1>2, <2>1, <2>3, <3>1, <3>2, <3>3, <3>4 DEF Ready
  <2> QED
    BY <1>2, <2>1, <2>2, <2>3 DEF OpenFramebuffer
<1>3. ASSUME NEW rect, Strip(rect), NEW prepared, NEW pixels, NEW accepted,
             display = "mxcfb", display' = display, kernel' = kernel,
             Present(rect, prepared, pixels, accepted)
      PROVE  Ready' /\ ChangesOneStrip
  <2>1. DOMAIN panel' = DOMAIN panel /\ DOMAIN memory' = DOMAIN memory
    BY <1>3, PresentKeepsDomains DEF Ready
  <2> QED
    BY <1>1, <1>3, <2>1, DrawingKeepsReady, PresentChangesStrip
<1>4. ASSUME NEW picture \in Pictures, NEW accepted \in BOOLEAN,
             PresentRemote(picture, accepted)
      PROVE  Ready' /\ ChangesOneStrip
  <2>1. display = "mxcfb" /\ display' = display /\ kernel' = kernel
    BY <1>4 DEF PresentRemote, MayDraw, Drawn
  <2>2. PICK frame \in RemoteFrames(picture) :
            Present(remote_viewport, prepare_remote(frame), NativePixels(frame), accepted)
    BY <1>4 DEF PresentRemote
  <2> QED
    BY <1>3, <2>1, <2>2 DEF Strip
<1>5. ASSUME NEW connected \in BOOLEAN, NEW accepted \in BOOLEAN,
             PresentSystemUi(connected, accepted)
      PROVE  Ready' /\ ChangesOneStrip
  <2>1. display = "mxcfb" /\ display' = display /\ kernel' = kernel
    BY <1>5 DEF PresentSystemUi, MayDraw, Drawn
  <2>2. Present(system_ui_region, TRUE, rasterize_system_ui(connected), accepted)
    BY <1>5 DEF PresentSystemUi
  <2> QED
    BY <1>3, <2>1, <2>2 DEF Strip
<1> QED
  BY <1>2, <1>4, <1>5 DEF DrawOnFramebuffer

LEMMA ServerStep ==
    ASSUME Ready, DrawOnServer
    PROVE  Ready' /\ ChangesOneStrip
<1>1. UNCHANGED touchVars /\ UNCHANGED framebufferVars /\ Typed
  BY DEF DrawOnServer, Ready
<1>2. ASSUME NEW server \in XServers, ConnectServer(server)
      PROVE  Ready' /\ ChangesOneStrip
  <2>1. ChangesOneStrip
    BY <1>2 DEF ConnectServer, ChangesOneStrip
  <2>2. /\ Typed' /\ Points(Window)' = Points(Window)
    BY <1>1, LayoutStays
  <2>3. display' \in {"x11", "refused"} /\ DOMAIN panel' = Points(Window)
    BY <1>2 DEF ConnectServer
  <2> QED
    BY <2>1, <2>2, <2>3 DEF Ready
<1>3. ASSUME NEW picture, NEW other \in {panel, Cleared}, NEW how, NEW lost,
             Blit(picture, other, how, lost), display = "x11"
      PROVE  Ready' /\ ChangesOneStrip
  <2>1. PICK frame \in RemoteFrames(picture) :
            /\ panel' = Blitted(prepare(frame), Uploaded(how, lost), other)
            /\ UNCHANGED display
    BY <1>3 DEF Blit, Drawn
  <2>2. DOMAIN panel' = DOMAIN panel
    BY <1>3, <2>1 DEF Blitted, Ready
  <2>3. kernel' = kernel /\ DOMAIN memory' = DOMAIN memory
    BY <1>1 DEF framebufferVars
  <2> QED
    BY <1>1, <1>3, <2>1, <2>2, <2>3, DrawingKeepsReady, BlittedChangesViewport
<1>4. ASSUME NEW how, NEW lost, NEW picture, DisplayFrame(picture, how, lost)
      PROVE  Ready' /\ ChangesOneStrip
  BY <1>3, <1>4 DEF DisplayFrame, MayBlit, MayDraw
<1>5. ASSUME NEW how, NEW lost, RedrawFrame(how, lost)
      PROVE  Ready' /\ ChangesOneStrip
  BY <1>3, <1>5 DEF RedrawFrame, MayBlit, MayDraw
<1> QED
  BY <1>2, <1>4, <1>5 DEF DrawOnServer

LEMMA TouchStep ==
    ASSUME Ready, Touched
    PROVE  Ready' /\ ChangesOneStrip
<1>1. Typed /\ Next /\ display = "none" /\ display' = display
  BY DEF Ready, Touched, pictureVars
<1>2. touched' \in BOOLEAN
  BY <1>1, Zenon DEF Next, Touch
<1>3. width' = width /\ height' = height
  BY <1>1, Zenon DEF Next, Touch
<1>4. x' \in Int /\ y' \in Int
  BY <1>1, GeometryAssumption DEF Next, Touch, Coordinates
<1>5. Typed'
  BY <1>1, <1>2, <1>3, <1>4, Zenon DEF Typed
<1> QED
  BY <1>1, <1>5 DEF Ready, ChangesOneStrip

LEMMA ScreenStartsReady == ScreenInit => Ready
<1>. SUFFICES ASSUME ScreenInit PROVE Ready
  OBVIOUS
<1>1. touched \in BOOLEAN
  BY Zenon DEF ScreenInit, Init
<1>2. Typed
  BY <1>1, SMT DEF ScreenInit, Init, Typed
<1> QED
  BY <1>2 DEF ScreenInit, PictureInit, Ready

LEMMA ScreenStep ==
    ASSUME Ready, [Touched \/ Draw]_screenVars
    PROVE  Ready' /\ [ChangesOneStrip]_screenVars
<1>1. CASE Touched
  BY <1>1, TouchStep
<1>2. CASE Draw
  BY <1>2, FramebufferStep, ServerStep DEF Draw
<1>3. CASE UNCHANGED screenVars
  <2>1. /\ UNCHANGED touchVars /\ display' = display /\ panel' = panel
        /\ kernel' = kernel /\ memory' = memory
    BY <1>3 DEF screenVars, pictureVars, framebufferVars
  <2>2. Ready'
    BY <2>1, DrawingKeepsReady
  <2> QED
    BY <1>3, <2>2
<1> QED
  BY <1>1, <1>2, <1>3

\* Drawing one strip leaves the other as it was, in the window and in the
\* mapped memory, for every window, kernel report, server and picture.
THEOREM ScreenStripsStayApart == ScreenSpec => StripsStayApart
<1>1. Ready /\ [Touched \/ Draw]_screenVars => Ready' /\ [ChangesOneStrip]_screenVars
  BY ScreenStep
<1> QED
  BY <1>1, ScreenStartsReady, PTL DEF ScreenSpec, StripsStayApart

-----------------------------------------------------------------------------
(* What the strip looks like.                                              *)

\* The label is inside Exit: it is scaled to fit.
LEMMA LabelInExit ==
    ASSUME Typed, HasExit, NEW p \in Int \X Int, OnLabel(p)
    PROVE  Contains(exit_bounds, p[1], p[2])
<1>. DEFINE w == exit_bounds.width
            h == exit_bounds.height
            scale == Least(MAX_GLYPH_SCALE, Positive(w - 2 * BORDER_THICKNESS) \div TextUnits)
            leftPad == (w - TextUnits * scale) \div 2
            topPad == (h - GLYPH_HEIGHT * scale) \div 2
            dx == p[1] - (exit_bounds.x + leftPad)
            dy == p[2] - (exit_bounds.y + topPad)
            column == dx \div scale
            row == dy \div scale
<1>1. /\ exit_bounds.x \in Int /\ exit_bounds.y \in Int /\ w \in Nat
      /\ h = SYSTEM_UI_HEIGHT /\ h \in Nat /\ p[1] \in Int /\ p[2] \in Int
  BY LayoutSizes, ExitLeftInt, GeometryAssumption, SMT DEF exit_bounds, Rect, HasExit
<1>2. /\ BORDER_THICKNESS \in Nat \ {0} /\ GLYPH_WIDTH \in Nat \ {0} /\ GLYPH_HEIGHT \in Nat
      /\ MAX_GLYPH_SCALE \in Nat /\ GLYPH_HEIGHT * MAX_GLYPH_SCALE <= h
      /\ TextUnits \in Nat \ {0} /\ TextUnits = 4 * GLYPH_WIDTH + 3
  BY <1>1, FramebufferAssumption, SMT DEF TextUnits
<1>3. /\ scale > 0 /\ dx >= 0 /\ dy >= 0
      /\ <<column \div (GLYPH_WIDTH + 1), column % (GLYPH_WIDTH + 1), row>> \in EXIT_GLYPHS
  <2>. HIDE DEF scale
  <2>1. scale > 0 /\ p[1] >= exit_bounds.x + leftPad /\ p[2] >= exit_bounds.y + topPad
        /\ <<column \div (GLYPH_WIDTH + 1), column % (GLYPH_WIDTH + 1), row>> \in EXIT_GLYPHS
    BY DEF OnLabel, scale
  <2>2. leftPad \in Int /\ topPad \in Int
    <3>1. scale \in Int
      BY <1>1, <1>2, SMT DEF scale, Least, Positive
    <3>2. w - TextUnits * scale \in Int /\ h - GLYPH_HEIGHT * scale \in Int
      BY <1>1, <1>2, <3>1, SMT
    <3> QED
      BY <3>2, SMT
  <2> QED
    BY <1>1, <2>1, <2>2, SMT
<1>4. /\ column \div (GLYPH_WIDTH + 1) \in 0 .. 3
      /\ column % (GLYPH_WIDTH + 1) \in 0 .. GLYPH_WIDTH - 1
      /\ row \in 0 .. GLYPH_HEIGHT - 1
  <2>. HIDE DEF column, row
  <2> QED
    BY <1>3, FramebufferAssumption
<1>5. /\ scale \in Nat \ {0} /\ scale <= MAX_GLYPH_SCALE
      /\ scale <= Positive(w - 2 * BORDER_THICKNESS) \div TextUnits
  BY <1>1, <1>2, <1>3, SMT DEF Least, Positive
<1>6. TextUnits * scale <= w
  <2>. DEFINE free == Positive(w - 2 * BORDER_THICKNESS)
              q == free \div TextUnits
  <2>1. free \in Nat /\ free <= w
    BY <1>1, <1>2, SMT DEF Positive
  <2>2. q \in Nat /\ TextUnits * q <= free
    <3>. HIDE DEF free
    <3> QED
      BY <1>2, <2>1, SMT
  <2>3. scale <= q
    BY <1>5
  <2>. HIDE DEF free, q, scale
  <2>4. TextUnits * scale <= TextUnits * q
    BY <1>2, <1>5, <2>2, <2>3, SMT
  <2> QED
    BY <1>1, <1>2, <1>5, <2>1, <2>2, <2>4, SMT
<1>7. GLYPH_HEIGHT * scale <= h
  <2>. HIDE DEF scale
  <2>1. GLYPH_HEIGHT * scale <= GLYPH_HEIGHT * MAX_GLYPH_SCALE
    BY <1>2, <1>5, SMT
  <2> QED
    BY <2>1, <1>1, <1>2, <1>5, SMT
<1>. HIDE DEF scale
<1>8. /\ TextUnits * scale \in Nat /\ GLYPH_HEIGHT * scale \in Nat
      /\ leftPad \in Nat /\ 2 * leftPad <= w - TextUnits * scale
      /\ topPad \in Nat /\ 2 * topPad <= h - GLYPH_HEIGHT * scale
  <2>1. TextUnits * scale \in Nat /\ GLYPH_HEIGHT * scale \in Nat
    BY <1>2, <1>5, SMT
  <2>2. w - TextUnits * scale \in Nat /\ h - GLYPH_HEIGHT * scale \in Nat
    BY <1>1, <1>6, <1>7, <2>1, SMT
  <2> QED
    BY <2>1, <2>2, Halves
<1>. HIDE DEF leftPad, topPad, w, h
<1>9. dx \in Nat /\ dy \in Nat
  BY <1>1, <1>3, <1>8, SMT
<1>. HIDE DEF dx, dy
<1>10. /\ column \in Nat /\ dx < (column + 1) * scale
       /\ row \in Nat /\ dy < (row + 1) * scale
  BY <1>5, <1>9, Quotient
<1>. HIDE DEF column, row
<1>11. column + 1 <= TextUnits /\ row + 1 <= GLYPH_HEIGHT
  <2>1. column <= 3 * (GLYPH_WIDTH + 1) + GLYPH_WIDTH - 1
    <3>. DEFINE u == GLYPH_WIDTH + 1
                glyph == column \div u
                offset == column % u
    <3>1. u \in Nat \ {0} /\ glyph \in 0 .. 3 /\ offset \in 0 .. GLYPH_WIDTH - 1
      BY <1>2, <1>4
    <3>2. column = glyph * u + offset
      <4>. HIDE DEF u
      <4> QED
        BY <1>10, <3>1, SMT
    <3>3. glyph = 0 \/ glyph = 1 \/ glyph = 2 \/ glyph = 3
      BY <3>1, SMT
    <3>. HIDE DEF glyph, offset
    <3> QED
      BY <1>2, <3>1, <3>2, <3>3, SMT
  <2> QED
    BY <1>2, <1>4, <1>10, <2>1, SMT
<1>12. dx < TextUnits * scale /\ dy < GLYPH_HEIGHT * scale
  <2>1. (column + 1) * scale <= TextUnits * scale /\ (row + 1) * scale <= GLYPH_HEIGHT * scale
    BY <1>2, <1>5, <1>10, <1>11, SMT
  <2>2. (column + 1) * scale \in Int /\ (row + 1) * scale \in Int
    BY <1>5, <1>10, SMT
  <2> QED
    BY <1>8, <1>9, <1>10, <2>1, <2>2, SMT
<1>13. /\ exit_bounds.x <= p[1] /\ p[1] < exit_bounds.x + exit_bounds.width
       /\ exit_bounds.y <= p[2] /\ p[2] < exit_bounds.y + exit_bounds.height
  BY <1>1, <1>8, <1>9, <1>12, SMT DEF dx, dy, w, h
<1> QED
  BY <1>13 DEF Contains

\* Nothing is black in the strip but Exit and the indicator.
LEMMA BlackIsOwned ==
    ASSUME Typed, HasExit, NEW connected, NEW p \in Points(system_ui_region),
           rasterize_system_ui(connected)[p] = BLACK
    PROVE  InExit(p[1], p[2]) \/ InIndicator(p[1], p[2])
<1>1. p \in Int \X Int
  BY StripSize DEF Points, Strip
<1>2. \/ Contains(exit_bounds, p[1], p[2])
      \/ OnLabel(p)
      \/ OnIndicator(p, connected)
  BY DEF rasterize_system_ui, BLACK, WHITE
<1>3. CASE Contains(exit_bounds, p[1], p[2])
  BY <1>3 DEF InExit
<1>4. CASE OnLabel(p)
  BY <1>1, <1>4, LabelInExit DEF InExit
<1>5. CASE OnIndicator(p, connected)
  BY <1>5 DEF OnIndicator, InIndicator
<1> QED
  BY <1>2, <1>3, <1>4, <1>5

\* The disc and the ring differ in the middle.
LEMMA IndicatorTells ==
    ASSUME Typed, HasExit, HasIndicator
    PROVE  rasterize_system_ui(TRUE) # rasterize_system_ui(FALSE)
<1>. DEFINE d == CONNECTION_INDICATOR_DIAMETER
            half == d \div 2
            p == <<CELL_MARGIN + half, IndicatorTop + half>>
            e == 2 * half + 1 - d
            inner == d - 2 * BORDER_THICKNESS
<1>1. /\ d \in Nat \ {0} /\ CELL_MARGIN \in Nat /\ BORDER_THICKNESS \in Nat \ {0}
      /\ inner \in Nat \ {0}
  BY GeometryAssumption, FramebufferAssumption, SMT
<1>2. half \in Nat /\ 2 * half <= d /\ d <= 2 * half + 1
  BY <1>1, Halves
<1>3. /\ IndicatorTop \in Nat /\ IndicatorTop >= RemoteHeight
      /\ IndicatorTop + d <= RemoteHeight + SystemHeight
      /\ RemoteHeight \in Nat /\ SystemHeight \in Nat
  <2>1. SystemHeight - d \in Nat /\ RemoteHeight \in Nat /\ SystemHeight \in Nat
    BY LayoutSizes, GeometryAssumption, SMT DEF HasIndicator
  <2>2. /\ (SystemHeight - d) \div 2 \in Nat
        /\ 2 * ((SystemHeight - d) \div 2) <= SystemHeight - d
    BY <2>1, Halves
  <2> QED
    BY <2>1, <2>2, <1>1, SMT DEF IndicatorTop
<1>4. half < d
  BY <1>1, <1>2, SMT
<1>. HIDE DEF half, d
<1>5. p \in Points(system_ui_region)
  <2>1. LayoutWidth \in Nat /\ LayoutWidth >= 3 * CELL_MARGIN + d + 1
    BY LayoutSizes, GeometryAssumption DEF HasIndicator, d
  <2>2. /\ CELL_MARGIN + half \in 0 .. 0 + LayoutWidth - 1
        /\ IndicatorTop + half \in RemoteHeight .. RemoteHeight + SystemHeight - 1
    BY <1>1, <1>2, <1>3, <1>4, <2>1, SMT
  <2> QED
    BY <2>2 DEF Points, system_ui_region, Rect
<1>6. p \in Int \X Int /\ p[1] = CELL_MARGIN + half /\ p[2] = IndicatorTop + half
  BY <1>1, <1>2, <1>3, SMT
<1>7. ~Contains(exit_bounds, p[1], p[2])
  <2>1. exit_bounds.x = 2 * CELL_MARGIN + d
    BY DEF exit_bounds, Rect, ExitLeft, d
  <2>2. ~(exit_bounds.x <= p[1])
    BY <1>1, <1>2, <1>4, <1>6, <2>1, SMT
  <2> QED
    BY <2>2 DEF Contains
<1>8. ~OnLabel(p)
  BY <1>6, <1>7, LabelInExit
<1>9. OnIndicator(p, TRUE) /\ ~OnIndicator(p, FALSE)
  <2>1. connection_indicator_bounds = Rect(CELL_MARGIN, IndicatorTop, d, d)
    BY DEF connection_indicator_bounds, d
  <2>2. Contains(connection_indicator_bounds, p[1], p[2])
    <3>1. /\ CELL_MARGIN <= CELL_MARGIN + half /\ CELL_MARGIN + half < CELL_MARGIN + d
          /\ IndicatorTop <= IndicatorTop + half /\ IndicatorTop + half < IndicatorTop + d
      BY <1>1, <1>2, <1>3, <1>4, SMT
    <3> QED
      BY <3>1, <1>6, <2>1 DEF Contains, Rect
  <2>3. /\ 2 * (p[1] - connection_indicator_bounds.x) + 1 - d = e
        /\ 2 * (p[2] - connection_indicator_bounds.y) + 1 - d = e
    BY <1>1, <1>2, <1>3, <1>6, <2>1, SMT DEF Rect
  <2>4. connection_indicator_bounds.width = d
    BY <2>1 DEF Rect
  <2>5. e = 0 \/ e = 1
    BY <1>1, <1>2, SMT
  <2>6. Positive(d - 2 * BORDER_THICKNESS) = inner
    BY <1>1, SMT DEF Positive
  <2>7. e * e + e * e <= d * d /\ ~(e * e + e * e >= inner * inner)
    <3>1. CASE e = 0
      <4>1. 0 <= d * d /\ inner * inner > 0
        BY <1>1, SMT
      <4> QED
        BY <3>1, <4>1, <1>1, SMT
    <3>2. CASE e = 1
      <4>1. d = 2 * half
        BY <1>1, <1>2, <3>2, SMT
      <4>2. d >= 2 /\ inner >= 2
        <5>1. inner = 2 * (half - BORDER_THICKNESS)
          BY <4>1, <1>1, <1>2, SMT
        <5> QED
          BY <4>1, <5>1, <1>1, <1>2, SMT
      <4>3. d * d >= 4 /\ inner * inner >= 4
        <5>. HIDE DEF inner
        <5> QED
          BY <4>2, <1>1, SMT
      <4> QED
        BY <3>2, <4>3, <1>1, SMT
    <3> QED
      BY <2>5, <3>1, <3>2
  <2>. HIDE DEF p, e, inner
  <2> QED
    BY <2>2, <2>3, <2>4, <2>6, <2>7 DEF OnIndicator
<1>. HIDE DEF p
<1>10. /\ rasterize_system_ui(TRUE)[p] = BLACK
       /\ rasterize_system_ui(FALSE)[p] = WHITE
  BY <1>5, <1>7, <1>8, <1>9 DEF rasterize_system_ui
<1>11. BLACK # WHITE
  BY DEF BLACK, WHITE
<1> QED
  BY <1>10, <1>11, Zenon

-----------------------------------------------------------------------------
(* The strip on the panel.                                                 *)

StripOnPanel ==
    strip_shown # "none" =>
        /\ display = "mxcfb" /\ HasExit
        /\ \A p \in Points(system_ui_region) :
              panel[p] = rasterize_system_ui(strip_shown = "connected")[p]

LEMMA StripPointsInWindow ==
    ASSUME Typed, NEW rect, Strip(rect), NEW p \in Points(rect)
    PROVE  /\ p \in Points(Window)
           /\ p[1] \in Nat /\ p[1] < LayoutWidth
           /\ p[2] \in Nat /\ rect.y <= p[2] /\ p[2] < rect.y + rect.height
           /\ p = <<p[1], p[2]>>
           /\ Contains(rect, p[1], p[2])
<1>1. /\ rect.x = 0 /\ rect.width = LayoutWidth /\ rect.y \in Nat /\ rect.height \in Nat
      /\ rect.y + rect.height <= LayoutHeight /\ LayoutWidth \in Nat /\ LayoutHeight \in Nat
  BY StripSize
<1>2. /\ p = <<p[1], p[2]>> /\ p[1] \in 0 .. 0 + LayoutWidth - 1
      /\ p[2] \in rect.y .. rect.y + rect.height - 1
  BY <1>1 DEF Points
<1>3. /\ p[1] \in Nat /\ p[1] < LayoutWidth
      /\ p[2] \in Nat /\ rect.y <= p[2] /\ p[2] < rect.y + rect.height
  BY <1>1, <1>2, SMT
<1>4. p[1] \in 0 .. 0 + LayoutWidth - 1 /\ p[2] \in 0 .. 0 + LayoutHeight - 1
  BY <1>1, <1>3, SMT
<1>5. p \in Points(Window)
  BY <1>2, <1>4 DEF Points, Window, Rect
<1>6. Contains(rect, p[1], p[2])
  BY <1>1, <1>3, SMT DEF Contains
<1> QED
  BY <1>2, <1>3, <1>5, <1>6

\* What is written for a point of a strip is shown at that point.
LEMMA WrittenIsShown ==
    ASSUME Ready, display = "mxcfb", NEW rect, Strip(rect), NEW pixels,
           NEW p \in Points(rect), memory' = Written(rect, pixels)
    PROVE  Refreshed(rect)[p] = pixels[p]
<1>. DEFINE L == kernel.line_length
            xo == kernel.xoffset
            yo == kernel.yoffset
            offset == (yo + p[2]) * L + xo + p[1]
            distance == offset - RowOffset(rect, 0)
            row == p[2] - rect.y
<1>1. /\ Typed /\ DOMAIN panel = Points(Window)
      /\ kernel \in Kernels /\ from_kernel(kernel)
      /\ DOMAIN memory = 0 .. visible_mapping_len(kernel) - 1
  BY DEF Ready
<1>2. L \in Nat \ {0} /\ xo \in Nat /\ yo \in Nat /\ xo + width <= L
  BY <1>1, Lines
<1>3. /\ rect.x = 0 /\ rect.width = LayoutWidth /\ rect.y \in Nat /\ rect.height \in Nat
      /\ rect.y + rect.height <= LayoutHeight
      /\ LayoutWidth \in Nat /\ LayoutHeight \in Nat
      /\ LayoutWidth <= width /\ LayoutHeight <= height /\ width \in Nat /\ height \in Nat
  BY <1>1, StripSize, GeometryAssumption DEF Typed, WindowSizes
<1>4. /\ p \in Points(Window) /\ p = <<p[1], p[2]>> /\ Contains(rect, p[1], p[2])
      /\ p[1] \in Nat /\ p[1] < LayoutWidth
      /\ p[2] \in Nat /\ rect.y <= p[2] /\ p[2] < rect.y + rect.height
  BY <1>1, StripPointsInWindow
<1>5. RowOffset(rect, 0) = (yo + rect.y) * L + xo /\ RowOffset(rect, 0) \in Nat
  BY <1>2, <1>3, SMT DEF RowOffset
<1>6. row \in Nat /\ p[2] = rect.y + row /\ row < rect.height
  BY <1>3, <1>4, SMT
<1>7. p[1] \in 0 .. L - 1
  BY <1>2, <1>3, <1>4, SMT
<1>. HIDE DEF row, L, xo, yo
<1>8. distance = row * L + p[1]
  <2>1. (yo + p[2]) * L = (yo + rect.y) * L + row * L
    BY <1>2, <1>3, <1>4, <1>6, SMT
  <2>2. (yo + p[2]) * L \in Int /\ (yo + rect.y) * L \in Int /\ row * L \in Int
    BY <1>2, <1>3, <1>4, <1>6, SMT
  <2> QED
    BY <2>1, <2>2, <1>2, <1>4, <1>5, SMT
<1>9. distance \div L = row /\ distance % L = p[1]
  <2>. HIDE DEF distance
  <2>1. row \in Int
    BY <1>6
  <2> QED
    BY <1>2, <1>7, <1>8, <2>1, LineAndColumn
<1>10. distance >= 0
  <2>1. row * L \in Nat
    BY <1>2, <1>6, SMT
  <2> QED
    BY <2>1, <1>4, <1>8, SMT
<1>11. offset \in DOMAIN memory
  <2>1. visible_mapping_len(kernel) = L * (yo + height)
    BY DEF visible_mapping_len, L, yo
  <2>2. yo + p[2] + 1 <= yo + height
    BY <1>2, <1>3, <1>4, SMT
  <2>3. (yo + p[2]) * L + L <= L * (yo + height)
    <3>1. (yo + p[2]) * L + L = L * (yo + p[2] + 1)
      BY <1>2, <1>4, SMT
    <3>2. L * (yo + p[2] + 1) <= L * (yo + height)
      BY <1>2, <1>3, <1>4, <2>2, SMT
    <3> QED
      BY <3>1, <3>2
  <2>4. xo + p[1] < L
    BY <1>2, <1>3, <1>4, SMT
  <2>5. (yo + p[2]) * L \in Nat /\ L * (yo + height) \in Nat
    BY <1>2, <1>3, <1>4, SMT
  <2>6. offset >= 0 /\ offset < L * (yo + height) /\ offset \in Int
    BY <1>2, <1>4, <2>3, <2>4, <2>5, SMT
  <2> QED
    BY <1>1, <2>1, <2>5, <2>6, SMT
<1>12. Written(rect, pixels)[offset] = pixels[p]
  <2>1. /\ distance >= 0 /\ distance % kernel.line_length = p[1] /\ p[1] < rect.width
        /\ distance \div kernel.line_length = row /\ row < rect.height
    <3>. HIDE DEF distance
    <3> QED
      BY <1>3, <1>4, <1>6, <1>9, <1>10 DEF L
  <2>2. Written(rect, pixels)[offset] = pixels[<<rect.x + p[1], rect.y + row>>]
    BY <1>11, <2>1 DEF Written
  <2>3. rect.x + p[1] = p[1] /\ rect.y + row = p[2]
    BY <1>3, <1>4, <1>6, SMT
  <2>. HIDE DEF distance, offset
  <2> QED
    BY <1>4, <2>2, <2>3
<1>13. Refreshed(rect)[p] = memory'[offset]
  BY <1>4 DEF Refreshed, L, xo, yo
<1> QED
  BY <1>12, <1>13

\* The strip is where it was, and looks as it did, while the window stays.
StripPicturesStay ==
    /\ HasExit' = HasExit
    /\ Points(system_ui_region)' = Points(system_ui_region)
    /\ \A connected : rasterize_system_ui(connected)' = rasterize_system_ui(connected)

LEMMA StripStays ==
    ASSUME UNCHANGED touchVars
    PROVE  StripPicturesStay
<1>1. width' = width /\ height' = height
  BY DEF touchVars
<1>2. /\ LayoutWidth' = LayoutWidth /\ RemoteHeight' = RemoteHeight
      /\ SystemHeight' = SystemHeight
  BY <1>1 DEF LayoutWidth, RemoteHeight, SystemHeight, LayoutHeight
<1>3. HasIndicator' = HasIndicator
  BY <1>2 DEF HasIndicator
<1>4. ExitLeft' = ExitLeft /\ IndicatorTop' = IndicatorTop
  BY <1>2, <1>3 DEF ExitLeft, IndicatorTop
<1>5. /\ HasExit' = HasExit /\ exit_bounds' = exit_bounds
      /\ system_ui_region' = system_ui_region
      /\ connection_indicator_bounds' = connection_indicator_bounds
  BY <1>2, <1>4 DEF HasExit, exit_bounds, system_ui_region, connection_indicator_bounds
<1>6. \A p : OnLabel(p)' = OnLabel(p)
  BY <1>5 DEF OnLabel
<1>7. \A p, connected : OnIndicator(p, connected)' = OnIndicator(p, connected)
  BY <1>3, <1>5 DEF OnIndicator
<1>8. Points(system_ui_region)' = Points(system_ui_region)
  BY <1>5 DEF Points
<1>9. \A connected : rasterize_system_ui(connected)' = rasterize_system_ui(connected)
  BY <1>5, <1>6, <1>7, <1>8 DEF rasterize_system_ui
<1> QED
  BY <1>5, <1>8, <1>9 DEF StripPicturesStay

\* Presenting the strip shows it if the kernel accepts, and nothing if not.
LEMMA PresentShowsStrip ==
    ASSUME Ready, StripOnPanel, display = "mxcfb", UNCHANGED touchVars,
           NEW connected \in BOOLEAN, NEW accepted \in BOOLEAN,
           PresentSystemUi(connected, accepted)
    PROVE  StripOnPanel'
<1>. DEFINE result == Result(system_ui_region, TRUE, accepted)
            shownStrip == IF connected THEN "connected" ELSE "disconnected"
<1>1. /\ HasExit /\ display' = display
      /\ Present(system_ui_region, TRUE, rasterize_system_ui(connected), accepted)
      /\ strip_shown' = IF result # "ok" THEN strip_shown ELSE shownStrip
  BY DEF PresentSystemUi, Drawn, MayDraw
<1>2. StripPicturesStay
  BY StripStays
<1>3. CASE result = "ok"
  <2>1. /\ RowsInMapping(system_ui_region) /\ Submits(system_ui_region) /\ accepted
        /\ ValidRegion(system_ui_region)
    BY <1>3 DEF Result, Submits
  <2>2. /\ memory' = Written(system_ui_region, rasterize_system_ui(connected))
        /\ panel' = Refreshed(system_ui_region)
    BY <1>1, <2>1 DEF Present
  <2>3. \A p \in Points(system_ui_region) : panel'[p] = rasterize_system_ui(connected)[p]
    BY <2>2, WrittenIsShown DEF Strip
  <2>4. (strip_shown' = "connected") = connected
    BY <1>1, <1>3
  <2> QED
    BY <1>1, <1>2, <2>3, <2>4 DEF StripOnPanel, StripPicturesStay
<1>4. CASE result # "ok"
  <2>1. ~(/\ ValidRegion(system_ui_region) /\ RowsInMapping(system_ui_region)
          /\ Submits(system_ui_region) /\ accepted)
    BY <1>4 DEF Result
  <2>2. panel' = panel
    BY <1>1, <2>1 DEF Present, Submits
  <2>3. strip_shown' = strip_shown
    BY <1>1, <1>4
  <2> QED
    BY <1>1, <1>2, <2>2, <2>3 DEF StripOnPanel, StripPicturesStay
<1> QED
  BY <1>3, <1>4

\* Presenting remote content leaves it.
LEMMA RemoteLeavesStrip ==
    ASSUME Ready, StripOnPanel, UNCHANGED touchVars,
           NEW picture, NEW accepted, PresentRemote(picture, accepted)
    PROVE  StripOnPanel'
<1>1. /\ display = "mxcfb" /\ display' = display /\ strip_shown' = strip_shown
  BY DEF PresentRemote, MayDraw, Drawn
<1>2. PICK frame \in RemoteFrames(picture) :
          Present(remote_viewport, prepare_remote(frame), NativePixels(frame), accepted)
  BY DEF PresentRemote
<1>3. Typed /\ DOMAIN panel = Points(Window)
  BY <1>1 DEF Ready
<1>4. ASSUME NEW p \in Points(system_ui_region) PROVE panel'[p] = panel[p]
  <2>1. /\ p \in DOMAIN panel /\ p[2] \in Nat /\ system_ui_region.y <= p[2]
    BY <1>3, StripPointsInWindow DEF Strip
  <2>2. p \notin Points(remote_viewport)
    <3>1. system_ui_region.y = RemoteHeight /\ RemoteHeight \in Nat
          /\ remote_viewport.y = 0 /\ remote_viewport.height = RemoteHeight
      BY <1>3, LayoutSizes, GeometryAssumption DEF system_ui_region, remote_viewport, Rect
    <3>2. p \in Points(remote_viewport) => p[2] < 0 + RemoteHeight
      BY <1>3, <3>1, StripPointsInWindow DEF Strip
    <3> QED
      BY <2>1, <3>1, <3>2, SMT
  <2> QED
    BY <1>2, <1>3, <2>1, <2>2, PresentRefreshesStrip DEF Strip
<1> QED
  BY <1>1, <1>4, StripStays DEF StripOnPanel, StripPicturesStay

\* The strip on the panel is the one last accepted; it can be told from the
\* other; nothing else is black in it: for every window, kernel and label.
THEOREM ScreenStripIsShown == ScreenSpec => []StripIsShown
<1>. DEFINE Inv == Ready /\ StripOnPanel
<1>1. ScreenInit => Inv
  <2>1. ScreenInit => StripOnPanel
    BY DEF ScreenInit, FramebufferInit, StripOnPanel
  <2> QED
    BY <2>1, ScreenStartsReady
<1>2. Inv /\ [Touched \/ Draw]_screenVars => Inv'
  <2>. SUFFICES ASSUME Ready, StripOnPanel, [Touched \/ Draw]_screenVars
                PROVE  Ready' /\ StripOnPanel'
    OBVIOUS
  <2>1. Ready'
    BY ScreenStep
  <2>2. CASE Touched
    <3>1. strip_shown' = strip_shown /\ display = "none"
      BY <2>2 DEF Touched, framebufferVars
    <3> QED
      BY <2>1, <3>1 DEF StripOnPanel
  <2>3. CASE Draw /\ DrawOnServer
    <3>1. display # "mxcfb" /\ strip_shown' = strip_shown
      BY <2>3 DEF DrawOnServer, framebufferVars, ConnectServer, DisplayFrame, RedrawFrame,
                  MayBlit, MayDraw
    <3> QED
      BY <2>1, <3>1 DEF StripOnPanel
  <2>4. CASE Draw /\ DrawOnFramebuffer
    <3>1. UNCHANGED touchVars
      BY <2>4 DEF DrawOnFramebuffer
    <3>2. ASSUME NEW k \in Kernels, OpenFramebuffer(k) PROVE StripOnPanel'
      BY <3>2 DEF OpenFramebuffer, StripOnPanel
    <3>3. ASSUME NEW picture \in Pictures, NEW accepted \in BOOLEAN,
                 PresentRemote(picture, accepted)
          PROVE  StripOnPanel'
      BY <3>1, <3>3, RemoteLeavesStrip
    <3>4. ASSUME NEW connected \in BOOLEAN, NEW accepted \in BOOLEAN,
                 PresentSystemUi(connected, accepted)
          PROVE  StripOnPanel'
      <4>1. display = "mxcfb"
        BY <3>4 DEF PresentSystemUi, MayDraw
      <4> QED
        BY <3>1, <3>4, <4>1, PresentShowsStrip
    <3> QED
      BY <2>1, <2>4, <3>2, <3>3, <3>4 DEF DrawOnFramebuffer
  <2>5. CASE UNCHANGED screenVars
    <3>1. /\ UNCHANGED touchVars /\ display' = display /\ panel' = panel
          /\ strip_shown' = strip_shown
      BY <2>5 DEF screenVars, pictureVars, framebufferVars
    <3> QED
      BY <2>1, <3>1, StripStays DEF StripOnPanel, StripPicturesStay
  <2> QED
    BY <2>1, <2>2, <2>3, <2>4, <2>5 DEF Draw
<1>3. Inv => StripIsShown
  <2>. SUFFICES ASSUME Ready, StripOnPanel, strip_shown # "none" PROVE StripIsShown
    BY DEF StripIsShown
  <2>1. Typed /\ HasExit
    BY DEF Ready, StripOnPanel
  <2>2. ASSUME NEW p \in Points(system_ui_region)
        PROVE  /\ panel[p] = rasterize_system_ui(strip_shown = "connected")[p]
               /\ panel[p] = BLACK => InExit(p[1], p[2]) \/ InIndicator(p[1], p[2])
    <3>1. panel[p] = rasterize_system_ui(strip_shown = "connected")[p]
      BY DEF StripOnPanel
    <3> QED
      BY <2>1, <3>1, BlackIsOwned
  <2>3. HasIndicator => rasterize_system_ui(TRUE) # rasterize_system_ui(FALSE)
    BY <2>1, IndicatorTells
  <2> QED
    BY <2>2, <2>3 DEF StripIsShown
<1> QED
  BY <1>1, <1>2, <1>3, PTL DEF ScreenSpec

-----------------------------------------------------------------------------
(* Bits in bytes.                                                          *)

LEMMA Powers ==
    /\ 2^0 = 1 /\ 2^1 = 2 /\ 2^2 = 4 /\ 2^3 = 8
    /\ 2^4 = 16 /\ 2^5 = 32 /\ 2^6 = 64 /\ 2^7 = 128
  BY SMT

\* Eight bits, the first one the most significant.
EightBits(bit) == \A j \in 0 .. 7 : bit[j] \in {0, 1}

LEMMA BitsOneByOne ==
    ASSUME NEW bit, EightBits(bit)
    PROVE  /\ bit[0] \in 0 .. 1 /\ bit[1] \in 0 .. 1 /\ bit[2] \in 0 .. 1 /\ bit[3] \in 0 .. 1
           /\ bit[4] \in 0 .. 1 /\ bit[5] \in 0 .. 1 /\ bit[6] \in 0 .. 1 /\ bit[7] \in 0 .. 1
  BY SMT DEF EightBits

\* Each bit of a byte is found where it was put.
LEMMA OctetBits ==
    ASSUME NEW bit, EightBits(bit)
    PROVE  /\ Octet(bit) \in Byte
           /\ \A j \in 0 .. 7 : (Octet(bit) \div (2^(7 - j))) % 2 = bit[j]
<1>. DEFINE n == Octet(bit)
            a == bit[0]
            b == bit[1]
            c == bit[2]
            d == bit[3]
            e == bit[4]
            f == bit[5]
            g == bit[6]
            h == bit[7]
<1>1. /\ a \in 0 .. 1 /\ b \in 0 .. 1 /\ c \in 0 .. 1 /\ d \in 0 .. 1
      /\ e \in 0 .. 1 /\ f \in 0 .. 1 /\ g \in 0 .. 1 /\ h \in 0 .. 1
  BY BitsOneByOne
<1>2. n = 128 * a + 64 * b + 32 * c + 16 * d + 8 * e + 4 * f + 2 * g + h
  BY DEF Octet
<1>. HIDE DEF n, a, b, c, d, e, f, g, h
<1>3. n \in 0 .. 255
  BY <1>1, <1>2, SMT
<1>4. (n \div 128) % 2 = a /\ (n \div 64) % 2 = b
  BY <1>1, <1>2, SMT
<1>5. (n \div 32) % 2 = c /\ (n \div 16) % 2 = d
  BY <1>1, <1>2, SMT
<1>6. (n \div 8) % 2 = e /\ (n \div 4) % 2 = f
  BY <1>1, <1>2, SMT
<1>7. (n \div 2) % 2 = g /\ (n \div 1) % 2 = h
  BY <1>1, <1>2, SMT
<1>8. ASSUME NEW j \in 0 .. 7 PROVE (n \div (2^(7 - j))) % 2 = bit[j]
  <2>1. CASE j = 0
    BY <1>4, <2>1, Powers, SMT DEF a
  <2>2. CASE j = 1
    BY <1>4, <2>2, Powers, SMT DEF b
  <2>3. CASE j = 2
    BY <1>5, <2>3, Powers, SMT DEF c
  <2>4. CASE j = 3
    BY <1>5, <2>4, Powers, SMT DEF d
  <2>5. CASE j = 4
    BY <1>6, <2>5, Powers, SMT DEF e
  <2>6. CASE j = 5
    BY <1>6, <2>6, Powers, SMT DEF f
  <2>7. CASE j = 6
    BY <1>7, <2>7, Powers, SMT DEF g
  <2>8. CASE j = 7
    BY <1>7, <2>8, Powers, SMT DEF h
  <2> QED
    BY <2>1, <2>2, <2>3, <2>4, <2>5, <2>6, <2>7, <2>8, SMT
<1> QED
  BY <1>3, <1>8 DEF n, Byte

\* The low bits of a byte are zero if the last ones of the eight are.
LEMMA OctetPadding ==
    ASSUME NEW bit, EightBits(bit), NEW used \in 1 .. 7,
           \A j \in 0 .. 7 : j >= used => bit[j] = 0
    PROVE  Octet(bit) % (2^(8 - used)) = 0
<1>1. /\ bit[0] \in 0 .. 1 /\ bit[1] \in 0 .. 1 /\ bit[2] \in 0 .. 1 /\ bit[3] \in 0 .. 1
      /\ bit[4] \in 0 .. 1 /\ bit[5] \in 0 .. 1 /\ bit[6] \in 0 .. 1 /\ bit[7] \in 0 .. 1
  BY BitsOneByOne
<1>. DEFINE n == Octet(bit)
<1>2. n = 128 * bit[0] + 64 * bit[1] + 32 * bit[2] + 16 * bit[3]
          + 8 * bit[4] + 4 * bit[5] + 2 * bit[6] + bit[7]
  BY DEF Octet
<1>. HIDE DEF n
<1>4. /\ used <= 1 => bit[1] = 0
      /\ used <= 2 => bit[2] = 0
      /\ used <= 3 => bit[3] = 0
      /\ used <= 4 => bit[4] = 0
      /\ used <= 5 => bit[5] = 0
      /\ used <= 6 => bit[6] = 0
      /\ used <= 7 => bit[7] = 0
  <2>1. /\ 1 \in 0 .. 7 /\ 2 \in 0 .. 7 /\ 3 \in 0 .. 7 /\ 4 \in 0 .. 7
        /\ 5 \in 0 .. 7 /\ 6 \in 0 .. 7 /\ 7 \in 0 .. 7
    BY SMT
  <2> QED
    BY <2>1, SMT
<1>5. CASE used = 1
  <2>1. n % 128 = 0
    BY <1>1, <1>2, <1>4, <1>5, SMT
  <2>2. 2^(8 - used) = 128
    BY <1>5, Powers, SMT
  <2> QED
    BY <2>1, <2>2 DEF n
<1>6. CASE used = 2
  <2>1. n % 64 = 0
    BY <1>1, <1>2, <1>4, <1>6, SMT
  <2>2. 2^(8 - used) = 64
    BY <1>6, Powers, SMT
  <2> QED
    BY <2>1, <2>2 DEF n
<1>7. CASE used = 3
  <2>1. n % 32 = 0
    BY <1>1, <1>2, <1>4, <1>7, SMT
  <2>2. 2^(8 - used) = 32
    BY <1>7, Powers, SMT
  <2> QED
    BY <2>1, <2>2 DEF n
<1>8. CASE used = 4
  <2>1. n % 16 = 0
    BY <1>1, <1>2, <1>4, <1>8, SMT
  <2>2. 2^(8 - used) = 16
    BY <1>8, Powers, SMT
  <2> QED
    BY <2>1, <2>2 DEF n
<1>9. CASE used = 5
  <2>1. n % 8 = 0
    BY <1>1, <1>2, <1>4, <1>9, SMT
  <2>2. 2^(8 - used) = 8
    BY <1>9, Powers, SMT
  <2> QED
    BY <2>1, <2>2 DEF n
<1>10. CASE used = 6
  <2>1. n % 4 = 0
    BY <1>1, <1>2, <1>4, <1>10, SMT
  <2>2. 2^(8 - used) = 4
    BY <1>10, Powers, SMT
  <2> QED
    BY <2>1, <2>2 DEF n
<1>11. CASE used = 7
  <2>1. n % 2 = 0
    BY <1>1, <1>2, <1>4, <1>11, SMT
  <2>2. 2^(8 - used) = 2
    BY <1>11, Powers, SMT
  <2> QED
    BY <2>1, <2>2 DEF n
<1> QED
  BY <1>5, <1>6, <1>7, <1>8, <1>9, <1>10, <1>11, SMT

-----------------------------------------------------------------------------
(* Canvases.                                                               *)

\* What a canvas can be made of: every picture of the model is one.
Drawable(picture) ==
    \/ picture.format = "Gray8"
    \/ /\ picture.format = "Mono1"
       /\ \A p \in Points(remote_viewport) : picture.ink[p] \in {BLACK, WHITE}

LEMMA PicturesAreDrawable == \A picture \in Pictures : Drawable(picture)
<1>1. ASSUME NEW k \in MonoBits PROVE Drawable(MonoPicture(k))
  BY DEF MonoPicture, Drawable
<1>2. ASSUME NEW shift \in GrayShifts PROVE Drawable(GrayPicture(shift))
  BY DEF GrayPicture, Drawable
<1> QED
  BY <1>1, <1>2 DEF Pictures

\* A row of bits fills its bytes but for less than one.
LEMMA StrideBounds ==
    ASSUME NEW w \in Nat \ {0}
    PROVE  /\ mono1_stride(w) \in Nat \ {0}
           /\ w <= 8 * mono1_stride(w) /\ 8 * mono1_stride(w) < w + 8
           /\ w % 8 # 0 => w = 8 * (mono1_stride(w) - 1) + (w % 8)
  BY SMT DEF mono1_stride

\* Rows of equal length follow each other in a sequence.
LEMMA CellOfRow ==
    ASSUME NEW s \in Nat \ {0}, NEW h \in Nat, NEW row \in 0 .. h - 1, NEW column \in 0 .. s - 1
    PROVE  /\ row * s + column + 1 \in 1 .. s * h
           /\ (row * s + column + 1 - 1) \div s = row
           /\ (row * s + column + 1 - 1) % s = column
<1>1. row * s \in Nat /\ s * h \in Nat /\ s * (row + 1) \in Nat
  BY SMT
<1>2. s * (row + 1) = row * s + s
  BY SMT
<1>3. s * (row + 1) <= s * h
  BY SMT
<1>4. row * s + column + 1 \in 1 .. s * h
  BY <1>1, <1>2, <1>3, SMT
<1>5. row * s + column + 1 - 1 = row * s + column
  BY <1>1, SMT
<1>6. (row * s + column) \div s = row /\ (row * s + column) % s = column
  BY LineAndColumn
<1> QED
  BY <1>4, <1>5, <1>6

\* The bits of the byte of a row that begins at a column.
BitAt(ink, column, row) ==
    IF column < LayoutWidth /\ ink[<<column, row>>] = BLACK THEN 1 ELSE 0
BitsFrom(ink, first, row) == [offset \in 0 .. 7 |-> BitAt(ink, first + offset, row)]

LEMMA BitsFromBits ==
    ASSUME NEW ink, NEW first, NEW row
    PROVE  EightBits(BitsFrom(ink, first, row))
  BY DEF EightBits, BitsFrom, BitAt

LEMMA MonoByte ==
    ASSUME Typed, NEW ink, NEW row \in 0 .. RemoteHeight - 1,
           NEW column \in 0 .. mono1_stride(LayoutWidth) - 1
    PROVE  MonoCanvas(ink)[row * mono1_stride(LayoutWidth) + column + 1] =
               Octet(BitsFrom(ink, 8 * column, row))
<1>. DEFINE s == mono1_stride(LayoutWidth)
            i == row * s + column + 1
<1>1. LayoutWidth \in Nat \ {0} /\ RemoteHeight \in Nat
  BY LayoutSizes, GeometryAssumption, SMT
<1>2. s \in Nat \ {0}
  BY <1>1, StrideBounds
<1>. HIDE DEF s
<1>3. i \in 1 .. s * RemoteHeight /\ (i - 1) \div s = row /\ (i - 1) % s = column
  <2>1. column \in 0 .. s - 1
    BY DEF s
  <2> QED
    BY <1>1, <1>2, <2>1, CellOfRow
<1>. HIDE DEF i
<1>4. MonoCanvas(ink)[i] =
          Octet([offset \in 0 .. 7 |-> BitAt(ink, 8 * ((i - 1) % s) + offset, (i - 1) \div s)])
  BY <1>3 DEF MonoCanvas, BitAt, s
<1> QED
  BY <1>3, <1>4 DEF BitsFrom, i, s

LEMMA MonoCanvasBytes ==
    ASSUME Typed, NEW ink
    PROVE  /\ MonoCanvas(ink) \in Seq(Byte)
           /\ Len(MonoCanvas(ink)) = mono1_stride(LayoutWidth) * RemoteHeight
<1>. DEFINE n == mono1_stride(LayoutWidth) * RemoteHeight
<1>1. n \in Nat
  <2>1. LayoutWidth \in Nat \ {0} /\ RemoteHeight \in Nat
    BY LayoutSizes, GeometryAssumption, SMT
  <2> QED
    BY <2>1, StrideBounds, SMT
<1>. HIDE DEF n
<1>2. DOMAIN MonoCanvas(ink) = 1 .. n
  BY DEF MonoCanvas, n
<1>3. ASSUME NEW i \in 1 .. n PROVE MonoCanvas(ink)[i] \in Byte
  <2>1. PICK first, row : MonoCanvas(ink)[i] = Octet(BitsFrom(ink, first, row))
    BY <1>3 DEF MonoCanvas, n, BitsFrom, BitAt
  <2> QED
    BY <2>1, BitsFromBits, OctetBits
<1>4. MonoCanvas(ink) = [i \in 1 .. n |-> MonoCanvas(ink)[i]]
  BY <1>2 DEF MonoCanvas
<1>5. MonoCanvas(ink) \in [1 .. n -> Byte]
  BY <1>3, <1>4
<1>6. MonoCanvas(ink) \in Seq(Byte)
  BY <1>1, <1>5
<1>7. Len(MonoCanvas(ink)) = n
  BY <1>1, <1>2, <1>6
<1> QED
  BY <1>6, <1>7 DEF n

\* A bit of the canvas is set where its picture is black.
LEMMA MonoCanvasPixel ==
    ASSUME Typed, NEW ink, NEW column \in 0 .. LayoutWidth - 1, NEW row \in 0 .. RemoteHeight - 1
    PROVE  Mono1Pixel(LayoutWidth, MonoCanvas(ink), column, row) =
               IF ink[<<column, row>>] = BLACK THEN 1 ELSE 0
<1>. DEFINE s == mono1_stride(LayoutWidth)
            byte == column \div 8
            j == column % 8
            bits == BitsFrom(ink, 8 * byte, row)
<1>1. LayoutWidth \in Nat \ {0} /\ RemoteHeight \in Nat
  BY LayoutSizes, GeometryAssumption, SMT
<1>2. s \in Nat \ {0} /\ LayoutWidth <= 8 * s
  BY <1>1, StrideBounds
<1>. HIDE DEF s
<1>3. byte \in 0 .. s - 1 /\ j \in 0 .. 7 /\ column = 8 * byte + j
  BY <1>1, <1>2, SMT
<1>. HIDE DEF byte, j
<1>4. MonoCanvas(ink)[row * s + byte + 1] = Octet(bits)
  <2>1. byte \in 0 .. mono1_stride(LayoutWidth) - 1
    BY <1>3 DEF s
  <2> QED
    BY <2>1, MonoByte DEF s
<1>5. (Octet(bits) \div (2^(7 - j))) % 2 = bits[j]
  BY <1>3, BitsFromBits, OctetBits
<1>6. bits[j] = IF ink[<<column, row>>] = BLACK THEN 1 ELSE 0
  <2>1. column < LayoutWidth
    BY <1>1, SMT
  <2> QED
    BY <1>3, <2>1 DEF BitsFrom, BitAt
<1>7. Mono1Pixel(LayoutWidth, MonoCanvas(ink), column, row) =
          (MonoCanvas(ink)[row * s + byte + 1] \div (2^(7 - j))) % 2
  BY DEF Mono1Pixel, s, byte, j
<1> QED
  BY <1>4, <1>5, <1>6, <1>7

\* Nothing is set in what a row's last byte has to spare.
LEMMA MonoCanvasPadding ==
    ASSUME Typed, NEW ink
    PROVE  WhitePadding(LayoutWidth, RemoteHeight, MonoCanvas(ink))
<1>. DEFINE s == mono1_stride(LayoutWidth)
            used == LayoutWidth % 8
<1>1. LayoutWidth \in Nat \ {0} /\ RemoteHeight \in Nat
  BY LayoutSizes, GeometryAssumption, SMT
<1>2. s \in Nat \ {0} /\ (used # 0 => LayoutWidth = 8 * (s - 1) + used)
  BY <1>1, StrideBounds
<1>3. used \in 0 .. 7
  BY <1>1, SMT
<1>. HIDE DEF s
<1>4. ASSUME used # 0, NEW row \in 1 .. RemoteHeight
      PROVE  MonoCanvas(ink)[row * s] % (2^(8 - used)) = 0
  <2>. DEFINE bits == BitsFrom(ink, 8 * (s - 1), row - 1)
  <2>1. row - 1 \in 0 .. RemoteHeight - 1 /\ s - 1 \in 0 .. s - 1
    BY <1>1, <1>2, SMT
  <2>2. row * s = (row - 1) * s + (s - 1) + 1
    <3>1. (row - 1) * s = row * s - s /\ row * s \in Int
      BY <1>1, <1>2, SMT
    <3> QED
      BY <1>2, <3>1, SMT
  <2>3. MonoCanvas(ink)[row * s] = Octet(bits)
    BY <2>1, <2>2, MonoByte DEF s
  <2>4. ASSUME NEW j \in 0 .. 7, j >= used PROVE bits[j] = 0
    <3>1. ~(8 * (s - 1) + j < LayoutWidth)
      BY <1>1, <1>2, <1>3, <1>4, <2>4, SMT
    <3> QED
      BY <3>1 DEF BitsFrom, BitAt
  <2>5. used \in 1 .. 7
    BY <1>3, <1>4, SMT
  <2>. HIDE DEF used
  <2>6. Octet(bits) % (2^(8 - used)) = 0
    <3>. HIDE DEF bits
    <3>1. EightBits(bits)
      BY BitsFromBits DEF bits
    <3> QED
      BY <2>4, <2>5, <3>1, OctetPadding
  <2> QED
    BY <2>3, <2>6
<1> QED
  BY <1>4 DEF WhitePadding, s

LEMMA GrayCanvasBytes ==
    ASSUME Typed, NEW ink
    PROVE  /\ \E S : GrayCanvas(ink) \in Seq(S)
           /\ Len(GrayCanvas(ink)) = LayoutWidth * RemoteHeight
<1>. DEFINE n == LayoutWidth * RemoteHeight
            S == {GrayCanvas(ink)[i] : i \in 1 .. n}
<1>1. LayoutWidth \in Nat \ {0} /\ RemoteHeight \in Nat
  BY LayoutSizes, GeometryAssumption, SMT
<1>2. n \in Nat
  BY <1>1, SMT
<1>. HIDE DEF n
<1>3. GrayCanvas(ink) = [i \in 1 .. n |-> GrayCanvas(ink)[i]]
  BY DEF GrayCanvas, n
<1>4. GrayCanvas(ink) \in [1 .. n -> S]
  BY <1>3
<1>5. GrayCanvas(ink) \in Seq(S) /\ DOMAIN GrayCanvas(ink) = 1 .. n
  BY <1>2, <1>4
<1>. HIDE DEF S
<1>6. Len(GrayCanvas(ink)) = n
  BY <1>2, <1>5
<1> QED
  BY <1>5, <1>6 DEF n

LEMMA GrayCanvasPixel ==
    ASSUME Typed, NEW ink, NEW column \in 0 .. LayoutWidth - 1, NEW row \in 0 .. RemoteHeight - 1
    PROVE  Gray8Pixel(LayoutWidth, GrayCanvas(ink), column, row) = ink[<<column, row>>]
<1>. DEFINE i == row * LayoutWidth + column + 1
<1>1. LayoutWidth \in Nat \ {0} /\ RemoteHeight \in Nat
  BY LayoutSizes, GeometryAssumption, SMT
<1>2. /\ i \in 1 .. LayoutWidth * RemoteHeight
      /\ (i - 1) \div LayoutWidth = row /\ (i - 1) % LayoutWidth = column
  BY <1>1, CellOfRow
<1>3. Gray8Pixel(LayoutWidth, GrayCanvas(ink), column, row) = GrayCanvas(ink)[i]
  BY DEF Gray8Pixel, gray8_stride
<1>. HIDE DEF i
<1> QED
  BY <1>2, <1>3 DEF GrayCanvas

-----------------------------------------------------------------------------
(* Frame messages.                                                         *)

\* whole is s, which is m long, and then t, which is n long.
Follows(whole, s, t, m, n) ==
    /\ Len(whole) = m + n
    /\ \A i \in 1 .. m : whole[i] = s[i]
    /\ \A i \in 1 .. n : whole[m + i] = t[i]

LEMMA Joined ==
    ASSUME NEW T, NEW s \in Seq(T), NEW t \in Seq(T)
    PROVE  s \o t \in Seq(T) /\ Follows(s \o t, s, t, Len(s), Len(t))
<1>. DEFINE m == Len(s)
            n == Len(t)
<1>1. m \in Nat /\ n \in Nat
  OBVIOUS
<1>2. /\ s \o t \in Seq(T) /\ Len(s \o t) = m + n
      /\ \A i \in 1 .. m + n : (s \o t)[i] = IF i <= m THEN s[i] ELSE t[i - m]
  BY ConcatProperties
<1>. HIDE DEF m, n
<1>3. ASSUME NEW i \in 1 .. m PROVE (s \o t)[i] = s[i]
  <2>1. i \in 1 .. m + n /\ i <= m
    BY <1>1, SMT
  <2> QED
    BY <1>2, <2>1, Zenon
<1>4. ASSUME NEW i \in 1 .. n PROVE (s \o t)[m + i] = t[i]
  <2>1. m + i \in 1 .. m + n /\ ~(m + i <= m) /\ (m + i) - m = i
    BY <1>1, SMT
  <2> QED
    BY <1>2, <2>1, Zenon
<1> QED
  BY <1>2, <1>3, <1>4 DEF m, n, Follows

\* What follows a prefix.
LEMMA AfterPrefix ==
    ASSUME NEW T, NEW s \in Seq(T), NEW t \in Seq(T), NEW m \in Nat, Len(s) = m
    PROVE  SubSeq(s \o t, m + 1, Len(s \o t)) = t
<1>. DEFINE n == Len(t)
            whole == s \o t
            rest == SubSeq(whole, m + 1, m + n)
<1>1. n \in Nat
  OBVIOUS
<1>2. /\ whole \in Seq(T) /\ Len(whole) = m + n
      /\ \A i \in 1 .. n : whole[m + i] = t[i]
  <2>1. whole \in Seq(T) /\ Follows(whole, s, t, m, n)
    BY Joined
  <2> QED
    BY <2>1 DEF Follows
<1>. HIDE DEF n, whole
<1>3. ASSUME NEW i \in m + 1 .. m + n PROVE whole[i] \in T
  <2>1. i \in 1 .. Len(whole)
    BY <1>1, <1>2, SMT
  <2> QED
    BY <1>2, <2>1
<1>. DEFINE from == m + 1
            upto == m + n
<1>4. /\ from \in Int /\ upto \in Int /\ upto - from + 1 = n /\ (from <= upto <=> n # 0)
      /\ \A i \in 1 .. n : from + i - 1 = m + i
  BY <1>1, SMT
<1>5. \A i \in from .. upto : whole[i] \in T
  BY <1>3
<1>. HIDE DEF from, upto
<1>6. /\ SubSeq(whole, from, upto) \in Seq(T)
      /\ Len(SubSeq(whole, from, upto)) = IF from <= upto THEN upto - from + 1 ELSE 0
      /\ \A i \in 1 .. upto - from + 1 : SubSeq(whole, from, upto)[i] = whole[from + i - 1]
  BY <1>4, <1>5, SubSeqProperties
<1>7. /\ rest \in Seq(T) /\ Len(rest) = n
      /\ \A i \in 1 .. n : rest[i] = t[i]
  BY <1>1, <1>2, <1>4, <1>6 DEF from, upto
<1>. HIDE DEF rest
<1>8. rest = t
  BY <1>7, SeqEqual DEF n
<1> QED
  BY <1>2, <1>8 DEF rest, whole

\* Where five pieces of two lengths are in a whole, and what follows them.
Places(whole, a, b, c, d, e, rest, m, k) ==
    LET n == m + m + k + k + m
    IN  /\ Len(whole) = n + Len(rest)
        /\ SubSeq(whole, n + 1, Len(whole)) = rest
        /\ \A i \in 1 .. m : whole[i] = a[i] /\ whole[m + i] = b[i]
        /\ \A i \in 1 .. k : whole[m + m + i] = c[i]
        /\ \A i \in 1 .. k : whole[m + m + k + i] = d[i]
        /\ \A i \in 1 .. m : whole[m + m + k + k + i] = e[i]

LEMMA Pieces ==
    ASSUME NEW T, NEW a \in Seq(T), NEW b \in Seq(T), NEW c \in Seq(T), NEW d \in Seq(T),
           NEW e \in Seq(T), NEW rest \in Seq(T), NEW m \in Nat, NEW k \in Nat,
           Len(a) = m, Len(b) = m, Len(c) = k, Len(d) = k, Len(e) = m
    PROVE  Places(a \o b \o c \o d \o e \o rest, a, b, c, d, e, rest, m, k)
<1>. DEFINE n2 == m + m
            n3 == n2 + k
            n4 == n3 + k
            n5 == n4 + m
            p2 == a \o b
            p3 == p2 \o c
            p4 == p3 \o d
            p5 == p4 \o e
            whole == p5 \o rest
            n == Len(rest)
<1>1. n2 \in Nat /\ n3 \in Nat /\ n4 \in Nat /\ n5 \in Nat /\ n \in Nat
  OBVIOUS
<1>2. p2 \in Seq(T) /\ Len(p2) = n2 /\ Follows(p2, a, b, m, m)
  <2>1. p2 \in Seq(T) /\ Follows(p2, a, b, m, m)
    BY Joined
  <2> QED
    BY <2>1 DEF Follows
<1>. HIDE DEF p2
<1>3. p3 \in Seq(T) /\ Len(p3) = n3 /\ Follows(p3, p2, c, n2, k)
  <2>1. p3 \in Seq(T) /\ Follows(p3, p2, c, n2, k)
    BY <1>2, Joined
  <2> QED
    BY <2>1 DEF Follows
<1>. HIDE DEF p3
<1>4. p4 \in Seq(T) /\ Len(p4) = n4 /\ Follows(p4, p3, d, n3, k)
  <2>1. p4 \in Seq(T) /\ Follows(p4, p3, d, n3, k)
    BY <1>3, Joined
  <2> QED
    BY <2>1 DEF Follows
<1>. HIDE DEF p4
<1>5. p5 \in Seq(T) /\ Len(p5) = n5 /\ Follows(p5, p4, e, n4, m)
  <2>1. p5 \in Seq(T) /\ Follows(p5, p4, e, n4, m)
    BY <1>4, Joined
  <2> QED
    BY <2>1 DEF Follows
<1>. HIDE DEF p5
<1>6. Follows(whole, p5, rest, n5, n)
  BY <1>5, Joined
<1>7. SubSeq(whole, n5 + 1, Len(whole)) = rest
  BY <1>1, <1>5, AfterPrefix
<1>. HIDE DEF whole, n
<1>8. /\ \A i \in 1 .. m : i \in 1 .. n2 /\ m + i \in 1 .. n2
      /\ \A i \in 1 .. n2 : i \in 1 .. n3
      /\ \A i \in 1 .. k : n2 + i \in 1 .. n3
      /\ \A i \in 1 .. n3 : i \in 1 .. n4
      /\ \A i \in 1 .. k : n3 + i \in 1 .. n4
      /\ \A i \in 1 .. n4 : i \in 1 .. n5
      /\ \A i \in 1 .. m : n4 + i \in 1 .. n5
  BY SMT
<1>9. \A i \in 1 .. n4 : whole[i] = p4[i]
  BY <1>5, <1>6, <1>8, Zenon DEF Follows
<1>10. \A i \in 1 .. n3 : whole[i] = p3[i]
  BY <1>4, <1>8, <1>9, Zenon DEF Follows
<1>11. \A i \in 1 .. n2 : whole[i] = p2[i]
  BY <1>3, <1>8, <1>10, Zenon DEF Follows
<1>12. \A i \in 1 .. m : whole[i] = a[i] /\ whole[m + i] = b[i]
  BY <1>2, <1>8, <1>11, Zenon DEF Follows
<1>13. \A i \in 1 .. k : whole[n2 + i] = c[i]
  BY <1>3, <1>8, <1>10, Zenon DEF Follows
<1>14. \A i \in 1 .. k : whole[n3 + i] = d[i]
  BY <1>4, <1>8, <1>9, Zenon DEF Follows
<1>15. \A i \in 1 .. m : whole[n4 + i] = e[i]
  BY <1>5, <1>6, <1>8, Zenon DEF Follows
<1> QED
  BY <1>6, <1>7, <1>12, <1>13, <1>14, <1>15, Zenon DEF Places, Follows, whole, n, p5, p4, p3, p2

\* The places of a frame's fields in its payload.
FieldsOf(payload, a, b, c, d, e, pixels) ==
    /\ Len(payload) = 16 + Len(pixels)
    /\ SubSeq(payload, 17, Len(payload)) = pixels
    /\ payload[1] = a[1] /\ payload[2] = a[2] /\ payload[3] = a[3] /\ payload[4] = a[4]
    /\ payload[5] = b[1] /\ payload[6] = b[2] /\ payload[7] = b[3] /\ payload[8] = b[4]
    /\ payload[9] = c[1] /\ payload[10] = c[2]
    /\ payload[11] = d[1] /\ payload[12] = d[2]
    /\ payload[13] = e[1] /\ payload[14] = e[2] /\ payload[15] = e[3] /\ payload[16] = e[4]

LEMMA Fields ==
    ASSUME NEW T, NEW a \in Seq(T), NEW b \in Seq(T), NEW c \in Seq(T), NEW d \in Seq(T),
           NEW e \in Seq(T), NEW pixels \in Seq(T),
           Len(a) = 4, Len(b) = 4, Len(c) = 2, Len(d) = 2, Len(e) = 4
    PROVE  FieldsOf(a \o b \o c \o d \o e \o pixels, a, b, c, d, e, pixels)
<1>. DEFINE payload == a \o b \o c \o d \o e \o pixels
<1>1. PICK m \in Nat, k \in Nat : m = 4 /\ k = 2
  OBVIOUS
<1>. DEFINE n == m + m + k + k + m
<1>2. /\ Len(a) = m /\ Len(b) = m /\ Len(c) = k /\ Len(d) = k /\ Len(e) = m
  BY <1>1
<1>3. Places(payload, a, b, c, d, e, pixels, m, k)
  BY <1>2, Pieces
<1>. HIDE DEF payload
<1>4. /\ n = 16 /\ n + 1 = 17 /\ m + m = 8 /\ m + m + k = 10 /\ m + m + k + k = 12
  BY <1>1, SMT
<1>5. Len(payload) = 16 + Len(pixels) /\ SubSeq(payload, 17, Len(payload)) = pixels
  BY <1>3, <1>4 DEF Places
<1>6. payload[1] = a[1] /\ payload[2] = a[2] /\ payload[3] = a[3] /\ payload[4] = a[4]
  BY <1>1, <1>3, SMT DEF Places
<1>7. payload[5] = b[1] /\ payload[6] = b[2] /\ payload[7] = b[3] /\ payload[8] = b[4]
  <2>1. \A i \in 1 .. 4 : payload[4 + i] = b[i]
    BY <1>1, <1>3 DEF Places
  <2> QED
    BY <2>1, SMT
<1>8. payload[9] = c[1] /\ payload[10] = c[2]
  <2>1. \A i \in 1 .. 2 : payload[8 + i] = c[i]
    BY <1>1, <1>3, <1>4 DEF Places
  <2> QED
    BY <2>1, SMT
<1>9. payload[11] = d[1] /\ payload[12] = d[2]
  <2>1. \A i \in 1 .. 2 : payload[10 + i] = d[i]
    BY <1>1, <1>3, <1>4 DEF Places
  <2> QED
    BY <2>1, SMT
<1>10. payload[13] = e[1] /\ payload[14] = e[2] /\ payload[15] = e[3] /\ payload[16] = e[4]
  <2>1. \A i \in 1 .. 4 : payload[12 + i] = e[i]
    BY <1>1, <1>3, <1>4 DEF Places
  <2> QED
    BY <2>1, SMT
<1> QED
  BY <1>5, <1>6, <1>7, <1>8, <1>9, <1>10 DEF payload, FieldsOf

LEMMA Be16 ==
    ASSUME NEW n \in Nat
    PROVE  LET b == be16(n)
           IN  b \in Seq(Nat) /\ Len(b) = 2 /\ b[1] * 256 + b[2] = n
<1>1. n \div 256 \in Nat /\ n % 256 \in Nat /\ (n \div 256) * 256 + (n % 256) = n
  BY SMT
<1> QED
  BY <1>1 DEF be16

LEMMA Be32 ==
    ASSUME NEW n \in Nat
    PROVE  LET b == be32(n)
           IN  /\ b \in Seq(Nat) /\ Len(b) = 4
               /\ (b[1] * 256 + b[2]) * (256 * 256) + (b[3] * 256 + b[4]) = n
<1>. DEFINE high == n \div (256 * 256)
            low == n % (256 * 256)
<1>1. high \in Nat /\ low \in Nat /\ low <= 65535 /\ n = high * (256 * 256) + low
  BY SMT
<1>2. /\ n \div (256 * 256 * 256) = high \div 256
      /\ (n \div (256 * 256)) % 256 = high % 256
  BY SMT
<1>3. (n \div 256) % 256 = low \div 256
  BY SMT
<1>4. n % 256 = low % 256
  BY SMT
<1>. HIDE DEF high, low
<1>5. /\ (high \div 256) * 256 + (high % 256) = high
      /\ (low \div 256) * 256 + (low % 256) = low
      /\ high \div 256 \in Nat /\ high % 256 \in Nat
      /\ low \div 256 \in Nat /\ low % 256 \in Nat
  BY <1>1, SMT
<1>6. be32(n) = <<high \div 256, high % 256, low \div 256, low % 256>>
  BY <1>2, <1>3, <1>4 DEF be32
<1>. DEFINE b == be32(n)
<1>7. /\ b \in Seq(Nat) /\ Len(b) = 4 /\ b[1] = high \div 256 /\ b[2] = high % 256
      /\ b[3] = low \div 256 /\ b[4] = low % 256
  BY <1>5, <1>6
<1>. HIDE DEF b
<1>8. (b[1] * 256 + b[2]) * (256 * 256) + (b[3] * 256 + b[4]) = n
  BY <1>1, <1>5, <1>7
<1> QED
  BY <1>7, <1>8 DEF b

LEMMA FormatHasValue ==
    ASSUME NEW format \in {"Mono1", "Gray8"}
    PROVE  LET v == pixel_format_value(format)
           IN  v \in Nat /\ v \in DOMAIN PixelFormats /\ PixelFormats[v] = format
<1>1. DOMAIN PixelFormats = 1 .. 2 /\ PixelFormats[1] = "Mono1" /\ PixelFormats[2] = "Gray8"
  BY DEF PixelFormats
<1>2. \E v \in DOMAIN PixelFormats : PixelFormats[v] = format
  BY <1>1
<1>3. /\ pixel_format_value(format) \in DOMAIN PixelFormats
      /\ PixelFormats[pixel_format_value(format)] = format
  BY <1>2 DEF pixel_format_value
<1> QED
  BY <1>1, <1>3

\* A frame arrives as it was sent: valid pixels of either format, in a frame of
\* any size and with any identifier, decode to that frame and no other.
THEOREM FramesArrive ==
    ASSUME NEW high \in Nat, NEW low \in Nat, NEW w \in Nat, NEW h \in Nat,
           NEW format \in {"Mono1", "Gray8"},
           NEW S, NEW pixels \in Seq(S), ValidPixels(format, w, h, pixels)
    PROVE  LET frame == [type |-> "Frame", id |-> <<high, low>>, width |-> w, height |-> h,
                         format |-> format, pixels |-> pixels]
           IN  decode_v2_payload("Frame", PayloadOf(frame)) = {frame}
<1>. DEFINE frame == [type |-> "Frame", id |-> <<high, low>>, width |-> w, height |-> h,
                      format |-> format, pixels |-> pixels]
            T == S \cup Nat
            v == pixel_format_value(format)
            a == be32(high)
            b == be32(low)
            c == be16(w)
            d == be16(h)
            e == <<v, 0, 0, 0>>
            payload == a \o b \o c \o d \o e \o pixels
<1>1. /\ a \in Seq(Nat) /\ Len(a) = 4
      /\ (a[1] * 256 + a[2]) * (256 * 256) + (a[3] * 256 + a[4]) = high
      /\ b \in Seq(Nat) /\ Len(b) = 4
      /\ (b[1] * 256 + b[2]) * (256 * 256) + (b[3] * 256 + b[4]) = low
      /\ c \in Seq(Nat) /\ Len(c) = 2 /\ c[1] * 256 + c[2] = w
      /\ d \in Seq(Nat) /\ Len(d) = 2 /\ d[1] * 256 + d[2] = h
  <2>1. /\ a \in Seq(Nat) /\ Len(a) = 4
        /\ (a[1] * 256 + a[2]) * (256 * 256) + (a[3] * 256 + a[4]) = high
    BY Be32, Zenon
  <2>2. /\ b \in Seq(Nat) /\ Len(b) = 4
        /\ (b[1] * 256 + b[2]) * (256 * 256) + (b[3] * 256 + b[4]) = low
    BY Be32, Zenon
  <2>3. c \in Seq(Nat) /\ Len(c) = 2 /\ c[1] * 256 + c[2] = w
    BY Be16, Zenon
  <2>4. d \in Seq(Nat) /\ Len(d) = 2 /\ d[1] * 256 + d[2] = h
    BY Be16, Zenon
  <2> QED
    BY <2>1, <2>2, <2>3, <2>4, Zenon
<1>2. v \in Nat /\ v \in DOMAIN PixelFormats /\ PixelFormats[v] = format
  BY FormatHasValue
<1>3. /\ frame.type = "Frame" /\ frame.id[1] = high /\ frame.id[2] = low
      /\ frame.width = w /\ frame.height = h /\ frame.format = format /\ frame.pixels = pixels
  OBVIOUS
<1>. HIDE DEF frame, a, b, c, d, v
<1>4. PayloadOf(frame) = payload
  BY <1>3 DEF PayloadOf, FramePayload, a, b, c, d, v
<1>5. /\ e \in Seq(Nat) /\ Len(e) = 4 /\ e[1] = v /\ e[2] = 0 /\ e[3] = 0 /\ e[4] = 0
  BY <1>2
<1>. HIDE DEF e, payload
<1>6. \A s \in Seq(Nat) : s \in Seq(T)
  OBVIOUS
<1>7. pixels \in Seq(T)
  OBVIOUS
<1>. HIDE DEF T
<1>8. FieldsOf(payload, a, b, c, d, e, pixels)
  <2>1. a \in Seq(T) /\ b \in Seq(T) /\ c \in Seq(T) /\ d \in Seq(T) /\ e \in Seq(T)
    BY <1>1, <1>5, <1>6
  <2> QED
    BY <1>1, <1>5, <1>7, <2>1, Fields DEF payload
<1>9. /\ U32(payload, 1) = high /\ U32(payload, 5) = low
      /\ U16(payload, 9) = w /\ U16(payload, 11) = h
  <2>1. /\ 1 + 1 = 2 /\ 1 + 2 = 3 /\ 3 + 1 = 4 /\ 5 + 1 = 6 /\ 5 + 2 = 7 /\ 7 + 1 = 8
        /\ 9 + 1 = 10 /\ 11 + 1 = 12
    BY SMT
  <2>2. /\ payload[1] = a[1] /\ payload[2] = a[2] /\ payload[3] = a[3] /\ payload[4] = a[4]
        /\ payload[5] = b[1] /\ payload[6] = b[2] /\ payload[7] = b[3] /\ payload[8] = b[4]
        /\ payload[9] = c[1] /\ payload[10] = c[2] /\ payload[11] = d[1] /\ payload[12] = d[2]
    BY <1>8 DEF FieldsOf
  <2>3. U32(payload, 1) = high
    <3>1. U32(payload, 1) = (a[1] * 256 + a[2]) * (256 * 256) + (a[3] * 256 + a[4])
      BY <2>1, <2>2 DEF U32, U16
    <3> QED
      BY <1>1, <3>1
  <2>4. U32(payload, 5) = low
    <3>1. U32(payload, 5) = (b[1] * 256 + b[2]) * (256 * 256) + (b[3] * 256 + b[4])
      BY <2>1, <2>2 DEF U32, U16
    <3> QED
      BY <1>1, <3>1
  <2>5. U16(payload, 9) = w /\ U16(payload, 11) = h
    BY <1>1, <2>1, <2>2 DEF U16
  <2> QED
    BY <2>3, <2>4, <2>5
<1>10. payload[13] = v /\ FrameReserved(payload)
  <2>1. \A i \in 14 .. 16 : i = 14 \/ i = 15 \/ i = 16
    BY SMT
  <2> QED
    BY <1>5, <1>8, <2>1 DEF FieldsOf, FrameReserved, AllZero
<1>11. Len(payload) >= V2_FRAME_PREFIX_LEN /\ V2_FRAME_PREFIX_LEN + 1 = 17
  <2>1. Len(pixels) \in Nat
    OBVIOUS
  <2> QED
    BY <1>8, <2>1, SMT DEF FieldsOf, V2_FRAME_PREFIX_LEN
<1>12. SubSeq(payload, V2_FRAME_PREFIX_LEN + 1, Len(payload)) = pixels
  BY <1>8, <1>11 DEF FieldsOf
<1>13. decode_frame(payload) =
           {[type |-> "Frame", id |-> <<high, low>>, width |-> w, height |-> h,
             format |-> format, pixels |-> pixels]}
  BY <1>2, <1>8, <1>9, <1>10, <1>11, <1>12 DEF decode_frame
<1>14. decode_v2_payload("Frame", payload) = decode_frame(payload)
  BY DEF decode_v2_payload
<1> QED
  BY <1>4, <1>13, <1>14 DEF frame

-----------------------------------------------------------------------------
(* Pictures in frames.                                                     *)

\* What a canvas packs for a picture is a valid frame of the viewport.
LEMMA CanvasIsValid ==
    ASSUME Typed, RemoteHeight > 0, NEW picture, Drawable(picture)
    PROVE  /\ ValidPixels(picture.format, LayoutWidth, RemoteHeight, FrameOf(picture).pixels)
           /\ \E S : FrameOf(picture).pixels \in Seq(S)
<1>1. LayoutWidth \in Nat \ {0} /\ RemoteHeight \in Nat /\ LayoutWidth > 0
  BY LayoutSizes, GeometryAssumption, SMT
<1>2. FrameOf(picture).pixels =
          IF picture.format = "Mono1" THEN MonoCanvas(picture.ink) ELSE GrayCanvas(picture.ink)
  BY DEF FrameOf
<1>3. CASE picture.format = "Mono1"
  <2>1. /\ MonoCanvas(picture.ink) \in Seq(Byte)
        /\ Len(MonoCanvas(picture.ink)) = mono1_stride(LayoutWidth) * RemoteHeight
        /\ WhitePadding(LayoutWidth, RemoteHeight, MonoCanvas(picture.ink))
    BY MonoCanvasBytes, MonoCanvasPadding
  <2> QED
    BY <1>1, <1>2, <1>3, <2>1 DEF ValidPixels, validate_mono1_pixels
<1>4. CASE picture.format = "Gray8"
  <2>1. /\ \E S : GrayCanvas(picture.ink) \in Seq(S)
        /\ Len(GrayCanvas(picture.ink)) = LayoutWidth * RemoteHeight
    BY GrayCanvasBytes
  <2> QED
    BY <1>1, <1>2, <1>4, <2>1 DEF ValidPixels, validate_gray8_pixels, gray8_stride
<1> QED
  BY <1>3, <1>4 DEF Drawable

\* A picture is accepted by PaperPad, as the frame PaperSpoon sent and as no
\* other: FRAME messages of both formats, in every layout with a viewport.
THEOREM PicturesArrive ==
    ASSUME Typed, RemoteHeight > 0, NEW picture, Drawable(picture)
    PROVE  RemoteFrames(picture) = {FrameOf(picture)}
<1>. DEFINE frame == FrameOf(picture)
            pixels == frame.pixels
<1>1. ValidPixels(picture.format, LayoutWidth, RemoteHeight, pixels)
  BY CanvasIsValid
<1>2. PICK S : pixels \in Seq(S)
  BY CanvasIsValid
<1>3. picture.format \in {"Mono1", "Gray8"}
  BY DEF Drawable
<1>4. LayoutWidth \in Nat /\ RemoteHeight \in Nat /\ 0 \in Nat /\ 1 \in Nat
  BY LayoutSizes, GeometryAssumption, SMT
<1>5. /\ frame = [type |-> "Frame", id |-> <<0, 1>>, width |-> LayoutWidth,
                  height |-> RemoteHeight, format |-> picture.format, pixels |-> pixels]
      /\ frame.type = "Frame" /\ frame.format = picture.format
      /\ frame.width = LayoutWidth /\ frame.height = RemoteHeight
  BY DEF FrameOf
<1>. HIDE DEF pixels, frame
<1>6. decode_v2_payload("Frame", PayloadOf(frame)) = {frame}
  BY <1>1, <1>2, <1>3, <1>4, <1>5, FramesArrive
<1>7. decode_frame(FramePayload(frame)) = {frame}
  BY <1>5, <1>6 DEF decode_v2_payload, PayloadOf
<1>8. ValidPixels(frame.format, frame.width, frame.height, frame.pixels)
  BY <1>1, <1>5 DEF pixels
<1>9. RemoteFrames(picture) = {f \in {frame} : ValidPixels(f.format, f.width, f.height, f.pixels)}
  BY <1>7 DEF RemoteFrames, frame
<1> QED
  BY <1>8, <1>9 DEF frame

\* Point for point, what either backend reads from the frame is the picture.
LEMMA FramePixels ==
    ASSUME Typed, NEW picture, Drawable(picture), NEW p \in Points(remote_viewport)
    PROVE  /\ p = <<p[1], p[2]>>
           /\ p[1] \in 0 .. LayoutWidth - 1 /\ p[2] \in 0 .. RemoteHeight - 1
           /\ picture.format = "Gray8" =>
                  Gray8Pixel(LayoutWidth, FrameOf(picture).pixels, p[1], p[2]) = picture.ink[p]
           /\ picture.format = "Mono1" =>
                  /\ picture.ink[p] \in {BLACK, WHITE}
                  /\ Mono1Pixel(LayoutWidth, FrameOf(picture).pixels, p[1], p[2]) =
                         IF picture.ink[p] = BLACK THEN 1 ELSE 0
<1>1. LayoutWidth \in Nat /\ RemoteHeight \in Nat
  BY LayoutSizes, GeometryAssumption, SMT
<1>2. p \in (0 .. 0 + LayoutWidth - 1) \X (0 .. 0 + RemoteHeight - 1)
  BY DEF Points, remote_viewport, Rect
<1>3. p = <<p[1], p[2]>> /\ p[1] \in 0 .. LayoutWidth - 1 /\ p[2] \in 0 .. RemoteHeight - 1
  BY <1>1, <1>2
<1>4. FrameOf(picture).pixels =
          IF picture.format = "Mono1" THEN MonoCanvas(picture.ink) ELSE GrayCanvas(picture.ink)
  BY DEF FrameOf
<1>5. Gray8Pixel(LayoutWidth, GrayCanvas(picture.ink), p[1], p[2]) = picture.ink[<<p[1], p[2]>>]
  BY <1>3, GrayCanvasPixel
<1>6. Mono1Pixel(LayoutWidth, MonoCanvas(picture.ink), p[1], p[2]) =
          IF picture.ink[<<p[1], p[2]>>] = BLACK THEN 1 ELSE 0
  BY <1>3, MonoCanvasPixel
<1> QED
  BY <1>3, <1>4, <1>5, <1>6 DEF Drawable

-----------------------------------------------------------------------------
(* Pictures on e-ink.                                                      *)

LEMMA NativePixelsOfPicture ==
    ASSUME Typed, NEW picture, Drawable(picture), NEW p \in Points(remote_viewport)
    PROVE  NativePixels(FrameOf(picture))[p] = picture.ink[p]
<1>. DEFINE frame == FrameOf(picture)
<1>1. frame.width = LayoutWidth /\ frame.format = picture.format
  BY DEF FrameOf
<1>2. /\ p[1] \in 0 .. LayoutWidth - 1 /\ p[2] \in 0 .. RemoteHeight - 1
      /\ picture.format = "Gray8" =>
             Gray8Pixel(LayoutWidth, frame.pixels, p[1], p[2]) = picture.ink[p]
      /\ picture.format = "Mono1" =>
             /\ picture.ink[p] \in {BLACK, WHITE}
             /\ Mono1Pixel(LayoutWidth, frame.pixels, p[1], p[2]) =
                    IF picture.ink[p] = BLACK THEN 1 ELSE 0
  BY FramePixels
<1>. HIDE DEF frame
<1>3. p[1] - remote_viewport.x = p[1] /\ p[2] - remote_viewport.y = p[2]
  BY <1>2, SMT DEF remote_viewport, Rect
<1>4. NativePixels(frame)[p] =
          IF frame.format = "Gray8" THEN Gray8Pixel(frame.width, frame.pixels, p[1], p[2])
          ELSE IF Mono1Pixel(frame.width, frame.pixels, p[1], p[2]) = 1 THEN BLACK ELSE WHITE
  BY <1>3 DEF NativePixels
<1>5. picture.format = "Gray8" \/ picture.format = "Mono1"
  BY DEF Drawable
<1> QED
  BY <1>1, <1>2, <1>4, <1>5 DEF frame

\* Rows of a strip lie in the memory that is mapped.
LEMMA StripIsMapped ==
    ASSUME Typed, kernel \in Kernels, from_kernel(kernel), NEW rect, Strip(rect)
    PROVE  RowsInMapping(rect)
<1>. DEFINE L == kernel.line_length
            xo == kernel.xoffset
            yo == kernel.yoffset
<1>1. L \in Nat \ {0} /\ xo \in Nat /\ yo \in Nat /\ xo + width <= L
  BY Lines
<1>2. /\ rect.x = 0 /\ rect.width = LayoutWidth /\ rect.y \in Nat /\ rect.height \in Nat
      /\ rect.y + rect.height <= LayoutHeight
      /\ LayoutWidth \in Nat /\ LayoutHeight \in Nat
      /\ LayoutWidth <= width /\ LayoutHeight <= height /\ width \in Nat /\ height \in Nat
  BY StripSize, GeometryAssumption DEF Typed, WindowSizes
<1>3. visible_mapping_len(kernel) = L * (yo + height)
  BY DEF visible_mapping_len
<1>. HIDE DEF L, xo, yo
<1>4. ASSUME NEW row \in 0 .. rect.height - 1
      PROVE  (yo + rect.y + row) * L + xo + rect.x + rect.width <= L * (yo + height)
  <2>. DEFINE line == yo + rect.y + row
  <2>1. line \in Nat /\ line + 1 <= yo + height /\ yo + height \in Nat
    BY <1>1, <1>2, SMT
  <2>. HIDE DEF line
  <2>2. line * L + L = L * (line + 1) /\ line * L \in Nat /\ L * (yo + height) \in Nat
    BY <1>1, <2>1, SMT
  <2>3. L * (line + 1) <= L * (yo + height)
    BY <1>1, <2>1, SMT
  <2>4. xo + rect.x + rect.width <= L
    BY <1>1, <1>2, SMT
  <2>5. line * L + xo + rect.x + rect.width <= L * (yo + height)
    BY <1>1, <1>2, <2>2, <2>3, <2>4, SMT
  <2> QED
    BY <2>5 DEF line
<1> QED
  BY <1>3, <1>4 DEF RowsInMapping, RowOffset, L, xo, yo

\* An update of a strip with rows is one the kernel is asked for.
LEMMA StripIsSubmitted ==
    ASSUME Ready, display = "mxcfb", next_marker # 0, NEW rect, Strip(rect), rect.height > 0
    PROVE  /\ RowsInMapping(rect) /\ ValidRegion(rect) /\ Submits(rect)
<1>1. Typed /\ kernel \in Kernels /\ from_kernel(kernel)
  BY DEF Ready
<1>2. RowsInMapping(rect)
  BY <1>1, StripIsMapped
<1>3. LayoutWidth > 0
  BY <1>1, LayoutSizes, GeometryAssumption, SMT
<1>4. /\ rect.x = 0 /\ rect.width = LayoutWidth /\ rect.y \in Nat /\ rect.height \in Nat
      /\ rect.y + rect.height <= LayoutHeight
      /\ LayoutWidth \in Nat /\ LayoutHeight \in Nat
      /\ LayoutWidth <= width /\ LayoutHeight <= height /\ width \in Nat /\ height \in Nat
  BY <1>1, StripSize, GeometryAssumption DEF Typed, WindowSizes
<1>5. ValidRegion(rect)
  BY <1>3, <1>4, SMT DEF ValidRegion
<1> QED
  BY <1>2, <1>5 DEF Submits

\* The frame of a picture fits the viewport it was made for.
LEMMA FrameIsPrepared ==
    ASSUME Ready, display = "mxcfb", NEW picture
    PROVE  prepare_remote(FrameOf(picture))
<1>1. Typed /\ kernel \in Kernels /\ from_kernel(kernel)
  BY DEF Ready
<1>2. RowsInMapping(remote_viewport)
  BY <1>1, StripIsMapped DEF Strip
<1>3. /\ FrameOf(picture).width = remote_viewport.width
      /\ FrameOf(picture).height = remote_viewport.height
  BY DEF FrameOf, remote_viewport, Rect
<1>4. remote_viewport.y + remote_viewport.height <= system_ui_region.y
  <2>1. RemoteHeight \in Nat
    BY <1>1, LayoutSizes, GeometryAssumption, SMT
  <2> QED
    BY <2>1, SMT DEF remote_viewport, system_ui_region, Rect
<1> QED
  BY <1>1, <1>2, <1>3, <1>4 DEF prepare_remote, from_kernel

\* A marker is never zero, after the last one neither.
LEMMA MarkerStays ==
    ASSUME next_marker \in 1 .. MARKERS - 1
    PROVE  MarkerAfter(next_marker) \in 1 .. MARKERS - 1
  BY FramebufferAssumption, SMT DEF MarkerAfter

-----------------------------------------------------------------------------
(* The picture on the panel.                                               *)

\* Nothing failed without a cause; what is retained can be drawn by the
\* backend, whose layout has a viewport; what was reported as displayed is
\* what is seen.  A marker that may be submitted is at hand, and the server
\* is one whose bitmaps PaperPad can make.
PictureOnPanel ==
    /\ ~unexplained
    /\ display \notin {"x11", "mxcfb"} => shown = NoPicture /\ cached = NoPicture
    /\ display = "x11" => xserver \in XServers /\ AdapterFor(xserver) /\ RemoteHeight > 0
    /\ display = "mxcfb" => next_marker \in 1 .. MARKERS - 1
    /\ cached # NoPicture =>
           Drawable(cached) /\ (display = "x11" => cached.format = "Mono1")
    /\ shown # NoPicture =>
           \A p \in Points(remote_viewport) : panel[p] = shown.ink[p]

LEMMA ViewportStays ==
    ASSUME UNCHANGED touchVars
    PROVE  /\ RemoteHeight' = RemoteHeight
           /\ Points(remote_viewport)' = Points(remote_viewport)
           /\ \A picture : Drawable(picture)' = Drawable(picture)
<1>1. width' = width /\ height' = height
  BY DEF touchVars
<1>2. LayoutWidth' = LayoutWidth /\ RemoteHeight' = RemoteHeight
  BY <1>1 DEF LayoutWidth, LayoutHeight, SystemHeight, RemoteHeight
<1>3. Points(remote_viewport)' = Points(remote_viewport)
  BY <1>2 DEF Points, remote_viewport, Rect
<1> QED
  BY <1>2, <1>3 DEF Drawable

\* Presenting a picture shows it, and does not fail but for the kernel.
LEMMA PresentShowsPicture ==
    ASSUME Ready, PictureOnPanel, UNCHANGED <<touchVars, xserver>>,
           NEW picture, Drawable(picture), NEW accepted \in BOOLEAN,
           PresentRemote(picture, accepted)
    PROVE  PictureOnPanel'
<1>. DEFINE frame == FrameOf(picture)
            result == Result(remote_viewport, prepare_remote(frame), accepted)
<1>1. Typed /\ display = "mxcfb" /\ display' = "mxcfb" /\ RemoteHeight > 0
  BY DEF PresentRemote, MayDraw, Drawn, Ready, from_kernel
<1>2. RemoteFrames(picture) = {frame}
  BY <1>1, PicturesArrive
<1>3. /\ Present(remote_viewport, prepare_remote(frame), NativePixels(frame), accepted)
      /\ Drawn(picture, result)
      /\ shown' = IF result = "ok" THEN picture ELSE shown
  BY <1>2 DEF PresentRemote
<1>4. next_marker \in 1 .. MARKERS - 1 /\ next_marker # 0
  BY <1>1, FramebufferAssumption DEF PictureOnPanel
<1>5. prepare_remote(frame)
  BY <1>1, FrameIsPrepared
<1>6. /\ RowsInMapping(remote_viewport) /\ ValidRegion(remote_viewport)
      /\ Submits(remote_viewport)
  <2>1. remote_viewport.height > 0
    BY <1>1 DEF remote_viewport, Rect
  <2> QED
    BY <1>1, <1>4, <2>1, StripIsSubmitted DEF Strip
<1>7. result = IF accepted THEN "ok" ELSE "fault"
  BY <1>5, <1>6 DEF Result
<1>8. /\ next_marker' = MarkerAfter(next_marker)
      /\ memory' = Written(remote_viewport, NativePixels(frame))
      /\ panel' = IF accepted THEN Refreshed(remote_viewport) ELSE panel
  BY <1>3, <1>5, <1>6 DEF Present
<1>9. next_marker' \in 1 .. MARKERS - 1
  BY <1>4, <1>8, MarkerStays
<1>10. ~unexplained'
  BY <1>3, <1>7 DEF Drawn, PictureOnPanel
<1>11. /\ Points(remote_viewport)' = Points(remote_viewport)
       /\ \A any : Drawable(any)' = Drawable(any)
  BY ViewportStays
<1>12. CASE accepted
  <2>1. shown' = picture /\ cached' = picture
    BY <1>3, <1>7, <1>12 DEF Drawn
  <2>2. ASSUME NEW p \in Points(remote_viewport) PROVE panel'[p] = picture.ink[p]
    <3>1. Refreshed(remote_viewport)[p] = NativePixels(frame)[p]
      BY <1>1, <1>8, WrittenIsShown DEF Strip
    <3>2. NativePixels(frame)[p] = picture.ink[p]
      BY <1>1, NativePixelsOfPicture
    <3> QED
      BY <1>8, <1>12, <3>1, <3>2
  <2>3. Drawable(cached')
    BY <2>1
  <2> QED
    BY <1>1, <1>9, <1>10, <1>11, <2>1, <2>2 DEF PictureOnPanel
<1>13. CASE ~accepted
  <2>1. shown' = shown /\ cached' = cached /\ panel' = panel
    BY <1>3, <1>7, <1>8, <1>13 DEF Drawn
  <2> QED
    BY <1>1, <1>9, <1>10, <1>11, <2>1 DEF PictureOnPanel
<1> QED
  BY <1>12, <1>13

\* Presenting the strip leaves it.
LEMMA StripLeavesPicture ==
    ASSUME Ready, PictureOnPanel, UNCHANGED <<touchVars, xserver>>,
           NEW connected \in BOOLEAN, NEW accepted \in BOOLEAN,
           PresentSystemUi(connected, accepted)
    PROVE  PictureOnPanel'
<1>. DEFINE result == Result(system_ui_region, TRUE, accepted)
            strip == rasterize_system_ui(connected)
<1>1. /\ Typed /\ display = "mxcfb" /\ display' = "mxcfb" /\ shown' = shown
      /\ Present(system_ui_region, TRUE, strip, accepted) /\ Drawn(cached, result)
      /\ DOMAIN panel = Points(Window)
  BY DEF PresentSystemUi, MayDraw, Drawn, Ready
<1>2. next_marker \in 1 .. MARKERS - 1 /\ next_marker # 0
  BY <1>1, FramebufferAssumption DEF PictureOnPanel
<1>3. /\ RowsInMapping(system_ui_region) /\ ValidRegion(system_ui_region)
      /\ Submits(system_ui_region)
  <2>1. system_ui_region.height > 0
    BY <1>1, LayoutSizes DEF system_ui_region, Rect
  <2> QED
    BY <1>1, <1>2, <2>1, StripIsSubmitted DEF Strip
<1>4. result \in {"ok", "fault"} /\ next_marker' = MarkerAfter(next_marker)
  BY <1>1, <1>3 DEF Result, Present
<1>5. next_marker' \in 1 .. MARKERS - 1 /\ ~unexplained' /\ cached' = cached
  BY <1>1, <1>2, <1>4, MarkerStays DEF Drawn, PictureOnPanel
<1>6. ASSUME NEW p \in Points(remote_viewport) PROVE panel'[p] = panel[p]
  <2>1. p \in DOMAIN panel /\ p[2] < 0 + RemoteHeight /\ p[2] \in Nat
    <3>1. remote_viewport.y = 0 /\ remote_viewport.height = RemoteHeight
      BY DEF remote_viewport, Rect
    <3> QED
      BY <1>1, <3>1, StripPointsInWindow DEF Strip
  <2>2. p \notin Points(system_ui_region)
    <3>1. system_ui_region.y = RemoteHeight /\ RemoteHeight \in Nat
      BY <1>1, LayoutSizes, GeometryAssumption DEF system_ui_region, Rect
    <3>2. p \in Points(system_ui_region) => RemoteHeight <= p[2]
      BY <1>1, <3>1, StripPointsInWindow DEF Strip
    <3> QED
      BY <2>1, <3>1, <3>2, SMT
  <2> QED
    BY <1>1, <2>1, <2>2, PresentRefreshesStrip DEF Strip
<1>7. /\ Points(remote_viewport)' = Points(remote_viewport)
      /\ \A any : Drawable(any)' = Drawable(any)
  BY ViewportStays
<1> QED
  BY <1>1, <1>5, <1>6, <1>7 DEF PictureOnPanel

\* Nothing is shown or retained when the framebuffer is opened.
LEMMA OpenedWithoutPicture ==
    ASSUME PictureOnPanel, UNCHANGED <<touchVars, xserver>>,
           NEW k \in Kernels, OpenFramebuffer(k)
    PROVE  PictureOnPanel'
<1>1. shown' = NoPicture /\ cached' = NoPicture /\ ~unexplained'
  BY DEF OpenFramebuffer, PictureOnPanel
<1>2. display' \in {"mxcfb", "refused"}
  BY DEF OpenFramebuffer
<1>3. ASSUME display' = "mxcfb" PROVE next_marker' \in 1 .. MARKERS - 1
  <2>1. PICK process_id \in 0 .. MARKERS - 1 : next_marker' = from_seed(process_id)
    BY <1>3 DEF OpenFramebuffer
  <2> QED
    BY <2>1, FramebufferAssumption, SMT DEF from_seed
<1> QED
  BY <1>1, <1>2, <1>3 DEF PictureOnPanel

-----------------------------------------------------------------------------
(* Pictures in X11 bitmaps.                                                *)

\* The numbers of a server that PaperPad makes bitmaps for.
Served == xserver \in XServers /\ AdapterFor(xserver)

LEMMA ServerNumbers ==
    ASSUME Served
    PROVE  /\ xserver.unit \in {8, 16, 32} /\ xserver.pad \in {8, 16, 32}
           /\ xserver.unit <= xserver.pad
           /\ xserver.max_request \in Nat
           /\ xserver.max_request > PUT_IMAGE_REQUEST_HEADER_BYTES
  BY BitmapUploadAssumption DEF Served, AdapterFor

\* Where a byte of the unit of a column is in a padded row.
UnitPlaced(u, pad, w, column, byte) ==
    LET i == (column \div u) * (u \div 8) + byte
    IN  /\ i \in 0 .. ((((w + pad - 1) \div pad) * pad) \div 8) - 1
        /\ i \div (u \div 8) = column \div u /\ i % (u \div 8) = byte

\* The unit of a column lies in the bytes of a row, and its bits in its bytes.
LEMMA UnitInRow ==
    ASSUME NEW u \in {8, 16, 32}, NEW pad \in {8, 16, 32}, u <= pad,
           NEW w \in Nat \ {0}, NEW column \in 0 .. w - 1, NEW byte \in 0 .. (u \div 8) - 1
    PROVE  UnitPlaced(u, pad, w, column, byte)
<1>1. column \in Nat /\ column < w
  BY SMT
<1>2. CASE u = 8
  <2>1. byte = 0 /\ u \div 8 = 1
    BY <1>2, SMT
  <2>2. CASE pad = 8
    BY <1>1, <1>2, <2>1, <2>2, SMT DEF UnitPlaced
  <2>3. CASE pad = 16
    BY <1>1, <1>2, <2>1, <2>3, SMT DEF UnitPlaced
  <2>4. CASE pad = 32
    BY <1>1, <1>2, <2>1, <2>4, SMT DEF UnitPlaced
  <2> QED
    BY <2>2, <2>3, <2>4
<1>3. CASE u = 16
  <2>1. byte \in 0 .. 1 /\ u \div 8 = 2
    BY <1>3, SMT
  <2>3. CASE pad = 16
    BY <1>1, <1>3, <2>1, <2>3, SMT DEF UnitPlaced
  <2>4. CASE pad = 32
    BY <1>1, <1>3, <2>1, <2>4, SMT DEF UnitPlaced
  <2> QED
    BY <1>3, <2>3, <2>4, SMT
<1>4. CASE u = 32
  <2>1. byte \in 0 .. 3 /\ u \div 8 = 4 /\ pad = 32
    BY <1>4, SMT
  <2> QED
    BY <1>1, <1>4, <2>1, SMT DEF UnitPlaced
<1> QED
  BY <1>2, <1>3, <1>4, SMT

\* A bit of a unit, by significance: in the order of the columns or against it.
Significance(column) ==
    LET offset == column % xserver.unit
    IN  IF xserver.bit_order = "LSB" THEN offset ELSE xserver.unit - 1 - offset

LEMMA UnitBits ==
    ASSUME NEW u \in {8, 16, 32}, NEW column \in Nat
    PROVE  /\ column % u \in 0 .. u - 1
           /\ u - 1 - (column % u) \in 0 .. u - 1
           /\ u - 1 - (u - 1 - (column % u)) = column % u
           /\ (column \div u) * u + (column % u) = column
<1>1. column % u \in 0 .. u - 1 /\ (column \div u) * u + (column % u) = column
  <2>1. CASE u = 8
    BY <2>1, SMT
  <2>2. CASE u = 16
    BY <2>2, SMT
  <2>3. CASE u = 32
    BY <2>3, SMT
  <2> QED
    BY <2>1, <2>2, <2>3
<1> QED
  BY <1>1, SMT

LEMMA BytesOfUnit ==
    ASSUME NEW u \in {8, 16, 32}, NEW bit \in 0 .. u - 1
    PROVE  /\ bit \div 8 \in 0 .. (u \div 8) - 1
           /\ (u \div 8) - 1 - (bit \div 8) \in 0 .. (u \div 8) - 1
           /\ (u \div 8) - 1 - ((u \div 8) - 1 - (bit \div 8)) = bit \div 8
           /\ bit % 8 \in 0 .. 7 /\ 7 - (7 - (bit % 8)) = bit % 8
           /\ (bit \div 8) * 8 + 7 - (7 - (bit % 8)) = bit
           /\ \A offset \in 0 .. 7 : (bit \div 8) * 8 + 7 - offset \in 0 .. u - 1
  BY SMT

\* The server reads from a prepared row what the frame has in it, whatever its
\* order of bytes and of bits, its unit and its padding.
LEMMA ServerReadsFrame ==
    ASSUME Served, NEW frame, frame.width \in Nat \ {0}, frame.height \in Nat,
           NEW column \in 0 .. frame.width - 1, NEW row \in 0 .. frame.height - 1,
           \A c \in 0 .. frame.width - 1 :
               Mono1Pixel(frame.width, frame.pixels, c, row) \in {0, 1}
    PROVE  ServerPixel(prepare(frame)[row], column) =
               Mono1Pixel(frame.width, frame.pixels, column, row)
<1>. DEFINE u == xserver.unit
            w == frame.width
            lsb == xserver.byte_order = "LSB"
            unit == column \div u
            bit == Significance(column)
            byte == IF lsb THEN bit \div 8 ELSE (u \div 8) - 1 - (bit \div 8)
            i == unit * (u \div 8) + byte
            j == 7 - (bit % 8)
            bits == encode_unit(frame, row, unit * u)
<1>1. u \in {8, 16, 32} /\ xserver.pad \in {8, 16, 32} /\ u <= xserver.pad
  BY ServerNumbers
<1>2. w \in Nat \ {0} /\ column \in Nat /\ column < w
  BY SMT
<1>3. /\ column % u \in 0 .. u - 1
      /\ u - 1 - (column % u) \in 0 .. u - 1
      /\ u - 1 - (u - 1 - (column % u)) = column % u
      /\ unit * u + (column % u) = column
  BY <1>1, <1>2, UnitBits
<1>4. bit = IF xserver.bit_order = "LSB" THEN column % u ELSE u - 1 - (column % u)
  BY DEF Significance
<1>5. bit \in 0 .. u - 1
  BY <1>3, <1>4
<1>6. /\ unit * u + (IF xserver.bit_order = "LSB" THEN bit ELSE u - 1 - bit) = column
  BY <1>3, <1>4
<1>. HIDE DEF bit
<1>7. /\ bit \div 8 \in 0 .. (u \div 8) - 1
      /\ (u \div 8) - 1 - (bit \div 8) \in 0 .. (u \div 8) - 1
      /\ (u \div 8) - 1 - ((u \div 8) - 1 - (bit \div 8)) = bit \div 8
      /\ bit % 8 \in 0 .. 7 /\ 7 - (7 - (bit % 8)) = bit % 8
      /\ (bit \div 8) * 8 + 7 - (7 - (bit % 8)) = bit
      /\ \A offset \in 0 .. 7 : (bit \div 8) * 8 + 7 - offset \in 0 .. u - 1
  BY <1>1, <1>5, BytesOfUnit
<1>8. byte \in 0 .. (u \div 8) - 1
  BY <1>7
<1>9. /\ i \in 0 .. row_stride(w) - 1
      /\ i \div (u \div 8) = unit /\ i % (u \div 8) = byte
  <2>. DEFINE pad == xserver.pad
  <2>1. row_stride(w) = (((w + pad - 1) \div pad) * pad) \div 8
    BY DEF row_stride
  <2>2. column \in 0 .. w - 1 /\ pad \in {8, 16, 32} /\ u <= pad
    BY <1>1
  <2>3. UnitPlaced(u, pad, w, column, byte)
    <3>. HIDE DEF u, w, pad, byte
    <3> QED
      BY <1>1, <1>2, <1>8, <2>2, UnitInRow
  <2>. HIDE DEF u, w, pad, byte
  <2> QED
    BY <2>1, <2>3 DEF UnitPlaced
<1>10. prepare(frame)[row][i] = write_unit(bits, byte)
  BY <1>9 DEF prepare
<1>. DEFINE octet == [offset \in 0 .. 7 |-> bits[(bit \div 8) * 8 + 7 - offset]]
<1>11. write_unit(bits, byte) = Octet(octet)
  BY <1>7 DEF write_unit
<1>12. ASSUME NEW b \in 0 .. u - 1
       PROVE  LET c == unit * u + (IF xserver.bit_order = "LSB" THEN b ELSE u - 1 - b)
              IN  /\ c \in Nat
                  /\ bits[b] = IF c < w THEN Mono1Pixel(w, frame.pixels, c, row) ELSE 0
  <2>1. unit * u \in Nat
    <3>1. unit \in Nat /\ u \in Nat
      BY <1>1, <1>2, SMT
    <3> QED
      BY <3>1, SMT
  <2>2. b \in Nat /\ u - 1 - b \in Nat
    BY <1>1, SMT
  <2>. HIDE DEF unit
  <2> QED
    BY <2>1, <2>2 DEF encode_unit
<1>13. ASSUME NEW b \in 0 .. u - 1 PROVE bits[b] \in {0, 1}
  <2>. DEFINE c == unit * u + (IF xserver.bit_order = "LSB" THEN b ELSE u - 1 - b)
  <2>1. c \in Nat /\ bits[b] = IF c < w THEN Mono1Pixel(w, frame.pixels, c, row) ELSE 0
    BY <1>12
  <2>. HIDE DEF c, bits
  <2>2. c < w => c \in 0 .. w - 1
    BY <1>2, <2>1, SMT
  <2> QED
    BY <2>1, <2>2
<1>14. bits[bit] = Mono1Pixel(w, frame.pixels, column, row)
  BY <1>2, <1>5, <1>6, <1>12
<1>. HIDE DEF bits
<1>15. EightBits(octet)
  BY <1>7, <1>13 DEF EightBits
<1>16. j \in 0 .. 7 /\ octet[j] = bits[bit]
  BY <1>7
<1>. HIDE DEF octet
<1>17. (Octet(octet) \div (2^(7 - j))) % 2 = bits[bit]
  BY <1>15, <1>16, OctetBits
<1>18. ServerPixel(prepare(frame)[row], column) =
           (prepare(frame)[row][i] \div (2^(bit % 8))) % 2
  BY DEF ServerPixel, Significance, bit
<1> QED
  BY <1>7, <1>10, <1>11, <1>14, <1>17, <1>18

-----------------------------------------------------------------------------
(* Chunks of rows.                                                         *)

LEMMA StrideOfServer ==
    ASSUME Served, NEW w \in Nat \ {0}
    PROVE  row_stride(w) \in Nat \ {0}
<1>1. xserver.pad \in {8, 16, 32}
  BY ServerNumbers
<1>2. CASE xserver.pad = 8
  BY <1>2, SMT DEF row_stride
<1>3. CASE xserver.pad = 16
  BY <1>3, SMT DEF row_stride
<1>4. CASE xserver.pad = 32
  BY <1>4, SMT DEF row_stride
<1> QED
  BY <1>1, <1>2, <1>3, <1>4

\* No more rows than fit keep a request within its limit, rounded up to words.
LEMMA RequestFits ==
    ASSUME NEW n \in Nat, NEW s \in Nat \ {0}, NEW room \in Nat,
           n <= ((room \div 4) * 4) \div s
    PROVE  ((n * s + 3) \div 4) * 4 <= room
<1>. DEFINE q == room \div 4
            d == (q * 4) \div s
            r == (q * 4) % s
            length == n * s
<1>1. q \in Nat /\ q * 4 <= room
  BY SMT
<1>2. d \in Nat /\ r \in Nat /\ q * 4 = d * s + r
  <2>. HIDE DEF q
  <2> QED
    BY <1>1, SMT
<1>3. length \in Nat /\ length <= d * s /\ d * s \in Nat
  <2>. HIDE DEF d
  <2>1. n <= d
    BY DEF d
  <2> QED
    BY <1>2, <2>1, SMT
<1>4. length <= q * 4
  <2>. HIDE DEF d, r, q, length
  <2>1. d * s \in Nat
    BY <1>3
  <2> QED
    BY <1>1, <1>2, <1>3, SMT
<1>5. ((length + 3) \div 4) * 4 <= room
  <2>. HIDE DEF length, q
  <2> QED
    BY <1>1, <1>3, <1>4, SMT
<1> QED
  BY <1>5

\* The server accepts every chunk, and every row of the viewport is in one.
LEMMA ChunksAccepted ==
    ASSUME Served, Typed, RemoteHeight > 0, rows_per_chunk > 0
    PROVE  /\ \A first \in Chunks : ServerAccepts(Cardinality(ChunkRows(first)))
           /\ \A row \in 0 .. RemoteHeight - 1 : RowOfChunk(row) \in Chunks
<1>. DEFINE k == rows_per_chunk
            s == row_stride(LayoutWidth)
            room == xserver.max_request - PUT_IMAGE_REQUEST_HEADER_BYTES
<1>1. LayoutWidth \in Nat \ {0} /\ RemoteHeight \in Nat
  BY LayoutSizes, GeometryAssumption, SMT
<1>2. s \in Nat \ {0}
  BY <1>1, StrideOfServer
<1>3. room \in Nat /\ xserver.max_request = PUT_IMAGE_REQUEST_HEADER_BYTES + room
  BY ServerNumbers, SMT DEF PUT_IMAGE_REQUEST_HEADER_BYTES
<1>4. maximum_data_bytes = (room \div 4) * 4
  BY DEF maximum_data_bytes
<1>. DEFINE d == maximum_data_bytes \div s
<1>5. d \in Nat /\ d = ((room \div 4) * 4) \div s
  <2>. HIDE DEF room, s
  <2>1. (room \div 4) * 4 \in Nat
    BY <1>3, SMT
  <2> QED
    BY <1>2, <1>4, <2>1, SMT
<1>6. k \in Nat \ {0} /\ k <= d
  <2>1. k = Least(d, MAX_SIZE)
    BY DEF rows_per_chunk
  <2>. HIDE DEF k, d
  <2> QED
    BY <1>5, <2>1, GeometryAssumption, SMT DEF Least, k
<1>. HIDE DEF k, d, s, room
<1>7. ASSUME NEW first \in Chunks PROVE ServerAccepts(Cardinality(ChunkRows(first)))
  <2>. DEFINE n == Cardinality(ChunkRows(first))
              last == Least(first + k, RemoteHeight) - 1
  <2>1. first \in Nat /\ first < RemoteHeight
    BY <1>1, SMT DEF Chunks
  <2>2. last \in Int /\ last - first + 1 \in Nat /\ last - first + 1 <= k /\ ~(first > last)
    BY <1>1, <1>6, <2>1, SMT DEF Least
  <2>3. n = last - first + 1
    BY <2>1, <2>2, FS_Interval DEF ChunkRows, k
  <2>4. n \in Nat /\ n <= d
    <3>. HIDE DEF n, last
    <3> QED
      BY <1>5, <1>6, <2>1, <2>2, <2>3, SMT
  <2>. HIDE DEF n
  <2>5. ((n * s + 3) \div 4) * 4 <= room
    BY <1>2, <1>3, <1>5, <2>4, RequestFits
  <2>6. ((n * s + 3) \div 4) * 4 \in Int
    BY <1>2, <2>4, SMT
  <2>7. RequestLength(n) = PUT_IMAGE_REQUEST_HEADER_BYTES + ((n * s + 3) \div 4) * 4
    BY DEF RequestLength, s
  <2>8. RequestLength(n) <= xserver.max_request
    BY <1>3, <2>5, <2>6, <2>7, SMT DEF PUT_IMAGE_REQUEST_HEADER_BYTES
  <2> QED
    BY <2>8 DEF ServerAccepts, n
<1>8. ASSUME NEW row \in 0 .. RemoteHeight - 1 PROVE RowOfChunk(row) \in Chunks
  <2>. DEFINE q == row \div k
              r == row % k
  <2>1. row \in Nat /\ row < RemoteHeight
    BY <1>1, SMT
  <2>2. q \in Nat /\ r \in Nat /\ row = q * k + r
    BY <1>6, <2>1, SMT
  <2>. HIDE DEF q, r
  <2>3. q * k \in Nat
    BY <1>6, <2>2, SMT
  <2>4. q * k <= row
    BY <2>1, <2>2, <2>3, SMT
  <2>5. (q * k) % k = 0
    <3>1. PICK zero \in 0 .. k - 1 : zero = 0
      BY <1>6, SMT
    <3>2. q \in Int
      BY <2>2, SMT
    <3>3. (q * k + zero) % k = zero
      BY <1>6, <3>2, LineAndColumn
    <3> QED
      BY <2>3, <3>1, <3>3, SMT
  <2>6. q * k \in 0 .. RemoteHeight - 1
    BY <1>1, <2>1, <2>3, <2>4, SMT
  <2> QED
    BY <2>5, <2>6 DEF Chunks, RowOfChunk, q, k
<1> QED
  BY <1>7, <1>8

\* The window shows the picture where the server drew its bitmap.
LEMMA BlittedIsPicture ==
    ASSUME Served, Typed, RemoteHeight > 0, rows_per_chunk > 0,
           NEW picture, Drawable(picture), picture.format = "Mono1", NEW other,
           NEW p \in Points(remote_viewport)
    PROVE  Blitted(prepare(FrameOf(picture)), Chunks, other)[p] = picture.ink[p]
<1>. DEFINE frame == FrameOf(picture)
            pixel(column, row) == Mono1Pixel(LayoutWidth, frame.pixels, column, row)
<1>1. LayoutWidth \in Nat \ {0} /\ RemoteHeight \in Nat
  BY LayoutSizes, GeometryAssumption, SMT
<1>2. frame.width = LayoutWidth /\ frame.height = RemoteHeight
  BY DEF FrameOf
<1>3. /\ p = <<p[1], p[2]>>
      /\ p[1] \in 0 .. LayoutWidth - 1 /\ p[2] \in 0 .. RemoteHeight - 1
      /\ picture.ink[p] \in {BLACK, WHITE}
      /\ pixel(p[1], p[2]) = IF picture.ink[p] = BLACK THEN 1 ELSE 0
  BY FramePixels
<1>4. ASSUME NEW c \in 0 .. LayoutWidth - 1 PROVE pixel(c, p[2]) \in {0, 1}
  <2>. DEFINE a == <<c, p[2]>>
  <2>1. a \in Points(remote_viewport)
    BY <1>1, <1>3, SMT DEF Points, remote_viewport, Rect
  <2>2. pixel(a[1], a[2]) = IF picture.ink[a] = BLACK THEN 1 ELSE 0
    BY <2>1, FramePixels
  <2>3. a[1] = c /\ a[2] = p[2]
    OBVIOUS
  <2>. HIDE DEF a, pixel
  <2> QED
    BY <2>2, <2>3
<1>5. ServerPixel(prepare(frame)[p[2]], p[1]) = pixel(p[1], p[2])
  BY <1>1, <1>2, <1>3, <1>4, ServerReadsFrame
<1>6. p \in Points(Window) /\ Contains(remote_viewport, p[1], p[2])
  BY StripPointsInWindow DEF Strip
<1>7. p[2] - remote_viewport.y = p[2] /\ p[1] - remote_viewport.x = p[1]
  BY <1>3, SMT DEF remote_viewport, Rect
<1>8. RowOfChunk(p[2]) \in Chunks
  BY <1>3, ChunksAccepted
<1>9. Blitted(prepare(frame), Chunks, other)[p] = IF pixel(p[1], p[2]) = 1 THEN BLACK ELSE WHITE
  BY <1>5, <1>6, <1>7, <1>8 DEF Blitted
<1>. HIDE DEF pixel, frame
<1>10. CASE picture.ink[p] = BLACK
  BY <1>3, <1>9, <1>10 DEF frame
<1>11. CASE picture.ink[p] # BLACK
  BY <1>3, <1>9, <1>11 DEF frame
<1> QED
  BY <1>10, <1>11

\* An upload shows the picture, and fails only when a chunk is lost.
LEMMA BlitShowsPicture ==
    ASSUME Ready, PictureOnPanel, UNCHANGED <<touchVars, framebufferVars, xserver>>,
           NEW picture, Drawable(picture), picture.format = "Mono1",
           NEW other, NEW how, NEW lost, MayBlit(how, lost),
           Blit(picture, other, how, lost)
    PROVE  PictureOnPanel'
<1>. DEFINE frame == FrameOf(picture)
            chunks == Uploaded(how, lost)
            result == BlitResult(how, chunks)
<1>1. /\ Typed /\ display = "x11" /\ rows_per_chunk > 0
      /\ Served /\ RemoteHeight > 0
  BY DEF MayBlit, MayDraw, Ready, PictureOnPanel, Served
<1>2. RemoteFrames(picture) = {frame}
  BY <1>1, PicturesArrive
<1>3. /\ panel' = Blitted(prepare(frame), chunks, other)
      /\ Drawn(picture, result)
      /\ shown' = IF result = "ok" THEN picture ELSE NoPicture
  BY <1>2 DEF Blit
<1>4. how = "none" => chunks = Chunks
  BY <1>1, ChunksAccepted DEF Uploaded
<1>5. how = "none" => result = "ok"
  BY <1>4 DEF BlitResult
<1>6. how # "none" => result = "fault"
  BY DEF BlitResult
<1>7. display' = "x11" /\ ~unexplained'
  BY <1>1, <1>3, <1>5, <1>6 DEF Drawn, PictureOnPanel
<1>8. /\ Points(remote_viewport)' = Points(remote_viewport) /\ RemoteHeight' = RemoteHeight
      /\ \A any : Drawable(any)' = Drawable(any)
  BY ViewportStays
<1>9. AdapterFor(xserver)' /\ xserver' \in XServers
  BY <1>1 DEF AdapterFor, Served
<1>10. CASE how = "none"
  <2>1. shown' = picture /\ cached' = picture
    BY <1>3, <1>5, <1>10 DEF Drawn
  <2>2. ASSUME NEW p \in Points(remote_viewport) PROVE panel'[p] = picture.ink[p]
    BY <1>1, <1>3, <1>4, <1>10, BlittedIsPicture
  <2>3. Drawable(cached')
    BY <2>1
  <2> QED
    BY <1>1, <1>7, <1>8, <1>9, <2>1, <2>2 DEF PictureOnPanel
<1>11. CASE how # "none"
  <2>1. shown' = NoPicture /\ cached' = cached
    BY <1>3, <1>6, <1>11 DEF Drawn
  <2> QED
    BY <1>1, <1>7, <1>8, <1>9, <2>1 DEF PictureOnPanel
<1> QED
  BY <1>10, <1>11

-----------------------------------------------------------------------------
(* Steps of the screen.                                                    *)

\* Whatever is asked of the X backend.
LEMMA ServerKeepsPicture ==
    ASSUME Ready, PictureOnPanel, DrawOnServer
    PROVE  PictureOnPanel'
<1>1. UNCHANGED touchVars /\ UNCHANGED framebufferVars /\ Typed
  BY DEF DrawOnServer, Ready
<1>2. ASSUME NEW server \in XServers, ConnectServer(server)
      PROVE  PictureOnPanel'
  <2>1. /\ display' \in {"x11", "refused"} /\ xserver' = server
        /\ shown' = NoPicture /\ cached' = NoPicture /\ ~unexplained'
        /\ display' = "x11" => AdapterFor(server)
    BY <1>2 DEF ConnectServer, PictureOnPanel
  <2>2. display' = "x11" => AdapterFor(xserver)'
    BY <2>1 DEF AdapterFor
  <2>3. RemoteHeight' > 0
    <3>1. LayoutHeight > SYSTEM_UI_HEIGHT
      BY <1>2 DEF ConnectServer
    <3>2. RemoteHeight > 0
      BY <1>1, <3>1, GeometryAssumption, LayoutSizes, SMT
         DEF RemoteHeight, SystemHeight, Least
    <3>3. RemoteHeight' = RemoteHeight
      BY <1>1, ViewportStays
    <3> QED
      BY <3>2, <3>3
  <2> QED
    BY <2>1, <2>2, <2>3 DEF PictureOnPanel
<1>3. ASSUME NEW how, NEW lost, NEW picture \in Pictures, DisplayFrame(picture, how, lost)
      PROVE  PictureOnPanel'
  BY <1>1, <1>3, PicturesAreDrawable, BlitShowsPicture DEF DisplayFrame
<1>4. ASSUME NEW how, NEW lost, RedrawFrame(how, lost)
      PROVE  PictureOnPanel'
  <2>1. Drawable(cached) /\ cached.format = "Mono1"
    BY <1>4 DEF RedrawFrame, MayBlit, MayDraw, PictureOnPanel
  <2> QED
    BY <1>1, <1>4, <2>1, BlitShowsPicture DEF RedrawFrame
<1> QED
  BY <1>2, <1>3, <1>4 DEF DrawOnServer

LEMMA FramebufferKeepsPicture ==
    ASSUME Ready, PictureOnPanel, DrawOnFramebuffer
    PROVE  PictureOnPanel'
<1>1. UNCHANGED <<touchVars, xserver>>
  BY DEF DrawOnFramebuffer
<1>2. ASSUME NEW k \in Kernels, OpenFramebuffer(k)
      PROVE  PictureOnPanel'
  BY <1>1, <1>2, OpenedWithoutPicture
<1>3. ASSUME NEW picture \in Pictures, NEW accepted \in BOOLEAN,
             PresentRemote(picture, accepted)
      PROVE  PictureOnPanel'
  BY <1>1, <1>3, PicturesAreDrawable, PresentShowsPicture
<1>4. ASSUME NEW connected \in BOOLEAN, NEW accepted \in BOOLEAN,
             PresentSystemUi(connected, accepted)
      PROVE  PictureOnPanel'
  BY <1>1, <1>4, StripLeavesPicture
<1> QED
  BY <1>2, <1>3, <1>4 DEF DrawOnFramebuffer

LEMMA PictureStarts == ScreenInit => PictureOnPanel
  BY DEF ScreenInit, PictureInit, PictureOnPanel

LEMMA PictureStep ==
    ASSUME Ready, PictureOnPanel, [Touched \/ Draw]_screenVars
    PROVE  PictureOnPanel'
<1>1. CASE Touched
  BY <1>1 DEF Touched, pictureVars, PictureOnPanel
<1>2. CASE Draw
  BY <1>2, FramebufferKeepsPicture, ServerKeepsPicture DEF Draw
<1>3. CASE UNCHANGED screenVars
  <2>1. /\ UNCHANGED touchVars /\ UNCHANGED pictureVars
        /\ xserver' = xserver /\ next_marker' = next_marker
    BY <1>3 DEF screenVars, framebufferVars
  <2>2. /\ Points(remote_viewport)' = Points(remote_viewport) /\ RemoteHeight' = RemoteHeight
        /\ \A any : Drawable(any)' = Drawable(any)
    BY <2>1, ViewportStays
  <2>3. AdapterFor(xserver) => AdapterFor(xserver)'
    BY <2>1 DEF AdapterFor
  <2>4. /\ display' = display /\ panel' = panel /\ shown' = shown /\ cached' = cached
        /\ unexplained' = unexplained
    BY <2>1 DEF pictureVars
  <2> QED
    BY <2>1, <2>2, <2>3, <2>4 DEF PictureOnPanel
<1> QED
  BY <1>1, <1>2, <1>3

\* What was reported as displayed is on the screen, point for point, and a
\* drawing that nothing interferes with does not fail: for every window and
\* layout, every kernel report, every X server and every set of pictures.
THEOREM ScreenShowsPictures == ScreenSpec => []PictureIsShown
<1>. DEFINE Inv == Ready /\ PictureOnPanel
<1>1. ScreenInit => Inv
  BY ScreenStartsReady, PictureStarts
<1>2. Inv /\ [Touched \/ Draw]_screenVars => Inv'
  BY ScreenStep, PictureStep
<1>3. Inv => PictureIsShown
  BY DEF PictureOnPanel, PictureIsShown
<1> QED
  BY <1>1, <1>2, <1>3, PTL DEF ScreenSpec
=============================================================================
