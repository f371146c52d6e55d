---------------------------- MODULE TouchGeometry ----------------------------
(***************************************************************************)
(* Where a touch falls: PaperPad's layout of the window (src/ui/screen.rs, *)
(* src/ui/system.rs) and PaperSpoon's layout of the buttons on the remote  *)
(* viewport (tools/paperspoon/src/application_ui.rs).  Pointer positions   *)
(* are signed 16-bit, window sizes unsigned 16-bit; the layout of a window *)
(* is capped at the largest signed coordinate.  PointerPath takes for      *)
(* granted what is shown here about places.                                *)
(***************************************************************************)
EXTENDS Integers

CONSTANTS
    MAX_COORDINATE,                \* i16::MAX
    MAX_SIZE,                      \* u16::MAX
    SYSTEM_UI_HEIGHT,
    CELL_MARGIN,                   \* the same number on both sides
    CONNECTION_INDICATOR_DIAMETER,
    GRID_TOP_INSET,
    STATUS_BAR_HEIGHT

ASSUME GeometryAssumption ==
    /\ MAX_COORDINATE \in Nat \ {0}
    /\ MAX_SIZE \in Nat /\ MAX_SIZE > MAX_COORDINATE
    /\ SYSTEM_UI_HEIGHT \in Nat \ {0}
    /\ CELL_MARGIN \in Nat \ {0}
    /\ CONNECTION_INDICATOR_DIAMETER \in Nat \ {0}
    /\ CONNECTION_INDICATOR_DIAMETER <= SYSTEM_UI_HEIGHT
    /\ GRID_TOP_INSET \in Nat
    /\ STATUS_BAR_HEIGHT \in Nat
    /\ 3 * CELL_MARGIN + CONNECTION_INDICATOR_DIAMETER + 1 <= MAX_COORDINATE
    /\ GRID_TOP_INSET + 4 * CELL_MARGIN + STATUS_BAR_HEIGHT <= MAX_COORDINATE

VARIABLES
    width, height,  \* the size of the window
    touched,        \* it was touched,
    x, y            \* here

vars == <<width, height, touched, x, y>>

WindowSizes == 1 .. MAX_SIZE
Coordinates == -MAX_COORDINATE - 1 .. MAX_COORDINATE

\* The layout depends on nothing but the size the window has now.
Init ==
    /\ width \in WindowSizes /\ height \in WindowSizes
    /\ touched = FALSE /\ x = 0 /\ y = 0

Touch(px, py) ==
    /\ ~touched
    /\ touched' = TRUE
    /\ x' = px /\ y' = py
    /\ UNCHANGED <<width, height>>

Next == \E px \in Coordinates, py \in Coordinates : Touch(px, py)

Spec == Init /\ [][Next]_vars

-----------------------------------------------------------------------------
(* Rectangles are half open.                                               *)

Least(a, b) == IF a <= b THEN a ELSE b

Rect(left, top, w, h) == [x |-> left, y |-> top, width |-> w, height |-> h]

Contains(rect, px, py) ==
    /\ rect.x <= px /\ px < rect.x + rect.width
    /\ rect.y <= py /\ py < rect.y + rect.height

-----------------------------------------------------------------------------
(* ScreenLayout and SystemUi.                                              *)

LayoutWidth == Least(width, MAX_COORDINATE)
LayoutHeight == Least(height, MAX_COORDINATE)

SystemHeight == Least(LayoutHeight, SYSTEM_UI_HEIGHT)
RemoteHeight == LayoutHeight - SystemHeight

remote_viewport == Rect(0, 0, LayoutWidth, RemoteHeight)
system_ui_region == Rect(0, RemoteHeight, LayoutWidth, SystemHeight)

HasIndicator ==
    /\ SystemHeight >= SYSTEM_UI_HEIGHT
    /\ LayoutWidth >= 3 * CELL_MARGIN + CONNECTION_INDICATOR_DIAMETER + 1

IndicatorTop == RemoteHeight + (SystemHeight - CONNECTION_INDICATOR_DIAMETER) \div 2

connection_indicator_bounds ==
    Rect(CELL_MARGIN, IndicatorTop, CONNECTION_INDICATOR_DIAMETER, CONNECTION_INDICATOR_DIAMETER)

\* A slip: Exit always begins at the margin.
ExitLeftAtMargin == CELL_MARGIN

\* Exit is right of the indicator, or of the margin without one.
ExitLeft ==
    IF HasIndicator THEN 2 * CELL_MARGIN + CONNECTION_INDICATOR_DIAMETER ELSE CELL_MARGIN

HasExit ==
    /\ SystemHeight >= SYSTEM_UI_HEIGHT
    /\ LayoutWidth > 2 * CELL_MARGIN
    /\ LayoutWidth > ExitLeft + CELL_MARGIN

exit_bounds ==
    Rect(ExitLeft, RemoteHeight, LayoutWidth - ExitLeft - CELL_MARGIN, SystemHeight)

InRemote(px, py) == Contains(remote_viewport, px, py)
InExit(px, py) == HasExit /\ Contains(exit_bounds, px, py)
InIndicator(px, py) == HasIndicator /\ Contains(connection_indicator_bounds, px, py)

-----------------------------------------------------------------------------
(* ApplicationUi for a viewport of the dimensions PaperPad reports.        *)

Positive(n) == IF n < 0 THEN 0 ELSE n

FixedOverhead == GRID_TOP_INSET + 2 * (2 * CELL_MARGIN) + STATUS_BAR_HEIGHT

\* A slip: the margins are left out of the width of a cell.
grid_cell_side_wide(w, h) ==
    Least(w \div 3 + CELL_MARGIN, Positive(h - FixedOverhead) \div 3)

\* 0 stands for no grid.
grid_cell_side(w, h) ==
    Least(Positive(w \div 3 - 2 * CELL_MARGIN), Positive(h - FixedOverhead) \div 3)

button_bounds(w, h, row, column) ==
    LET side == grid_cell_side(w, h)
    IN  Rect(CELL_MARGIN + ((w - 2 * CELL_MARGIN - side) * column) \div 2,
             GRID_TOP_INSET + row * (side + 2 * CELL_MARGIN), side, side)

Cells == (0 .. 2) \X (0 .. 2)

\* action_for_button's argument: the buttons at a remote point.
ButtonsAt(w, h, px, py) ==
    {cell \in Cells : /\ grid_cell_side(w, h) > 0
                      /\ Contains(button_bounds(w, h, cell[1], cell[2]), px, py)}

StatusTop(h) == h - Least(STATUS_BAR_HEIGHT, h)

-----------------------------------------------------------------------------
(* Properties                                                              *)

\* "Exit ... independent of PaperSpoon actions", "The indicator is ... not a
\* touch target": a touch is the viewport's, Exit's or the indicator's, never
\* two of them, whatever the size; and Exit lies on the screen.
OneOwner ==
    /\ ~(InRemote(x, y) /\ InExit(x, y))
    /\ ~(InExit(x, y) /\ InIndicator(x, y))
    /\ ~(InRemote(x, y) /\ InIndicator(x, y))
    /\ InExit(x, y) => Contains(system_ui_region, x, y)

\* The point PaperPad sends to end a contact, the exclusive corner of the
\* viewport, fits the unsigned coordinate and is on no button, so it never
\* activates one; nor does a touch that is not in the viewport.
CancelPointMisses ==
    /\ LayoutWidth <= MAX_SIZE /\ RemoteHeight <= MAX_SIZE
    /\ ButtonsAt(LayoutWidth, RemoteHeight, LayoutWidth, RemoteHeight) = {}
    /\ ~InRemote(x, y) => ButtonsAt(LayoutWidth, RemoteHeight, x, y) = {}

\* A touch resolves to one button at most, above the status bar, and the sums
\* of button_grid stay in 16 bits.
OneButton ==
    LET side == grid_cell_side(LayoutWidth, RemoteHeight)
    IN  /\ \A a, b \in ButtonsAt(LayoutWidth, RemoteHeight, x, y) : a = b
        /\ ButtonsAt(LayoutWidth, RemoteHeight, x, y) # {} => y < StatusTop(RemoteHeight)
        /\ side > 0 => /\ GRID_TOP_INSET + 3 * side + 4 * CELL_MARGIN <= MAX_SIZE
                       /\ side + 2 * CELL_MARGIN <= LayoutWidth
=============================================================================
