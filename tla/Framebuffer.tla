----------------------------- MODULE Framebuffer -----------------------------
(***************************************************************************)
(* Drawing on the e-ink framebuffer (src/mxcfb): what the kernel reports   *)
(* is validated once, frames and the local strip are written row by row    *)
(* into the mapped memory, and an update with a marker is submitted for    *)
(* the region just written.  Only that region of the panel changes, and    *)
(* only when the kernel accepts the update.  Sums are checked in the code  *)
(* and so are those of integers here.                                      *)
(***************************************************************************)
EXTENDS Picture

CONSTANTS
    Kernels,            \* what the kernel may report of a framebuffer
    MARKERS,            \* markers are counted modulo this: 2^32
    BORDER_THICKNESS, GLYPH_WIDTH, GLYPH_HEIGHT, MAX_GLYPH_SCALE,
    EXIT_GLYPHS         \* the black <<glyph, column, row>> of "EXIT"

ASSUME FramebufferAssumption ==
    /\ MARKERS \in Nat /\ MARKERS > 2
    /\ BORDER_THICKNESS \in Nat \ {0}
    /\ GLYPH_WIDTH \in Nat \ {0} /\ GLYPH_HEIGHT \in Nat /\ MAX_GLYPH_SCALE \in Nat
    /\ GLYPH_HEIGHT * MAX_GLYPH_SCALE <= SYSTEM_UI_HEIGHT
    /\ 2 * BORDER_THICKNESS < CONNECTION_INDICATOR_DIAMETER
    /\ EXIT_GLYPHS \subseteq (0 .. 3) \X (0 .. GLYPH_WIDTH - 1) \X (0 .. GLYPH_HEIGHT - 1)
    /\ \A k \in Kernels :
          /\ k.xoffset \in Nat /\ k.yoffset \in Nat /\ k.line_length \in Nat
          /\ k.virtual_width \in Nat /\ k.virtual_height \in Nat /\ k.memory_len \in Int

VARIABLES
    kernel,       \* the metadata of the framebuffer that was opened
    memory,       \* the mapped bytes, by offset
    next_marker,
    strip_shown   \* the strip on the panel: "none", "connected" or "disconnected"

framebufferVars == <<kernel, memory, next_marker, strip_shown>>

NoKernel == <<>>

FramebufferInit ==
    kernel = NoKernel /\ memory = <<>> /\ strip_shown = "none" /\ next_marker = 0

-----------------------------------------------------------------------------
(* The metadata: offsets of the visible page in a larger virtual one, the  *)
(* bytes of a line and of the memory, and whether driver, rotation and     *)
(* pixel format are the ones supported.                                    *)

VisibleInVirtual(k) ==
    /\ k.xoffset + width <= k.virtual_width
    /\ k.yoffset + height <= k.virtual_height

VirtualInMemory(k) ==
    /\ k.line_length >= k.virtual_width
    /\ k.line_length * k.virtual_height <= k.memory_len

visible_mapping_len(k) == k.line_length * (k.yoffset + height)

\* FramebufferInfo::from_kernel
from_kernel(k) ==
    /\ k.supported
    /\ width <= MAX_COORDINATE /\ height <= MAX_COORDINATE
    /\ SystemHeight = SYSTEM_UI_HEIGHT /\ RemoteHeight > 0
    /\ VisibleInVirtual(k) /\ VirtualInMemory(k)

\* UpdateMarkerSequence: zero is no marker.
from_seed(seed) == IF seed = 0 THEN 1 ELSE seed

OpenFramebuffer(k) ==
    /\ display = "none"
    /\ kernel' = k
    /\ \/ /\ from_kernel(k)
          /\ display' = "mxcfb"
          /\ memory' = [offset \in 0 .. visible_mapping_len(k) - 1 |-> Unknown]
          /\ panel' = [p \in Points(Window) |-> Unknown]
          /\ \E process_id \in 0 .. MARKERS - 1 : next_marker' = from_seed(process_id)
       \/ /\ ~from_kernel(k)
          /\ display' = "refused"
          /\ UNCHANGED <<memory, panel, next_marker>>
    /\ UNCHANGED <<shown, cached, unexplained, drawings, faults, strip_shown>>

-----------------------------------------------------------------------------
(* Rows.                                                                   *)

\* A slip: a row is as long as the visible page is wide.
RowOffsetVisible(rect, row) ==
    (kernel.yoffset + rect.y + row) * width + kernel.xoffset + rect.x

RowOffset(rect, row) ==
    (kernel.yoffset + rect.y + row) * kernel.line_length + kernel.xoffset + rect.x

\* The point of the window that a byte of the memory is seen at.
Place(offset) ==
    <<(offset % kernel.line_length) - kernel.xoffset,
      (offset \div kernel.line_length) - kernel.yoffset>>

\* check_range of every row, before the first store.
RowsInMapping(rect) ==
    \A row \in 0 .. rect.height - 1 :
        RowOffset(rect, row) + rect.width <= visible_mapping_len(kernel)

\* write_at of every row.
Written(rect, pixels) ==
    [offset \in DOMAIN memory |->
        LET distance == offset - RowOffset(rect, 0)
            column == distance % kernel.line_length
            row == distance \div kernel.line_length
        IN  IF distance >= 0 /\ column < rect.width /\ row < rect.height
            THEN pixels[<<rect.x + column, rect.y + row>>] ELSE memory[offset]]

\* blit_remote: bits become the endpoints, bytes are copied.
NativePixels(frame) ==
    [p \in Points(remote_viewport) |->
        LET column == p[1] - remote_viewport.x
            row == p[2] - remote_viewport.y
        IN  IF frame.format = "Gray8"
            THEN Gray8Pixel(frame.width, frame.pixels, column, row)
            ELSE IF Mono1Pixel(frame.width, frame.pixels, column, row) = 1
                 THEN BLACK ELSE WHITE]

prepare_remote(frame) ==
    /\ frame.width = remote_viewport.width /\ frame.height = remote_viewport.height
    /\ remote_viewport.y + remote_viewport.height <= system_ui_region.y
    /\ VisibleInVirtual(kernel) /\ VirtualInMemory(kernel)
    /\ RowsInMapping(remote_viewport)

-----------------------------------------------------------------------------
(* The local strip: an outline and the label of Exit, and the indicator, a *)
(* disc when connected and a ring when not.                                *)

NearEdge(rect, p) ==
    \/ p[1] - rect.x < BORDER_THICKNESS \/ rect.x + rect.width - 1 - p[1] < BORDER_THICKNESS
    \/ p[2] - rect.y < BORDER_THICKNESS \/ rect.y + rect.height - 1 - p[2] < BORDER_THICKNESS

TextUnits == 4 * GLYPH_WIDTH + 3

OnLabel(p) ==
    LET scale == Least(MAX_GLYPH_SCALE,
                       Positive(exit_bounds.width - 2 * BORDER_THICKNESS) \div TextUnits)
        left == exit_bounds.x + (exit_bounds.width - TextUnits * scale) \div 2
        top == exit_bounds.y + (exit_bounds.height - GLYPH_HEIGHT * scale) \div 2
        column == (p[1] - left) \div scale
    IN  /\ scale > 0
        /\ p[1] >= left /\ p[2] >= top
        /\ <<column \div (GLYPH_WIDTH + 1), column % (GLYPH_WIDTH + 1),
             (p[2] - top) \div scale>> \in EXIT_GLYPHS

OnIndicator(p, connected) ==
    LET bounds == connection_indicator_bounds
        diameter == bounds.width
        inner == Positive(diameter - 2 * BORDER_THICKNESS)
        dx == 2 * (p[1] - bounds.x) + 1 - diameter
        dy == 2 * (p[2] - bounds.y) + 1 - diameter
        distance == dx * dx + dy * dy
    IN  /\ HasIndicator /\ Contains(bounds, p[1], p[2])
        /\ distance <= diameter * diameter
        /\ connected \/ distance >= inner * inner

rasterize_system_ui(connected) ==
    [p \in Points(system_ui_region) |->
        IF \/ Contains(exit_bounds, p[1], p[2]) /\ NearEdge(exit_bounds, p)
           \/ OnLabel(p)
           \/ OnIndicator(p, connected)
        THEN BLACK ELSE WHITE]

-----------------------------------------------------------------------------
(* Updates.                                                                *)

\* A slip: the successor of the last marker is not looked at.
MarkerAfterWrap(marker) == (marker + 1) % MARKERS

MarkerAfter(marker) == IF marker + 1 = MARKERS THEN 1 ELSE marker + 1

\* checked_visible_region
ValidRegion(rect) ==
    /\ rect.width > 0 /\ rect.height > 0
    /\ rect.x + rect.width <= width /\ rect.y + rect.height <= height

\* submit_update checks once more, then the kernel is asked.
Submits(rect) == next_marker # 0 /\ ValidRegion(rect)

\* The controller shows the memory of the visible page in the region.
Refreshed(rect) ==
    [p \in Points(Window) |->
        IF Contains(rect, p[1], p[2])
        THEN memory'[(kernel.yoffset + p[2]) * kernel.line_length + kernel.xoffset + p[1]]
        ELSE panel[p]]

\* The marker is consumed when pixels and region are prepared, the memory is
\* written if every row is in the mapping, and then the kernel accepts the
\* update or refuses it.
Present(rect, prepared, pixels, accepted) ==
    IF prepared /\ ValidRegion(rect)
    THEN /\ next_marker' = MarkerAfter(next_marker)
         /\ memory' = IF RowsInMapping(rect) THEN Written(rect, pixels) ELSE memory
         /\ panel' = IF accepted /\ RowsInMapping(rect) /\ Submits(rect)
                     THEN Refreshed(rect) ELSE panel
    ELSE UNCHANGED <<next_marker, memory, panel>>

Result(rect, prepared, accepted) ==
    IF ~prepared \/ ~RowsInMapping(rect) \/ ~Submits(rect) THEN "error"
    ELSE IF accepted THEN "ok" ELSE "fault"

\* present_remote_with, for a frame from the network or the retained one.
PresentRemote(picture, accepted) ==
    /\ MayDraw("mxcfb")
    /\ accepted \/ faults < MaxFaults
    /\ \E frame \in RemoteFrames(picture) :
          LET prepared == prepare_remote(frame)
              result == Result(remote_viewport, prepared, accepted)
          IN  /\ Present(remote_viewport, prepared, NativePixels(frame), accepted)
              /\ Drawn(picture, result)
              /\ shown' = IF result = "ok" THEN picture ELSE shown
    /\ UNCHANGED <<kernel, strip_shown>>

\* present_system_ui_with: a screen without Exit is an error by design.
PresentSystemUi(connected, accepted) ==
    /\ MayDraw("mxcfb") /\ HasExit
    /\ accepted \/ faults < MaxFaults
    /\ LET result == Result(system_ui_region, TRUE, accepted)
       IN  /\ Present(system_ui_region, TRUE, rasterize_system_ui(connected), accepted)
           /\ Drawn(cached, result)
           /\ strip_shown' = IF result # "ok" THEN strip_shown
                            ELSE IF connected THEN "connected" ELSE "disconnected"
    /\ UNCHANGED <<kernel, shown>>

-----------------------------------------------------------------------------
(* Properties                                                              *)

\* The strip on the panel is the one last accepted, whatever was drawn or
\* failed beside it; the connection state can be told from it, and nothing of
\* it is black outside Exit and indicator.
StripIsShown ==
    strip_shown # "none" =>
        /\ \A p \in Points(system_ui_region) :
              /\ panel[p] = rasterize_system_ui(strip_shown = "connected")[p]
              /\ panel[p] = BLACK => InExit(p[1], p[2]) \/ InIndicator(p[1], p[2])
        /\ HasIndicator => rasterize_system_ui(TRUE) # rasterize_system_ui(FALSE)
=============================================================================
