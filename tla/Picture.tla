------------------------------- MODULE Picture -------------------------------
(***************************************************************************)
(* A picture on its way from PaperSpoon's canvas to PaperPad's screen:     *)
(* what the canvases pack (mono_renderer.rs, gray_renderer.rs), a Frame    *)
(* message carries and RemoteFrame (src/display/mod.rs) accepts.           *)
(* Framebuffer and BitmapUpload draw it in the layout of TouchGeometry.    *)
(* The x and y of TouchGeometry belong to touches; here a point is a pair  *)
(* of a column and a row.                                                  *)
(***************************************************************************)
EXTENDS TouchGeometry, Ppfb, FiniteSets

CONSTANTS
    MonoBits,   \* the bits of a point's number that Mono1 pictures show
    GrayShifts, \* how far Gray8 pictures shift it
    InkLevels,  \* the luminances of Gray8
    MaxDrawings,
    MaxFaults

VARIABLES
    display,      \* the backend: "none", "refused", "x11" or "mxcfb"
    panel,        \* the luminance that is seen at each point of the window
    shown,        \* the picture the last drawing reported as displayed
    cached,       \* the retained frame: that picture, for a redraw
    unexplained,  \* a drawing failed though nothing interfered with it
    drawings, faults

pictureVars == <<display, panel, shown, cached, unexplained, drawings, faults>>

BLACK == 0
WHITE == 255
Unknown == -1           \* what was there before PaperPad
NoPicture == <<>>

Points(rect) ==
    (rect.x .. rect.x + rect.width - 1) \X (rect.y .. rect.y + rect.height - 1)
Window == Rect(0, 0, LayoutWidth, LayoutHeight)

PictureInit ==
    /\ display = "none" /\ panel = NoPicture /\ shown = NoPicture /\ cached = NoPicture
    /\ unexplained = FALSE /\ drawings = 0 /\ faults = 0

-----------------------------------------------------------------------------
(* Canvases.  A picture is a format and the luminance of each point.       *)

Number(p) == p[1] + p[2] * LayoutWidth

\* Bit k of the number of a point: together these tell all points apart.
MonoPicture(k) ==
    [format |-> "Mono1",
     ink |-> [p \in Points(remote_viewport) |->
                 IF (Number(p) \div (2^k)) % 2 = 1 THEN BLACK ELSE WHITE]]

GrayPicture(shift) ==
    [format |-> "Gray8",
     ink |-> [p \in Points(remote_viewport) |-> (Number(p) + shift) % InkLevels]]

Pictures == {MonoPicture(k) : k \in MonoBits} \cup {GrayPicture(shift) : shift \in GrayShifts}

\* Eight bits, the first one the most significant.
Octet(bit) ==
    128 * bit[0] + 64 * bit[1] + 32 * bit[2] + 16 * bit[3]
        + 8 * bit[4] + 4 * bit[5] + 2 * bit[6] + bit[7]

\* MonoCanvas: set_pixel for every black point of an all-white canvas.
MonoCanvas(ink) ==
    LET stride == mono1_stride(LayoutWidth)
        Bit(column, row) ==
            IF column < LayoutWidth /\ ink[<<column, row>>] = BLACK THEN 1 ELSE 0
    IN  [i \in 1 .. stride * RemoteHeight |->
            LET row == (i - 1) \div stride
                first == 8 * ((i - 1) % stride)
            IN  Octet([offset \in 0 .. 7 |-> Bit(first + offset, row)])]

GrayCanvas(ink) ==
    [i \in 1 .. LayoutWidth * RemoteHeight |->
        ink[<<(i - 1) % LayoutWidth, (i - 1) \div LayoutWidth>>]]

FrameOf(picture) ==
    [type |-> "Frame", id |-> <<0, 1>>, width |-> LayoutWidth, height |-> RemoteHeight,
     format |-> picture.format,
     pixels |-> IF picture.format = "Mono1" THEN MonoCanvas(picture.ink)
                ELSE GrayCanvas(picture.ink)]

\* What PaperPad has of it: RemoteFrame::new validates what decode_frame did.
RemoteFrames(picture) ==
    {frame \in decode_frame(FramePayload(FrameOf(picture))) :
        ValidPixels(frame.format, frame.width, frame.height, frame.pixels)}

-----------------------------------------------------------------------------
(* What a drawing leaves behind.                                           *)

MayDraw(backend) == display = backend /\ drawings < MaxDrawings

\* result is "ok", "fault" when something outside interfered, or "error".
Drawn(picture, result) ==
    /\ drawings' = drawings + 1
    /\ faults' = faults + (IF result = "fault" THEN 1 ELSE 0)
    /\ unexplained' = (unexplained \/ result = "error")
    /\ cached' = IF result = "ok" THEN picture ELSE cached
    /\ UNCHANGED display

\* Point for point, the screen is the picture that was reported as displayed,
\* from canvas bits through the wire format to the layout of the device; and a
\* drawing that nothing interferes with does not fail.
PictureIsShown ==
    /\ ~unexplained
    /\ shown # NoPicture =>
           \A p \in Points(remote_viewport) : panel[p] = shown.ink[p]
=============================================================================
