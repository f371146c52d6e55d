------------------------------- MODULE Screen -------------------------------
(***************************************************************************)
(* The window of PaperPad, touched (TouchGeometry) or drawn on by one of   *)
(* its backends: Framebuffer writes e-ink memory, BitmapUpload sends       *)
(* bitmaps to an X server.  All three use the layout of one window.        *)
(***************************************************************************)
EXTENDS Framebuffer, BitmapUpload

CONSTANT DrawnSizes  \* the windows that are drawn on

touchVars == <<width, height, touched, x, y>>
screenVars == <<touchVars, pictureVars, framebufferVars, xserver>>

ScreenInit == Init /\ PictureInit /\ FramebufferInit /\ BitmapUploadInit

Touched ==
    /\ display = "none"
    /\ Next
    /\ UNCHANGED <<pictureVars, framebufferVars, xserver>>

DrawOnFramebuffer ==
    /\ \/ \E k \in Kernels : OpenFramebuffer(k)
       \/ \E picture \in Pictures, accepted \in BOOLEAN : PresentRemote(picture, accepted)
       \/ \E connected, accepted \in BOOLEAN : PresentSystemUi(connected, accepted)
    /\ UNCHANGED <<touchVars, xserver>>

DrawOnServer ==
    /\ \/ \E server \in XServers : ConnectServer(server)
       \/ \E how \in {"none", "send", "reject"}, lost \in 0 .. RemoteHeight :
             \/ \E picture \in Pictures : DisplayFrame(picture, how, lost)
             \/ RedrawFrame(how, lost)
    /\ UNCHANGED <<touchVars, framebufferVars>>

Draw ==
    /\ ~touched /\ <<width, height>> \in DrawnSizes
    /\ DrawOnFramebuffer \/ DrawOnServer

ScreenSpec == ScreenInit /\ [][Touched \/ Draw]_screenVars

\* A drawing changes points and stored bytes of one strip of the window.
ChangesOneStrip ==
    display \in {"x11", "mxcfb"} =>
        LET changed == {p \in DOMAIN panel : panel'[p] # panel[p]}
            stored == {Place(offset) : offset \in {o \in DOMAIN memory : memory'[o] # memory[o]}}
        IN  \E strip \in {remote_viewport, system_ui_region} :
                changed \cup stored \subseteq Points(strip)

\* The remote content and the strip share a screen and memory, never a pixel:
\* drawing one leaves the other as it was, in the window and in the mapped
\* memory, and no drawing touches bytes outside the visible page.
StripsStayApart == [][ChangesOneStrip]_screenVars
=============================================================================
