--------------------------- MODULE PaperpadDisplay ---------------------------
(***************************************************************************)
(* What PaperPad has on its screen: the drawing half of the event loop     *)
(* (src/x11/events.rs), the two implementations of DisplayBackend          *)
(* (src/x11/backend.rs, src/mxcfb/backend.rs) and the cache of the last    *)
(* displayed frame (src/display/cache.rs).                                 *)
(*                                                                         *)
(* Three parties: the X server resizes and damages the window and queues   *)
(* events about it; the transport goes up and down and leaves frames of    *)
(* the current viewport in its mailbox (see PaperpadTransport); the event  *)
(* loop goes through its three phases, one poll of each source per round.  *)
(* Resizes and damage happen between any two phases, so the loop draws on  *)
(* a window whose new size it has not read yet.                            *)
(*                                                                         *)
(* The screen is two areas, the remote viewport and the system strip.  A   *)
(* window size stands for the layout and the viewport it implies.          *)
(***************************************************************************)
EXTENDS Naturals, Sequences

CONSTANTS
    Sizes,      \* the sizes the window may have
    MaxFrames,  \* bound: frames PaperSpoon sends
    MaxDamages, \* bound: resizes and losses of window contents
    MaxFaults   \* bound: drawing operations that fail

ASSUME DisplayAssumption ==
    /\ Sizes # {}
    /\ {MaxFrames, MaxDamages, MaxFaults} \subseteq Nat

Backends == {"x11", "mxcfb"}
PixelFormats == {"mono1", "gray8"}

Frame == [id : 1 .. MaxFrames, size : Sizes, format : PixelFormats]

\* What the remote viewport shows: a frame, or the background; or it was
\* damaged, or a drawing that failed left it broken.
Contents == [state : {"intact", "damaged", "broken"}, frame : SUBSET Frame]
Showing(retained) == [state |-> "intact", frame |-> retained]
Damaged == [state |-> "damaged", frame |-> {}]
Broken == [state |-> "broken", frame |-> {}]

\* The strip shows Exit with the filled or the outlined indicator.
Indicator(connection) == IF connection THEN "filled" ELSE "outlined"

Event == [kind : {"configure"}, size : Sizes] \cup [kind : {"expose"}, count : {0, 1}]

VARIABLES
    \* the X server: size of the window, what is on the screen, event queue
    window, remote, system, events,
    \* the transport as the event loop sees it: is_connected and the mailbox
    up, mailbox, frames,
    \* the event loop: phase, connected, displayed_connection ({}: None)
    phase, connected, displayed,
    \* the backend: kind, its bitmap adapter, dimensions, cache ({}: None)
    backend, adapter, dimensions, cache,
    damages, faults

serverVars == <<window, remote, system, events>>
transportVars == <<up, mailbox, frames>>
loopVars == <<phase, connected, displayed>>
backendVars == <<backend, adapter, dimensions, cache>>
boundVars == <<damages, faults>>
vars == <<serverVars, transportVars, loopVars, backendVars, boundVars>>

\* setup_window maps the window; create_display_backend insists that the
\* framebuffer is as large as the window.
Init ==
    /\ window \in Sizes /\ remote = Damaged /\ system = "damaged"
    /\ events = <<[kind |-> "expose", count |-> 0]>>
    /\ up = FALSE /\ mailbox = {} /\ frames = 0
    /\ phase = "indicator" /\ connected = FALSE /\ displayed = {}
    /\ backend \in Backends
    /\ adapter \in IF backend = "x11" THEN BOOLEAN ELSE {TRUE}
    /\ dimensions = window /\ cache = {}
    /\ damages = 0 /\ faults = 0

-----------------------------------------------------------------------------
(* The X server.                                                           *)

Damages ==
    /\ damages < MaxDamages
    /\ damages' = damages + 1
    /\ UNCHANGED <<transportVars, loopVars, backendVars, faults>>

\* The server reports damage in batches; count announces what is to follow.
ExposeBatches ==
    {<<[kind |-> "expose", count |-> 0]>>,
     <<[kind |-> "expose", count |-> 1], [kind |-> "expose", count |-> 0]>>}

\* A resize loses the contents: the bit gravity of the window is Forget.
Resize(size) ==
    /\ Damages
    /\ size # window
    /\ window' = size
    /\ remote' = Damaged /\ system' = "damaged"
    /\ \E batch \in ExposeBatches :
          events' = events \o <<[kind |-> "configure", size |-> size]>> \o batch

\* The window was covered or unmapped; on MXCFB, the server painted it into
\* the framebuffer.
Damage ==
    /\ Damages
    /\ remote' \in {remote, Damaged}
    /\ system' \in {system, "damaged"}
    /\ \E batch \in ExposeBatches : events' = events \o batch
    /\ UNCHANGED window

\* A ConfigureNotify that tells nothing new: the window was moved or raised.
Restacked ==
    /\ Damages
    /\ events' = Append(events, [kind |-> "configure", size |-> window])
    /\ UNCHANGED <<window, remote, system>>

Server == (\E size \in Sizes : Resize(size)) \/ Damage \/ Restacked

-----------------------------------------------------------------------------
(* The transport.                                                          *)

ConnectionChanges ==
    /\ up' = ~up
    /\ UNCHANGED <<serverVars, mailbox, frames, loopVars, backendVars, boundVars>>

\* FrameMailbox::publish: the viewport of the mailbox is the event loop's.
FrameArrives(format) ==
    /\ up
    /\ frames < MaxFrames
    /\ frames' = frames + 1
    /\ mailbox' = {[id |-> frames + 1, size |-> dimensions, format |-> format]}
    /\ UNCHANGED <<serverVars, up, loopVars, backendVars, boundVars>>

Transport == ConnectionChanges \/ \E format \in PixelFormats : FrameArrives(format)

-----------------------------------------------------------------------------
(* DisplayBackend.  size is what the backend draws for.  On a window of    *)
(* another size X11 drawing leaves neither area intact; the framebuffer    *)
(* does not change with the window.                                        *)

Fault == faults < MaxFaults /\ faults' = faults + 1

Fits(size) == backend = "mxcfb" \/ size = window

DrawnRemote(size, contents) == IF Fits(size) THEN contents ELSE Damaged
DrawnSystem(size, contents) == IF Fits(size) THEN contents ELSE "damaged"

\* What a failed drawing leaves: any part of an X11 bitmap was uploaded; an
\* MXCFB update was not accepted, and the panel keeps what it shows.
RemoteBroken(size) ==
    IF backend = "x11" THEN DrawnRemote(size, Broken)
    ELSE IF remote = Damaged THEN Broken ELSE remote

\* draw_system_ui when it succeeds.
draw_system_ui(size, connection) ==
    /\ remote' = DrawnRemote(size, remote)
    /\ system' = DrawnSystem(size, Indicator(connection))

\* X11 refuses Gray8 and needs its adapter.
CanDisplay(frame) == backend = "x11" => frame.format = "mono1" /\ adapter

\* display_remote_frame: the cache is replaced after the presentation.
display_remote_frame(frame) ==
    \/ /\ ~CanDisplay(frame)
       /\ UNCHANGED <<remote, system, cache, faults>>
    \/ /\ CanDisplay(frame)
       /\ remote' = DrawnRemote(dimensions, Showing({frame}))
       /\ system' = DrawnSystem(dimensions, system)
       /\ cache' = {frame}
       /\ UNCHANGED faults
    \/ /\ CanDisplay(frame)
       /\ Fault
       /\ remote' = RemoteBroken(dimensions)
       /\ system' = DrawnSystem(dimensions, system)
       /\ UNCHANGED cache

\* A slip: without a cached frame X11 does not clear the viewport either.
RestoredUncleared(retained) ==
    IF retained = {} THEN remote ELSE Showing(IF adapter THEN retained ELSE {})

\* redraw_cached_frame: X11 clears the viewport, also when there is nothing to
\* draw on it; MXCFB without a cached frame does nothing.
Restored(retained) ==
    IF backend = "mxcfb" /\ retained = {} THEN remote
    ELSE Showing(IF adapter THEN retained ELSE {})

\* draw_surface when draw_system_ui succeeds.
draw_surface(size, retained) ==
    /\ system' = DrawnSystem(size, Indicator(connected))
    /\ \/ /\ remote' = DrawnRemote(size, Restored(retained))
          /\ UNCHANGED faults
       \/ /\ backend = "mxcfb" => retained # {}
          /\ Fault
          /\ remote' = RemoteBroken(size)

\* draw_system_ui or set_dimensions fails: event_loop returns, the backend is
\* dropped and cleanup destroys the window.
LoopFails ==
    /\ phase' = "ended"
    /\ remote' = Damaged /\ system' = "damaged"

-----------------------------------------------------------------------------
(* The event loop.                                                         *)

\* A slip: a change is noted and left to the next redraw.
LoopIndicatorDeferred ==
    /\ phase = "indicator"
    /\ connected' = up
    /\ displayed' = {up}
    /\ phase' = "frame"
    /\ UNCHANGED <<serverVars, transportVars, backendVars, boundVars>>

\* is_connected and connection_indicator_changed.
LoopIndicator ==
    /\ phase = "indicator"
    /\ connected' = up
    /\ displayed' = {up}
    /\ \/ /\ displayed = {up}
          /\ phase' = "frame"
          /\ UNCHANGED <<remote, system, faults>>
       \/ /\ displayed # {up}
          /\ draw_system_ui(dimensions, up)
          /\ phase' = "frame"
          /\ UNCHANGED faults
       \/ /\ displayed # {up}
          /\ Fault
          /\ LoopFails
    /\ UNCHANGED <<window, events, transportVars, backendVars, damages>>

\* poll_frame and display_remote_frame.
LoopFrame ==
    /\ phase = "frame"
    /\ phase' = "event"
    /\ mailbox' = {}
    /\ IF mailbox = {}
       THEN UNCHANGED <<remote, system, cache, faults>>
       ELSE \E frame \in mailbox : display_remote_frame(frame)
    /\ UNCHANGED <<window, events, up, frames, connected, displayed, backend, adapter,
                   dimensions, damages>>

\* poll_for_event finds nothing: sleep, and go round again.
LoopSleep ==
    /\ phase = "event" /\ events = <<>>
    /\ phase' = "indicator"
    /\ UNCHANGED <<serverVars, transportVars, connected, displayed, backendVars, boundVars>>

TakeEvent ==
    /\ phase = "event" /\ events # <<>>
    /\ events' = Tail(events)
    /\ UNCHANGED <<window, up, frames, connected, displayed, backend, adapter, damages>>

\* Only the last Expose of a batch redraws.
LoopExpose ==
    /\ TakeEvent
    /\ Head(events).kind = "expose"
    /\ \/ /\ Head(events).count # 0
          /\ phase' = "indicator"
          /\ UNCHANGED <<remote, system, faults>>
       \/ /\ Head(events).count = 0
          /\ draw_surface(dimensions, cache)
          /\ phase' = "indicator"
       \/ /\ Head(events).count = 0
          /\ Fault
          /\ LoopFails
    /\ UNCHANGED <<mailbox, dimensions, cache>>

\* update_geometry: what is retained already changes nothing.
LoopConfigureUnchanged ==
    /\ TakeEvent
    /\ Head(events).kind = "configure"
    /\ Head(events).size = dimensions
    /\ phase' = "indicator"
    /\ UNCHANGED <<remote, system, mailbox, dimensions, cache, faults>>

\* FrameMailbox::set_viewport.
set_viewport(size) == mailbox' = {f \in mailbox : f.size = size}

\* A slip: the cached frame of the old viewport is kept.
invalidate_nothing(size) == cache

\* RemoteFrameCache::invalidate_mismatched.
invalidate_mismatched(size) == {f \in cache : f.size = size}

\* send_viewport_changed (of which only the mailbox matters here) and
\* set_dimensions, which MXCFB refuses, and draw_surface.
LoopConfigure ==
    /\ TakeEvent
    /\ Head(events).kind = "configure"
    /\ Head(events).size # dimensions
    /\ LET size == Head(events).size
       IN  /\ set_viewport(size)
           /\ \/ /\ backend = "x11"
                 /\ dimensions' = size
                 /\ cache' = invalidate_mismatched(size)
                 /\ \/ draw_surface(size, cache') /\ phase' = "indicator"
                    \/ Fault /\ LoopFails
              \/ /\ backend = "mxcfb"
                 /\ LoopFails
                 /\ UNCHANGED <<dimensions, cache, faults>>

EventLoop ==
    \/ LoopIndicator
    \/ LoopFrame
    \/ LoopSleep
    \/ LoopExpose
    \/ LoopConfigureUnchanged
    \/ LoopConfigure

Next ==
    \/ phase # "ended" /\ (Server \/ Transport)
    \/ EventLoop

Spec == Init /\ [][Next]_vars

\* The event loop never waits: it polls, and sleeps 50 ms.
FairSpec == Spec /\ WF_vars(EventLoop)

-----------------------------------------------------------------------------
(* Properties                                                              *)

\* The types.  A frame that waits has the dimensions the backend draws for.
TypeOK ==
    /\ window \in Sizes
    /\ remote \in Contents
    /\ system \in {"filled", "outlined", "damaged"}
    /\ events \in Seq(Event)
    /\ up \in BOOLEAN
    /\ mailbox \subseteq Frame /\ \A f \in mailbox : f.size = dimensions
    /\ frames \in 0 .. MaxFrames
    /\ phase \in {"indicator", "frame", "event", "ended"}
    /\ connected \in BOOLEAN
    /\ displayed \subseteq BOOLEAN
    /\ backend \in Backends
    /\ adapter \in BOOLEAN
    /\ dimensions \in Sizes
    /\ cache \subseteq Frame
    /\ damages \in 0 .. MaxDamages
    /\ faults \in 0 .. MaxFaults

\* What is retained can be drawn again: it has the dimensions of the current
\* viewport and a format the backend displays.  And a frame on the screen is
\* the one retained, so a redraw never brings back an older one.
RetainedIsShown ==
    /\ \A f \in cache : f.size = dimensions /\ CanDisplay(f)
    /\ remote.frame \subseteq cache

\* "Invalid dimensions, unsupported formats, decode errors, or failed display
\* updates do not replace it ... Disconnecting does not clear the retained
\* application frame": what is retained changes to the frame just displayed,
\* or to nothing when the viewport changes.
OnlyDisplayedIsRetained ==
    [][cache' # cache =>
         \/ cache' = {} /\ dimensions' # dimensions
         \/ cache' = mailbox /\ remote' = DrawnRemote(dimensions, Showing(mailbox))]_vars

\* When the loop has nothing left to read the screen is right, whatever was
\* resized or damaged between its phases and in whichever order it learned of
\* it: Exit and the indicator of the connection it last read, and the retained
\* frame, or the background, unless the last attempt to draw that failed.
IdleScreenIsCurrent ==
    phase = "event" /\ events = <<>> =>
        /\ window = dimensions
        /\ system = Indicator(connected)
        /\ remote # Broken /\ (backend = "x11" \/ cache # {}) => remote = Showing(cache)

\* "only the local connection indicator changes state": once the connection
\* stays up, or stays down, the indicator shows it for good, unless the loop
\* ends.
IndicatorFollowsConnection ==
    \A state \in BOOLEAN :
        <>[](up = state) => <>[](system = Indicator(state) \/ phase = "ended")
=============================================================================
