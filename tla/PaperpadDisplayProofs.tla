------------------------ MODULE PaperpadDisplayProofs ------------------------
(***************************************************************************)
(* The type of PaperpadDisplay's state and what is retained, for every set *)
(* of window sizes and every bound.                                        *)
(*                                                                         *)
(* RetainedIsShown is inductive once the types are known, above all that   *)
(* the mailbox holds only frames of the dimensions the backend has: that   *)
(* is why set_viewport empties the mailbox of others before set_dimensions *)
(* is called, and why a frame displayed may be retained without comparing  *)
(* its size.                                                               *)
(***************************************************************************)
EXTENDS PaperpadDisplay, TLAPS

-----------------------------------------------------------------------------
(* What the drawing operators return.                                      *)

LEMMA ContentsOf ==
    /\ \A retained \in SUBSET Frame :
          Showing(retained) \in Contents /\ Showing(retained).frame = retained
    /\ Damaged \in Contents /\ Damaged.frame = {}
    /\ Broken \in Contents /\ Broken.frame = {}
  BY DEF Showing, Contents, Damaged, Broken

LEMMA Drawn ==
    ASSUME NEW size, NEW contents \in Contents
    PROVE  /\ DrawnRemote(size, contents) \in Contents
           /\ DrawnRemote(size, contents).frame \subseteq contents.frame
<1>1. DrawnRemote(size, contents) = contents \/ DrawnRemote(size, contents) = Damaged
  BY Zenon DEF DrawnRemote
<1>. QED
  BY <1>1, ContentsOf, Zenon

LEMMA BrokenRemote ==
    ASSUME NEW size, remote \in Contents
    PROVE  /\ RemoteBroken(size) \in Contents
           /\ RemoteBroken(size).frame \subseteq remote.frame
           /\ backend = "x11" => RemoteBroken(size).frame = {}
<1>1. \/ RemoteBroken(size) = DrawnRemote(size, Broken)
      \/ RemoteBroken(size) = Broken
      \/ backend # "x11" /\ RemoteBroken(size) = remote
  BY Zenon DEF RemoteBroken
<1>2. DrawnRemote(size, Broken) \in Contents /\ DrawnRemote(size, Broken).frame = {}
  BY ContentsOf, Drawn
<1>. QED
  BY <1>1, <1>2, ContentsOf, Zenon

LEMMA RestoredRemote ==
    ASSUME NEW retained \in SUBSET Frame, remote \in Contents,
           backend = "x11" \/ remote.frame \subseteq retained
    PROVE  /\ Restored(retained) \in Contents
           /\ Restored(retained).frame \subseteq retained
<1>1. \/ backend # "x11" /\ Restored(retained) = remote
      \/ Restored(retained) = Showing(retained)
      \/ Restored(retained) = Showing({})
  <2>1. CASE backend = "mxcfb"
    BY <2>1, "mxcfb" # "x11", Zenon DEF Restored
  <2>2. CASE backend # "mxcfb"
    BY <2>2, Zenon DEF Restored
  <2>. QED
    BY <2>1, <2>2
<1>. QED
  BY <1>1, ContentsOf, Zenon

LEMMA SystemDrawn ==
    ASSUME NEW size, NEW contents \in {"filled", "outlined", "damaged"}
    PROVE  DrawnSystem(size, contents) \in {"filled", "outlined", "damaged"}
  BY Zenon DEF DrawnSystem

LEMMA IndicatorDrawn ==
    ASSUME NEW connection
    PROVE  Indicator(connection) \in {"filled", "outlined", "damaged"}
  BY Zenon DEF Indicator
-----------------------------------------------------------------------------
(* Types.                                                                  *)

\* The parts of the state whose type does not depend on what is drawn.
PlainTypes ==
    /\ window \in Sizes /\ dimensions \in Sizes
    /\ events \in Seq(Event)
    /\ phase \in {"indicator", "frame", "event", "ended"}
    /\ backend \in Backends
    /\ frames \in 0 .. MaxFrames
    /\ damages \in 0 .. MaxDamages
    /\ faults \in 0 .. MaxFaults

Flags ==
    /\ up \in BOOLEAN /\ connected \in BOOLEAN /\ adapter \in BOOLEAN
    /\ displayed \subseteq BOOLEAN

\* What is drawn and what is kept to be drawn.
Drawings ==
    /\ remote \in Contents
    /\ system \in {"filled", "outlined", "damaged"}
    /\ cache \subseteq Frame
    /\ mailbox \subseteq Frame
    /\ \A f \in mailbox : f.size = dimensions

\* A mailbox holds the latest frame only.
OneWaiting == \A f, g \in mailbox : f = g

IInv == PlainTypes /\ Flags /\ Drawings /\ OneWaiting /\ RetainedIsShown

LEMMA Parts == IInv => TypeOK /\ RetainedIsShown
  BY Zenon DEF IInv, PlainTypes, Flags, Drawings, TypeOK

LEMMA ConfigureSize ==
    ASSUME NEW e \in Event, e.kind = "configure"
    PROVE  e.size \in Sizes
  BY DEF Event

LEMMA FlagsStay ==
    ASSUME Flags, [Next]_vars
    PROVE  Flags'
<1>1. CASE UNCHANGED vars
  BY <1>1, Zenon DEF Flags, vars, transportVars, loopVars, backendVars
<1>2. CASE Server
  BY <1>2, Zenon DEF Flags, Server, Resize, Damage, Restacked, Damages,
       transportVars, loopVars, backendVars
<1>3. CASE Transport
  BY <1>3, Zenon DEF Flags, Transport, ConnectionChanges, FrameArrives, loopVars, backendVars
<1>4. CASE LoopIndicator
  BY <1>4, Zenon DEF Flags, LoopIndicator, transportVars, backendVars
<1>5. CASE LoopFrame
  BY <1>5, Zenon DEF Flags, LoopFrame
<1>6. CASE LoopSleep
  BY <1>6, Zenon DEF Flags, LoopSleep, transportVars, backendVars
<1>7. CASE TakeEvent
  BY <1>7, Zenon DEF Flags, TakeEvent
<1>. QED
  BY <1>1, <1>2, <1>3, <1>4, <1>5, <1>6, <1>7, Zenon
  DEF Next, EventLoop, LoopExpose, LoopConfigureUnchanged, LoopConfigure

LEMMA ShortSequences ==
    ASSUME NEW S, NEW a \in S, NEW b \in S
    PROVE  <<a>> \in Seq(S) /\ <<a, b>> \in Seq(S)
  OBVIOUS

LEMMA Batches ==
    ASSUME NEW batch \in ExposeBatches
    PROVE  batch \in Seq(Event)
<1>. DEFINE last == [kind |-> "expose", count |-> 0]
            more == [kind |-> "expose", count |-> 1]
<1>1. last \in Event /\ more \in Event
  BY DEF Event
<1>2. batch = <<last>> \/ batch = <<more, last>>
  BY Zenon DEF ExposeBatches
<1>. HIDE DEF last, more
<1>. QED
  BY <1>1, <1>2, ShortSequences, Zenon

LEMMA PlainTypesStay ==
    ASSUME PlainTypes, [Next]_vars
    PROVE  PlainTypes'
<1>. USE DisplayAssumption
<1>1. CASE UNCHANGED vars
  BY <1>1, Zenon DEF PlainTypes, vars, serverVars, transportVars, loopVars, backendVars, boundVars
<1>2. CASE Server
  <2>1. window' \in Sizes /\ events' \in Seq(Event)
    <3>1. ASSUME NEW size \in Sizes, Resize(size) PROVE window' \in Sizes /\ events' \in Seq(Event)
      <4>1. PICK batch \in ExposeBatches :
               events' = events \o <<[kind |-> "configure", size |-> size]>> \o batch
        BY <3>1 DEF Resize
      <4>2. [kind |-> "configure", size |-> size] \in Event
        BY DEF Event
      <4>. QED
        BY <3>1, <4>1, <4>2, Batches DEF Resize, PlainTypes
    <3>2. CASE Damage
      BY <3>2, Batches DEF Damage, PlainTypes
    <3>3. CASE Restacked
      <4>1. [kind |-> "configure", size |-> window] \in Event
        BY DEF Event, PlainTypes
      <4>. QED
        BY <3>3, <4>1 DEF Restacked, PlainTypes
    <3>. QED
      BY <1>2, <3>1, <3>2, <3>3 DEF Server
  <2>2. Damages
    BY <1>2, Zenon DEF Server, Resize, Damage, Restacked
  <2>. QED
    BY <2>1, <2>2 DEF PlainTypes, Damages, transportVars, loopVars, backendVars
<1>3. CASE Transport
  BY <1>3 DEF PlainTypes, Transport, ConnectionChanges, FrameArrives, serverVars, loopVars,
       backendVars, boundVars
<1>4. CASE LoopIndicator
  BY <1>4 DEF PlainTypes, LoopIndicator, LoopFails, Fault, transportVars, backendVars
<1>5. CASE LoopFrame
  <2>1. faults' = faults \/ Fault
    BY <1>5, Zenon DEF LoopFrame, display_remote_frame
  <2>2. faults' \in 0 .. MaxFaults
    BY <2>1 DEF PlainTypes, Fault
  <2>. QED
    BY <1>5, <2>2 DEF PlainTypes, LoopFrame
<1>6. CASE LoopSleep
  BY <1>6 DEF PlainTypes, LoopSleep, serverVars, transportVars, backendVars, boundVars
<1>7. CASE LoopExpose
  BY <1>7 DEF PlainTypes, LoopExpose, TakeEvent, draw_surface, LoopFails, Fault
<1>8. CASE LoopConfigureUnchanged
  BY <1>8 DEF PlainTypes, LoopConfigureUnchanged, TakeEvent
<1>9. CASE LoopConfigure
  <2>1. Head(events) \in Event /\ Head(events).kind = "configure"
    BY <1>9 DEF LoopConfigure, TakeEvent, PlainTypes
  <2>2. Head(events).size \in Sizes
    BY <2>1, ConfigureSize
  <2>. QED
    BY <1>9, <2>2 DEF PlainTypes, LoopConfigure, TakeEvent, draw_surface, LoopFails, Fault
<1>. QED
  BY <1>1, <1>2, <1>3, <1>4, <1>5, <1>6, <1>7, <1>8, <1>9, Zenon DEF Next, EventLoop
-----------------------------------------------------------------------------
(* What each drawing leaves on the screen and in the cache.                *)

\* Everything retained may be drawn, and is what a frame on the screen is.
LEMMA FrameDisplayed ==
    ASSUME Drawings, RetainedIsShown, NEW frame \in mailbox, display_remote_frame(frame)
    PROVE  /\ remote' \in Contents
           /\ system' \in {"filled", "outlined", "damaged"}
           /\ cache' \subseteq Frame
           /\ \A f \in cache' : f.size = dimensions /\ CanDisplay(f)
           /\ remote'.frame \subseteq cache'
           /\ cache' # cache => cache' = {frame} /\ remote' = DrawnRemote(dimensions, Showing({frame}))
<1>0. frame \in Frame /\ frame.size = dimensions
  BY Zenon DEF Drawings
<1>1. CASE UNCHANGED <<remote, system, cache>>
  BY <1>1, Zenon DEF Drawings, RetainedIsShown
<1>2. CASE /\ CanDisplay(frame)
           /\ remote' = DrawnRemote(dimensions, Showing({frame}))
           /\ system' = DrawnSystem(dimensions, system)
           /\ cache' = {frame}
  <2>1. Showing({frame}) \in Contents /\ Showing({frame}).frame = {frame}
    BY <1>0, ContentsOf
  <2>2. remote' \in Contents /\ remote'.frame \subseteq {frame}
    BY <1>2, <2>1, Drawn
  <2>3. system' \in {"filled", "outlined", "damaged"}
    BY <1>2, SystemDrawn, Zenon DEF Drawings
  <2>. QED
    BY <1>0, <1>2, <2>2, <2>3, Zenon
<1>3. CASE /\ remote' = RemoteBroken(dimensions)
           /\ system' = DrawnSystem(dimensions, system)
           /\ UNCHANGED cache
  <2>1. remote' \in Contents /\ remote'.frame \subseteq remote.frame
    BY <1>3, BrokenRemote, Zenon DEF Drawings
  <2>2. system' \in {"filled", "outlined", "damaged"}
    BY <1>3, SystemDrawn, Zenon DEF Drawings
  <2>. QED
    BY <1>3, <2>1, <2>2, Zenon DEF Drawings, RetainedIsShown
<1>. QED
  BY <1>1, <1>2, <1>3, Zenon DEF display_remote_frame

LEMMA SurfaceDrawn ==
    ASSUME Drawings, NEW size, NEW retained \in SUBSET Frame, draw_surface(size, retained),
           backend = "x11" \/ remote.frame \subseteq retained
    PROVE  /\ remote' \in Contents
           /\ system' \in {"filled", "outlined", "damaged"}
           /\ remote'.frame \subseteq retained
<1>1. system' \in {"filled", "outlined", "damaged"}
  BY SystemDrawn, IndicatorDrawn, Zenon DEF draw_surface
<1>2. CASE remote' = DrawnRemote(size, Restored(retained))
  <2>1. Restored(retained) \in Contents /\ Restored(retained).frame \subseteq retained
    BY RestoredRemote, Zenon DEF Drawings
  <2>2. remote' \in Contents /\ remote'.frame \subseteq Restored(retained).frame
    BY <1>2, <2>1, Drawn
  <2>. QED
    BY <1>1, <2>1, <2>2, Zenon
<1>3. CASE remote' = RemoteBroken(size)
  <2>1. /\ remote' \in Contents
        /\ remote'.frame \subseteq remote.frame
        /\ backend = "x11" => remote'.frame = {}
    BY <1>3, BrokenRemote, Zenon DEF Drawings
  <2>. QED
    BY <1>1, <2>1, Zenon
<1>. QED
  BY <1>2, <1>3, Zenon DEF draw_surface

LEMMA LoopFailed ==
    ASSUME LoopFails
    PROVE  /\ remote' \in Contents /\ remote'.frame = {}
           /\ system' \in {"filled", "outlined", "damaged"}
  BY ContentsOf, Zenon DEF LoopFails

LEMMA BackendStays ==
    ASSUME [Next]_vars
    PROVE  backend' = backend /\ adapter' = adapter
  BY Zenon DEF Next, Server, Resize, Damage, Restacked, Damages, Transport, ConnectionChanges,
     FrameArrives, EventLoop, LoopIndicator, LoopFrame, LoopSleep, LoopExpose,
     LoopConfigureUnchanged, LoopConfigure, TakeEvent, vars, backendVars
-----------------------------------------------------------------------------
(* The inductive invariant.                                                *)

LEMMA Initially == Init => IInv
<1>. SUFFICES ASSUME Init PROVE IInv
  OBVIOUS
<1>1. Flags
  BY Zenon DEF Init, Flags
<1>2. events \in Seq(Event)
  <2>1. [kind |-> "expose", count |-> 0] \in Event
    BY DEF Event
  <2>. QED
    BY <2>1, ShortSequences, Zenon DEF Init
<1>3. PlainTypes
  BY <1>2, DisplayAssumption DEF Init, PlainTypes
<1>4. Drawings /\ RetainedIsShown
  BY ContentsOf, Zenon DEF Init, Drawings, RetainedIsShown
<1>5. OneWaiting
  BY Zenon DEF Init, OneWaiting
<1>. QED
  BY <1>1, <1>3, <1>4, <1>5 DEF IInv

LEMMA OneWaitingStays ==
    ASSUME OneWaiting, [Next]_vars
    PROVE  OneWaiting'
<1>1. \/ mailbox' \subseteq mailbox
      \/ \E f : mailbox' = {f}
  BY Zenon DEF Next, Server, Resize, Damage, Restacked, Damages, Transport, ConnectionChanges,
     FrameArrives, EventLoop, LoopIndicator, LoopFrame, LoopSleep, LoopExpose,
     LoopConfigureUnchanged, LoopConfigure, set_viewport, vars, transportVars
<1>. QED
  BY <1>1, Zenon DEF OneWaiting

LEMMA DrawingsStay ==
    ASSUME PlainTypes, Drawings, RetainedIsShown, [Next]_vars
    PROVE  Drawings' /\ RetainedIsShown'
<1>0. ASSUME NEW f PROVE CanDisplay(f)' <=> CanDisplay(f)
  <2>1. backend' = backend /\ adapter' = adapter
    BY BackendStays
  <2>. QED
    BY <2>1, SMT DEF CanDisplay
<1>1. SUFFICES /\ remote' \in Contents
               /\ system' \in {"filled", "outlined", "damaged"}
               /\ cache' \subseteq Frame
               /\ mailbox' \subseteq Frame
               /\ \A f \in mailbox' : f.size = dimensions'
               /\ \A f \in cache' : f.size = dimensions' /\ CanDisplay(f)
               /\ remote'.frame \subseteq cache'
  BY <1>0, Zenon DEF Drawings, RetainedIsShown
<1>. DEFINE Kept == UNCHANGED <<mailbox, dimensions, cache>>
            Untouched == UNCHANGED <<remote, system>>
<1>2. CASE Kept /\ Untouched
  BY <1>2, Zenon DEF Drawings, RetainedIsShown
<1>3. CASE Server
  <2>1. Kept
    BY <1>3, Zenon DEF Server, Resize, Damage, Restacked, Damages, transportVars, backendVars
  <2>2. /\ remote' \in Contents /\ remote'.frame \subseteq remote.frame
        /\ system' \in {"filled", "outlined", "damaged"}
    BY <1>3, ContentsOf, Zenon DEF Server, Resize, Damage, Restacked, Drawings
  <2>. QED
    BY <2>1, <2>2, Zenon DEF Drawings, RetainedIsShown
<1>4. CASE Transport
  <2>1. UNCHANGED <<remote, system, dimensions, cache>>
    BY <1>4, Zenon DEF Transport, ConnectionChanges, FrameArrives, serverVars, backendVars
  <2>2. mailbox' \subseteq Frame /\ \A f \in mailbox' : f.size = dimensions
    <3>1. CASE ConnectionChanges
      BY <3>1, Zenon DEF ConnectionChanges, Drawings
    <3>2. ASSUME NEW format \in PixelFormats, FrameArrives(format)
          PROVE  mailbox' \subseteq Frame /\ \A f \in mailbox' : f.size = dimensions
      <4>1. frames + 1 \in 1 .. MaxFrames
        BY <3>2, DisplayAssumption DEF FrameArrives, PlainTypes
      <4>2. [id |-> frames + 1, size |-> dimensions, format |-> format] \in Frame
        BY <4>1 DEF Frame, PlainTypes
      <4>3. [id |-> frames + 1, size |-> dimensions, format |-> format].size = dimensions
        OBVIOUS
      <4>. QED
        BY <3>2, <4>2, <4>3, Zenon DEF FrameArrives
    <3>. QED
      BY <1>4, <3>1, <3>2, Zenon DEF Transport
  <2>. QED
    BY <2>1, <2>2, Zenon DEF Drawings, RetainedIsShown
<1>5. CASE LoopIndicator
  <2>1. Kept
    BY <1>5, Zenon DEF LoopIndicator, transportVars, backendVars
  <2>2. CASE Untouched
    BY <2>1, <2>2, <1>2
  <2>3. CASE draw_system_ui(dimensions, up)
    <3>1. remote' \in Contents /\ remote'.frame \subseteq remote.frame
      BY <2>3, Drawn, Zenon DEF draw_system_ui, Drawings
    <3>2. system' \in {"filled", "outlined", "damaged"}
      BY <2>3, SystemDrawn, IndicatorDrawn, Zenon DEF draw_system_ui
    <3>. QED
      BY <2>1, <3>1, <3>2, Zenon DEF Drawings, RetainedIsShown
  <2>4. CASE LoopFails
    BY <2>1, <2>4, LoopFailed, Zenon DEF Drawings, RetainedIsShown
  <2>. QED
    BY <1>5, <2>2, <2>3, <2>4, Zenon DEF LoopIndicator
<1>6. CASE LoopFrame
  <2>1. mailbox' = {} /\ dimensions' = dimensions
    BY <1>6, Zenon DEF LoopFrame
  <2>2. CASE UNCHANGED <<remote, system, cache>>
    BY <2>1, <2>2, Zenon DEF Drawings, RetainedIsShown
  <2>3. ASSUME NEW frame \in mailbox, display_remote_frame(frame)
        PROVE  /\ remote' \in Contents
               /\ system' \in {"filled", "outlined", "damaged"}
               /\ cache' \subseteq Frame
               /\ \A f \in cache' : f.size = dimensions /\ CanDisplay(f)
               /\ remote'.frame \subseteq cache'
    BY <2>3, FrameDisplayed, Zenon
  <2>4. \/ UNCHANGED <<remote, system, cache>>
        \/ \E frame \in mailbox : display_remote_frame(frame)
    BY <1>6, Zenon DEF LoopFrame
  <2>. QED
    BY <2>1, <2>2, <2>3, <2>4, Zenon
<1>7. CASE LoopSleep
  BY <1>7, <1>2, Zenon DEF LoopSleep, serverVars, transportVars, backendVars
<1>8. CASE LoopExpose
  <2>1. Kept
    BY <1>8, Zenon DEF LoopExpose
  <2>2. CASE Untouched
    BY <2>1, <2>2, <1>2
  <2>3. CASE draw_surface(dimensions, cache)
    BY <2>1, <2>3, SurfaceDrawn, Zenon DEF Drawings, RetainedIsShown
  <2>4. CASE LoopFails
    BY <2>1, <2>4, LoopFailed, Zenon DEF Drawings, RetainedIsShown
  <2>. QED
    BY <1>8, <2>2, <2>3, <2>4, Zenon DEF LoopExpose
<1>9. CASE LoopConfigureUnchanged
  BY <1>9, <1>2, Zenon DEF LoopConfigureUnchanged
<1>10. CASE LoopConfigure
  <2>. DEFINE size == Head(events).size
  <2>1. mailbox' = {f \in mailbox : f.size = size}
    BY <1>10, Zenon DEF LoopConfigure, set_viewport
  <2>2. CASE LoopFails /\ UNCHANGED <<dimensions, cache>>
    BY <2>1, <2>2, LoopFailed, Zenon DEF Drawings, RetainedIsShown
  <2>3. CASE /\ backend = "x11" /\ dimensions' = size
             /\ cache' = invalidate_mismatched(size)
             /\ draw_surface(size, cache') \/ LoopFails
    <3>1. cache' = {f \in cache : f.size = size}
      BY <2>3, Zenon DEF invalidate_mismatched
    <3>2. /\ cache' \subseteq Frame
          /\ \A f \in cache' : f.size = dimensions' /\ CanDisplay(f)
          /\ mailbox' \subseteq Frame
          /\ \A f \in mailbox' : f.size = dimensions'
      BY <2>1, <2>3, <3>1, Zenon DEF Drawings, RetainedIsShown
    <3>3. CASE draw_surface(size, cache')
      <4>1. cache' \in SUBSET Frame
        BY <3>2, Zenon
      <4>2. /\ remote' \in Contents
            /\ system' \in {"filled", "outlined", "damaged"}
            /\ remote'.frame \subseteq cache'
        BY <2>3, <3>3, <4>1, SurfaceDrawn, Zenon
      <4>. QED
        BY <3>2, <4>2, Zenon
    <3>4. CASE LoopFails
      BY <3>2, <3>4, LoopFailed, Zenon
    <3>. QED
      BY <2>3, <3>3, <3>4, Zenon
  <2>. QED
    BY <1>10, <2>2, <2>3, Zenon DEF LoopConfigure
<1>11. CASE UNCHANGED vars
  BY <1>11, <1>2, Zenon DEF vars, serverVars, transportVars, backendVars
<1>. QED
  BY <1>3, <1>4, <1>5, <1>6, <1>7, <1>8, <1>9, <1>10, <1>11, Zenon DEF Next, EventLoop

\* The invariant holds in every reachable state.
THEOREM Invariance == Spec => []IInv
<1>1. IInv /\ [Next]_vars => IInv'
  BY PlainTypesStay, FlagsStay, OneWaitingStays, DrawingsStay, Zenon DEF IInv
<1>. QED
  BY <1>1, Initially, PTL DEF Spec

\* Every state of the specification has its type.
THEOREM TypeCorrect == Spec => []TypeOK
  BY Invariance, Parts, PTL

\* What is retained can be drawn again, and a frame on the screen is the one
\* retained.
THEOREM RetainedShown == Spec => []RetainedIsShown
  BY Invariance, Parts, PTL

\* What is retained changes to the frame just displayed, or to nothing when
\* the viewport changes: every retained frame has the old dimensions.
THEOREM OnlyDisplayedRetained == Spec => OnlyDisplayedIsRetained
<1>. DEFINE Justified == cache' # cache =>
                \/ cache' = {} /\ dimensions' # dimensions
                \/ cache' = mailbox /\ remote' = DrawnRemote(dimensions, Showing(mailbox))
<1>1. ASSUME IInv, [Next]_vars PROVE Justified
  <2>1. CASE LoopFrame
    <3>1. ASSUME NEW frame \in mailbox, display_remote_frame(frame) PROVE Justified
      <4>1. mailbox = {frame}
        BY <1>1, <3>1, Zenon DEF IInv, OneWaiting
      <4>2. cache' # cache => cache' = {frame} /\ remote' = DrawnRemote(dimensions, Showing({frame}))
        BY <1>1, <3>1, FrameDisplayed, Zenon DEF IInv
      <4>. QED
        BY <4>1, <4>2, Zenon
    <3>. QED
      BY <2>1, <3>1, Zenon DEF LoopFrame
  <2>2. CASE LoopConfigure
    <3>. DEFINE size == Head(events).size
    <3>1. CASE dimensions' = size /\ cache' = {f \in cache : f.size = size}
      <4>1. size # dimensions
        BY <2>2, Zenon DEF LoopConfigure
      <4>2. \A f \in cache : f.size = dimensions
        BY <1>1, Zenon DEF IInv, RetainedIsShown
      <4>. HIDE DEF size
      <4>. QED
        BY <3>1, <4>1, <4>2, Zenon
    <3>2. CASE cache' = cache
      BY <3>2, Zenon
    <3>. QED
      BY <2>2, <3>1, <3>2, Zenon DEF LoopConfigure, invalidate_mismatched
  <2>3. CASE cache' = cache
    BY <2>3, Zenon
  <2>. QED
    BY <1>1, <2>1, <2>2, <2>3, Zenon DEF Next, Server, Resize, Damage, Restacked, Damages,
       Transport, ConnectionChanges, FrameArrives, EventLoop, LoopIndicator, LoopSleep,
       LoopExpose, LoopConfigureUnchanged, vars, backendVars
<1>. QED
  BY <1>1, Invariance, PTL DEF Spec, OnlyDisplayedIsRetained

-----------------------------------------------------------------------------
(* The screen when nothing is left to read.  Two things are in the queue   *)
(* until the loop has caught up: a ConfigureNotify with the size of the    *)
(* window when the loop draws for another, and behind it an Expose that    *)
(* makes it redraw.  So once no Expose waits that redraws, the loop draws  *)
(* for the window as it is and every drawing since the last damage hit it. *)

IsRedraw(event) == event.kind = "expose" /\ event.count = 0

\* A redraw waits in the queue.
Redraws(queue) == \E k \in DOMAIN queue : IsRedraw(queue[k])

\* Behind position i the queue tells the size, and then to redraw.
Announced(queue, i, size) ==
    \E j, k \in DOMAIN queue :
        /\ i < j /\ j < k
        /\ queue[j].kind = "configure" /\ queue[j].size = size
        /\ IsRedraw(queue[k])

\* Every size but the window's is followed by the window's.
Follows(queue, drawn, size) ==
    /\ drawn # size => Announced(queue, 0, size)
    /\ \A i \in DOMAIN queue :
          queue[i].kind = "configure" /\ queue[i].size # size => Announced(queue, i, size)

\* What the indicator shows was read last; at the start nothing was read yet.
Displays ==
    \/ displayed = {connected}
    \/ displayed = {} /\ phase = "indicator" /\ Redraws(events)

\* The viewport shows what is retained, or the background on X11.
RemoteCurrent(contents, retained) ==
    contents # Broken /\ (backend = "x11" \/ retained # {}) => contents = Showing(retained)

Caught ==
    /\ backend = "mxcfb" => adapter
    /\ phase # "ended" =>
         /\ Follows(events, dimensions, window)
         /\ Displays
         /\ backend = "mxcfb" => remote \in {Damaged, Broken, Showing(cache)}
         /\ ~Redraws(events) =>
              system = Indicator(connected) /\ RemoteCurrent(remote, cache)

LEMMA Concatenated ==
    ASSUME NEW q \in Seq(Event), NEW r \in Seq(Event)
    PROVE  /\ DOMAIN q = 1 .. Len(q) /\ DOMAIN r = 1 .. Len(r)
           /\ DOMAIN (q \o r) = 1 .. Len(q) + Len(r)
           /\ Len(q) \in Nat /\ Len(r) \in Nat
           /\ \A i \in DOMAIN q : i \in DOMAIN (q \o r) /\ (q \o r)[i] = q[i]
           /\ \A i \in DOMAIN r :
                 i + Len(q) \in DOMAIN (q \o r) /\ (q \o r)[i + Len(q)] = r[i]
           /\ \A i \in DOMAIN (q \o r) :
                 \/ i \in DOMAIN q /\ (q \o r)[i] = q[i]
                 \/ i - Len(q) \in DOMAIN r /\ (q \o r)[i] = r[i - Len(q)]
<1>1. /\ DOMAIN q = 1 .. Len(q) /\ DOMAIN r = 1 .. Len(r)
      /\ DOMAIN (q \o r) = 1 .. Len(q) + Len(r)
      /\ Len(q) \in Nat /\ Len(r) \in Nat
  OBVIOUS
<1>. QED
  BY <1>1

LEMMA Extended ==
    ASSUME NEW q \in Seq(Event), NEW r \in Seq(Event)
    PROVE  /\ \A size : \A i \in Nat : Announced(q, i, size) => Announced(q \o r, i, size)
           /\ Redraws(q) \/ Redraws(r) <=> Redraws(q \o r)
           /\ \A i \in DOMAIN (q \o r) :
                 \/ i \in DOMAIN q /\ (q \o r)[i] = q[i]
                 \/ i - Len(q) \in DOMAIN r /\ (q \o r)[i] = r[i - Len(q)]
<1>2. /\ \A i \in DOMAIN q : i \in DOMAIN (q \o r) /\ (q \o r)[i] = q[i]
      /\ \A i \in DOMAIN r : i + Len(q) \in DOMAIN (q \o r) /\ (q \o r)[i + Len(q)] = r[i]
      /\ \A i \in DOMAIN (q \o r) :
            \/ i \in DOMAIN q /\ (q \o r)[i] = q[i]
            \/ i - Len(q) \in DOMAIN r /\ (q \o r)[i] = r[i - Len(q)]
  BY Concatenated
<1>. DEFINE s == q \o r
<1>. HIDE DEF s
<1>3. \A size : \A i \in Nat : Announced(q, i, size) => Announced(s, i, size)
  BY <1>2 DEF Announced, s
<1>4. Redraws(q) \/ Redraws(r) <=> Redraws(s)
  BY <1>2 DEF Redraws, s
<1>. QED
  BY <1>2, <1>3, <1>4 DEF s

LEMMA Taken ==
    ASSUME NEW q \in Seq(Event), q # <<>>
    PROVE  /\ Tail(q) \in Seq(Event) /\ Head(q) \in Event
           /\ \A i \in DOMAIN Tail(q) : i + 1 \in DOMAIN q /\ Tail(q)[i] = q[i + 1]
           /\ \A i \in DOMAIN q : i = 1 \/ (i - 1 \in DOMAIN Tail(q) /\ q[i] = Tail(q)[i - 1])
           /\ 1 \in DOMAIN q /\ q[1] = Head(q)
  OBVIOUS

\* Reading an event: what it announced is drawn for from now on.
LEMMA TakenFollows ==
    ASSUME NEW q \in Seq(Event), q # <<>>, NEW drawn, NEW now, NEW size,
           Follows(q, drawn, size),
           \/ Head(q).kind = "expose" /\ now = drawn
           \/ Head(q).kind = "configure" /\ now = Head(q).size
    PROVE  /\ Follows(Tail(q), now, size)
           /\ Redraws(q) => IsRedraw(Head(q)) \/ Redraws(Tail(q))
<1>. DEFINE t == Tail(q)
<1>1. /\ \A i \in DOMAIN t : i + 1 \in DOMAIN q /\ t[i] = q[i + 1]
      /\ \A i \in DOMAIN q : i = 1 \/ (i - 1 \in DOMAIN t /\ q[i] = t[i - 1])
      /\ 1 \in DOMAIN q /\ q[1] = Head(q)
      /\ DOMAIN q \subseteq Nat /\ DOMAIN t \subseteq Nat
      /\ \A i \in DOMAIN q : i >= 1
  BY Taken
<1>. HIDE DEF t
<1>2. ASSUME NEW i \in DOMAIN q, Announced(q, i, size) PROVE Announced(t, i - 1, size)
  <2>1. PICK j \in DOMAIN q, k \in DOMAIN q :
          /\ i < j /\ j < k
          /\ q[j].kind = "configure" /\ q[j].size = size /\ IsRedraw(q[k])
    BY <1>2 DEF Announced
  <2>2. /\ j - 1 \in DOMAIN t /\ t[j - 1] = q[j] /\ k - 1 \in DOMAIN t /\ t[k - 1] = q[k]
        /\ i - 1 < j - 1 /\ j - 1 < k - 1
    BY <1>1, <2>1
  <2>. QED
    BY <2>1, <2>2 DEF Announced
<1>3. now # size => Announced(t, 0, size)
  <2>1. CASE Head(q).kind = "expose" /\ now = drawn /\ now # size
    <3>1. PICK j \in DOMAIN q, k \in DOMAIN q :
            /\ 0 < j /\ j < k
            /\ q[j].kind = "configure" /\ q[j].size = size /\ IsRedraw(q[k])
      BY <2>1 DEF Follows, Announced
    <3>2. j # 1
      BY <1>1, <2>1, <3>1
    <3>3. /\ j - 1 \in DOMAIN t /\ t[j - 1] = q[j] /\ k - 1 \in DOMAIN t /\ t[k - 1] = q[k]
          /\ 0 < j - 1 /\ j - 1 < k - 1
      BY <1>1, <3>1, <3>2
    <3>. QED
      BY <3>1, <3>3 DEF Announced
  <2>2. CASE Head(q).kind = "configure" /\ now = Head(q).size /\ now # size
    <3>1. Announced(q, 1, size)
      BY <1>1, <2>2 DEF Follows
    <3>2. Announced(t, 1 - 1, size)
      BY <1>1, <1>2, <3>1
    <3>. QED
      BY <3>2
  <2>. QED
    BY <2>1, <2>2
<1>4. ASSUME NEW i \in DOMAIN t, t[i].kind = "configure", t[i].size # size
      PROVE  Announced(t, i, size)
  <2>1. i + 1 \in DOMAIN q /\ q[i + 1] = t[i]
    BY <1>1
  <2>2. Announced(q, i + 1, size)
    BY <1>4, <2>1 DEF Follows
  <2>3. Announced(t, (i + 1) - 1, size)
    BY <1>2, <2>1, <2>2
  <2>4. (i + 1) - 1 = i
    BY <1>1
  <2>. QED
    BY <2>3, <2>4
<1>5. Redraws(q) => IsRedraw(Head(q)) \/ Redraws(t)
  BY <1>1 DEF Redraws
<1>. QED
  BY <1>3, <1>4, <1>5 DEF Follows, t

\* Without a redraw in the queue the loop draws for the window.
LEMMA FollowedIsDrawn ==
    ASSUME NEW q, NEW drawn, NEW size, Follows(q, drawn, size), ~Redraws(q)
    PROVE  /\ drawn = size
           /\ \A i \in DOMAIN q : q[i].kind = "configure" => q[i].size = size
  BY DEF Follows, Announced, Redraws

LEMMA BatchRedraws ==
    ASSUME NEW batch \in ExposeBatches
    PROVE  Redraws(batch) /\ \A i \in DOMAIN batch : batch[i].kind = "expose"
<1>. DEFINE last == [kind |-> "expose", count |-> 0]
            more == [kind |-> "expose", count |-> 1]
<1>1. batch = <<last>> \/ batch = <<more, last>>
  BY Zenon DEF ExposeBatches
<1>2. last.kind = "expose" /\ more.kind = "expose" /\ IsRedraw(last)
  BY DEF IsRedraw
<1>. HIDE DEF last, more
<1>3. CASE batch = <<last>>
  <2>1. DOMAIN batch = {1} /\ batch[1] = last
    BY <1>3
  <2>. QED
    BY <1>2, <2>1 DEF Redraws
<1>4. CASE batch = <<more, last>>
  <2>1. DOMAIN batch = {1, 2} /\ batch[1] = more /\ batch[2] = last
    BY <1>4
  <2>. QED
    BY <1>2, <2>1 DEF Redraws
<1>. QED
  BY <1>1, <1>3, <1>4

\* What the server appends keeps the queue ahead of the loop.
LEMMA DamageFollows ==
    ASSUME NEW q \in Seq(Event), NEW drawn, NEW size, Follows(q, drawn, size),
           NEW r \in Seq(Event),
           \A i \in DOMAIN r : r[i].kind = "configure" => r[i].size = size
    PROVE  Follows(q \o r, drawn, size)
<1>. DEFINE s == q \o r
<1>1. /\ \A z : \A i \in Nat : Announced(q, i, z) => Announced(s, i, z)
      /\ \A i \in DOMAIN s :
            \/ i \in DOMAIN q /\ s[i] = q[i]
            \/ i - Len(q) \in DOMAIN r /\ s[i] = r[i - Len(q)]
      /\ DOMAIN q \subseteq Nat
  BY Extended
<1>. HIDE DEF s
<1>. QED
  BY <1>1 DEF Follows, s

LEMMA ResizeFollows ==
    ASSUME NEW q \in Seq(Event), NEW drawn, NEW size \in Sizes, NEW batch \in ExposeBatches
    PROVE  /\ Follows(q \o <<[kind |-> "configure", size |-> size]>> \o batch, drawn, size)
           /\ Redraws(q \o <<[kind |-> "configure", size |-> size]>> \o batch)
<1>. DEFINE c == [kind |-> "configure", size |-> size]
            q1 == q \o <<c>>
            s == q1 \o batch
            n == Len(q) + 1
<1>1. c \in Event /\ c.kind = "configure" /\ c.size = size
  BY DEF Event
<1>2. batch \in Seq(Event) /\ Redraws(batch) /\ \A i \in DOMAIN batch : batch[i].kind = "expose"
  BY Batches, BatchRedraws
<1>. HIDE DEF c
<1>3. q1 \in Seq(Event) /\ Len(q1) = n /\ q1[n] = c /\ n \in Nat /\ n > 0
  BY <1>1
<1>. HIDE DEF q1, n
<1>4. /\ \A i \in DOMAIN s : i > n => i - n \in DOMAIN batch /\ s[i] = batch[i - n]
      /\ n \in DOMAIN s /\ s[n] = c
      /\ \A i \in DOMAIN batch : i + n \in DOMAIN s /\ s[i + n] = batch[i]
      /\ DOMAIN s \subseteq Nat \ {0} /\ DOMAIN batch \subseteq Nat \ {0}
  BY <1>2, <1>3, Concatenated
<1>. HIDE DEF s
<1>5. PICK k \in DOMAIN batch : IsRedraw(batch[k])
  BY <1>2 DEF Redraws
<1>6. k + n \in DOMAIN s /\ IsRedraw(s[k + n]) /\ n < k + n
  BY <1>3, <1>4, <1>5
<1>7. \A i \in Nat : i < n => Announced(s, i, size)
  BY <1>1, <1>4, <1>6 DEF Announced
<1>8. \A i \in DOMAIN s : s[i].kind = "configure" /\ s[i].size # size => i < n
  <2>. SUFFICES ASSUME NEW i \in DOMAIN s, s[i].kind = "configure", s[i].size # size, ~(i < n)
                PROVE  FALSE
    OBVIOUS
  <2>1. i \in Nat /\ i # n
    BY <1>1, <1>4
  <2>2. i - n \in DOMAIN batch /\ s[i] = batch[i - n]
    BY <1>3, <1>4, <2>1
  <2>. QED
    BY <1>2, <2>2
<1>9. Follows(s, drawn, size)
  BY <1>3, <1>4, <1>7, <1>8 DEF Follows
<1>10. Redraws(s)
  BY <1>6 DEF Redraws
<1>. QED
  BY <1>9, <1>10 DEF s, q1, c

LEMMA CaughtServer ==
    ASSUME IInv, Caught, phase # "ended", Server
    PROVE  Caught'
<1>1. /\ UNCHANGED <<phase, backend, adapter, dimensions, cache, displayed, connected>>
      /\ events \in Seq(Event)
  BY Zenon DEF Server, Resize, Damage, Restacked, Damages, loopVars, backendVars, IInv, PlainTypes
<1>2. /\ backend = "mxcfb" => adapter
      /\ Follows(events, dimensions, window) /\ Displays
      /\ backend = "mxcfb" => remote \in {Damaged, Broken, Showing(cache)}
      /\ ~Redraws(events) => system = Indicator(connected) /\ RemoteCurrent(remote, cache)
  BY DEF Caught
<1>3. remote' \in {remote, Damaged}
  BY Zenon DEF Server, Resize, Damage, Restacked
<1>4. CASE Follows(events, dimensions, window)' /\ Redraws(events)'
  BY <1>1, <1>2, <1>3, <1>4 DEF Caught, Displays
<1>5. ASSUME NEW size \in Sizes, Resize(size) PROVE Caught'
  <2>1. PICK batch \in ExposeBatches :
           events' = events \o <<[kind |-> "configure", size |-> size]>> \o batch
    BY <1>5 DEF Resize
  <2>2. window' = size
    BY <1>5 DEF Resize
  <2>. QED
    BY <1>1, <1>4, <2>1, <2>2, ResizeFollows
<1>6. CASE Damage
  <2>1. PICK batch \in ExposeBatches : events' = events \o batch
    BY <1>6 DEF Damage
  <2>2. window' = window
    BY <1>6 DEF Damage
  <2>3. /\ batch \in Seq(Event) /\ Redraws(batch)
        /\ \A i \in DOMAIN batch : batch[i].kind # "configure"
    BY Batches, BatchRedraws
  <2>4. Follows(events \o batch, dimensions, window) /\ Redraws(events \o batch)
    BY <1>1, <1>2, <2>3, DamageFollows, Extended
  <2>. QED
    BY <1>1, <1>4, <2>1, <2>2, <2>4
<1>7. CASE Restacked
  <2>. DEFINE c == [kind |-> "configure", size |-> window]
  <2>1. events' = Append(events, c) /\ UNCHANGED <<window, remote, system>>
    BY <1>7 DEF Restacked
  <2>2. c \in Event /\ c.kind = "configure" /\ c.size = window
    BY DEF Event, IInv, PlainTypes
  <2>3. ~IsRedraw(c)
    BY <2>2 DEF IsRedraw
  <2>. HIDE DEF c
  <2>4. events' = events \o <<c>> /\ <<c>> \in Seq(Event)
    BY <1>1, <2>1, <2>2
  <2>5. \A i \in DOMAIN <<c>> : <<c>>[i] = c
    OBVIOUS
  <2>6. Follows(events \o <<c>>, dimensions, window)
    BY <1>1, <1>2, <2>2, <2>4, <2>5, DamageFollows
  <2>7. Redraws(events \o <<c>>) <=> Redraws(events)
    <3>1. ~Redraws(<<c>>)
      BY <2>3, <2>5 DEF Redraws
    <3>. QED
      BY <1>1, <2>4, <3>1, Extended
  <2>8. Follows(events, dimensions, window)' /\ (Redraws(events)' <=> Redraws(events))
    BY <1>1, <2>1, <2>4, <2>6, <2>7
  <2>. QED
    BY <1>1, <1>2, <2>1, <2>8 DEF Caught, Displays, RemoteCurrent
<1>. QED
  BY <1>5, <1>6, <1>7 DEF Server

\* A redraw leaves what is retained on the screen.
LEMMA RestoredCurrent ==
    ASSUME NEW retained, backend \in Backends, retained # {} => adapter
    PROVE  /\ RemoteCurrent(Restored(retained), retained)
           /\ backend = "mxcfb" => Restored(retained) \in {remote, Showing(retained)}
<1>1. CASE backend = "x11"
  <2>1. (IF adapter THEN retained ELSE {}) = retained
    OBVIOUS
  <2>2. Restored(retained) = Showing(retained)
    BY <1>1, <2>1 DEF Restored
  <2>. QED
    BY <1>1, <2>2 DEF RemoteCurrent
<1>2. CASE backend = "mxcfb" /\ retained = {}
  BY <1>2 DEF Restored, RemoteCurrent
<1>3. CASE backend = "mxcfb" /\ retained # {}
  BY <1>3 DEF Restored, RemoteCurrent
<1>. QED
  BY <1>1, <1>2, <1>3 DEF Backends

\* A failed drawing breaks the viewport of an X11 window of that size, and of
\* the framebuffer leaves what was there.
LEMMA BrokenCurrent ==
    ASSUME NEW retained, NEW size, backend \in Backends,
           backend = "mxcfb" => remote \in {Damaged, Broken, Showing(retained)}
    PROVE  /\ size = window => RemoteCurrent(RemoteBroken(size), retained)
           /\ backend = "mxcfb" => RemoteBroken(size) \in {Broken, Showing(retained)}
<1>1. CASE backend = "x11"
  BY <1>1 DEF RemoteBroken, DrawnRemote, Fits, RemoteCurrent
<1>2. CASE backend = "mxcfb"
  BY <1>2 DEF RemoteBroken, RemoteCurrent
<1>. QED
  BY <1>1, <1>2 DEF Backends

\* Drawing for the size of the window, or on the framebuffer, is seen.
LEMMA DrawnCurrent ==
    ASSUME NEW size, size = window \/ backend = "mxcfb"
    PROVE  /\ \A contents : DrawnRemote(size, contents) = contents
           /\ \A contents : DrawnSystem(size, contents) = contents
  BY DEF DrawnRemote, DrawnSystem, Fits

LEMMA CaughtIndicator ==
    ASSUME IInv, Caught, LoopIndicator
    PROVE  Caught'
<1>1. /\ UNCHANGED <<window, events, backend, adapter, dimensions, cache>>
      /\ connected' = up /\ displayed' = {up} /\ phase = "indicator"
  BY DEF LoopIndicator, transportVars, backendVars
<1>2. /\ backend = "mxcfb" => adapter
      /\ Follows(events, dimensions, window) /\ Displays
      /\ backend = "mxcfb" => remote \in {Damaged, Broken, Showing(cache)}
      /\ ~Redraws(events) => system = Indicator(connected) /\ RemoteCurrent(remote, cache)
  BY <1>1 DEF Caught
<1>3. CASE phase' = "ended"
  BY <1>1, <1>2, <1>3 DEF Caught
<1>4. ASSUME /\ backend = "mxcfb" => remote' = remote
             /\ ~Redraws(events) => remote' = remote /\ system' = Indicator(up)
      PROVE  Caught'
  BY <1>1, <1>2, <1>4 DEF Caught, Displays, RemoteCurrent
<1>5. CASE displayed = {up} /\ UNCHANGED <<remote, system>>
  <2>1. connected = up
    BY <1>2, <1>5 DEF Displays
  <2>. QED
    BY <1>2, <1>4, <1>5, <2>1
<1>6. CASE draw_system_ui(dimensions, up)
  <2>1. ~Redraws(events) => dimensions = window
    BY <1>2, FollowedIsDrawn
  <2>. QED
    BY <1>4, <1>6, <2>1, DrawnCurrent DEF draw_system_ui
<1>. QED
  BY <1>3, <1>5, <1>6 DEF LoopIndicator, LoopFails

LEMMA CaughtFrame ==
    ASSUME IInv, Caught, LoopFrame
    PROVE  Caught'
<1>1. /\ UNCHANGED <<window, events, connected, displayed, backend, adapter, dimensions>>
      /\ phase = "frame"
  BY DEF LoopFrame
<1>2. /\ backend = "mxcfb" => adapter
      /\ Follows(events, dimensions, window) /\ displayed = {connected}
      /\ backend = "mxcfb" => remote \in {Damaged, Broken, Showing(cache)}
      /\ ~Redraws(events) => system = Indicator(connected) /\ RemoteCurrent(remote, cache)
  BY <1>1 DEF Caught, Displays
<1>3. ~Redraws(events) => dimensions = window
  BY <1>2, FollowedIsDrawn
<1>4. ASSUME /\ backend = "mxcfb" => remote' \in {Damaged, Broken, Showing(cache')}
             /\ ~Redraws(events) =>
                   system' = Indicator(connected) /\ RemoteCurrent(remote', cache')
      PROVE  Caught'
  BY <1>1, <1>2, <1>4 DEF Caught, Displays, RemoteCurrent
<1>5. CASE UNCHANGED <<remote, system, cache>>
  BY <1>2, <1>4, <1>5
<1>6. ASSUME NEW frame, remote' = DrawnRemote(dimensions, Showing({frame})),
             system' = DrawnSystem(dimensions, system), cache' = {frame}
      PROVE  Caught'
  <2>1. backend = "mxcfb" \/ dimensions = window =>
           remote' = Showing(cache') /\ system' = system
    BY <1>6, DrawnCurrent
  <2>. QED
    BY <1>2, <1>3, <1>4, <2>1 DEF RemoteCurrent
<1>7. CASE /\ remote' = RemoteBroken(dimensions)
           /\ system' = DrawnSystem(dimensions, system) /\ cache' = cache
  <2>1. backend \in Backends
    BY DEF IInv, PlainTypes
  <2>2. /\ dimensions = window => RemoteCurrent(remote', cache)
        /\ backend = "mxcfb" => remote' \in {Broken, Showing(cache)}
    BY <1>2, <1>7, <2>1, BrokenCurrent
  <2>3. dimensions = window => system' = system
    BY <1>7, DrawnCurrent
  <2>. QED
    BY <1>2, <1>3, <1>4, <1>7, <2>2, <2>3
<1>. QED
  BY <1>5, <1>6, <1>7 DEF LoopFrame, display_remote_frame

\* An event that draws nothing.
LEMMA CaughtUndrawn ==
    ASSUME IInv, Caught, TakeEvent, UNCHANGED <<remote, system, dimensions, cache>>,
           phase' = "indicator", ~IsRedraw(Head(events)),
           Head(events).kind = "configure" => Head(events).size = dimensions
    PROVE  Caught'
<1>1. /\ events \in Seq(Event) /\ events # <<>> /\ events' = Tail(events)
      /\ UNCHANGED <<window, connected, displayed, backend, adapter>> /\ phase = "event"
  BY DEF TakeEvent, IInv, PlainTypes
<1>2. /\ backend = "mxcfb" => adapter
      /\ Follows(events, dimensions, window) /\ displayed = {connected}
      /\ backend = "mxcfb" => remote \in {Damaged, Broken, Showing(cache)}
      /\ ~Redraws(events) => system = Indicator(connected) /\ RemoteCurrent(remote, cache)
  BY <1>1 DEF Caught, Displays
<1>3. Head(events) \in Event
  BY <1>1, Taken
<1>4. Head(events).kind \in {"expose", "configure"}
  BY <1>3 DEF Event
<1>5. /\ Follows(Tail(events), dimensions, window)
      /\ Redraws(events) => Redraws(Tail(events))
  BY <1>1, <1>2, <1>4, TakenFollows
<1>. QED
  BY <1>1, <1>2, <1>5 DEF Caught, Displays, RemoteCurrent

LEMMA CaughtExpose ==
    ASSUME IInv, Caught, LoopExpose
    PROVE  Caught'
<1>1. /\ events \in Seq(Event) /\ events # <<>> /\ events' = Tail(events)
      /\ UNCHANGED <<window, connected, displayed, backend, adapter, dimensions, cache>>
      /\ phase = "event" /\ Head(events).kind = "expose"
  BY DEF LoopExpose, TakeEvent, IInv, PlainTypes
<1>2. /\ backend = "mxcfb" => adapter
      /\ Follows(events, dimensions, window) /\ displayed = {connected}
      /\ backend = "mxcfb" => remote \in {Damaged, Broken, Showing(cache)}
  BY <1>1 DEF Caught, Displays
<1>3. CASE phase' = "ended"
  BY <1>1, <1>2, <1>3 DEF Caught
<1>4. CASE Head(events).count # 0 /\ UNCHANGED <<remote, system>> /\ phase' = "indicator"
  BY <1>1, <1>4, CaughtUndrawn DEF LoopExpose, IsRedraw
<1>5. CASE draw_surface(dimensions, cache) /\ phase' = "indicator"
  <2>1. Follows(Tail(events), dimensions, window)
    BY <1>1, <1>2, TakenFollows
  <2>2. ~Redraws(Tail(events)) => dimensions = window
    BY <2>1, FollowedIsDrawn
  <2>3. ASSUME /\ backend = "mxcfb" => remote' \in {Damaged, Broken, Showing(cache)}
               /\ dimensions = window => RemoteCurrent(remote', cache)
        PROVE  Caught'
    <3>1. dimensions = window => system' = Indicator(connected)
      BY <1>5, DrawnCurrent DEF draw_surface
    <3>. QED
      BY <1>1, <1>2, <2>1, <2>2, <2>3, <3>1 DEF Caught, Displays, RemoteCurrent
  <2>4. backend \in Backends
    BY DEF IInv, PlainTypes
  <2>5. CASE remote' = DrawnRemote(dimensions, Restored(cache))
    <3>1. cache # {} => adapter
      BY <1>2, <2>4 DEF IInv, RetainedIsShown, CanDisplay, Backends
    <3>2. /\ RemoteCurrent(Restored(cache), cache)
          /\ backend = "mxcfb" => Restored(cache) \in {remote, Showing(cache)}
      BY <2>4, <3>1, RestoredCurrent
    <3>3. backend = "mxcfb" \/ dimensions = window => remote' = Restored(cache)
      BY <2>5, DrawnCurrent
    <3>. QED
      BY <1>2, <2>3, <3>2, <3>3
  <2>6. CASE remote' = RemoteBroken(dimensions)
    BY <1>2, <2>3, <2>4, <2>6, BrokenCurrent
  <2>. QED
    BY <1>5, <2>5, <2>6 DEF draw_surface
<1>. QED
  BY <1>3, <1>4, <1>5 DEF LoopExpose, LoopFails

LEMMA CaughtConfigure ==
    ASSUME IInv, Caught, LoopConfigure
    PROVE  Caught'
<1>1. /\ events \in Seq(Event) /\ events # <<>> /\ events' = Tail(events)
      /\ UNCHANGED <<window, connected, displayed, backend, adapter>>
      /\ phase = "event" /\ Head(events).kind = "configure" /\ Head(events).size # dimensions
  BY DEF LoopConfigure, TakeEvent, IInv, PlainTypes
<1>2. /\ backend = "mxcfb" => adapter
      /\ Follows(events, dimensions, window) /\ displayed = {connected}
  BY <1>1 DEF Caught, Displays
<1>3. CASE phase' = "ended"
  BY <1>1, <1>2, <1>3 DEF Caught
<1>4. CASE phase' # "ended"
  <2>1. backend = "x11" /\ dimensions' = Head(events).size
    BY <1>4 DEF LoopConfigure, LoopFails
  <2>2. Follows(Tail(events), Head(events).size, window)
    BY <1>1, <1>2, TakenFollows
  <2>3. Redraws(events)
    <3>1. SUFFICES ASSUME ~Redraws(events) PROVE FALSE
      OBVIOUS
    <3>2. dimensions = window /\ Head(events).size = window
      BY <1>1, <1>2, <3>1, FollowedIsDrawn, Taken
    <3>. QED
      BY <1>1, <3>2
  <2>4. Redraws(Tail(events))
    <3>1. ~IsRedraw(Head(events))
      BY <1>1 DEF IsRedraw
    <3>. QED
      BY <1>1, <1>2, <2>3, <3>1, TakenFollows
  <2>. QED
    BY <1>1, <1>2, <2>1, <2>2, <2>4 DEF Caught, Displays
<1>. QED
  BY <1>3, <1>4

LEMMA CaughtStays ==
    ASSUME IInv, Caught, [Next]_vars
    PROVE  Caught'
<1>1. CASE /\ UNCHANGED <<serverVars, backendVars, connected, displayed>>
           /\ phase' = phase \/ phase = "event"
  BY <1>1 DEF Caught, Displays, RemoteCurrent, serverVars, backendVars
<1>2. CASE phase # "ended" /\ Server
  BY <1>2, CaughtServer
<1>3. CASE Transport
  BY <1>1, <1>3 DEF Transport, ConnectionChanges, FrameArrives, serverVars, loopVars, backendVars
<1>4. CASE LoopSleep
  BY <1>1, <1>4 DEF LoopSleep
<1>5. CASE LoopConfigureUnchanged
  BY <1>5, CaughtUndrawn DEF LoopConfigureUnchanged, IsRedraw
<1>6. CASE LoopIndicator \/ LoopFrame \/ LoopExpose \/ LoopConfigure
  BY <1>6, CaughtIndicator, CaughtFrame, CaughtExpose, CaughtConfigure
<1>7. CASE UNCHANGED vars
  BY <1>1, <1>7 DEF vars, loopVars
<1>. QED
  BY <1>2, <1>3, <1>4, <1>5, <1>6, <1>7 DEF Next, EventLoop

LEMMA CaughtInitially == Init => Caught
<1>. SUFFICES ASSUME Init PROVE Caught
  OBVIOUS
<1>. DEFINE e == [kind |-> "expose", count |-> 0]
<1>1. e.kind = "expose" /\ IsRedraw(e)
  BY DEF IsRedraw
<1>2. events = <<e>>
  BY DEF Init
<1>. HIDE DEF e
<1>3. DOMAIN events = {1} /\ events[1] = e
  BY <1>2
<1>4. Redraws(events)
  BY <1>1, <1>3 DEF Redraws
<1>5. Follows(events, dimensions, window)
  BY <1>1, <1>3 DEF Init, Follows
<1>. QED
  BY <1>4, <1>5 DEF Init, Caught, Displays

\* When the queue is empty the screen is right.
THEOREM IdleCurrent == Spec => []IdleScreenIsCurrent
<1>1. IInv /\ Caught /\ [Next]_vars => (IInv /\ Caught)'
  BY PlainTypesStay, FlagsStay, OneWaitingStays, DrawingsStay, CaughtStays, Zenon DEF IInv
<1>2. Caught => IdleScreenIsCurrent
  <2>. SUFFICES ASSUME Caught, phase = "event", events = <<>>
                PROVE  /\ window = dimensions
                       /\ system = Indicator(connected)
                       /\ RemoteCurrent(remote, cache)
    BY DEF IdleScreenIsCurrent, RemoteCurrent
  <2>1. DOMAIN events = {}
    OBVIOUS
  <2>2. ~Redraws(events)
    BY <2>1 DEF Redraws
  <2>. QED
    BY <2>2, FollowedIsDrawn DEF Caught
<1>. QED
  BY <1>1, <1>2, Initially, CaughtInitially, PTL DEF Spec
=============================================================================
