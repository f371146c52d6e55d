----------------------------- MODULE PointerPath -----------------------------
(***************************************************************************)
(* A touch on its way from the screen to an action: the pointer branches   *)
(* of the event loop (src/x11/events.rs), AppState (src/app.rs) and        *)
(* SystemUi (src/ui/system.rs) on PaperPad, the bounded outbound queue,    *)
(* and ApplicationInput (tools/paperspoon/src/application_input.rs) in     *)
(* PaperSpoon's session.                                                   *)
(*                                                                         *)
(* The event loop handles one X11 event at a time, and so does the session *)
(* one message.  Between them the transport is a first-in first-out link   *)
(* that refuses a pointer when it is full or down and loses what it holds  *)
(* when a connection is lost (see PaperpadTransport); a new connection     *)
(* begins with the viewport of its Hello and with the application frame.   *)
(*                                                                         *)
(* A place on the screen is a button of the application UI, the gap around *)
(* the buttons, Exit, or elsewhere: neither Exit nor the remote viewport.  *)
(* Buttons other than the primary one change nothing and are left out.     *)
(***************************************************************************)
EXTENDS Naturals, Sequences

CONSTANTS
    Sizes,          \* the sizes the window may have
    Buttons,        \* buttons of the application UI
    QueueCapacity,  \* messages between the event loop and the session
    MaxTouches,     \* bound: primary pointer events
    MaxResets,      \* bound: geometry changes and unmaps
    MaxSessions     \* bound: connections

ASSUME PointerAssumption ==
    /\ Sizes # {}
    /\ Buttons \cap {"gap", "exit", "elsewhere", "cancel", "idle", "cancelled"} = {}
    /\ QueueCapacity \in Nat \ {0}
    /\ {MaxTouches, MaxResets, MaxSessions} \subseteq Nat

Phases == {"down", "up"}
RemotePlaces == Buttons \cup {"gap"}
Places == RemotePlaces \cup {"exit", "elsewhere"}

\* A forwarded event is RemotePointerEvent; n is the touch it came from.
Pointer == [kind : {"pointer"}, phase : Phases, at : RemotePlaces \cup {"cancel"},
            n : 1 .. MaxTouches]
ViewportChanged == [kind : {"viewport"}, size : Sizes]

VARIABLES
    \* AppState and its SystemUi
    size, remote_contact_active, exit_contact,
    \* the window, as the event loop knows it
    window,
    \* session of the transport (0: none) and what is under way on it
    session, sessions, link,
    \* ApplicationInput, and the viewport the session was told last
    hostReported, hostViewport, hostContact,
    \* history: what became of every touch, every action PaperSpoon took,
    \* and how often the contact was reset
    touches, actions, resizes, unmaps

appVars == <<size, remote_contact_active, exit_contact>>
linkVars == <<session, sessions, link>>
hostVars == <<hostReported, hostViewport, hostContact, actions>>
resetVars == <<resizes, unmaps>>
vars == <<appVars, window, linkVars, hostVars, touches, resetVars>>

Init ==
    /\ size \in Sizes /\ remote_contact_active = FALSE /\ exit_contact = "idle"
    /\ window = "open"
    /\ session = 0 /\ sessions = 0 /\ link = <<>>
    /\ hostReported = {} /\ hostViewport = {} /\ hostContact = "idle"
    /\ touches = <<>> /\ actions = {} /\ resizes = 0 /\ unmaps = 0

-----------------------------------------------------------------------------
(* PaperPad: AppState::handle_pointer.                                     *)

\* A slip: a second press leaves the contact armed.
exit_press_keeps(at) ==
    IF exit_contact = "armed" \/ (exit_contact = "idle" /\ at = "exit")
    THEN "armed" ELSE "cancelled"

\* SystemUi::handle_pointer, Press.
exit_press(at) ==
    IF exit_contact = "idle" /\ at = "exit" THEN "armed" ELSE "cancelled"

\* SystemUi::handle_pointer, Release.
exit_activated(at) == exit_contact = "armed" /\ at = "exit"

\* physical_to_remote, or the exclusive corner of the viewport.
RemotePoint(at) == IF at \in RemotePlaces THEN at ELSE "cancel"

\* A slip: a repeated press is forwarded as another Down.
remote_phase_repeats(phase, at) ==
    IF phase = "down"
    THEN IF at \in RemotePlaces THEN {"down"} ELSE {}
    ELSE IF remote_contact_active THEN {"up"} ELSE {}

\* handle_remote_pointer: the phase to forward, {} for none.  A press while
\* a contact is active ends that contact out of bounds.
remote_phase(phase, at) ==
    IF remote_contact_active THEN {"up"}
    ELSE IF phase = "down" /\ at \in RemotePlaces THEN {"down"}
    ELSE {}

\* Where the forwarded event lies.
remote_point(phase, at) == IF phase = "down" /\ remote_contact_active
                           THEN "cancel" ELSE RemotePoint(at)

\* Paperspoon::send_pointer.
Accepts == session # 0 /\ Len(link) < QueueCapacity

\* What the history keeps of a touch: accepted is the session that took the
\* forwarded event, 0 if it was refused or nothing was forwarded.
Touch(phase, at, sent, exit) ==
    [phase |-> phase, at |-> at, sent |-> sent, exit |-> exit,
     accepted |-> IF sent # {} /\ Accepts THEN session ELSE 0,
     resizes |-> resizes, unmaps |-> unmaps]

\* ButtonPress and ButtonRelease: both trackers see the event, what is to be
\* forwarded is queued or lost, and then Exit destroys the window.  Events
\* the X server queued before it did so are still handled; a second Exit
\* among them destroys a window that is gone, and the loop fails.
PointerEvent(phase, at) ==
    /\ window \in {"open", "destroyed"}
    /\ Len(touches) < MaxTouches
    /\ LET sent == remote_phase(phase, at)
           exit == phase = "up" /\ exit_activated(at)
       IN  /\ exit_contact' = IF phase = "down" THEN exit_press(at) ELSE "idle"
           /\ remote_contact_active' = (sent = {"down"})
           /\ link' = IF sent # {} /\ Accepts
                      THEN link \o <<[kind |-> "pointer",
                                      phase |-> CHOOSE p \in sent : TRUE,
                                      at |-> remote_point(phase, at),
                                      n |-> Len(touches) + 1]>>
                      ELSE link
           /\ touches' = Append(touches, Touch(phase, at, sent, exit))
           /\ window' = IF ~exit THEN window
                        ELSE IF window = "open" THEN "destroyed" ELSE "failed"
    /\ UNCHANGED <<size, session, sessions, hostVars, resetVars>>

-----------------------------------------------------------------------------
(* PaperPad: what interrupts a contact.                                    *)

\* A slip: only the Exit contact is cancelled.
reset_exit_only ==
    /\ exit_contact' = "idle"
    /\ UNCHANGED remote_contact_active

\* AppState::cancel_contact, and the same lines in update_geometry.
cancel_contact ==
    /\ remote_contact_active' = FALSE
    /\ exit_contact' = "idle"

\* ConfigureNotify with other dimensions (the same ones, or zero, change
\* nothing): update_geometry, then send_viewport_changed, which closes a
\* connection that does not take the change.
Configure(new) ==
    /\ window \in {"open", "destroyed"}
    /\ resizes + unmaps < MaxResets
    /\ new # size
    /\ resizes' = resizes + 1
    /\ size' = new
    /\ cancel_contact
    /\ \/ /\ Accepts
          /\ link' = Append(link, [kind |-> "viewport", size |-> new])
          /\ UNCHANGED session
       \/ /\ session # 0 /\ ~Accepts
          /\ session' = 0 /\ link' = <<>>
       \/ /\ session = 0
          /\ UNCHANGED <<session, link>>
    /\ UNCHANGED <<window, sessions, hostVars, touches, unmaps>>

\* UnmapNotify: nothing is forwarded.
Unmap ==
    /\ window \in {"open", "destroyed"}
    /\ resizes + unmaps < MaxResets
    /\ unmaps' = unmaps + 1
    /\ cancel_contact
    /\ UNCHANGED <<size, window, linkVars, hostVars, touches, resizes>>

\* DestroyNotify ends the event loop.
Destroyed ==
    /\ window = "destroyed"
    /\ window' = "ended"
    /\ UNCHANGED <<appVars, linkVars, hostVars, touches, resetVars>>

-----------------------------------------------------------------------------
(* The transport and PaperSpoon's session.                                 *)

\* ApplicationInput::set_viewport.
set_viewport(v) ==
    /\ hostViewport' = v
    /\ hostContact' = "idle"

\* A connection: its Hello names the viewport, the application frame answers.
Connect ==
    /\ session = 0
    /\ sessions < MaxSessions
    /\ sessions' = sessions + 1
    /\ session' = sessions + 1
    /\ link' = <<>>
    /\ hostReported' = {size}
    /\ set_viewport({size})
    /\ UNCHANGED <<appVars, window, actions, touches, resetVars>>

ConnectionLost ==
    /\ session # 0
    /\ session' = 0
    /\ link' = <<>>
    /\ UNCHANGED <<appVars, window, sessions, hostVars, touches, resetVars>>

\* The replacement frame is sent, or fails and leaves no application UI.
ReceiveViewport(message) ==
    /\ message.kind = "viewport"
    /\ hostReported' = {message.size}
    /\ \E shown \in {{}, {message.size}} : set_viewport(shown)
    /\ UNCHANGED actions

Hit(at) == IF at \in Buttons THEN {at} ELSE {}

\* A slip: the button that was pressed is not compared.
activates_any(contact, hit) == IF contact \in Buttons THEN hit ELSE {}

\* The release that activates the armed button.
activates(contact, hit) == {contact} \cap hit

\* ApplicationInput::handle_pointer in the state set_viewport left.
handle_pointer(message, viewport, contact) ==
    LET hit == IF viewport = {} THEN {} ELSE Hit(message.at)
        pressed == IF contact = "idle" /\ hit # {}
                   THEN CHOOSE b \in hit : TRUE ELSE "cancelled"
    IN  /\ hostContact' = IF viewport = {} \/ message.phase = "up" THEN "idle" ELSE pressed
        /\ actions' = IF message.phase = "up"
                      THEN actions \cup {[button |-> b, n |-> message.n] :
                                            b \in activates(contact, hit)}
                      ELSE actions

\* What stdin displayed meanwhile is read first, and resets the contact.
ReceivePointer(message) ==
    /\ message.kind = "pointer"
    /\ \/ /\ handle_pointer(message, hostViewport, hostContact)
          /\ UNCHANGED hostViewport
       \/ \E shown \in {{}, hostReported} :
             /\ hostViewport' = shown
             /\ handle_pointer(message, shown, "idle")
    /\ UNCHANGED hostReported

\* read_session_message.
Receive ==
    /\ session # 0 /\ link # <<>>
    /\ link' = Tail(link)
    /\ ReceiveViewport(Head(link)) \/ ReceivePointer(Head(link))
    /\ UNCHANGED <<appVars, window, session, sessions, touches, resetVars>>

Next ==
    \/ \E phase \in Phases, at \in Places : PointerEvent(phase, at)
    \/ \E new \in Sizes : Configure(new)
    \/ Unmap
    \/ Destroyed
    \/ Connect
    \/ ConnectionLost
    \/ Receive

Spec == Init /\ [][Next]_vars

-----------------------------------------------------------------------------
(* Properties                                                              *)

\* The types.  A contact PaperSpoon was told of never arms Exit: a press that
\* is forwarded leaves the Exit contact cancelled.
TypeOK ==
    /\ size \in Sizes
    /\ remote_contact_active \in BOOLEAN
    /\ exit_contact \in {"idle", "armed", "cancelled"}
    /\ remote_contact_active => exit_contact = "cancelled"
    /\ window \in {"open", "destroyed", "failed", "ended"}
    /\ session \in 0 .. MaxSessions
    /\ sessions \in 0 .. MaxSessions
    /\ link \in Seq(Pointer \cup ViewportChanged) /\ Len(link) <= QueueCapacity
    /\ hostReported \subseteq Sizes
    /\ hostViewport \subseteq Sizes
    /\ hostContact \in {"idle", "cancelled"} \cup Buttons
    /\ touches \in Seq([phase : Phases, at : Places, sent : SUBSET Phases, exit : BOOLEAN,
                        accepted : 0 .. MaxSessions, resizes : 0 .. MaxResets,
                        unmaps : 0 .. MaxResets])
    /\ actions \subseteq [button : Buttons, n : 1 .. MaxTouches]
    /\ resizes \in 0 .. MaxResets
    /\ unmaps \in 0 .. MaxResets

\* No geometry change and no unmap lies between two touches.
Together(m, n) ==
    touches[m].resizes = touches[n].resizes /\ touches[m].unmaps = touches[n].unmaps

\* "Do not exit on Down outside, Up inside; unmatched Up; malformed/repeated
\* primary press sequence", nor when the contact was interrupted by an unmap
\* or a geometry change: Exit is a press and a release in Exit, one right
\* after the other, while no other contact was down.
ExitIsATap ==
    \A n \in DOMAIN touches : touches[n].exit =>
        /\ n > 1 /\ Together(n - 1, n)
        /\ touches[n - 1].phase = "down" /\ touches[n - 1].at = "exit"
        /\ n > 2 /\ Together(n - 2, n - 1) => touches[n - 2].phase = "up"

\* "The local Exit control never sends an application action": neither touch
\* of an Exit is forwarded, whatever contact PaperSpoon still takes for active.
ExitSendsNothing ==
    \A n \in DOMAIN touches : touches[n].exit =>
        touches[n].sent = {} /\ touches[n - 1].sent = {}

\* "This preserves the Down/Up pair": what is forwarded alternates between
\* Down and Up, repeated presses and unmatched releases included, unless the
\* contact was reset in between.
PairsPreserved ==
    \A m, n \in DOMAIN touches :
        /\ m < n /\ touches[m].sent # {} /\ touches[n].sent # {}
        /\ \A k \in m + 1 .. n - 1 : touches[k].sent = {}
        /\ Together(m, n)
        => touches[m].sent # touches[n].sent

\* "PaperSpoon activates a button only when a matching release remains inside
\* the button that was pressed.  Gaps, unmatched releases, viewport changes,
\* and releases elsewhere cancel or do nothing": the user pressed and released
\* the button, in this order, on one connection and without a viewport change
\* between, and PaperSpoon was told of nothing else between the two.  What a
\* full queue refused may lie between, so it need not have been one contact.
ActionsHaveBothPhases ==
    \A a \in actions : \E d \in 1 .. a.n - 1 :
        /\ touches[d].phase = "down" /\ touches[d].at = a.button
        /\ touches[a.n].phase = "up" /\ touches[a.n].at = a.button
        /\ touches[d].accepted # 0 /\ touches[d].accepted = touches[a.n].accepted
        /\ touches[d].resizes = touches[a.n].resizes
        /\ \A k \in d + 1 .. a.n - 1 : touches[k].accepted = 0
=============================================================================
