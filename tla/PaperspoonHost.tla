--------------------------- MODULE PaperspoonHost ---------------------------
(***************************************************************************)
(* PaperSpoon, the program on the Mac: tools/paperspoon/src/main.rs,       *)
(* server.rs and application_input.rs.                                     *)
(*                                                                         *)
(* Two threads.  stdin reads the operator's commands and sends frames; the *)
(* accept loop serves one PaperPad session after another, sends the frame  *)
(* that answers a Hello or a ViewportChanged and resolves pointers.  They  *)
(* share the FrameSenderState, the CurrentConnection and a channel on which*)
(* stdin tells the session what it displayed.  A send holds both locks from*)
(* its checks to the end of write_all, so it is one step; everything       *)
(* between two sends, or a send and a channel operation, is another.       *)
(*                                                                         *)
(* The messages a PaperPad sends are chosen when the session reads them.   *)
(* A connection is the number of its accept; a ConnectionToken is that     *)
(* number.  Optional values are sets of at most one element.               *)
(***************************************************************************)
EXTENDS Naturals, Sequences

CONSTANTS
    Viewports,      \* dimensions of viewports and frames
    Oversized,      \* those whose frames exceed the maximum payload
    HelloFormats,   \* the sets of pixel formats a Hello may advertise
    ImageKinds,     \* the commands that prepare an image: jpeg, nowplaying
    Buttons,        \* the buttons of the application UI
    MaxConnections, \* bound: connections accepted
    MaxCommands,    \* bound: commands read from stdin
    MaxMessages     \* bound: messages read in all sessions after their Hello

PixelFormats == {"mono1", "gray8"}

ASSUME HostAssumption ==
    /\ Oversized \subseteq Viewports
    /\ HelloFormats \subseteq SUBSET PixelFormats
    /\ ImageKinds \subseteq {"jpeg", "nowplaying"}
    /\ Buttons \cap {"idle", "cancelled"} = {}
    /\ MaxConnections \in Nat
    /\ MaxCommands \in Nat
    /\ MaxMessages \in Nat

\* Both backends of PaperPad advertise Mono1, X11 nothing else.
ASSUME Mono1Assumption == \A formats \in HelloFormats : "mono1" \in formats

Connections == 1 .. MaxConnections

Kinds == {"application", "diagnostic"} \cup ImageKinds

\* AuthoritativeFrame; a diagnostic pattern is of either format.
Frame == [kind : Kinds, format : PixelFormats, viewport : Viewports]
ApplicationFrame(v) == [kind |-> "application", format |-> "mono1", viewport |-> v]
DiagnosticFrames == {f \in Frame : f.kind = "diagnostic"}
ImageFrame(k, v) == [kind |-> k, format |-> "gray8", viewport |-> v]

ActiveConnection ==
    [token : Connections, formats : SUBSET PixelFormats, viewport : Viewports]
FrameTarget == [token : Connections, viewport : Viewports]
SentFrame == [id : Nat, conn : Connections, frame : Frame]

VARIABLES
    \* CurrentConnection
    current,
    \* FrameSenderState
    nextFrameId, authoritative, lastApplicationFrame,
    \* the application_viewport channel
    channel,
    \* stdin: the FrameTarget it holds, what it is about to report
    stdinPc, target, report, commands,
    \* accept loop: the connection it serves, reported_viewport,
    \* rendered_application_viewport and ApplicationInput
    sessionPc, session, reported, rendered, inputViewport, contact,
    accepted, messages,
    \* the peers: what each advertised, every frame written to its end, and
    \* the connections on which one broke off
    advertised, sent, torn

senderVars == <<nextFrameId, authoritative, lastApplicationFrame>>
stdinVars == <<stdinPc, target, report, commands>>
inputVars == <<rendered, inputViewport, contact>>
sessionVars == <<sessionPc, session, reported, inputVars, accepted, messages>>
peerVars == <<advertised, sent, torn>>
vars == <<current, senderVars, channel, stdinVars, sessionVars, peerVars>>

Init ==
    /\ current = {}
    /\ nextFrameId = 1 /\ authoritative = {} /\ lastApplicationFrame = {}
    /\ channel = <<>>
    /\ stdinPc = "idle" /\ target = {} /\ report = {} /\ commands = 0
    /\ sessionPc = "accept" /\ session = 0 /\ reported = {}
    /\ rendered = {} /\ inputViewport = {} /\ contact = "idle"
    /\ accepted = 0 /\ messages = 0
    /\ advertised = [c \in Connections |-> {}]
    /\ sent = {} /\ torn = {}

-----------------------------------------------------------------------------
(* FrameSender::send_locked and CurrentConnection::forward_frame_inner.    *)

\* encode, and render_application_bounded.
Encodes(frame) == frame.viewport \notin Oversized

\* A slip: forward_frame_to does not look at its target.
ReachesAnyTarget(frame, targets) ==
    \E a \in current : frame.format \in a.formats

\* A slip: only frame_target looks at the formats.
ReachesAnyFormat(frame, targets) ==
    \E a \in current :
        \A t \in targets : a.token = t.token /\ a.viewport = t.viewport

\* The checks of forward_frame_inner; no target is {}.
Reaches(frame, targets) ==
    \E a \in current :
        /\ \A t \in targets : a.token = t.token /\ a.viewport = t.viewport
        /\ frame.format \in a.formats

\* A slip: an application frame does not replace what is retained.
FrameSentRetainsCommands(frame) ==
    /\ \E a \in current :
          sent' = sent \cup {[id |-> nextFrameId, conn |-> a.token, frame |-> frame]}
    /\ nextFrameId' = nextFrameId + 1
    /\ authoritative' = IF frame.kind = "application" THEN authoritative ELSE {frame}
    /\ lastApplicationFrame' = IF frame.kind = "application" THEN {frame.viewport} ELSE {}
    /\ UNCHANGED <<current, torn>>

\* FrameForward::Sent: only now is the ID used up and the frame retained.
FrameSent(frame) ==
    /\ \E a \in current :
          sent' = sent \cup {[id |-> nextFrameId, conn |-> a.token, frame |-> frame]}
    /\ nextFrameId' = nextFrameId + 1
    /\ authoritative' = {frame}
    /\ lastApplicationFrame' = IF frame.kind = "application" THEN {frame.viewport} ELSE {}
    /\ UNCHANGED <<current, torn>>

\* A slip: the ID is taken before the write.
FrameBrokenOffUsesId(baseline) ==
    /\ torn' = torn \cup {a.token : a \in current}
    /\ current' = {}
    /\ nextFrameId' = nextFrameId + 1
    /\ lastApplicationFrame' = baseline
    /\ UNCHANGED <<authoritative, sent>>

\* A slip: the stream is left current after a failed write.
FrameBrokenOffStaysCurrent(baseline) ==
    /\ torn' = torn \cup {a.token : a \in current}
    /\ lastApplicationFrame' = baseline
    /\ UNCHANGED <<current, nextFrameId, authoritative, sent>>

\* write_all fails: the connection is shut down and cleared.
FrameBrokenOff(baseline) ==
    /\ torn' = torn \cup {a.token : a \in current}
    /\ current' = {}
    /\ lastApplicationFrame' = baseline
    /\ UNCHANGED <<nextFrameId, authoritative, sent>>

FrameRefused(baseline) ==
    /\ lastApplicationFrame' = baseline
    /\ UNCHANGED <<current, nextFrameId, authoritative, sent, torn>>

\* baseline is what the caller left in last_application_frame.
send_locked(frame, targets, baseline) ==
    \/ /\ Encodes(frame) /\ Reaches(frame, targets)
       /\ FrameSent(frame) \/ FrameBrokenOff(baseline)
    \/ /\ ~(Encodes(frame) /\ Reaches(frame, targets))
       /\ FrameRefused(baseline)

WasSent == nextFrameId' # nextFrameId

-----------------------------------------------------------------------------
(* stdin.  A frame that was sent is reported to the session afterwards.    *)

Reports(value) ==
    IF WasSent
    THEN stdinPc' = "report" /\ report' = value
    ELSE stdinPc' = "idle" /\ report' = {}

ReadCommand ==
    /\ stdinPc = "idle"
    /\ commands < MaxCommands
    /\ commands' = commands + 1

\* frame <pattern>: send_diagnostic.
StdinDiagnostic ==
    /\ ReadCommand
    /\ \E frame \in DiagnosticFrames : send_locked(frame, {}, lastApplicationFrame)
    /\ Reports({})
    /\ UNCHANGED <<channel, target, sessionVars, advertised>>

\* ui: send_application, which skips a frame equal to the last one shown.
StdinApplication ==
    /\ ReadCommand
    /\ \E v \in Viewports :
          /\ IF Encodes(ApplicationFrame(v)) /\ current # {}
                /\ authoritative = {ApplicationFrame(v)} /\ lastApplicationFrame = {v}
             THEN UNCHANGED <<current, senderVars, sent, torn>>
             ELSE send_locked(ApplicationFrame(v), {}, lastApplicationFrame)
          /\ Reports({v})
    /\ UNCHANGED <<channel, target, sessionVars, advertised>>

\* frame jpeg, frame nowplaying: frame_target, then the frame is prepared
\* for the target's viewport with no lock held.
StdinTarget ==
    /\ ReadCommand
    /\ target' = {[token |-> a.token, viewport |-> a.viewport] :
                     a \in {b \in current : "gray8" \in b.formats}}
    /\ stdinPc' = IF target' = {} THEN "idle" ELSE "prepare"
    /\ UNCHANGED <<current, senderVars, channel, report, sessionVars, peerVars>>

StdinPrepareErr ==
    /\ stdinPc = "prepare"
    /\ stdinPc' = "idle"
    /\ target' = {}
    /\ UNCHANGED <<current, senderVars, channel, report, commands, sessionVars, peerVars>>

\* send_jpeg_frame, send_now_playing_frame.
StdinImage ==
    /\ stdinPc = "prepare"
    /\ \E t \in target, k \in ImageKinds :
          send_locked(ImageFrame(k, t.viewport), {t}, lastApplicationFrame)
    /\ target' = {}
    /\ Reports({})
    /\ UNCHANGED <<channel, commands, sessionVars, advertised>>

StdinReport ==
    /\ stdinPc = "report"
    /\ channel' = Append(channel, report)
    /\ stdinPc' = "idle"
    /\ report' = {}
    /\ UNCHANGED <<current, senderVars, target, commands, sessionVars, peerVars>>

Stdin ==
    \/ StdinDiagnostic
    \/ StdinApplication
    \/ StdinTarget
    \/ StdinPrepareErr
    \/ StdinImage
    \/ StdinReport

-----------------------------------------------------------------------------
(* The accept loop.                                                        *)

\* ApplicationInput::set_viewport.
set_viewport(v) ==
    /\ inputViewport' = v
    /\ contact' = "idle"

\* What was reported before belongs to an earlier connection.
SessionAccept ==
    /\ sessionPc = "accept"
    /\ accepted < MaxConnections
    /\ accepted' = accepted + 1
    /\ session' = accepted + 1
    /\ channel' = <<>>
    /\ sessionPc' = "hello"
    /\ UNCHANGED <<current, senderVars, stdinVars, reported, inputVars, messages, peerVars>>

\* The log cannot be opened, no Hello comes, or the stream cannot be cloned.
SessionDropped ==
    /\ sessionPc = "hello"
    /\ sessionPc' = "accept"
    /\ session' = 0
    /\ UNCHANGED <<current, senderVars, channel, stdinVars, reported, inputVars, accepted,
                   messages, peerVars>>

\* read_session_hello and install_for_hello; the session's own variables
\* start afresh.
SessionHello(v, formats) ==
    /\ sessionPc = "hello"
    /\ current' = {[token |-> session, formats |-> formats, viewport |-> v]}
    /\ advertised' = [advertised EXCEPT ![session] = formats]
    /\ reported' = {v}
    /\ rendered' = {}
    /\ set_viewport({})
    /\ sessionPc' = "greet"
    /\ UNCHANGED <<senderVars, channel, stdinVars, session, accepted, messages, sent, torn>>

\* A slip: the viewport is set whatever frame is retained.
RenderedAnyFrame(frame) ==
    LET shown == IF WasSent THEN {frame.viewport} ELSE {}
    IN  rendered' = shown /\ set_viewport(shown)

\* replace_hello_frame, replace_application_frame: no viewport while the
\* frame is sent, and then the one of an application frame.
Rendered(frame) ==
    LET shown == IF WasSent /\ frame.kind = "application" THEN {frame.viewport} ELSE {}
    IN  rendered' = shown /\ set_viewport(shown)

\* A slip: the format of the retained frame is not compared.
MatchingAnyFormat(v, formats) == {f \in authoritative : f.viewport = v}

\* The authoritative frame answers a Hello it matches.
Matching(v, formats) == {f \in authoritative : f.viewport = v /\ f.format \in formats}

\* replace_hello_frame and send_for_hello.
SessionGreet ==
    /\ sessionPc = "greet"
    /\ \E v \in reported :
          LET retained == Matching(v, advertised[session])
          IN  \E frame \in IF retained = {} THEN {ApplicationFrame(v)} ELSE retained :
                 /\ send_locked(frame, {}, lastApplicationFrame)
                 /\ Rendered(frame)
    /\ sessionPc' = "read"
    /\ UNCHANGED <<channel, stdinVars, session, reported, accepted, messages, advertised>>

\* The channel is drained after every message; the last value counts.
Drain ==
    /\ channel' = <<>>
    /\ rendered' = IF channel = <<>> THEN rendered ELSE channel[Len(channel)]

ReadMessage ==
    /\ sessionPc = "read"
    /\ messages < MaxMessages
    /\ messages' = messages + 1

SessionReadViewport(v) ==
    /\ ReadMessage
    /\ Drain
    /\ reported' = {v}
    /\ sessionPc' = "update"
    /\ UNCHANGED <<current, senderVars, stdinVars, session, inputViewport, contact,
                   accepted, peerVars>>

\* update_viewport_if_current.
SessionUpdateViewport ==
    /\ sessionPc = "update"
    /\ \E v \in reported :
          current' = {IF a.token = session
                      THEN [token |-> a.token, formats |-> a.formats, viewport |-> v]
                      ELSE a : a \in current}
    /\ sessionPc' = "replace"
    /\ UNCHANGED <<senderVars, channel, stdinVars, session, reported, inputVars, accepted,
                   messages, peerVars>>

\* A slip: the unchanged frame is suppressed here as well.
SessionReplaceSuppressing ==
    /\ sessionPc = "replace"
    /\ \E v \in reported :
          /\ IF authoritative = {ApplicationFrame(v)} /\ lastApplicationFrame = {v}
             THEN UNCHANGED <<current, senderVars, sent, torn>>
             ELSE send_locked(ApplicationFrame(v), {}, {})
          /\ Rendered(ApplicationFrame(v))
    /\ sessionPc' = "read"
    /\ UNCHANGED <<channel, stdinVars, session, reported, accepted, messages, advertised>>

\* replace_application_frame and send_application_for_viewport_change,
\* which forgets the last application frame before it renders.
SessionReplace ==
    /\ sessionPc = "replace"
    /\ \E v \in reported :
          /\ send_locked(ApplicationFrame(v), {}, {})
          /\ Rendered(ApplicationFrame(v))
    /\ sessionPc' = "read"
    /\ UNCHANGED <<channel, stdinVars, session, reported, accepted, messages, advertised>>

\* ApplicationInput::handle_pointer on the viewport and contact it finds;
\* hit is {} or the button at the pointer.
HandlePointer(phase, hit, viewport, state) ==
    IF viewport = {} \/ phase = "up" THEN "idle"
    ELSE IF state = "idle" /\ hit # {} THEN CHOOSE b \in hit : TRUE
    ELSE "cancelled"

\* A pointer: matching_application_viewport, then handle_pointer.
\* Forwarding and logging an activation change nothing here.
SessionPointer(phase, hit) ==
    /\ ReadMessage
    /\ Drain
    /\ LET viewport == IF channel = <<>> THEN inputViewport ELSE rendered' \cap reported
           state == IF channel = <<>> THEN contact ELSE "idle"
       IN  /\ inputViewport' = viewport
           /\ contact' = HandlePointer(phase, hit, viewport, state)
    /\ UNCHANGED <<current, senderVars, stdinVars, sessionPc, session, reported, accepted,
                   peerVars>>

\* The peer closed, or sent something that is not a session message.
SessionEnds ==
    /\ sessionPc = "read"
    /\ sessionPc' = "clear"
    /\ UNCHANGED <<current, senderVars, channel, stdinVars, session, reported, inputVars,
                   accepted, messages, peerVars>>

\* clear_if_current.
SessionClear ==
    /\ sessionPc = "clear"
    /\ current' = {a \in current : a.token # session}
    /\ sessionPc' = "accept"
    /\ session' = 0
    /\ UNCHANGED <<senderVars, channel, stdinVars, reported, inputVars, accepted, messages,
                   peerVars>>

Hits == {{}} \cup {{b} : b \in Buttons}

Session ==
    \/ SessionAccept
    \/ SessionDropped
    \/ \E v \in Viewports, formats \in HelloFormats : SessionHello(v, formats)
    \/ SessionGreet
    \/ \E v \in Viewports : SessionReadViewport(v)
    \/ SessionUpdateViewport
    \/ SessionReplace
    \/ \E phase \in {"down", "up"}, hit \in Hits : SessionPointer(phase, hit)
    \/ SessionEnds
    \/ SessionClear

Next == Stdin \/ Session

Spec == Init /\ [][Next]_vars

-----------------------------------------------------------------------------
(* Properties                                                              *)

\* The types.  The connection in service is the one of the session, so the
\* stdin thread finds either that connection or none.
TypeOK ==
    /\ current \subseteq ActiveConnection
    /\ \A a \in current : a.token = session
    /\ nextFrameId \in Nat \ {0}
    /\ authoritative \subseteq Frame
    /\ lastApplicationFrame \subseteq Viewports
    /\ channel \in Seq(SUBSET Viewports)
    /\ stdinPc \in {"idle", "prepare", "report"}
    /\ target \subseteq FrameTarget
    /\ report \subseteq Viewports
    /\ commands \in 0 .. MaxCommands
    /\ sessionPc \in {"accept", "hello", "greet", "read", "update", "replace", "clear"}
    /\ session \in {0} \cup Connections
    /\ reported \subseteq Viewports
    /\ rendered \subseteq Viewports
    /\ inputViewport \subseteq Viewports
    /\ contact \in {"idle", "cancelled"} \cup Buttons
    /\ accepted \in 0 .. MaxConnections
    /\ messages \in 0 .. MaxMessages
    /\ advertised \in [Connections -> SUBSET PixelFormats]
    /\ sent \subseteq SentFrame
    /\ torn \subseteq Connections

LastFrame(c) ==
    {f.frame : f \in {g \in sent : g.conn = c /\ \A h \in sent : h.conn = c => h.id <= g.id}}

\* Frame IDs number the frames that were written to their end, whichever
\* thread and connection they went through: none is skipped by a frame that
\* was refused or broke off, and none is used twice.
FrameIdsAreDense ==
    /\ {f.id : f \in sent} = 1 .. nextFrameId - 1
    /\ \A f, g \in sent : f.id = g.id => f = g

\* What a matching reconnect would be sent is the last frame any PaperPad was
\* sent, and never a frame that was refused or broke off.
AuthoritativeIsLastSent ==
    authoritative = {f.frame : f \in {g \in sent : g.id = nextFrameId - 1}}

\* A PaperPad receives only frames in a format it advertised, also when the
\* frame was prepared for, or retained from, another connection.
FormatsAreAdvertised ==
    \A f \in sent : f.frame.format \in advertised[f.conn]

\* Nothing follows a frame that broke off: PaperPad would take it for the
\* rest of that frame.
NothingFollowsTornFrame ==
    [][\A f \in sent' \ sent : f.conn \notin torn]_vars

\* "a viewport race leaves the previous frame unchanged": an image reaches
\* the PaperPad in service only, with the dimensions it reported last, though
\* it was prepared without a lock for whatever was current then.  While the
\* session has read a ViewportChanged and not yet told CurrentConnection
\* (main.rs:862-864), an image of the previous dimensions may still go out.
ImagesFitReportedViewport ==
    [][\A f \in sent' \ sent :
          f.frame.kind \in ImageKinds =>
            /\ f.conn = session
            /\ sessionPc # "update" => reported = {f.frame.viewport}]_vars

\* "application frame skipped unchanged" is said of a frame that fits only
\* when the PaperPad in service was sent it last, across reconnects too.  From
\* the installation of a Hello to its answer (main.rs:791-812) this does not
\* hold: a command then is skipped for a frame the previous PaperPad was sent.
SkippedFrameIsShown ==
    sessionPc = "read" =>
      \A a \in current, v \in lastApplicationFrame \cap reported :
         authoritative = {ApplicationFrame(v)} => LastFrame(a.token) = {ApplicationFrame(v)}

\* Every Hello and every ViewportChanged is answered: the PaperPad in service
\* was sent a frame of the dimensions it reported, whatever is retained from
\* another backend, unless no such frame can be encoded.
ServedPaperPadHasFrame ==
    sessionPc = "read" /\ current # {} =>
        \A v \in reported \ Oversized :
            \E f \in sent : f.conn = session /\ f.frame.viewport = v

\* A pointer is resolved against the application UI only when the PaperPad in
\* service was sent it last, in the dimensions it reported last: the step that
\* resolves it first reads what stdin reported.  It does not hold in one
\* window, between stdin's send of a frame and its report (main.rs:631-633,
\* 657, 681, 707): a pointer read in it is resolved against an application UI
\* that the frame has replaced.
InputNeedsApplicationFrame ==
    [][sessionPc = "read" /\ messages' # messages /\ sessionPc' = "read"
          /\ current # {} /\ stdinPc # "report" =>
          \A v \in inputViewport' :
              LastFrame(session) = {ApplicationFrame(v)} /\ reported = {v}]_vars

\* What stdin displayed has been reported and read.
Settled ==
    /\ sessionPc = "read" /\ current # {}
    /\ stdinPc # "report" /\ channel = <<>>

\* "None means the displayed frame is not the application UI."  It does not
\* hold: the report of a frame that stdin sent before the session's own answer
\* to a Hello or a ViewportChanged, read after that answer, disables the
\* application UI that is displayed.
InputFollowsApplicationFrame ==
    Settled /\ inputViewport = {} =>
        \A v \in reported : LastFrame(session) # {ApplicationFrame(v)}
=============================================================================
