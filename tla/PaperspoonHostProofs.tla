------------------------ MODULE PaperspoonHostProofs ------------------------
(***************************************************************************)
(* Proofs about PaperspoonHost, for every set of viewports and formats and *)
(* any number of connections, commands and messages.                       *)
(*                                                                         *)
(* Every step either sends, and is then a step of send_locked, or leaves   *)
(* FrameSenderState and what the peers received alone.  So the invariant   *)
(* comes in two parts: Numbered relates the sender's state to the frames   *)
(* that were sent, and Serving relates the current connection to the       *)
(* session that owns it.                                                   *)
(***************************************************************************)
EXTENDS PaperspoonHost, TLAPS

LEMMA TypeInit == Init => TypeOK
  BY HostAssumption DEF Init, TypeOK, Connections

LEMMA TypeSendLocked ==
    ASSUME TypeOK, NEW frame \in Frame, NEW targets, NEW baseline \in SUBSET Viewports,
           send_locked(frame, targets, baseline)
    PROVE  /\ current' \subseteq current
           /\ nextFrameId' \in Nat \ {0}
           /\ authoritative' \subseteq Frame
           /\ lastApplicationFrame' \subseteq Viewports
           /\ sent' \subseteq SentFrame
           /\ torn' \subseteq Connections
<1>0. /\ current \subseteq ActiveConnection /\ nextFrameId \in Nat \ {0}
      /\ authoritative \subseteq Frame /\ lastApplicationFrame \subseteq Viewports
      /\ sent \subseteq SentFrame /\ torn \subseteq Connections
  BY DEF TypeOK
<1>1. CASE FrameSent(frame)
  <2>1. PICK a \in current :
          sent' = sent \cup {[id |-> nextFrameId, conn |-> a.token, frame |-> frame]}
    BY <1>1 DEF FrameSent
  <2>2. [id |-> nextFrameId, conn |-> a.token, frame |-> frame] \in SentFrame
    BY <1>0 DEF SentFrame, ActiveConnection
  <2>3. frame.viewport \in Viewports
    BY DEF Frame
  <2>4. QED
    BY <1>0, <1>1, <2>1, <2>2, <2>3 DEF FrameSent
<1>2. CASE FrameBrokenOff(baseline)
  BY <1>0, <1>2 DEF FrameBrokenOff, ActiveConnection
<1>3. CASE FrameRefused(baseline)
  BY <1>0, <1>3 DEF FrameRefused
<1>4. QED
  BY <1>1, <1>2, <1>3 DEF send_locked

LEMMA TypeFrames ==
    ASSUME NEW v \in Viewports
    PROVE  /\ ApplicationFrame(v) \in Frame
           /\ ApplicationFrame(v).viewport = v
           /\ \A k \in ImageKinds : ImageFrame(k, v) \in Frame
  BY DEF ApplicationFrame, ImageFrame, Frame, Kinds, PixelFormats

LEMMA TypeStdin == TypeOK /\ Stdin => TypeOK'
<1> SUFFICES ASSUME TypeOK, Stdin PROVE TypeOK'
  OBVIOUS
<1> USE HostAssumption DEF senderVars, stdinVars, inputVars, sessionVars, peerVars
<1>1. CASE StdinDiagnostic
  <2>1. PICK frame \in DiagnosticFrames : send_locked(frame, {}, lastApplicationFrame)
    BY <1>1 DEF StdinDiagnostic
  <2>2. frame \in Frame
    BY DEF DiagnosticFrames
  <2>3. lastApplicationFrame \in SUBSET Viewports
    BY DEF TypeOK
  <2>4. /\ current' \subseteq current /\ nextFrameId' \in Nat \ {0}
        /\ authoritative' \subseteq Frame /\ lastApplicationFrame' \subseteq Viewports
        /\ sent' \subseteq SentFrame /\ torn' \subseteq Connections
    BY <2>1, <2>2, <2>3, TypeSendLocked
  <2>5. QED
    BY <1>1, <2>4 DEF StdinDiagnostic, ReadCommand, Reports, TypeOK
<1>2. CASE StdinApplication
  <2>1. PICK v \in Viewports :
          /\ \/ UNCHANGED <<current, senderVars, sent, torn>>
             \/ send_locked(ApplicationFrame(v), {}, lastApplicationFrame)
          /\ Reports({v})
    BY <1>2 DEF StdinApplication
  <2>2. ApplicationFrame(v) \in Frame
    BY TypeFrames
  <2>3. lastApplicationFrame \in SUBSET Viewports
    BY DEF TypeOK
  <2>4. /\ current' \subseteq current /\ nextFrameId' \in Nat \ {0}
        /\ authoritative' \subseteq Frame /\ lastApplicationFrame' \subseteq Viewports
        /\ sent' \subseteq SentFrame /\ torn' \subseteq Connections
    <3>1. CASE UNCHANGED <<current, senderVars, sent, torn>>
      BY <3>1 DEF TypeOK
    <3>2. CASE send_locked(ApplicationFrame(v), {}, lastApplicationFrame)
      BY <2>2, <2>3, <3>2, TypeSendLocked
    <3>3. QED
      BY <2>1, <3>1, <3>2
  <2>5. QED
    BY <1>2, <2>1, <2>4 DEF StdinApplication, ReadCommand, Reports, TypeOK
<1>3. CASE StdinTarget
  <2>1. current \subseteq ActiveConnection
    BY DEF TypeOK
  <2>2. target' \subseteq FrameTarget
    BY <1>3, <2>1 DEF StdinTarget, ActiveConnection, FrameTarget
  <2>3. QED
    BY <1>3, <2>2 DEF StdinTarget, ReadCommand, TypeOK
<1>4. CASE StdinPrepareErr
  BY <1>4 DEF StdinPrepareErr, TypeOK
<1>5. CASE StdinImage
  <2>1. PICK t \in target, k \in ImageKinds :
          send_locked(ImageFrame(k, t.viewport), {t}, lastApplicationFrame)
    BY <1>5 DEF StdinImage
  <2>2. t.viewport \in Viewports
    BY DEF TypeOK, FrameTarget
  <2>3. ImageFrame(k, t.viewport) \in Frame
    BY <2>2, TypeFrames
  <2>4. lastApplicationFrame \in SUBSET Viewports
    BY DEF TypeOK
  <2>5. /\ current' \subseteq current /\ nextFrameId' \in Nat \ {0}
        /\ authoritative' \subseteq Frame /\ lastApplicationFrame' \subseteq Viewports
        /\ sent' \subseteq SentFrame /\ torn' \subseteq Connections
    BY <2>1, <2>3, <2>4, TypeSendLocked
  <2>6. QED
    BY <1>5, <2>5 DEF StdinImage, Reports, TypeOK
<1>6. CASE StdinReport
  BY <1>6 DEF StdinReport, TypeOK
<1>7. QED
  BY <1>1, <1>2, <1>3, <1>4, <1>5, <1>6 DEF Stdin

\* What a send and its report to ApplicationInput leave.
LEMMA TypeReply ==
    ASSUME TypeOK, NEW frame \in Frame, NEW baseline \in SUBSET Viewports,
           send_locked(frame, {}, baseline), Rendered(frame)
    PROVE  /\ current' \subseteq current /\ nextFrameId' \in Nat \ {0}
           /\ authoritative' \subseteq Frame /\ lastApplicationFrame' \subseteq Viewports
           /\ sent' \subseteq SentFrame /\ torn' \subseteq Connections
           /\ rendered' \subseteq Viewports /\ inputViewport' \subseteq Viewports
           /\ contact' = "idle"
<1>1. frame.viewport \in Viewports
  BY DEF Frame
<1>2. /\ current' \subseteq current /\ nextFrameId' \in Nat \ {0}
      /\ authoritative' \subseteq Frame /\ lastApplicationFrame' \subseteq Viewports
      /\ sent' \subseteq SentFrame /\ torn' \subseteq Connections
  BY TypeSendLocked
<1>3. QED
  BY <1>1, <1>2 DEF Rendered, set_viewport

LEMMA TypeDrain ==
    ASSUME TypeOK, Drain
    PROVE  channel' \in Seq(SUBSET Viewports) /\ rendered' \subseteq Viewports
<1>1. channel \in Seq(SUBSET Viewports) /\ rendered \subseteq Viewports
  BY DEF TypeOK
<1>2. CASE channel = <<>>
  BY <1>1, <1>2 DEF Drain
<1>3. CASE channel # <<>>
  <2>1. Len(channel) \in 1 .. Len(channel)
    BY <1>1, <1>3
  <2>2. channel[Len(channel)] \in SUBSET Viewports
    BY <1>1, <2>1
  <2>3. QED
    BY <1>3, <2>2 DEF Drain
<1>4. QED
  BY <1>2, <1>3

LEMMA TypePointer ==
    ASSUME TypeOK, NEW phase, NEW hit \in Hits, NEW viewport,
           NEW state \in {"idle", "cancelled"} \cup Buttons
    PROVE  HandlePointer(phase, hit, viewport, state) \in {"idle", "cancelled"} \cup Buttons
<1>1. CASE hit = {}
  BY <1>1 DEF HandlePointer
<1>2. ASSUME NEW b \in Buttons, hit = {b}
      PROVE  HandlePointer(phase, hit, viewport, state) \in {"idle", "cancelled"} \cup Buttons
  <2>1. (CHOOSE c \in hit : TRUE) \in Buttons
    BY <1>2
  <2>2. QED
    BY <2>1 DEF HandlePointer
<1>3. QED
  BY <1>1, <1>2 DEF Hits

\* The connection in service is the one accepted last; at most one is current,
\* and none before its Hello.
SessionOwns ==
    /\ \A a, b \in current : a = b
    /\ sessionPc \in {"accept", "hello"} => current = {}
    /\ sessionPc # "accept" => session = accepted /\ session \in Connections

LEMMA OwnsSession ==
    ASSUME TypeOK, SessionOwns, [Next]_vars
    PROVE  SessionOwns'
<1>0. accepted \in 0 .. MaxConnections /\ MaxConnections \in Nat
  BY HostAssumption DEF TypeOK
<1> USE DEF SessionOwns, senderVars, stdinVars, inputVars, sessionVars, peerVars
<1>1. ASSUME NEW frame, NEW targets, NEW baseline, send_locked(frame, targets, baseline)
      PROVE  current' \subseteq current
  BY <1>1 DEF send_locked, FrameSent, FrameBrokenOff, FrameRefused
<1>2. CASE Stdin
  <2>1. current' \subseteq current
    BY <1>1, <1>2 DEF Stdin, StdinDiagnostic, StdinApplication, StdinTarget,
                      StdinPrepareErr, StdinImage, StdinReport
  <2>2. UNCHANGED sessionVars
    BY <1>2 DEF Stdin, StdinDiagnostic, StdinApplication, StdinTarget, StdinPrepareErr,
                StdinImage, StdinReport
  <2>3. QED
    BY <2>1, <2>2
<1>3. CASE Session
  <2>1. CASE SessionAccept
    BY <1>0, <2>1 DEF SessionAccept, Connections
  <2>2. CASE SessionDropped \/ SessionClear
    BY <2>2 DEF SessionDropped, SessionClear, TypeOK
  <2>3. CASE \E v \in Viewports, formats \in HelloFormats : SessionHello(v, formats)
    BY <2>3 DEF SessionHello
  <2>4. CASE SessionGreet \/ SessionReplace
    BY <1>1, <2>4 DEF SessionGreet, SessionReplace
  <2>5. CASE \E v \in Viewports : SessionReadViewport(v)
    BY <2>5 DEF SessionReadViewport, ReadMessage
  <2>6. CASE SessionUpdateViewport \/ SessionEnds
    BY <2>6 DEF SessionUpdateViewport, SessionEnds
  <2>7. CASE \E phase \in {"down", "up"}, hit \in Hits : SessionPointer(phase, hit)
    BY <2>7 DEF SessionPointer, ReadMessage
  <2>8. QED
    BY <1>3, <2>1, <2>2, <2>3, <2>4, <2>5, <2>6, <2>7 DEF Session
<1>4. CASE UNCHANGED vars
  BY <1>4 DEF vars
<1>5. QED
  BY <1>2, <1>3, <1>4 DEF Next

LEMMA TypeSession == TypeOK /\ SessionOwns /\ Session => TypeOK'
<1> SUFFICES ASSUME TypeOK, SessionOwns, Session PROVE TypeOK'
  OBVIOUS
<1> USE DEF senderVars, stdinVars, inputVars, sessionVars, peerVars
<1>1. CASE SessionAccept
  BY <1>1, HostAssumption DEF SessionAccept, TypeOK, SessionOwns, Connections
<1>2. CASE SessionDropped
  BY <1>2 DEF SessionDropped, TypeOK, SessionOwns
<1>3. ASSUME NEW v \in Viewports, NEW formats \in HelloFormats, SessionHello(v, formats)
      PROVE  TypeOK'
  <2>1. session \in Connections /\ formats \in SUBSET PixelFormats
    BY <1>3, HostAssumption DEF SessionHello, SessionOwns
  <2>2. [token |-> session, formats |-> formats, viewport |-> v] \in ActiveConnection
    BY <2>1 DEF ActiveConnection
  <2>3. advertised' \in [Connections -> SUBSET PixelFormats]
    BY <1>3, <2>1 DEF SessionHello, TypeOK
  <2>4. current' \subseteq ActiveConnection /\ \A a \in current' : a.token = session'
    BY <1>3, <2>2 DEF SessionHello
  <2>5. QED
    BY <1>3, <2>3, <2>4 DEF SessionHello, set_viewport, TypeOK
<1>4. CASE SessionGreet
  <2>1. PICK v \in reported :
          \E frame \in {ApplicationFrame(v)} \cup authoritative :
             send_locked(frame, {}, lastApplicationFrame) /\ Rendered(frame)
    BY <1>4 DEF SessionGreet, Matching
  <2>2. PICK frame \in {ApplicationFrame(v)} \cup authoritative :
          send_locked(frame, {}, lastApplicationFrame) /\ Rendered(frame)
    BY <2>1
  <2>3. frame \in Frame /\ lastApplicationFrame \in SUBSET Viewports
    BY TypeFrames DEF TypeOK
  <2>4. /\ current' \subseteq current /\ nextFrameId' \in Nat \ {0}
        /\ authoritative' \subseteq Frame /\ lastApplicationFrame' \subseteq Viewports
        /\ sent' \subseteq SentFrame /\ torn' \subseteq Connections
        /\ rendered' \subseteq Viewports /\ inputViewport' \subseteq Viewports
        /\ contact' = "idle"
    BY <2>2, <2>3, TypeReply
  <2>5. QED
    BY <1>4, <2>4 DEF SessionGreet, TypeOK
<1>5. ASSUME NEW v \in Viewports, SessionReadViewport(v) PROVE TypeOK'
  <2>1. channel' \in Seq(SUBSET Viewports) /\ rendered' \subseteq Viewports
    BY <1>5, TypeDrain DEF SessionReadViewport
  <2>2. QED
    BY <1>5, <2>1, HostAssumption DEF SessionReadViewport, ReadMessage, TypeOK
<1>6. CASE SessionUpdateViewport
  <2>1. PICK v \in reported :
          current' = {IF a.token = session
                      THEN [token |-> a.token, formats |-> a.formats, viewport |-> v]
                      ELSE a : a \in current}
    BY <1>6 DEF SessionUpdateViewport
  <2>2. v \in Viewports
    BY DEF TypeOK
  <2>3. current' \subseteq ActiveConnection /\ \A a \in current' : a.token = session
    BY <2>1, <2>2 DEF TypeOK, ActiveConnection
  <2>4. QED
    BY <1>6, <2>3 DEF SessionUpdateViewport, TypeOK
<1>7. CASE SessionReplace
  <2>1. PICK v \in reported :
          send_locked(ApplicationFrame(v), {}, {}) /\ Rendered(ApplicationFrame(v))
    BY <1>7 DEF SessionReplace
  <2>2. ApplicationFrame(v) \in Frame /\ {} \in SUBSET Viewports
    BY TypeFrames DEF TypeOK
  <2>3. /\ current' \subseteq current /\ nextFrameId' \in Nat \ {0}
        /\ authoritative' \subseteq Frame /\ lastApplicationFrame' \subseteq Viewports
        /\ sent' \subseteq SentFrame /\ torn' \subseteq Connections
        /\ rendered' \subseteq Viewports /\ inputViewport' \subseteq Viewports
        /\ contact' = "idle"
    BY <2>1, <2>2, TypeReply
  <2>4. QED
    BY <1>7, <2>3 DEF SessionReplace, TypeOK
<1>8. ASSUME NEW phase \in {"down", "up"}, NEW hit \in Hits, SessionPointer(phase, hit)
      PROVE  TypeOK'
  <2>1. channel' \in Seq(SUBSET Viewports) /\ rendered' \subseteq Viewports
    BY <1>8, TypeDrain DEF SessionPointer
  <2>2. /\ inputViewport' \subseteq Viewports
        /\ contact' \in {"idle", "cancelled"} \cup Buttons
    <3> DEFINE viewport == IF channel = <<>> THEN inputViewport ELSE rendered' \cap reported
               state == IF channel = <<>> THEN contact ELSE "idle"
    <3>1. viewport \subseteq Viewports /\ state \in {"idle", "cancelled"} \cup Buttons
      BY <2>1 DEF TypeOK
    <3>2. inputViewport' = viewport /\ contact' = HandlePointer(phase, hit, viewport, state)
      BY <1>8 DEF SessionPointer
    <3> HIDE DEF viewport, state
    <3>3. QED
      BY <3>1, <3>2, TypePointer
  <2>3. QED
    BY <1>8, <2>1, <2>2, HostAssumption DEF SessionPointer, ReadMessage, TypeOK
<1>9. CASE SessionEnds
  BY <1>9 DEF SessionEnds, TypeOK
<1>10. CASE SessionClear
  BY <1>10 DEF SessionClear, TypeOK
<1>11. QED
  BY <1>1, <1>2, <1>3, <1>4, <1>5, <1>6, <1>7, <1>8, <1>9, <1>10 DEF Session

LEMMA TypeInvariance == Spec => [](TypeOK /\ SessionOwns)
<1>1. Init => TypeOK /\ SessionOwns
  BY TypeInit DEF Init, SessionOwns
<1>2. TypeOK /\ SessionOwns /\ [Next]_vars => (TypeOK /\ SessionOwns)'
  <2>1. TypeOK /\ UNCHANGED vars => TypeOK'
    BY DEF TypeOK, vars, senderVars, stdinVars, inputVars, sessionVars, peerVars
  <2>2. QED
    BY <2>1, TypeStdin, TypeSession, OwnsSession DEF Next
<1>3. QED
  BY <1>1, <1>2, PTL DEF Spec

\* Every variable keeps its type, and whatever is current belongs to the
\* session in service.
THEOREM TypeCorrect == Spec => []TypeOK
  BY TypeInvariance, PTL

-----------------------------------------------------------------------------
(* The sender's state and the frames that were sent.                       *)

Numbered ==
    /\ FrameIdsAreDense
    /\ AuthoritativeIsLastSent

\* A step either sends a frame to its end or leaves all of this alone.
SendsOrNot ==
    \/ \E frame \in Frame : FrameSent(frame)
    \/ /\ UNCHANGED <<nextFrameId, authoritative, sent>>
       /\ \/ torn' = torn
          \/ torn' = torn \cup {a.token : a \in current} /\ current' = {}

LEMMA EveryStepSendsOrNot ==
    ASSUME TypeOK, [Next]_vars
    PROVE  SendsOrNot
<1> USE DEF senderVars, stdinVars, inputVars, sessionVars, peerVars
<1>1. ASSUME NEW frame \in Frame, NEW targets, NEW baseline,
             send_locked(frame, targets, baseline)
      PROVE  SendsOrNot
  BY <1>1 DEF SendsOrNot, send_locked, FrameBrokenOff, FrameRefused
<1>2. CASE StdinDiagnostic
  <2>1. PICK frame \in DiagnosticFrames : send_locked(frame, {}, lastApplicationFrame)
    BY <1>2 DEF StdinDiagnostic
  <2>2. frame \in Frame
    BY DEF DiagnosticFrames
  <2>3. QED
    BY <1>1, <2>1, <2>2
<1>3. CASE StdinApplication
  <2>1. PICK v \in Viewports :
          \/ UNCHANGED <<current, senderVars, sent, torn>>
          \/ send_locked(ApplicationFrame(v), {}, lastApplicationFrame)
    BY <1>3 DEF StdinApplication
  <2>2. ApplicationFrame(v) \in Frame
    BY TypeFrames
  <2>3. QED
    BY <1>1, <2>1, <2>2 DEF SendsOrNot
<1>4. CASE StdinImage
  <2>1. PICK t \in target, k \in ImageKinds :
          send_locked(ImageFrame(k, t.viewport), {t}, lastApplicationFrame)
    BY <1>4 DEF StdinImage
  <2>2. t.viewport \in Viewports
    BY DEF TypeOK, FrameTarget
  <2>3. ImageFrame(k, t.viewport) \in Frame
    BY <2>2, TypeFrames
  <2>4. QED
    BY <1>1, <2>1, <2>3
<1>5. CASE SessionGreet
  <2>1. PICK v \in reported :
          \E frame \in {ApplicationFrame(v)} \cup authoritative :
             send_locked(frame, {}, lastApplicationFrame)
    BY <1>5 DEF SessionGreet, Matching
  <2>2. ApplicationFrame(v) \in Frame /\ authoritative \subseteq Frame
    BY TypeFrames DEF TypeOK
  <2>3. QED
    BY <1>1, <2>1, <2>2
<1>6. CASE SessionReplace
  <2>1. PICK v \in reported : send_locked(ApplicationFrame(v), {}, {})
    BY <1>6 DEF SessionReplace
  <2>2. ApplicationFrame(v) \in Frame
    BY TypeFrames DEF TypeOK
  <2>3. QED
    BY <1>1, <2>1, <2>2
<1>7. CASE \/ StdinTarget \/ StdinPrepareErr \/ StdinReport
           \/ SessionAccept \/ SessionDropped \/ SessionUpdateViewport
           \/ SessionEnds \/ SessionClear
  BY <1>7 DEF StdinTarget, StdinPrepareErr, StdinReport, SessionAccept, SessionDropped,
              SessionUpdateViewport, SessionEnds, SessionClear, SendsOrNot
<1>8. CASE \/ \E v \in Viewports, formats \in HelloFormats : SessionHello(v, formats)
           \/ \E v \in Viewports : SessionReadViewport(v)
           \/ \E phase \in {"down", "up"}, hit \in Hits : SessionPointer(phase, hit)
  BY <1>8 DEF SessionHello, SessionReadViewport, SessionPointer, SendsOrNot
<1>9. CASE UNCHANGED vars
  BY <1>9 DEF vars, SendsOrNot
<1>10. QED
  BY <1>2, <1>3, <1>4, <1>5, <1>6, <1>7, <1>8, <1>9 DEF Next, Stdin, Session

LEMMA NumberedNext ==
    ASSUME TypeOK, Numbered, [Next]_vars
    PROVE  Numbered'
<1>1. SendsOrNot
  BY EveryStepSendsOrNot
<1>2. ASSUME NEW frame \in Frame, FrameSent(frame) PROVE Numbered'
  <2>1. PICK a \in current :
          sent' = sent \cup {[id |-> nextFrameId, conn |-> a.token, frame |-> frame]}
    BY <1>2 DEF FrameSent
  <2> DEFINE new == [id |-> nextFrameId, conn |-> a.token, frame |-> frame]
  <2>2. nextFrameId' = nextFrameId + 1 /\ nextFrameId \in Nat \ {0}
    BY <1>2 DEF FrameSent, TypeOK
  <2>3. \A f \in sent : f.id \in 1 .. nextFrameId - 1
    BY DEF Numbered, FrameIdsAreDense
  <2>4. new.id = nextFrameId /\ new.frame = frame
    OBVIOUS
  <2>5. \A i \in 1 .. nextFrameId : \E f \in sent' : f.id = i
    <3>1. \A i \in 1 .. nextFrameId - 1 : \E f \in sent : f.id = i
      BY DEF Numbered, FrameIdsAreDense
    <3>2. new \in sent' /\ sent \subseteq sent'
      BY <2>1
    <3> HIDE DEF new
    <3>3. ASSUME NEW i \in 1 .. nextFrameId PROVE \E f \in sent' : f.id = i
      <4>1. CASE i = nextFrameId
        BY <2>4, <3>2, <4>1
      <4>2. CASE i # nextFrameId
        <5>1. i \in 1 .. nextFrameId - 1
          BY <2>2, <4>2
        <5>2. QED
          BY <3>1, <3>2, <5>1
      <4>3. QED
        BY <4>1, <4>2
    <3>4. QED
      BY <3>3
  <2>6. FrameIdsAreDense'
    <3>1. \A f, g \in sent : f.id = g.id => f = g
      BY DEF Numbered, FrameIdsAreDense
    <3>2. \A f, g \in sent' : f.id = g.id => f = g
      BY <2>1, <2>2, <2>3, <2>4, <3>1
    <3>3. \A f \in sent' : f.id \in 1 .. nextFrameId
      BY <2>1, <2>2, <2>3, <2>4
    <3>4. {f.id : f \in sent'} = 1 .. nextFrameId
      BY <2>5, <3>3
    <3>5. QED
      BY <2>2, <3>2, <3>4 DEF FrameIdsAreDense
  <2>7. {g \in sent' : g.id = nextFrameId} = {new}
    BY <2>1, <2>2, <2>3, <2>4
  <2>8. AuthoritativeIsLastSent'
    <3>1. nextFrameId' - 1 = nextFrameId /\ authoritative' = {frame}
      BY <1>2, <2>2 DEF FrameSent
    <3>2. {f.frame : f \in {g \in sent' : g.id = nextFrameId}} = {frame}
      <4> HIDE DEF new
      <4>1. QED
        BY <2>4, <2>7
    <3>3. QED
      BY <3>1, <3>2 DEF AuthoritativeIsLastSent
  <2>9. QED
    BY <2>6, <2>8 DEF Numbered
<1>3. CASE UNCHANGED <<nextFrameId, authoritative, sent>>
  BY <1>3 DEF Numbered, FrameIdsAreDense, AuthoritativeIsLastSent
<1>4. QED
  BY <1>1, <1>2, <1>3 DEF SendsOrNot

LEMMA NumberedInit == Init => Numbered
  BY DEF Init, Numbered, FrameIdsAreDense, AuthoritativeIsLastSent

\* IDs number the frames that reached a PaperPad, none skipped, none twice.
THEOREM FrameIdsDense == Spec => []FrameIdsAreDense
<1>1. TypeOK /\ Numbered /\ [Next]_vars => Numbered'
  BY NumberedNext
<1>2. Numbered => FrameIdsAreDense
  BY DEF Numbered
<1>3. QED
  BY <1>1, <1>2, NumberedInit, TypeInvariance, PTL DEF Spec

\* What is retained is the last frame that reached a PaperPad.
THEOREM AuthoritativeLastSent == Spec => []AuthoritativeIsLastSent
<1>1. TypeOK /\ Numbered /\ [Next]_vars => Numbered'
  BY NumberedNext
<1>2. Numbered => AuthoritativeIsLastSent
  BY DEF Numbered
<1>3. QED
  BY <1>1, <1>2, NumberedInit, TypeInvariance, PTL DEF Spec

-----------------------------------------------------------------------------
(* The current connection and the session it belongs to.  A connection is  *)
(* not written to before its Hello and not after a frame broke off on it.  *)

Serving ==
    /\ \A a \in current :
          /\ a.formats = advertised[a.token]
          /\ a.token \notin torn
          /\ sessionPc # "update" => reported = {a.viewport}
    /\ \A u, v \in reported : u = v
    /\ \A f \in sent : f.conn <= accepted
    /\ \A c \in torn : c <= accepted
    /\ sessionPc = "hello" =>
          session \notin torn /\ \A f \in sent : f.conn # session
    /\ FormatsAreAdvertised

LEMMA FrameSentFits ==
    ASSUME TypeOK, SessionOwns, NEW frame, NEW targets, NEW baseline,
           send_locked(frame, targets, baseline), FrameSent(frame)
    PROVE  \E a \in current :
              /\ frame.format \in a.formats
              /\ \A t \in targets : a.token = t.token /\ a.viewport = t.viewport
              /\ sent' = sent \cup {[id |-> nextFrameId, conn |-> a.token, frame |-> frame]}
<1>1. nextFrameId' # nextFrameId
  BY DEF FrameSent, TypeOK
<1>2. Reaches(frame, targets)
  BY <1>1 DEF send_locked, FrameRefused
<1>3. PICK a \in current :
        sent' = sent \cup {[id |-> nextFrameId, conn |-> a.token, frame |-> frame]}
  BY DEF FrameSent
<1>4. PICK b \in current :
        /\ \A t \in targets : b.token = t.token /\ b.viewport = t.viewport
        /\ frame.format \in b.formats
  BY <1>2 DEF Reaches
<1>5. a = b
  BY DEF SessionOwns
<1>6. QED
  BY <1>3, <1>4, <1>5

LEMMA ServingSend ==
    ASSUME TypeOK, SessionOwns, Serving, NEW frame, NEW targets, NEW baseline,
           send_locked(frame, targets, baseline),
           UNCHANGED <<advertised, accepted, session, reported>>,
           sessionPc' # sessionPc => sessionPc \notin {"accept", "hello", "update"},
           sessionPc' \in {sessionPc, "read"}
    PROVE  Serving'
<1>0. /\ accepted \in Nat /\ session \in {0} \cup Connections /\ nextFrameId \in Nat
      /\ \A a \in current : a.token = session
  BY HostAssumption DEF TypeOK, Connections
<1>1. \A a \in current : sessionPc \notin {"accept", "hello"} /\ session = accepted
  BY DEF SessionOwns
<1>2. CASE FrameSent(frame)
  <2>1. PICK a \in current :
          /\ frame.format \in a.formats
          /\ sent' = sent \cup {[id |-> nextFrameId, conn |-> a.token, frame |-> frame]}
    BY <1>2, FrameSentFits
  <2>2. UNCHANGED <<current, torn>>
    BY <1>2 DEF FrameSent
  <2>3. \A f \in sent' \ sent : f.conn = a.token /\ f.frame = frame
    BY <2>1
  <2>4. frame.format \in advertised[a.token] /\ a.token = session /\ session = accepted
    BY <1>0, <1>1, <2>1 DEF Serving
  <2>5. \A f \in sent' : f.conn <= accepted /\ f.frame.format \in advertised[f.conn]
    <3>1. \A f \in sent : f.conn <= accepted /\ f.frame.format \in advertised[f.conn]
      BY DEF Serving, FormatsAreAdvertised
    <3>2. \A f \in sent' \ sent :
             f.conn <= accepted /\ f.frame.format \in advertised[f.conn]
      BY <1>0, <2>3, <2>4
    <3>3. QED
      BY <3>1, <3>2
  <2>6. sessionPc' # "hello"
    BY <1>1, <2>1
  <2>7. QED
    BY <2>2, <2>5, <2>6 DEF Serving, FormatsAreAdvertised
<1>3. CASE FrameBrokenOff(baseline)
  <2>1. current' = {} /\ sent' = sent /\ torn' = torn \cup {a.token : a \in current}
    BY <1>3 DEF FrameBrokenOff
  <2>2. \A c \in torn' : c <= accepted
    BY <1>0, <1>1, <2>1 DEF Serving
  <2>3. sessionPc' = "hello" =>
           session \notin torn' /\ \A f \in sent : f.conn # session
    <3>1. sessionPc' = "hello" => sessionPc = "hello" /\ torn' = torn
      BY <1>1, <2>1
    <3>2. QED
      BY <3>1 DEF Serving
  <2>4. QED
    BY <2>1, <2>2, <2>3 DEF Serving, FormatsAreAdvertised
<1>4. CASE FrameRefused(baseline)
  BY <1>1, <1>4 DEF FrameRefused, Serving, FormatsAreAdvertised
<1>5. QED
  BY <1>2, <1>3, <1>4 DEF send_locked

LEMMA ServingStdin == TypeOK /\ SessionOwns /\ Serving /\ Stdin => Serving'
<1> SUFFICES ASSUME TypeOK, SessionOwns, Serving, Stdin PROVE Serving'
  OBVIOUS
<1> USE DEF senderVars, stdinVars, inputVars, sessionVars, peerVars
<1>1. UNCHANGED <<sessionPc, advertised, accepted, session, reported>>
  BY DEF Stdin, StdinDiagnostic, StdinApplication, StdinTarget, StdinPrepareErr,
         StdinImage, StdinReport
<1>2. ASSUME NEW frame, NEW targets, NEW baseline, send_locked(frame, targets, baseline)
      PROVE  Serving'
  BY <1>1, <1>2, ServingSend
<1>3. CASE UNCHANGED <<current, sent, torn>>
  BY <1>1, <1>3 DEF Serving, FormatsAreAdvertised
<1>4. CASE StdinDiagnostic
  BY <1>2, <1>4 DEF StdinDiagnostic
<1>5. CASE StdinApplication
  BY <1>2, <1>3, <1>5 DEF StdinApplication
<1>6. CASE StdinImage
  BY <1>2, <1>6 DEF StdinImage
<1>7. CASE StdinTarget \/ StdinPrepareErr \/ StdinReport
  BY <1>3, <1>7 DEF StdinTarget, StdinPrepareErr, StdinReport
<1>8. QED
  BY <1>4, <1>5, <1>6, <1>7 DEF Stdin

LEMMA ServingSession == TypeOK /\ SessionOwns /\ Serving /\ Session => Serving'
<1> SUFFICES ASSUME TypeOK, SessionOwns, Serving, Session PROVE Serving'
  OBVIOUS
<1>0. /\ accepted \in Nat /\ session \in {0} \cup Connections
      /\ advertised \in [Connections -> SUBSET PixelFormats]
      /\ \A f \in sent : f.conn \in Nat
      /\ \A c \in torn : c \in Nat
      /\ \A a \in current : a.token = session
  BY HostAssumption DEF TypeOK, Connections, SentFrame
<1> USE DEF senderVars, stdinVars, inputVars, sessionVars, peerVars
<1>1. CASE SessionAccept
  <2>1. current = {} /\ current' = {} /\ session' = accepted + 1 /\ accepted' = accepted + 1
    BY <1>1 DEF SessionAccept, SessionOwns
  <2>2. QED
    BY <1>0, <1>1, <2>1 DEF SessionAccept, Serving, FormatsAreAdvertised
<1>2. CASE SessionDropped
  BY <1>2 DEF SessionDropped, SessionOwns, Serving, FormatsAreAdvertised
<1>3. ASSUME NEW v \in Viewports, NEW formats \in HelloFormats, SessionHello(v, formats)
      PROVE  Serving'
  <2>1. /\ current' = {[token |-> session, formats |-> formats, viewport |-> v]}
        /\ advertised' = [advertised EXCEPT ![session] = formats]
        /\ reported' = {v} /\ sessionPc = "hello" /\ sessionPc' = "greet"
        /\ UNCHANGED <<session, accepted, sent, torn>>
    BY <1>3 DEF SessionHello
  <2>2. session \in Connections /\ session \notin torn /\ \A f \in sent : f.conn # session
    BY <2>1 DEF SessionOwns, Serving
  <2>3. FormatsAreAdvertised'
    <3>1. \A f \in sent : advertised'[f.conn] = advertised[f.conn]
      BY <1>0, <2>1, <2>2 DEF TypeOK, SentFrame
    <3>2. QED
      BY <2>1, <3>1 DEF Serving, FormatsAreAdvertised
  <2>4. advertised'[session] = formats
    BY <1>0, <2>1, <2>2
  <2>5. QED
    BY <2>1, <2>2, <2>3, <2>4 DEF Serving
<1>4. CASE SessionGreet
  <2>1. PICK frame : send_locked(frame, {}, lastApplicationFrame)
    BY <1>4 DEF SessionGreet
  <2>2. QED
    BY <1>4, <2>1, ServingSend DEF SessionGreet
<1>5. CASE SessionReplace
  <2>1. PICK frame : send_locked(frame, {}, {})
    BY <1>5 DEF SessionReplace
  <2>2. QED
    BY <1>5, <2>1, ServingSend DEF SessionReplace
<1>6. ASSUME NEW v \in Viewports, SessionReadViewport(v) PROVE Serving'
  BY <1>6 DEF SessionReadViewport, ReadMessage, Serving, FormatsAreAdvertised
<1>7. CASE SessionUpdateViewport
  <2>1. PICK v \in reported :
          current' = {IF a.token = session
                      THEN [token |-> a.token, formats |-> a.formats, viewport |-> v]
                      ELSE a : a \in current}
    BY <1>7 DEF SessionUpdateViewport
  <2>2. \A b \in current' : \E a \in current :
           b = [token |-> a.token, formats |-> a.formats, viewport |-> v]
    BY <1>0, <2>1
  <2>3. reported' = {v}
    BY <1>7, <2>1 DEF SessionUpdateViewport, Serving
  <2>4. QED
    BY <1>7, <2>2, <2>3 DEF SessionUpdateViewport, Serving, FormatsAreAdvertised
<1>8. ASSUME NEW phase, NEW hit, SessionPointer(phase, hit) PROVE Serving'
  BY <1>8 DEF SessionPointer, ReadMessage, Serving, FormatsAreAdvertised
<1>9. CASE SessionEnds
  BY <1>9 DEF SessionEnds, Serving, FormatsAreAdvertised
<1>10. CASE SessionClear
  BY <1>0, <1>10 DEF SessionClear, Serving, FormatsAreAdvertised
<1>11. QED
  BY <1>1, <1>2, <1>3, <1>4, <1>5, <1>6, <1>7, <1>8, <1>9, <1>10 DEF Session

LEMMA Invariance == Spec => [](TypeOK /\ SessionOwns /\ Serving)
<1>1. Init => Serving
  BY DEF Init, Serving, FormatsAreAdvertised
<1>2. TypeOK /\ SessionOwns /\ Serving /\ [Next]_vars => Serving'
  <2>1. Serving /\ UNCHANGED vars => Serving'
    BY DEF Serving, FormatsAreAdvertised, vars, sessionVars, peerVars
  <2>2. QED
    BY <2>1, ServingStdin, ServingSession DEF Next
<1>3. QED
  BY <1>1, <1>2, TypeInvariance, PTL DEF Spec

\* A PaperPad receives no format it did not advertise.
THEOREM FormatsAdvertised == Spec => []FormatsAreAdvertised
<1>1. Serving => FormatsAreAdvertised
  BY DEF Serving
<1>2. QED
  BY <1>1, Invariance, PTL

LEMMA NewFrameIsServed ==
    ASSUME TypeOK, SessionOwns, Serving, [Next]_vars, NEW f \in sent' \ sent
    PROVE  \E a \in current : f.conn = a.token
<1>1. PICK frame \in Frame : FrameSent(frame)
  BY EveryStepSendsOrNot DEF SendsOrNot
<1>2. QED
  BY <1>1 DEF FrameSent

\* Nothing is written to a connection after a frame that broke off.
THEOREM TornFrameIsLast == Spec => NothingFollowsTornFrame
<1>1. TypeOK /\ SessionOwns /\ Serving /\ [Next]_vars
        => [\A f \in sent' \ sent : f.conn \notin torn]_vars
  BY NewFrameIsServed DEF Serving
<1>2. QED
  BY <1>1, Invariance, PTL DEF Spec, NothingFollowsTornFrame

\* An image that is sent fits what the PaperPad in service reported.
ImageFits ==
    \A f \in sent' \ sent :
        f.frame.kind \in ImageKinds =>
            /\ f.conn = session
            /\ sessionPc # "update" => reported = {f.frame.viewport}

LEMMA ImageFitsSend ==
    ASSUME TypeOK, SessionOwns, Serving, NEW frame, NEW targets, NEW baseline,
           send_locked(frame, targets, baseline),
           frame.kind \in ImageKinds =>
              reported = {frame.viewport} \/ \E t \in targets : t.viewport = frame.viewport
    PROVE  ImageFits
<1>1. CASE FrameSent(frame)
  <2>1. PICK a \in current :
          /\ \A t \in targets : a.token = t.token /\ a.viewport = t.viewport
          /\ sent' = sent \cup {[id |-> nextFrameId, conn |-> a.token, frame |-> frame]}
    BY <1>1, FrameSentFits
  <2>2. a.token = session /\ (sessionPc # "update" => reported = {a.viewport})
    BY DEF TypeOK, Serving
  <2>3. \A f \in sent' \ sent : f.conn = a.token /\ f.frame = frame
    BY <2>1
  <2>4. QED
    BY <2>1, <2>2, <2>3 DEF ImageFits
<1>2. CASE FrameBrokenOff(baseline) \/ FrameRefused(baseline)
  BY <1>2 DEF FrameBrokenOff, FrameRefused, ImageFits
<1>3. QED
  BY <1>1, <1>2 DEF send_locked

LEMMA ImageFitsNext == TypeOK /\ SessionOwns /\ Serving /\ [Next]_vars => ImageFits
<1> SUFFICES ASSUME TypeOK, SessionOwns, Serving, [Next]_vars PROVE ImageFits
  OBVIOUS
<1> USE DEF senderVars, stdinVars, inputVars, sessionVars, peerVars
<1>0. CASE sent' = sent
  BY <1>0 DEF ImageFits
<1>1. CASE StdinDiagnostic
  <2>1. PICK frame \in DiagnosticFrames : send_locked(frame, {}, lastApplicationFrame)
    BY <1>1 DEF StdinDiagnostic
  <2>2. frame.kind \notin ImageKinds
    BY HostAssumption DEF DiagnosticFrames
  <2>3. QED
    BY <2>1, <2>2, ImageFitsSend
<1>2. CASE StdinApplication
  <2>1. PICK v \in Viewports :
          \/ UNCHANGED sent
          \/ send_locked(ApplicationFrame(v), {}, lastApplicationFrame)
    BY <1>2 DEF StdinApplication
  <2>2. ApplicationFrame(v).kind \notin ImageKinds
    BY HostAssumption DEF ApplicationFrame
  <2>3. QED
    BY <1>0, <2>1, <2>2, ImageFitsSend
<1>3. CASE StdinImage
  <2>1. PICK t \in target, k \in ImageKinds :
          send_locked(ImageFrame(k, t.viewport), {t}, lastApplicationFrame)
    BY <1>3 DEF StdinImage
  <2>2. ImageFrame(k, t.viewport).viewport = t.viewport
    BY DEF ImageFrame
  <2>3. QED
    BY <2>1, <2>2, ImageFitsSend
<1>4. CASE SessionGreet
  <2>1. PICK v \in reported :
          \E frame \in {ApplicationFrame(v)} \cup {f \in authoritative : f.viewport = v} :
             send_locked(frame, {}, lastApplicationFrame)
    BY <1>4 DEF SessionGreet, Matching
  <2>2. PICK frame \in {ApplicationFrame(v)} \cup {f \in authoritative : f.viewport = v} :
          send_locked(frame, {}, lastApplicationFrame)
    BY <2>1
  <2>3. frame.viewport = v /\ reported = {v}
    BY DEF ApplicationFrame, Serving
  <2>4. QED
    BY <2>2, <2>3, ImageFitsSend
<1>5. CASE SessionReplace
  <2>1. PICK v \in reported : send_locked(ApplicationFrame(v), {}, {})
    BY <1>5 DEF SessionReplace
  <2>2. ApplicationFrame(v).kind \notin ImageKinds
    BY HostAssumption DEF ApplicationFrame
  <2>3. QED
    BY <2>1, <2>2, ImageFitsSend
<1>6. CASE \/ StdinTarget \/ StdinPrepareErr \/ StdinReport
           \/ SessionAccept \/ SessionDropped \/ SessionUpdateViewport
           \/ SessionEnds \/ SessionClear
  BY <1>0, <1>6 DEF StdinTarget, StdinPrepareErr, StdinReport, SessionAccept,
     SessionDropped, SessionUpdateViewport, SessionEnds, SessionClear
<1>7. CASE \/ \E v \in Viewports, formats \in HelloFormats : SessionHello(v, formats)
           \/ \E v \in Viewports : SessionReadViewport(v)
           \/ \E phase \in {"down", "up"}, hit \in Hits : SessionPointer(phase, hit)
  BY <1>0, <1>7 DEF SessionHello, SessionReadViewport, SessionPointer
<1>8. CASE UNCHANGED vars
  BY <1>0, <1>8 DEF vars
<1>9. QED
  BY <1>1, <1>2, <1>3, <1>4, <1>5, <1>6, <1>7, <1>8 DEF Next, Stdin, Session

\* Images reach the PaperPad in service in the dimensions it reported.
THEOREM ImagesFit == Spec => ImagesFitReportedViewport
<1>1. TypeOK /\ SessionOwns /\ Serving /\ [Next]_vars
        => [\A f \in sent' \ sent :
               f.frame.kind \in ImageKinds =>
                 /\ f.conn = session
                 /\ sessionPc # "update" => reported = {f.frame.viewport}]_vars
  BY ImageFitsNext DEF ImageFits
<1>2. QED
  BY <1>1, Invariance, PTL DEF Spec, ImagesFitReportedViewport

-----------------------------------------------------------------------------
(* What the PaperPad in service was sent last.  stdin tells the session of *)
(* a frame after it was sent, so what the session is going to believe is   *)
(* spread over stdin, the channel and ApplicationInput.  Until it believes *)
(* it, any frame the session sends is the application UI as well: of the   *)
(* same viewport, or of another, and then the belief is dropped.           *)

\* The viewport stdin has not yet told the session, {} also for other frames.
Pending ==
    IF stdinPc = "report" THEN report
    ELSE IF channel = <<>> THEN {}
    ELSE channel[Len(channel)]

\* The viewport the session resolves pointers in once it has been told.
Believed == IF stdinPc # "report" /\ channel = <<>> THEN inputViewport ELSE Pending

ShownTo(c, v) ==
    \E f \in sent : f.id = nextFrameId - 1 /\ f.conn = c /\ f.frame = ApplicationFrame(v)

HasFrame(c, v) == \E f \in sent : f.conn = c /\ f.frame.viewport = v

Retained ==
    /\ \A f \in authoritative :
          Encodes(f) /\ (f.kind = "application" => f = ApplicationFrame(f.viewport))
    /\ Pending \cap Oversized = {}
    /\ Pending # {} => \A f \in authoritative : f.kind = "application"
    /\ \A a \in current : "mono1" \in a.formats

Answered ==
    sessionPc = "read" =>
        /\ inputViewport \subseteq reported
        /\ current # {} =>
             \A v \in reported :
                /\ v \notin Oversized => HasFrame(session, v)
                /\ v \in Believed => ShownTo(session, v)
                /\ v \in lastApplicationFrame /\ authoritative = {ApplicationFrame(v)}
                     => ShownTo(session, v)

\* The two ways send_locked ends.
Delivered(frame) ==
    /\ WasSent /\ Encodes(frame)
    /\ authoritative' = {frame} /\ current' = current /\ sent \subseteq sent'
    /\ \E f \in sent' : f.id = nextFrameId' - 1 /\ f.conn = session /\ f.frame = frame

Undelivered(frame, targets, baseline) ==
    /\ ~WasSent
    /\ UNCHANGED <<nextFrameId, authoritative, sent>>
    /\ lastApplicationFrame' = baseline
    /\ \/ current' = {}
       \/ current' = current /\ ~(Encodes(frame) /\ Reaches(frame, targets))

LEMMA SendOutcome ==
    ASSUME TypeOK, SessionOwns, NEW frame, NEW targets, NEW baseline,
           send_locked(frame, targets, baseline)
    PROVE  Delivered(frame) \/ Undelivered(frame, targets, baseline)
<1>0. nextFrameId \in Nat
  BY DEF TypeOK
<1>1. CASE FrameSent(frame)
  <2>1. PICK a \in current :
          sent' = sent \cup {[id |-> nextFrameId, conn |-> a.token, frame |-> frame]}
    BY <1>1, FrameSentFits
  <2>2. a.token = session
    BY DEF TypeOK
  <2>3. nextFrameId' = nextFrameId + 1 /\ authoritative' = {frame} /\ current' = current
    BY <1>1 DEF FrameSent
  <2>4. Encodes(frame)
    BY <1>0, <2>3 DEF send_locked, FrameRefused
  <2>5. \E f \in sent' : f.id = nextFrameId' - 1 /\ f.conn = session /\ f.frame = frame
    <3>1. nextFrameId' - 1 = nextFrameId
      BY <1>0, <2>3
    <3>2. [id |-> nextFrameId, conn |-> a.token, frame |-> frame] \in sent'
      BY <2>1
    <3>3. QED
      BY <2>2, <3>1, <3>2
  <2>6. nextFrameId' # nextFrameId
    BY <1>0, <2>3
  <2>7. QED
    BY <2>1, <2>3, <2>4, <2>5, <2>6 DEF Delivered, WasSent
<1>2. CASE FrameBrokenOff(baseline)
  BY <1>2 DEF FrameBrokenOff, Undelivered, WasSent
<1>3. CASE FrameRefused(baseline)
  <2>1. CASE Encodes(frame) /\ Reaches(frame, targets)
    BY <1>1, <1>2, <2>1 DEF send_locked
  <2>2. CASE ~(Encodes(frame) /\ Reaches(frame, targets))
    BY <1>3, <2>2 DEF FrameRefused, Undelivered, WasSent
  <2>3. QED
    BY <2>1, <2>2
<1>4. QED
  BY <1>1, <1>2, <1>3 DEF send_locked

\* stdin sends, or not, and reports what it sent.
LEMMA AnsweredReport ==
    ASSUME TypeOK, SessionOwns, Retained, Answered, NEW frame, NEW targets, NEW value,
           \/ send_locked(frame, targets, lastApplicationFrame)
           \/ UNCHANGED <<current, senderVars, sent, torn>>,
           frame.kind = "application" => frame = ApplicationFrame(frame.viewport),
           value # {} => frame.kind = "application" /\ value = {frame.viewport},
           Reports(value), stdinPc # "report",
           UNCHANGED <<channel, sessionVars>>
    PROVE  Retained' /\ Answered'
<1> USE DEF senderVars, inputVars, sessionVars
<1>1. CASE Delivered(frame)
  <2>1. stdinPc' = "report" /\ report' = value
    BY <1>1 DEF Delivered, Reports
  <2>2. Pending' = value /\ Believed' = value
    BY <2>1 DEF Pending, Believed
  <2>3. Retained'
    BY <1>1, <2>2 DEF Delivered, Retained, Encodes
  <2>4. ASSUME NEW v \in reported, frame = ApplicationFrame(v) PROVE ShownTo(session, v)'
    BY <1>1, <2>4 DEF Delivered, ShownTo
  <2>5. ASSUME NEW v \in reported, v \in value PROVE frame = ApplicationFrame(v)
    BY <2>5
  <2>6. ASSUME NEW v \in reported, HasFrame(session, v) PROVE HasFrame(session, v)'
    BY <1>1, <2>6 DEF Delivered, HasFrame
  <2>7. ASSUME NEW v \in reported, authoritative' = {ApplicationFrame(v)}
        PROVE  frame = ApplicationFrame(v)
    BY <1>1, <2>7 DEF Delivered
  <2>8. current' = current
    BY <1>1 DEF Delivered
  <2>9. QED
    BY <2>2, <2>3, <2>4, <2>5, <2>6, <2>7, <2>8 DEF Answered
<1>2. CASE Undelivered(frame, targets, lastApplicationFrame)
           \/ UNCHANGED <<current, senderVars, sent, torn>>
  <2>1. UNCHANGED <<nextFrameId, authoritative, lastApplicationFrame, sent>>
    BY <1>2 DEF Undelivered
  <2>2. stdinPc' = "idle"
    BY <2>1 DEF Reports, WasSent
  <2>3. Pending' = Pending /\ Believed' = Believed
    BY <2>2 DEF Pending, Believed
  <2>4. current' \in {{}, current}
    BY <1>2 DEF Undelivered
  <2>5. QED
    BY <2>1, <2>3, <2>4 DEF Retained, Answered, Encodes, ShownTo, HasFrame
<1>3. QED
  BY <1>1, <1>2, SendOutcome

LEMMA AnsweredStdin ==
    TypeOK /\ SessionOwns /\ Retained /\ Answered /\ Stdin => Retained' /\ Answered'
<1> SUFFICES ASSUME TypeOK, SessionOwns, Retained, Answered, Stdin
             PROVE  Retained' /\ Answered'
  OBVIOUS
<1>1. CASE StdinDiagnostic
  <2>1. PICK frame \in DiagnosticFrames : send_locked(frame, {}, lastApplicationFrame)
    BY <1>1 DEF StdinDiagnostic
  <2>2. frame.kind = "diagnostic"
    BY DEF DiagnosticFrames
  <2>3. Reports({}) /\ stdinPc # "report" /\ UNCHANGED <<channel, sessionVars>>
    BY <1>1 DEF StdinDiagnostic, ReadCommand
  <2>4. QED
    BY <2>1, <2>2, <2>3, AnsweredReport
<1>2. CASE StdinApplication
  <2>1. PICK v \in Viewports :
          /\ \/ UNCHANGED <<current, senderVars, sent, torn>>
             \/ send_locked(ApplicationFrame(v), {}, lastApplicationFrame)
          /\ Reports({v})
    BY <1>2 DEF StdinApplication
  <2>2. ApplicationFrame(v).kind = "application" /\ ApplicationFrame(v).viewport = v
    BY DEF ApplicationFrame
  <2>3. stdinPc # "report" /\ UNCHANGED <<channel, sessionVars>>
    BY <1>2 DEF StdinApplication, ReadCommand
  <2>4. QED
    BY <2>1, <2>2, <2>3, AnsweredReport
<1>3. CASE StdinImage
  <2>1. PICK t \in target, k \in ImageKinds :
          send_locked(ImageFrame(k, t.viewport), {t}, lastApplicationFrame)
    BY <1>3 DEF StdinImage
  <2>2. ImageFrame(k, t.viewport).kind # "application"
    BY HostAssumption DEF ImageFrame
  <2>3. Reports({}) /\ stdinPc # "report" /\ UNCHANGED <<channel, sessionVars>>
    BY <1>3 DEF StdinImage
  <2>4. QED
    BY <2>1, <2>2, <2>3, AnsweredReport
<1>4. CASE StdinTarget \/ StdinPrepareErr
  <2>1. /\ UNCHANGED <<current, senderVars, channel, sessionVars, peerVars>>
        /\ stdinPc # "report" /\ stdinPc' # "report"
    BY <1>4 DEF StdinTarget, StdinPrepareErr, ReadCommand
  <2>2. Pending' = Pending /\ Believed' = Believed
    BY <2>1 DEF Pending, Believed, sessionVars, inputVars
  <2>3. QED
    BY <2>1, <2>2 DEF Retained, Answered, Encodes, ShownTo, HasFrame, senderVars,
                      sessionVars, inputVars, peerVars
<1>5. CASE StdinReport
  <2>1. /\ UNCHANGED <<current, senderVars, sessionVars, peerVars>>
        /\ stdinPc = "report" /\ stdinPc' = "idle" /\ channel' = Append(channel, report)
    BY <1>5 DEF StdinReport
  <2>2. channel \in Seq(SUBSET Viewports) /\ report \in SUBSET Viewports
    BY DEF TypeOK
  <2>3. channel' # <<>> /\ channel'[Len(channel')] = report
    BY <2>1, <2>2
  <2>4. Pending' = Pending /\ Believed' = Believed
    BY <2>1, <2>3 DEF Pending, Believed
  <2>5. QED
    BY <2>1, <2>4 DEF Retained, Answered, Encodes, ShownTo, HasFrame, senderVars,
                      sessionVars, inputVars, peerVars
<1>6. QED
  BY <1>1, <1>2, <1>3, <1>4, <1>5 DEF Stdin

\* The session answers a Hello or a ViewportChanged.
LEMMA AnsweredReply ==
    ASSUME TypeOK, SessionOwns, Retained, NEW frame, NEW v, NEW baseline,
           send_locked(frame, {}, baseline), Rendered(frame),
           frame.viewport = v, reported = {v},
           frame.kind = "application" => frame = ApplicationFrame(v),
           Pending # {} => frame.kind = "application",
           Encodes(frame) /\ current # {} => Reaches(frame, {}),
           UNCHANGED <<channel, stdinVars, session, reported>>
    PROVE  Retained' /\ Answered'
<1>1. Pending' = Pending
  BY DEF Pending, stdinVars
<1>2. inputViewport' = IF WasSent /\ frame.kind = "application" THEN {v} ELSE {}
  BY DEF Rendered, set_viewport
<1>3. CASE Delivered(frame)
  <2>1. Retained'
    BY <1>1, <1>3 DEF Delivered, Retained, Encodes
  <2>2. HasFrame(session, v)'
    BY <1>3 DEF Delivered, HasFrame
  <2>3. frame.kind = "application" => ShownTo(session, v)'
    BY <1>3 DEF Delivered, ShownTo
  <2>4. Believed' # {} => frame.kind = "application"
    BY <1>1, <1>2 DEF Believed
  <2>5. authoritative' = {ApplicationFrame(v)} => frame.kind = "application"
    BY <1>3 DEF Delivered, ApplicationFrame
  <2>6. QED
    BY <1>2, <2>1, <2>2, <2>3, <2>4, <2>5 DEF Answered
<1>4. CASE Undelivered(frame, {}, baseline)
  <2>1. Retained'
    BY <1>1, <1>4 DEF Undelivered, Retained, Encodes
  <2>2. inputViewport' = {}
    BY <1>2, <1>4 DEF Undelivered
  <2>3. CASE current' = {}
    BY <2>1, <2>2, <2>3 DEF Answered
  <2>4. CASE current' # {}
    <3>1. v \in Oversized
      BY <1>4, <2>4 DEF Undelivered, Encodes
    <3>2. v \notin Pending
      BY <3>1 DEF Retained
    <3>3. v \notin Believed'
      BY <1>1, <2>2, <3>2 DEF Believed
    <3>4. authoritative' # {ApplicationFrame(v)}
      BY <1>4, <3>1 DEF Undelivered, Retained, Encodes, ApplicationFrame
    <3>5. QED
      BY <2>1, <2>2, <3>1, <3>3, <3>4 DEF Answered
  <2>5. QED
    BY <2>3, <2>4
<1>5. QED
  BY <1>3, <1>4, SendOutcome

LEMMA ReplyReaches ==
    ASSUME TypeOK, Serving, NEW frame, current # {},
           frame.format \in advertised[session] \/ (Retained /\ frame.format = "mono1")
    PROVE  Reaches(frame, {})
<1>1. \A a \in current : a.formats = advertised[session]
  BY DEF TypeOK, Serving
<1>2. QED
  BY <1>1 DEF Reaches, Retained

LEMMA AnsweredDrain ==
    ASSUME TypeOK, Retained, Drain, UNCHANGED stdinVars
    PROVE  Pending' \subseteq Pending /\ (stdinPc # "report" => Pending' = {})
  BY DEF Drain, Pending, stdinVars

LEMMA AnsweredSession ==
    TypeOK /\ SessionOwns /\ Serving /\ Retained /\ Answered /\ Session
       => Retained' /\ Answered'
<1> SUFFICES ASSUME TypeOK, SessionOwns, Serving, Retained, Answered, Session
             PROVE  Retained' /\ Answered'
  OBVIOUS
<1>0. ASSUME Pending' \subseteq Pending, authoritative' = authoritative,
             \A b \in current' : "mono1" \in b.formats
      PROVE  Retained'
  BY <1>0 DEF Retained, Encodes
<1> USE DEF senderVars, stdinVars, inputVars, sessionVars, peerVars
<1>1. CASE SessionAccept
  <2>1. Pending' \subseteq Pending
    BY <1>1 DEF SessionAccept, Pending
  <2>2. QED
    BY <1>0, <1>1, <2>1 DEF SessionAccept, Answered, Retained
<1>2. CASE SessionDropped \/ SessionEnds \/ SessionClear
  <2>1. Pending' = Pending /\ sessionPc' # "read"
    BY <1>2 DEF SessionDropped, SessionEnds, SessionClear, Pending
  <2>2. current' \subseteq current /\ authoritative' = authoritative
    BY <1>2 DEF SessionDropped, SessionEnds, SessionClear
  <2>3. QED
    BY <1>0, <2>1, <2>2 DEF Answered, Retained
<1>3. ASSUME NEW v \in Viewports, NEW formats \in HelloFormats, SessionHello(v, formats)
      PROVE  Retained' /\ Answered'
  <2>1. Pending' = Pending
    BY <1>3 DEF SessionHello, Pending
  <2>2. QED
    BY <1>0, <1>3, <2>1, Mono1Assumption DEF SessionHello, Answered
<1>4. CASE SessionGreet
  <2>1. PICK v \in reported :
          \E frame \in IF Matching(v, advertised[session]) = {} THEN {ApplicationFrame(v)}
                       ELSE Matching(v, advertised[session]) :
             send_locked(frame, {}, lastApplicationFrame) /\ Rendered(frame)
    BY <1>4 DEF SessionGreet
  <2>2. PICK frame \in IF Matching(v, advertised[session]) = {} THEN {ApplicationFrame(v)}
                       ELSE Matching(v, advertised[session]) :
          send_locked(frame, {}, lastApplicationFrame) /\ Rendered(frame)
    BY <2>1
  <2>3. /\ frame.viewport = v
        /\ frame.kind = "application" => frame = ApplicationFrame(v)
        /\ Pending # {} => frame.kind = "application"
        /\ frame.format \in advertised[session] \/ frame.format = "mono1"
    BY DEF Matching, ApplicationFrame, Retained
  <2>4. reported = {v}
    BY DEF Serving
  <2>5. Encodes(frame) /\ current # {} => Reaches(frame, {})
    BY <2>3, ReplyReaches
  <2>6. UNCHANGED <<channel, stdinVars, session, reported>>
    BY <1>4 DEF SessionGreet
  <2>7. QED
    BY <2>2, <2>3, <2>4, <2>5, <2>6, AnsweredReply
<1>5. CASE SessionReplace
  <2>1. PICK v \in reported :
          send_locked(ApplicationFrame(v), {}, {}) /\ Rendered(ApplicationFrame(v))
    BY <1>5 DEF SessionReplace
  <2>2. /\ ApplicationFrame(v).viewport = v /\ ApplicationFrame(v).kind = "application"
        /\ ApplicationFrame(v).format = "mono1"
    BY DEF ApplicationFrame
  <2>3. reported = {v}
    BY DEF Serving
  <2>4. current # {} => Reaches(ApplicationFrame(v), {})
    BY <2>2, ReplyReaches
  <2>5. UNCHANGED <<channel, stdinVars, session, reported>>
    BY <1>5 DEF SessionReplace
  <2>6. QED
    BY <2>1, <2>2, <2>3, <2>4, <2>5, AnsweredReply
<1>6. ASSUME NEW v \in Viewports, SessionReadViewport(v) PROVE Retained' /\ Answered'
  <2>1. Pending' \subseteq Pending
    BY <1>6, AnsweredDrain DEF SessionReadViewport
  <2>2. QED
    BY <1>0, <1>6, <2>1 DEF SessionReadViewport, Answered, Retained
<1>7. CASE SessionUpdateViewport
  <2>1. \A b \in current' : \E a \in current : b.formats = a.formats
    BY <1>7 DEF SessionUpdateViewport
  <2>2. Pending' = Pending
    BY <1>7 DEF SessionUpdateViewport, Pending
  <2>3. QED
    BY <1>0, <1>7, <2>1, <2>2 DEF SessionUpdateViewport, Answered, Retained
<1>8. ASSUME NEW phase, NEW hit, SessionPointer(phase, hit) PROVE Retained' /\ Answered'
  <2>1. /\ sessionPc = "read" /\ sessionPc' = "read"
        /\ Drain /\ UNCHANGED <<current, senderVars, stdinVars, session, reported, peerVars>>
        /\ inputViewport' = IF channel = <<>> THEN inputViewport ELSE rendered' \cap reported
    BY <1>8 DEF SessionPointer, ReadMessage
  <2>2. channel' = <<>>
    BY <2>1 DEF Drain
  <2>3. Pending' \subseteq Pending
    BY <2>1, AnsweredDrain
  <2>4. Believed' \subseteq Believed
    <3>1. CASE stdinPc = "report"
      BY <2>1, <3>1 DEF Believed, Pending
    <3>2. CASE stdinPc # "report" /\ channel = <<>>
      BY <2>1, <2>2, <3>2 DEF Believed
    <3>3. CASE stdinPc # "report" /\ channel # <<>>
      BY <2>1, <2>2, <3>3 DEF Believed, Pending, Drain
    <3>4. QED
      BY <3>1, <3>2, <3>3
  <2>5. inputViewport' \subseteq reported
    BY <2>1 DEF Answered
  <2>6. Retained'
    BY <1>0, <2>1, <2>3 DEF Retained
  <2>7. QED
    BY <2>1, <2>4, <2>5, <2>6 DEF Answered, ShownTo, HasFrame
<1>9. QED
  BY <1>1, <1>2, <1>3, <1>4, <1>5, <1>6, <1>7, <1>8 DEF Session

LEMMA AnsweredInvariance ==
    Spec => [](TypeOK /\ SessionOwns /\ Serving /\ Numbered /\ Retained /\ Answered)
<1>1. Init => Retained /\ Answered
  BY DEF Init, Retained, Answered, Pending
<1>2. TypeOK /\ SessionOwns /\ Serving /\ Retained /\ Answered /\ [Next]_vars
        => Retained' /\ Answered'
  <2>1. ASSUME Retained, Answered, UNCHANGED vars PROVE Retained' /\ Answered'
    BY <2>1 DEF vars, senderVars, stdinVars, inputVars, sessionVars, peerVars,
                Retained, Answered, Pending, Believed, Encodes, ShownTo, HasFrame
  <2>2. QED
    BY <2>1, AnsweredStdin, AnsweredSession DEF Next
<1>3. TypeOK /\ Numbered /\ [Next]_vars => Numbered'
  BY NumberedNext
<1>4. QED
  BY <1>1, <1>2, <1>3, NumberedInit, Invariance, PTL DEF Spec

LEMMA LastIsShown ==
    ASSUME TypeOK, Numbered, NEW c, NEW v, ShownTo(c, v)
    PROVE  LastFrame(c) = {ApplicationFrame(v)}
<1>1. PICK f \in sent :
        f.id = nextFrameId - 1 /\ f.conn = c /\ f.frame = ApplicationFrame(v)
  BY DEF ShownTo
<1>2. \A g \in sent : g.id \in Nat /\ g.id <= f.id /\ (g.id = f.id => g = f)
  BY <1>1 DEF TypeOK, Numbered, FrameIdsAreDense
<1>3. {g \in sent : g.conn = c /\ \A h \in sent : h.conn = c => h.id <= g.id} = {f}
  BY <1>1, <1>2
<1>4. QED
  BY <1>1, <1>3 DEF LastFrame

\* Every Hello and ViewportChanged of a PaperPad in service was answered.
THEOREM ServedHasFrame == Spec => []ServedPaperPadHasFrame
<1>1. Answered => ServedPaperPadHasFrame
  BY DEF Answered, ServedPaperPadHasFrame, HasFrame
<1>2. QED
  BY <1>1, AnsweredInvariance, PTL

\* A frame that stdin skips as unchanged is what that PaperPad shows.
THEOREM SkippedIsShown == Spec => []SkippedFrameIsShown
<1>1. TypeOK /\ Numbered /\ Answered => SkippedFrameIsShown
  <2> SUFFICES ASSUME TypeOK, Numbered, Answered, sessionPc = "read",
                      NEW a \in current, NEW v \in lastApplicationFrame \cap reported,
                      authoritative = {ApplicationFrame(v)}
               PROVE  LastFrame(a.token) = {ApplicationFrame(v)}
    BY DEF SkippedFrameIsShown
  <2>1. ShownTo(session, v) /\ a.token = session
    BY DEF Answered, TypeOK
  <2>2. QED
    BY <2>1, LastIsShown
<1>2. QED
  BY <1>1, AnsweredInvariance, PTL

\* Whoever reads a message and goes on reading resolved a pointer.
LEMMA PointerStep ==
    ASSUME [Next]_vars, sessionPc = "read", messages' # messages, sessionPc' = "read"
    PROVE  \E phase \in {"down", "up"}, hit \in Hits : SessionPointer(phase, hit)
<1>1. ~Stdin
  BY DEF Stdin, StdinDiagnostic, StdinApplication, StdinTarget, StdinPrepareErr, StdinImage,
         StdinReport, sessionVars
<1>2. Session
  BY <1>1 DEF Next, vars, sessionVars
<1>3. \A v \in Viewports : ~SessionReadViewport(v)
  BY DEF SessionReadViewport
<1>4. QED
  BY <1>2, <1>3 DEF Session, SessionAccept, SessionDropped, SessionHello, SessionGreet,
     SessionUpdateViewport, SessionReplace, SessionEnds, SessionClear

\* A pointer reaches the application UI only when that is what the PaperPad in
\* service was sent last, unless stdin has sent a frame and not yet reported it.
THEOREM InputNeedsApplication == Spec => InputNeedsApplicationFrame
<1>1. ASSUME TypeOK, Serving, Numbered, Answered, [Next]_vars,
             sessionPc = "read", messages' # messages, sessionPc' = "read",
             current # {}, stdinPc # "report", NEW v \in inputViewport'
      PROVE  LastFrame(session) = {ApplicationFrame(v)} /\ reported = {v}
  <2>1. PICK phase \in {"down", "up"}, hit \in Hits : SessionPointer(phase, hit)
    BY <1>1, PointerStep
  <2>2. /\ Drain
        /\ inputViewport' = IF channel = <<>> THEN inputViewport ELSE rendered' \cap reported
    BY <2>1 DEF SessionPointer
  <2>3. v \in reported
    BY <1>1, <2>2 DEF Answered
  <2>4. v \in Believed
    <3>1. CASE channel = <<>>
      BY <1>1, <2>2, <3>1 DEF Believed
    <3>2. CASE channel # <<>>
      BY <1>1, <2>2, <3>2 DEF Believed, Pending, Drain
    <3>3. QED
      BY <3>1, <3>2
  <2>5. ShownTo(session, v)
    BY <1>1, <2>3, <2>4 DEF Answered
  <2>6. reported = {v}
    BY <1>1, <2>3 DEF Serving
  <2>7. QED
    BY <1>1, <2>5, <2>6, LastIsShown
<1>2. TypeOK /\ Serving /\ Numbered /\ Answered /\ [Next]_vars =>
         [sessionPc = "read" /\ messages' # messages /\ sessionPc' = "read"
            /\ current # {} /\ stdinPc # "report" =>
            \A v \in inputViewport' :
                LastFrame(session) = {ApplicationFrame(v)} /\ reported = {v}]_vars
  BY <1>1
<1>3. QED
  BY <1>2, AnsweredInvariance, PTL DEF Spec, InputNeedsApplicationFrame
=============================================================================
