------------------------- MODULE PointerPathProofs -------------------------
(***************************************************************************)
(* Proofs about PointerPath, for any number of touches, resets, sessions   *)
(* and buttons, and for a queue of any capacity.                           *)
(***************************************************************************)
EXTENDS PointerPath, SequenceTheorems, TLAPS

Messages == Pointer \cup ViewportChanged
Touches == [phase : Phases, at : Places, sent : SUBSET Phases, exit : BOOLEAN,
            accepted : 0 .. MaxSessions, resizes : 0 .. MaxResets, unmaps : 0 .. MaxResets]

N == Len(touches)

LEMMA Bounds ==
    /\ MaxTouches \in Nat /\ MaxResets \in Nat /\ MaxSessions \in Nat
    /\ QueueCapacity \in Nat \ {0}
  BY PointerAssumption

-----------------------------------------------------------------------------
(* What a touch does.                                                      *)

\* Nothing, or one event, is forwarded.
LEMMA OnePhase ==
    ASSUME TypeOK, NEW phase \in Phases, NEW at
    PROVE  /\ remote_phase(phase, at) \in {{}, {"down"}, {"up"}}
           /\ \A p : (CHOOSE q \in {p} : TRUE) = p
  BY DEF remote_phase

\* What is forwarded inside a button is the touch itself.
LEMMA ForwardedInside ==
    ASSUME TypeOK, NEW phase \in Phases, NEW at \in Places,
           remote_point(phase, at) \in Buttons, NEW p, remote_phase(phase, at) = {p}
    PROVE  remote_point(phase, at) = at /\ p = phase
<1>1. remote_point(phase, at) # "cancel"
  BY PointerAssumption
<1>2. ~(phase = "down" /\ remote_contact_active) /\ at \in RemotePlaces
  BY <1>1 DEF remote_point, RemotePoint
<1>3. remote_phase(phase, at) = {phase}
  BY <1>2 DEF remote_phase, Phases
<1> QED
  BY <1>2, <1>3 DEF remote_point, RemotePoint

\* The history grows by one touch, and the link by one message or none.
LEMMA Forwarding ==
    ASSUME TypeOK, NEW phase \in Phases, NEW at \in Places, PointerEvent(phase, at),
           NEW sent, sent = remote_phase(phase, at),
           NEW t, t = Touch(phase, at, sent, phase = "up" /\ exit_activated(at))
    PROVE  /\ t \in Touches
           /\ touches' \in Seq(Touches) /\ N' = N + 1 /\ N + 1 \in 1 .. MaxTouches
           /\ \A k \in 1 .. N : touches'[k] = touches[k]
           /\ touches'[N + 1] = t
           /\ \/ link' = link /\ t.accepted = 0
              \/ /\ session # 0 /\ sent # {} /\ t.accepted = session
                 /\ Len(link) < QueueCapacity
                 /\ \E m \in Pointer :
                       /\ link' = Append(link, m) /\ m.n = N + 1
                       /\ m.at \in Buttons => m.at = at /\ m.phase = phase
<1>1. touches \in Seq(Touches) /\ link \in Seq(Messages) /\ session \in 0 .. MaxSessions
  BY DEF TypeOK, Touches, Messages
<1>2. N \in Nat /\ N < MaxTouches /\ MaxTouches \in Nat
  BY <1>1, PointerAssumption, LenProperties DEF N, PointerEvent
<1>3. sent \in {{}, {"down"}, {"up"}}
  BY OnePhase
<1>4. t \in Touches
  <2>1. (IF sent # {} /\ Accepts THEN session ELSE 0) \in 0 .. MaxSessions
    BY <1>1, Bounds, SMT
  <2>2. sent \in SUBSET Phases
    BY <1>3 DEF Phases
  <2>3. (phase = "up" /\ exit_activated(at)) \in BOOLEAN
    OBVIOUS
  <2> QED
    BY <2>1, <2>2, <2>3 DEF Touch, Touches, TypeOK
<1>5. touches' = Append(touches, t)
  BY DEF PointerEvent
<1>6. /\ touches' \in Seq(Touches) /\ N' = N + 1
      /\ \A k \in 1 .. N : touches'[k] = touches[k]
      /\ touches'[N + 1] = t
  BY <1>1, <1>4, <1>5, AppendProperties DEF N
<1>7. CASE ~(sent # {} /\ Accepts)
  <2>1. link' = link
    BY <1>7 DEF PointerEvent
  <2>2. t.accepted = 0
    BY <1>7 DEF Touch
  <2> QED
    BY <1>2, <1>4, <1>6, <2>1, <2>2
<1>8. CASE sent # {} /\ Accepts
  <2>. DEFINE m == [kind |-> "pointer", phase |-> CHOOSE p \in sent : TRUE,
                    at |-> remote_point(phase, at), n |-> N + 1]
  <2>1. PICK p \in Phases : sent = {p}
    BY <1>3, <1>8 DEF Phases
  <2>2. (CHOOSE q \in sent : TRUE) = p
    BY <2>1, OnePhase
  <2>3. remote_point(phase, at) \in RemotePlaces \cup {"cancel"}
    BY DEF remote_point, RemotePoint
  <2>4. m \in Pointer
    <3>1. N + 1 \in 1 .. MaxTouches
      BY <1>2, SMT
    <3> QED
      BY <2>2, <2>3, <3>1 DEF Pointer
  <2>5. link' = link \o <<m>>
    BY <1>8 DEF PointerEvent, N
  <2>6. link' = Append(link, m)
    <3>1. m \in Messages
      BY <2>4 DEF Messages
    <3>. HIDE DEF m
    <3> QED
      BY <1>1, <2>5, <3>1, AppendIsConcat
  <2>7. m.at \in Buttons => m.at = at /\ m.phase = phase
    BY <2>1, <2>2, ForwardedInside
  <2>8. m.n = N + 1
    OBVIOUS
  <2>9. session # 0 /\ Len(link) < QueueCapacity /\ t.accepted = session
    BY <1>8 DEF Accepts, Touch
  <2>10. \E x \in Pointer :
           /\ link' = Append(link, x) /\ x.n = N + 1
           /\ x.at \in Buttons => x.at = at /\ x.phase = phase
    <3>. HIDE DEF m
    <3> QED
      BY <2>4, <2>6, <2>7, <2>8
  <2>11. N + 1 \in 1 .. MaxTouches
    BY <1>2, SMT
  <2>. HIDE DEF m
  <2> QED
    BY <1>4, <1>6, <1>8, <2>9, <2>10, <2>11
<1> QED
  BY <1>7, <1>8

-----------------------------------------------------------------------------
(* What a message does.                                                    *)

\* The first message leaves the link.  Only a press inside a button arms it,
\* and only a release inside the armed button is an action.
LEMMA Receiving ==
    ASSUME TypeOK, Receive
    PROVE  /\ link' \in Seq(Messages) /\ Len(link) \in Nat \ {0} /\ Len(link') = Len(link) - 1
           /\ \A i \in 1 .. Len(link') : link'[i] = link[i + 1]
           /\ hostReported' \subseteq Sizes /\ hostViewport' \subseteq Sizes
           /\ \/ hostContact' \in {"idle", "cancelled"}
              \/ /\ link[1] \in Pointer /\ link[1].phase = "down"
                 /\ hostContact' \in Buttons /\ link[1].at = hostContact'
           /\ \/ actions' = actions
              \/ /\ link[1] \in Pointer /\ link[1].phase = "up"
                 /\ hostContact \in Buttons /\ link[1].at = hostContact
                 /\ actions' = actions \cup {[button |-> hostContact, n |-> link[1].n]}
<1>1. link \in Seq(Messages) /\ link # <<>>
  BY DEF TypeOK, Messages, Receive
<1>2. link' = Tail(link)
  BY DEF Receive
<1>3. /\ link' \in Seq(Messages) /\ Len(link) \in Nat \ {0} /\ Len(link') = Len(link) - 1
      /\ \A i \in 1 .. Len(link') : link'[i] = link[i + 1]
  BY <1>1, <1>2, HeadTailProperties, EmptySeq
<1>4. Head(link) = link[1] /\ link[1] \in Messages
  BY <1>1, <1>3, ElementOfSeq, SMT
<1>5. CASE ReceiveViewport(Head(link))
  <2>1. link[1] \in ViewportChanged
    BY <1>4, <1>5 DEF ReceiveViewport, Messages, Pointer
  <2>2. link[1].size \in Sizes
    BY <2>1 DEF ViewportChanged
  <2>3. hostReported' = {link[1].size} /\ actions' = actions
    BY <1>4, <1>5 DEF ReceiveViewport
  <2>4. hostContact' = "idle" /\ hostViewport' \in {{}, {link[1].size}}
    BY <1>4, <1>5 DEF ReceiveViewport, set_viewport
  <2> QED
    BY <1>3, <2>2, <2>3, <2>4
<1>6. CASE ReceivePointer(Head(link))
  <2>. DEFINE m == link[1]
  <2>1. m \in Pointer
    BY <1>4, <1>6 DEF ReceivePointer, Messages, ViewportChanged
  <2>2. m.phase \in Phases
    BY <2>1 DEF Pointer
  <2>3. hostReported' = hostReported
    BY <1>6 DEF ReceivePointer
  <2>4. PICK v, c : /\ v = hostViewport \/ v \in {{}, hostReported}
                    /\ c = hostContact \/ c = "idle"
                    /\ hostViewport' = v
                    /\ handle_pointer(m, v, c)
    BY <1>4, <1>6 DEF ReceivePointer
  <2>5. hostViewport' \subseteq Sizes
    BY <2>4 DEF TypeOK
  <2>. DEFINE hit == IF v = {} THEN {} ELSE Hit(m.at)
              pressed == IF c = "idle" /\ hit # {}
                         THEN CHOOSE b \in hit : TRUE ELSE "cancelled"
  <2>6. hit \in {{}, {m.at}} /\ hit \subseteq Buttons
    BY DEF Hit
  <2>7. pressed = "cancelled" \/ (pressed = m.at /\ pressed \in Buttons)
    BY <2>6
  <2>8. /\ hostContact' = IF v = {} \/ m.phase = "up" THEN "idle" ELSE pressed
        /\ actions' = IF m.phase = "up"
                      THEN actions \cup {[button |-> b, n |-> m.n] : b \in activates(c, hit)}
                      ELSE actions
    BY <2>4 DEF handle_pointer
  <2>9. \/ hostContact' \in {"idle", "cancelled"}
        \/ /\ m.phase = "down"
           /\ hostContact' \in Buttons /\ m.at = hostContact'
    <3>. HIDE DEF pressed, hit
    <3> QED
      BY <2>2, <2>7, <2>8 DEF Phases
  <2>10. activates(c, hit) # {} =>
            /\ hostContact \in Buttons /\ c = hostContact /\ m.at = hostContact
            /\ activates(c, hit) = {hostContact}
    <3>1. SUFFICES ASSUME activates(c, hit) # {}
                   PROVE  c \in Buttons /\ m.at = c /\ activates(c, hit) = {c}
      <4>1. "idle" \notin Buttons
        BY PointerAssumption
      <4>. HIDE DEF hit
      <4> QED
        BY <2>4, <4>1, <3>1
    <3>. HIDE DEF hit
    <3> QED
      BY <2>6, <3>1 DEF activates
  <2>11. \/ actions' = actions
         \/ /\ m.phase = "up"
            /\ hostContact \in Buttons /\ m.at = hostContact
            /\ actions' = actions \cup {[button |-> hostContact, n |-> m.n]}
    <3>. HIDE DEF hit, m
    <3>1. CASE m.phase = "up" /\ activates(c, hit) # {}
      <4>1. {[button |-> b, n |-> m.n] : b \in activates(c, hit)} = {[button |-> hostContact, n |-> m.n]}
        BY <2>10, <3>1
      <4> QED
        BY <2>8, <2>10, <3>1, <4>1
    <3>2. CASE m.phase = "up" /\ activates(c, hit) = {}
      <4>1. {[button |-> b, n |-> m.n] : b \in activates(c, hit)} = {}
        BY <3>2
      <4> QED
        BY <2>8, <3>2, <4>1
    <3>3. CASE m.phase # "up"
      BY <2>8, <3>3
    <3> QED
      BY <3>1, <3>2, <3>3
  <2>. HIDE DEF hit, pressed
  <2>12. hostReported' \subseteq Sizes
    BY <2>3 DEF TypeOK
  <2> QED
    BY <1>3, <2>1, <2>5, <2>9, <2>11, <2>12
<1> QED
  BY <1>5, <1>6 DEF Receive

-----------------------------------------------------------------------------
(* Types.                                                                  *)

LEMMA TypeInit == Init => TypeOK
<1>. SUFFICES ASSUME Init PROVE TypeOK
  OBVIOUS
<1>1. link \in Seq(Messages) /\ Len(link) = 0 /\ touches \in Seq(Touches)
  BY EmptySeq DEF Init
<1>2. Len(link) <= QueueCapacity /\ 0 \in 0 .. MaxSessions /\ 0 \in 0 .. MaxResets
  BY <1>1, Bounds, SMT
<1>3. exit_contact = "idle" /\ window = "open" /\ hostContact = "idle"
  BY DEF Init
<1> QED
  BY <1>1, <1>2, <1>3 DEF Init, TypeOK, Messages, Touches

LEMMA TypeStep == TypeOK /\ [Next]_vars => TypeOK'
<1>. SUFFICES ASSUME TypeOK, [Next]_vars PROVE TypeOK'
  OBVIOUS
<1>. USE Bounds
<1>1. ASSUME NEW phase \in Phases, NEW at \in Places, PointerEvent(phase, at)
      PROVE  TypeOK'
  <2>. DEFINE sent == remote_phase(phase, at)
              t == Touch(phase, at, sent, phase = "up" /\ exit_activated(at))
  <2>1. /\ touches' \in Seq(Touches)
        /\ \/ link' = link
           \/ Len(link) < QueueCapacity /\ \E m \in Pointer : link' = Append(link, m)
    BY <1>1, Forwarding
  <2>2. link \in Seq(Messages) /\ Len(link) <= QueueCapacity
    BY DEF TypeOK, Messages
  <2>3. link' \in Seq(Messages) /\ Len(link') <= QueueCapacity
    <3>1. CASE link' = link
      BY <2>2, <3>1
    <3>2. ASSUME Len(link) < QueueCapacity, NEW m \in Pointer, link' = Append(link, m)
          PROVE  link' \in Seq(Messages) /\ Len(link') <= QueueCapacity
      <4>1. m \in Messages
        BY DEF Messages
      <4>2. link' \in Seq(Messages) /\ Len(link') = Len(link) + 1 /\ Len(link) \in Nat
        BY <2>2, <3>2, <4>1, AppendProperties, LenProperties
      <4> QED
        BY <3>2, <4>2, SMT
    <3> QED
      BY <2>1, <3>1, <3>2
  <2>4. exit_contact' \in {"idle", "armed", "cancelled"}
    BY <1>1 DEF PointerEvent, exit_press
  <2>5. remote_contact_active' = (sent = {"down"})
    BY <1>1 DEF PointerEvent
  <2>6. sent = {"down"} => exit_contact' = "cancelled"
    <3>1. "exit" \notin RemotePlaces
      BY PointerAssumption DEF RemotePlaces
    <3>2. sent = {"down"} => phase = "down" /\ at \in RemotePlaces
      BY DEF remote_phase
    <3> QED
      BY <1>1, <3>1, <3>2 DEF PointerEvent, exit_press
  <2>7. window' \in {"open", "destroyed", "failed", "ended"}
    BY <1>1 DEF PointerEvent, TypeOK
  <2>8. UNCHANGED <<size, session, sessions, hostVars, resetVars>>
    BY <1>1 DEF PointerEvent
  <2> QED
    BY <2>1, <2>3, <2>4, <2>5, <2>6, <2>7, <2>8 DEF TypeOK, Touches, Messages, hostVars, resetVars
<1>2. ASSUME NEW new \in Sizes, Configure(new)
      PROVE  TypeOK'
  <2>. DEFINE m == [kind |-> "viewport", size |-> new]
  <2>1. m \in Messages
    BY DEF Messages, ViewportChanged
  <2>2. link \in Seq(Messages) /\ Len(link) <= QueueCapacity
    BY DEF TypeOK, Messages
  <2>3. \/ link' = link
        \/ link' = <<>>
        \/ Len(link) < QueueCapacity /\ link' = Append(link, m)
    BY <1>2 DEF Configure, Accepts
  <2>. HIDE DEF m
  <2>4. link' \in Seq(Messages) /\ Len(link') <= QueueCapacity
    <3>1. <<>> \in Seq(Messages) /\ Len(<<>>) = 0
      BY EmptySeq
    <3>2. Append(link, m) \in Seq(Messages) /\ Len(Append(link, m)) = Len(link) + 1 /\ Len(link) \in Nat
      BY <2>1, <2>2, AppendProperties, LenProperties
    <3>3. QueueCapacity \in Nat
      BY Bounds
    <3>4. CASE link' = Append(link, m) /\ Len(link) < QueueCapacity
      BY <3>2, <3>3, <3>4
    <3>5. CASE link' = <<>>
      BY <3>1, <3>3, <3>5
    <3> QED
      BY <2>2, <2>3, <3>4, <3>5
  <2>5. session' \in {session, 0}
    BY <1>2 DEF Configure
  <2>6. resizes' \in 0 .. MaxResets
    BY <1>2, SMT DEF Configure, TypeOK
  <2>7. session' \in 0 .. MaxSessions
    BY <2>5, SMT DEF TypeOK
  <2>8. /\ size' = new /\ remote_contact_active' = FALSE /\ exit_contact' = "idle"
        /\ UNCHANGED <<window, sessions, hostVars, touches, unmaps>>
    BY <1>2 DEF Configure, cancel_contact
  <2> QED
    BY <2>4, <2>6, <2>7, <2>8 DEF TypeOK, Messages, hostVars
<1>3. CASE Unmap
  <2>1. unmaps' \in 0 .. MaxResets
    BY <1>3, SMT DEF Unmap, TypeOK
  <2> QED
    BY <1>3, <2>1 DEF Unmap, cancel_contact, TypeOK, linkVars, hostVars
<1>4. CASE Destroyed
  BY <1>4 DEF Destroyed, TypeOK, appVars, linkVars, hostVars, resetVars
<1>5. CASE Connect
  <2>1. session' \in 0 .. MaxSessions /\ sessions' \in 0 .. MaxSessions
    BY <1>5, SMT DEF Connect, TypeOK
  <2>2. <<>> \in Seq(Messages) /\ Len(<<>>) <= QueueCapacity
    BY EmptySeq
  <2> QED
    BY <1>5, <2>1, <2>2 DEF Connect, set_viewport, TypeOK, Messages, appVars, resetVars
<1>6. CASE ConnectionLost
  <2>1. session' \in 0 .. MaxSessions
    BY <1>6, SMT DEF ConnectionLost
  <2>2. <<>> \in Seq(Messages) /\ Len(<<>>) <= QueueCapacity
    BY EmptySeq
  <2> QED
    BY <1>6, <2>1, <2>2 DEF ConnectionLost, TypeOK, Messages, appVars, hostVars, resetVars
<1>7. CASE Receive
  <2>1. /\ link' \in Seq(Messages) /\ Len(link') <= QueueCapacity
    <3>1. Len(link) <= QueueCapacity
      BY DEF TypeOK
    <3> QED
      BY <1>7, <3>1, Receiving, SMT
  <2>2. hostReported' \subseteq Sizes /\ hostViewport' \subseteq Sizes
    BY <1>7, Receiving
  <2>3. hostContact' \in {"idle", "cancelled"} \cup Buttons
    BY <1>7, Receiving
  <2>4. actions' \subseteq [button : Buttons, n : 1 .. MaxTouches]
    <3>1. \A m \in Pointer : m.n \in 1 .. MaxTouches
      BY DEF Pointer
    <3>2. actions \subseteq [button : Buttons, n : 1 .. MaxTouches]
      BY DEF TypeOK
    <3>3. \/ actions' = actions
          \/ /\ link[1] \in Pointer /\ hostContact \in Buttons
             /\ actions' = actions \cup {[button |-> hostContact, n |-> link[1].n]}
      BY <1>7, Receiving
    <3> QED
      BY <3>1, <3>2, <3>3
  <2>5. UNCHANGED <<size, remote_contact_active, exit_contact, window, session, sessions,
                    touches, resizes, unmaps>>
    BY <1>7 DEF Receive, appVars, resetVars
  <2> QED
    BY <2>1, <2>2, <2>3, <2>4, <2>5 DEF TypeOK, Messages
<1>8. CASE UNCHANGED vars
  BY <1>8 DEF vars, appVars, linkVars, hostVars, resetVars, TypeOK
<1> QED
  BY <1>1, <1>2, <1>3, <1>4, <1>5, <1>6, <1>7, <1>8 DEF Next

\* Every variable keeps its type, and the queue its capacity.
THEOREM TypeCorrect == Spec => []TypeOK
  BY TypeInit, TypeStep, PTL DEF Spec

-----------------------------------------------------------------------------
(* Exit, and what is forwarded.                                            *)

\* Nothing was reset since a touch.
Current(m) == touches[m].resizes = resizes /\ touches[m].unmaps = unmaps

Past == \A k \in 1 .. N : touches[k].resizes <= resizes /\ touches[k].unmaps <= unmaps

\* An armed Exit follows a press in Exit that was not forwarded, with nothing
\* down before it; an idle one follows a release.
ExitContact ==
    /\ exit_contact = "idle" /\ N >= 1 /\ Current(N) => touches[N].phase = "up"
    /\ exit_contact = "armed" =>
          /\ N >= 1 /\ Current(N)
          /\ touches[N].phase = "down" /\ touches[N].at = "exit" /\ touches[N].sent = {}
          /\ N > 1 /\ Together(N - 1, N) => touches[N - 1].phase = "up"

\* The contact is active if what was forwarded last is a Down.
RemoteContact ==
    \A m \in 1 .. N :
        /\ touches[m].sent # {}
        /\ \A k \in m + 1 .. N : touches[k].sent = {}
        /\ Current(m)
        => (remote_contact_active <=> touches[m].sent = {"down"})

History == Past /\ ExitContact /\ RemoteContact
           /\ ExitIsATap /\ ExitSendsNothing /\ PairsPreserved

LEMMA Touched ==
    ASSUME TypeOK
    PROVE  /\ N \in Nat /\ DOMAIN touches = 1 .. N /\ resizes \in Nat /\ unmaps \in Nat
           /\ \A k \in 1 .. N : touches[k] \in Touches
<1>1. touches \in Seq(Touches)
  BY DEF TypeOK, Touches
<1>2. N \in Nat /\ DOMAIN touches = 1 .. N
  BY <1>1, LenProperties DEF N
<1>3. \A k \in 1 .. N : touches[k] \in Touches
  BY <1>1, ElementOfSeq DEF N
<1>4. resizes \in Nat /\ unmaps \in Nat
  BY Bounds, SMT DEF TypeOK
<1> QED
  BY <1>2, <1>3, <1>4

LEMMA HistoryInit == Init => History
<1>. SUFFICES ASSUME Init PROVE History
  OBVIOUS
<1>1. TypeOK
  BY TypeInit
<1>2. N = 0
  BY EmptySeq DEF Init, N
<1>3. DOMAIN touches = {} /\ 1 .. N = {} /\ ~(N >= 1)
  BY <1>1, <1>2, Touched, SMT
<1>4. exit_contact = "idle"
  BY DEF Init
<1>5. ExitContact
  BY <1>3, <1>4 DEF ExitContact
<1>6. Past /\ RemoteContact
  BY <1>3 DEF Past, RemoteContact
<1>7. ExitIsATap /\ ExitSendsNothing /\ PairsPreserved
  BY <1>3 DEF ExitIsATap, ExitSendsNothing, PairsPreserved
<1> QED
  BY <1>5, <1>6, <1>7 DEF History

\* A touch.
LEMMA HistoryTouched ==
    ASSUME TypeOK, TypeOK', History, NEW phase \in Phases, NEW at \in Places,
           PointerEvent(phase, at)
    PROVE  History'
<1>. DEFINE sent == remote_phase(phase, at)
            exit == phase = "up" /\ exit_activated(at)
            t == Touch(phase, at, sent, exit)
            D == 1 .. N
<1>1. /\ N \in Nat /\ N' = N + 1 /\ N + 1 \in Nat /\ touches'[N + 1] = t
      /\ \A k \in D : touches'[k] = touches[k]
  BY Forwarding, Touched
<1>2. UNCHANGED <<resizes, unmaps>> /\ resizes \in Nat /\ unmaps \in Nat
  BY Touched DEF PointerEvent, resetVars
<1>3. /\ t.phase = phase /\ t.at = at /\ t.sent = sent /\ t.exit = exit
      /\ t.resizes = resizes /\ t.unmaps = unmaps
  BY DEF Touch
<1>4. DOMAIN touches = D /\ (DOMAIN touches)' = 1 .. N + 1
  <2>1. touches' \in Seq(Touches)
    BY Forwarding
  <2>2. DOMAIN touches' = 1 .. Len(touches')
    BY <2>1, LenProperties
  <2>3. Len(touches') = N + 1
    BY <1>1 DEF N
  <2> QED
    BY <2>2, <2>3, Touched
<1>5. /\ exit_contact' = IF phase = "down" THEN exit_press(at) ELSE "idle"
      /\ remote_contact_active' = (sent = {"down"})
  BY DEF PointerEvent
<1>. HIDE DEF t
<1>6. Past'
  <2>. SUFFICES ASSUME NEW k \in 1 .. N + 1
                PROVE  touches'[k].resizes <= resizes /\ touches'[k].unmaps <= unmaps
    BY <1>1, <1>2 DEF Past
  <2>1. CASE k = N + 1
    BY <1>1, <1>2, <1>3, <2>1, SMT
  <2>2. CASE k # N + 1
    <3>1. k \in D
      BY <1>1, <2>2, SMT
    <3> QED
      BY <1>1, <3>1 DEF History, Past
  <2> QED
    BY <2>1, <2>2
<1>7. ~(at = "exit" /\ exit_contact # "cancelled") \/ sent = {}
  <2>1. "exit" \notin RemotePlaces
    BY PointerAssumption DEF RemotePlaces
  <2>2. remote_contact_active => exit_contact = "cancelled"
    BY DEF TypeOK
  <2> QED
    BY <2>1, <2>2 DEF remote_phase
<1>8. Current(N)'
  BY <1>1, <1>2, <1>3 DEF Current
<1>9. \A k \in D : Current(k) <=> touches'[k].resizes = resizes /\ touches'[k].unmaps = unmaps
  BY <1>1 DEF Current
<1>10. \A k \in D : \A n : n = N + 1 => (Together(k, n)' <=> Current(k))
  BY <1>1, <1>2, <1>3 DEF Together, Current
<1>11. \A k, m \in D : Together(k, m)' <=> Together(k, m)
  BY <1>1 DEF Together
<1>12. N >= 1 => N \in D
  BY <1>1, SMT
<1>13. ExitContact'
  <2>1. (exit_contact = "idle")' /\ (N >= 1)' /\ Current(N)' => (touches[N].phase = "up")'
    BY <1>1, <1>3, <1>5 DEF exit_press, Phases
  <2>2. ASSUME (exit_contact = "armed")'
        PROVE  /\ phase = "down" /\ at = "exit" /\ exit_contact = "idle" /\ sent = {}
    BY <1>5, <1>7, <2>2 DEF exit_press
  <2>3. ASSUME (exit_contact = "armed")', N' > 1, Together(N - 1, N)'
        PROVE  touches'[N].phase = "up"
    <3>1. N >= 1 /\ N' - 1 = N
      BY <1>1, <2>3, SMT
    <3>2. Current(N)
      BY <1>1, <1>2, <1>3, <1>12, <2>3, <3>1 DEF Together, Current
    <3>3. touches[N].phase = "up"
      BY <2>2, <2>3, <3>1, <3>2 DEF History, ExitContact
    <3> QED
      BY <1>1, <1>12, <3>1, <3>3
  <2>4. N' >= 1 /\ N' - 1 = N
    BY <1>1, SMT
  <2>. HIDE DEF sent
  <2> QED
    BY <1>1, <1>3, <1>8, <2>1, <2>2, <2>3, <2>4 DEF ExitContact
<1>14. RemoteContact'
  <2>. SUFFICES ASSUME NEW m \in 1 .. N + 1,
                       (touches'[m].sent # {}), Current(m)',
                       \A k \in m + 1 .. N + 1 : touches'[k].sent = {}
                PROVE  remote_contact_active' <=> touches'[m].sent = {"down"}
    BY <1>1 DEF RemoteContact
  <2>1. CASE m = N + 1
    BY <1>1, <1>3, <1>5, <2>1
  <2>2. CASE m # N + 1
    <3>1. m \in D /\ N + 1 \in m + 1 .. N + 1
      BY <1>1, <2>2, SMT
    <3>2. sent = {}
      BY <1>1, <1>3, <3>1
    <3>3. \A k \in m + 1 .. N : touches[k].sent = {}
      <4>1. \A k \in m + 1 .. N : k \in D /\ k \in m + 1 .. N + 1
        BY <1>1, <3>1, SMT
      <4> QED
        BY <1>1, <4>1
    <3>4. Current(m) /\ touches'[m] = touches[m]
      BY <1>1, <1>2, <3>1 DEF Current
    <3>5. remote_contact_active <=> touches[m].sent = {"down"}
      BY <3>1, <3>3, <3>4 DEF History, RemoteContact
    <3>6. ~remote_contact_active
      BY <3>2 DEF remote_phase
    <3> QED
      BY <1>5, <3>2, <3>4, <3>5, <3>6
  <2> QED
    BY <2>1, <2>2
<1>15. ExitIsATap'
  <2>. SUFFICES ASSUME NEW n \in 1 .. N + 1, touches'[n].exit
                PROVE  /\ n > 1 /\ Together(n - 1, n)'
                       /\ touches'[n - 1].phase = "down" /\ touches'[n - 1].at = "exit"
                       /\ n > 2 /\ Together(n - 2, n - 1)' => touches'[n - 2].phase = "up"
    BY <1>4 DEF ExitIsATap
  <2>1. CASE n = N + 1
    <3>1. exit_contact = "armed"
      BY <1>1, <1>3, <2>1 DEF exit_activated
    <3>2. /\ N >= 1 /\ Current(N)
          /\ touches[N].phase = "down" /\ touches[N].at = "exit"
          /\ N > 1 /\ Together(N - 1, N) => touches[N - 1].phase = "up"
      BY <3>1 DEF History, ExitContact
    <3>3. N \in D /\ (N > 1 => N - 1 \in D) /\ n - 1 = N /\ n - 2 = N - 1 /\ n > 1 /\ (n > 2 <=> N > 1)
      BY <1>1, <2>1, <3>2, SMT
    <3>4. Together(n - 1, n)' /\ touches'[n - 1].phase = "down" /\ touches'[n - 1].at = "exit"
      BY <1>1, <1>10, <2>1, <3>2, <3>3
    <3>5. n > 2 /\ Together(n - 2, n - 1)' => touches'[n - 2].phase = "up"
      BY <1>1, <1>11, <3>2, <3>3
    <3> QED
      BY <3>3, <3>4, <3>5
  <2>2. CASE n # N + 1
    <3>1. n \in D
      BY <1>1, <2>2, SMT
    <3>2. /\ n > 1 /\ Together(n - 1, n)
          /\ touches[n - 1].phase = "down" /\ touches[n - 1].at = "exit"
          /\ n > 2 /\ Together(n - 2, n - 1) => touches[n - 2].phase = "up"
      BY <1>1, <1>4, <3>1 DEF History, ExitIsATap
    <3>3. n - 1 \in D /\ (n > 2 => n - 2 \in D)
      BY <1>1, <3>1, <3>2, SMT
    <3> QED
      BY <1>1, <1>11, <3>1, <3>2, <3>3
  <2> QED
    BY <2>1, <2>2
<1>16. ExitSendsNothing'
  <2>. SUFFICES ASSUME NEW n \in 1 .. N + 1, touches'[n].exit
                PROVE  touches'[n].sent = {} /\ touches'[n - 1].sent = {}
    BY <1>4 DEF ExitSendsNothing
  <2>1. CASE n = N + 1
    <3>1. exit_contact = "armed" /\ at = "exit"
      BY <1>1, <1>3, <2>1 DEF exit_activated
    <3>2. N >= 1 /\ touches[N].sent = {}
      BY <3>1 DEF History, ExitContact
    <3>3. n - 1 = N
      BY <1>1, <2>1, SMT
    <3> QED
      BY <1>1, <1>3, <1>7, <1>12, <2>1, <3>1, <3>2, <3>3
  <2>2. CASE n # N + 1
    <3>1. n \in D
      BY <1>1, <2>2, SMT
    <3>2. n > 1 /\ touches[n].sent = {} /\ touches[n - 1].sent = {}
      BY <1>1, <1>4, <3>1 DEF History, ExitSendsNothing, ExitIsATap
    <3>3. n - 1 \in D
      BY <1>1, <3>1, <3>2, SMT
    <3> QED
      BY <1>1, <3>1, <3>2, <3>3
  <2> QED
    BY <2>1, <2>2
<1>17. PairsPreserved'
  <2>. SUFFICES ASSUME NEW m \in 1 .. N + 1, NEW n \in 1 .. N + 1,
                       m < n, touches'[m].sent # {}, touches'[n].sent # {},
                       \A k \in m + 1 .. n - 1 : touches'[k].sent = {},
                       Together(m, n)'
                PROVE  touches'[m].sent # touches'[n].sent
    BY <1>4 DEF PairsPreserved
  <2>1. m \in D
    BY <1>1, SMT
  <2>2. \A k \in m + 1 .. n - 1 : k \in D
    BY <1>1, <2>1, SMT
  <2>3. touches'[m] = touches[m] /\ \A k \in m + 1 .. n - 1 : touches[k].sent = {}
    BY <1>1, <2>1, <2>2
  <2>4. CASE n = N + 1
    <3>1. n - 1 = N /\ Current(m)
      BY <1>1, <1>10, <2>1, <2>4, SMT
    <3>2. remote_contact_active <=> touches[m].sent = {"down"}
      BY <2>1, <2>3, <3>1 DEF History, RemoteContact
    <3>3. sent # {} /\ touches'[n].sent = sent
      BY <1>1, <1>3, <2>4
    <3>4. sent = IF remote_contact_active THEN {"up"} ELSE {"down"}
      BY <3>3 DEF remote_phase
    <3>5. "down" # "up"
      OBVIOUS
    <3>. HIDE DEF sent
    <3> QED
      BY <2>3, <3>2, <3>3, <3>4, <3>5
  <2>5. CASE n # N + 1
    <3>1. n \in D
      BY <1>1, <2>5, SMT
    <3> QED
      BY <1>1, <1>4, <1>11, <2>1, <2>3, <3>1 DEF History, PairsPreserved
  <2> QED
    BY <2>4, <2>5
<1> QED
  BY <1>6, <1>13, <1>14, <1>15, <1>16, <1>17 DEF History

\* A reset: no touch is current any more.
LEMMA HistoryReset ==
    ASSUME TypeOK, TypeOK', History, UNCHANGED touches, cancel_contact,
           \/ resizes' = resizes + 1 /\ UNCHANGED unmaps
           \/ unmaps' = unmaps + 1 /\ UNCHANGED resizes
    PROVE  History'
<1>1. /\ N' = N /\ N \in Nat /\ resizes \in Nat /\ unmaps \in Nat
      /\ \A k \in 1 .. N : touches[k].resizes \in Nat /\ touches[k].unmaps \in Nat
  <2>1. \A t \in Touches : t.resizes \in Nat /\ t.unmaps \in Nat
    BY Bounds, SMT DEF Touches
  <2> QED
    BY <2>1, Touched DEF N
<1>2. Past'
  BY <1>1, SMT DEF History, Past
<1>3. ASSUME NEW m \in 1 .. N
      PROVE  ~(touches[m].resizes = resizes' /\ touches[m].unmaps = unmaps')
  <2>1. touches[m].resizes <= resizes /\ touches[m].unmaps <= unmaps
    BY DEF History, Past
  <2> QED
    BY <1>1, <2>1, SMT
<1>4. ExitContact'
  <2>1. exit_contact' = "idle"
    BY DEF cancel_contact
  <2>2. N >= 1 => N \in 1 .. N
    BY <1>1, SMT
  <2> QED
    BY <1>1, <1>3, <2>1, <2>2 DEF ExitContact, Current
<1>5. RemoteContact'
  BY <1>1, <1>3 DEF RemoteContact, Current
<1>6. ExitIsATap' /\ ExitSendsNothing' /\ PairsPreserved'
  BY DEF History, ExitIsATap, ExitSendsNothing, PairsPreserved, Together
<1> QED
  BY <1>2, <1>4, <1>5, <1>6 DEF History

\* A step of the transport, of the session or of the window.
LEMMA HistoryKept ==
    ASSUME History, UNCHANGED <<touches, exit_contact, remote_contact_active, resizes, unmaps>>
    PROVE  History'
  BY DEF History, Past, ExitContact, RemoteContact, ExitIsATap, ExitSendsNothing,
         PairsPreserved, Together, Current, N

LEMMA HistoryStep == TypeOK /\ TypeOK' /\ History /\ [Next]_vars => History'
<1>. SUFFICES ASSUME TypeOK, TypeOK', History, [Next]_vars PROVE History'
  OBVIOUS
<1>1. ASSUME NEW phase \in Phases, NEW at \in Places, PointerEvent(phase, at)
      PROVE  History'
  BY <1>1, HistoryTouched
<1>2. ASSUME NEW new \in Sizes, Configure(new)
      PROVE  History'
  BY <1>2, HistoryReset DEF Configure
<1>3. CASE Unmap
  BY <1>3, HistoryReset DEF Unmap
<1>4. CASE Destroyed
  BY <1>4, HistoryKept DEF Destroyed, appVars, resetVars
<1>5. CASE Connect
  BY <1>5, HistoryKept DEF Connect, appVars, resetVars
<1>6. CASE ConnectionLost
  BY <1>6, HistoryKept DEF ConnectionLost, appVars, resetVars
<1>7. CASE Receive
  BY <1>7, HistoryKept DEF Receive, appVars, resetVars
<1>8. CASE UNCHANGED vars
  BY <1>8, HistoryKept DEF vars, appVars, resetVars
<1> QED
  BY <1>1, <1>2, <1>3, <1>4, <1>5, <1>6, <1>7, <1>8 DEF Next

LEMMA HistoryCorrect == Spec => []History
<1>1. Init => TypeOK /\ History
  BY TypeInit, HistoryInit
<1>2. TypeOK /\ History /\ [Next]_vars => (TypeOK /\ History)'
  BY TypeStep, HistoryStep
<1> QED
  BY <1>1, <1>2, PTL DEF Spec

\* Exit is a press and a release in Exit, one right after the other, while no
\* other contact was down.
THEOREM ExitsAreTaps == Spec => []ExitIsATap
<1>1. History => ExitIsATap
  BY DEF History
<1> QED
  BY <1>1, HistoryCorrect, PTL

\* Neither touch of an Exit is forwarded.
THEOREM ExitsSendNothing == Spec => []ExitSendsNothing
<1>1. History => ExitSendsNothing
  BY DEF History
<1> QED
  BY <1>1, HistoryCorrect, PTL

\* What is forwarded alternates between Down and Up.
THEOREM PairsStay == Spec => []PairsPreserved
<1>1. History => PairsPreserved
  BY DEF History
<1> QED
  BY <1>1, HistoryCorrect, PTL

-----------------------------------------------------------------------------
(* Actions.                                                                *)

\* What PaperSpoon reads after touch d and the first i messages of the link:
\* later touches, every one it accepts, and up to the next viewport in the
\* geometry of d.
Follows(d, i) ==
    /\ \A j \in i + 1 .. Len(link) : link[j] \in Pointer => d < link[j].n
    /\ \A k \in d + 1 .. N : touches[k].accepted # 0 =>
          \E j \in i + 1 .. Len(link) : link[j] \in Pointer /\ link[j].n = k
    /\ (\A j \in i + 1 .. Len(link) : link[j] \in Pointer) => touches[d].resizes = resizes
    /\ \A j \in i + 1 .. Len(link) :
          (\A k \in i + 1 .. j : link[k] \in Pointer) =>
              touches[d].resizes = touches[link[j].n].resizes

\* A forwarded event tells of its touch.
Sent(m) ==
    /\ m.n \in 1 .. N
    /\ touches[m.n].accepted = session
    /\ m.at \in Buttons => touches[m.n].at = m.at /\ touches[m.n].phase = m.phase

UnderWay ==
    /\ session = 0 => link = <<>>
    /\ \A i \in 1 .. Len(link), m \in Pointer : link[i] = m => Sent(m) /\ Follows(m.n, i)

\* A button PaperSpoon has armed was pressed on this session.
Pressed(d) ==
    /\ touches[d].phase = "down" /\ touches[d].at = hostContact
    /\ touches[d].accepted = session
    /\ Follows(d, 0)

Armed == session # 0 /\ hostContact \in Buttons => \E d \in 1 .. N : Pressed(d)

Acted == ActionsHaveBothPhases /\ \A a \in actions : a.n \in 1 .. N

Told == UnderWay /\ Armed /\ Acted

LEMMA Linked ==
    ASSUME TypeOK
    PROVE  /\ link \in Seq(Messages) /\ Len(link) \in Nat
           /\ \A i \in 1 .. Len(link) : link[i] \in Messages
<1>1. link \in Seq(Messages)
  BY DEF TypeOK, Messages
<1> QED
  BY <1>1, LenProperties, ElementOfSeq

LEMMA NumberedTouches == \A m \in Pointer : m.n \in 1 .. MaxTouches /\ m.n \in Nat
<1>1. \A m \in Pointer : m.n \in 1 .. MaxTouches
  BY DEF Pointer
<1> QED
  BY <1>1, Bounds, SMT

\* An empty link, and everything received.
LEMMA ToldNothing ==
    ASSUME Len(link) = 0, link = <<>>, session = 0 \/ hostContact \notin Buttons, Acted
    PROVE  Told
<1>1. 1 .. Len(link) = {}
  BY SMT
<1>2. UnderWay
  BY <1>1 DEF UnderWay
<1>3. Armed
  BY DEF Armed
<1> QED
  BY <1>2, <1>3 DEF Told

\* A touch leaves the order of what was sent before it alone.
LEMMA FollowsTouched ==
    ASSUME TypeOK, TypeOK', UnderWay, NEW phase \in Phases, NEW at \in Places,
           PointerEvent(phase, at),
           NEW d \in 1 .. N, NEW i \in 0 .. Len(link), Follows(d, i)
    PROVE  Follows(d, i)'
<1>. DEFINE t == Touch(phase, at, remote_phase(phase, at), phase = "up" /\ exit_activated(at))
            L == Len(link)
<1>1. /\ N \in Nat /\ N' = N + 1 /\ touches'[N + 1] = t
      /\ \A k \in 1 .. N : touches'[k] = touches[k]
  BY Forwarding, Touched
<1>2. t.resizes = resizes /\ resizes' = resizes
  BY DEF Touch, PointerEvent, resetVars
<1>3. L \in Nat /\ link \in Seq(Messages)
  BY Linked
<1>4. \A j \in 1 .. L : link[j] \in Pointer => touches'[link[j].n] = touches[link[j].n]
  BY <1>1 DEF UnderWay, Sent
<1>5. touches'[d] = touches[d]
  BY <1>1
<1>6. CASE link' = link /\ t.accepted = 0
  <2>. HIDE DEF t
  <2>1. \A j \in i + 1 .. L : link[j] \in Pointer => d < link[j].n
    BY DEF Follows
  <2>2. ASSUME NEW k \in d + 1 .. N + 1, touches'[k].accepted # 0
        PROVE  \E j \in i + 1 .. L : link[j] \in Pointer /\ link[j].n = k
    <3>1. k # N + 1
      BY <1>1, <1>6, <2>2
    <3>2. k \in d + 1 .. N /\ k \in 1 .. N
      BY <1>1, <3>1, SMT
    <3> QED
      BY <1>1, <2>2, <3>2 DEF Follows
  <2>3. (\A j \in i + 1 .. L : link[j] \in Pointer) => touches'[d].resizes = resizes
    BY <1>5 DEF Follows
  <2>4. \A j \in i + 1 .. L :
           (\A k \in i + 1 .. j : link[k] \in Pointer) =>
               touches'[d].resizes = touches'[link[j].n].resizes
    <3>1. \A j \in i + 1 .. L : j \in 1 .. L /\ j \in i + 1 .. j
      BY <1>3, SMT
    <3> QED
      BY <1>4, <1>5, <3>1 DEF Follows
  <2> QED
    BY <1>1, <1>2, <1>6, <2>1, <2>2, <2>3, <2>4 DEF Follows
<1>7. ASSUME NEW m \in Pointer, link' = Append(link, m), m.n = N + 1
      PROVE  Follows(d, i)'
  <2>1. Len(link') = L + 1 /\ link'[L + 1] = m /\ \A j \in 1 .. L : link'[j] = link[j]
    <3>1. m \in Messages
      BY DEF Messages
    <3> QED
      BY <1>3, <1>7, <3>1, AppendProperties
  <2>. HIDE DEF t
  <2>2. \A j \in i + 1 .. L : j \in 1 .. L /\ j \in i + 1 .. L + 1
    BY <1>3, SMT
  <2>3. ASSUME NEW j \in i + 1 .. L + 1, link'[j] \in Pointer
        PROVE  d < link'[j].n
    <3>1. CASE j = L + 1
      BY <1>1, <1>7, <2>1, <3>1, SMT
    <3>2. CASE j # L + 1
      <4>1. j \in i + 1 .. L
        BY <1>3, <3>2, SMT
      <4> QED
        BY <2>1, <2>2, <2>3, <4>1 DEF Follows
    <3> QED
      BY <3>1, <3>2
  <2>4. ASSUME NEW k \in d + 1 .. N + 1, touches'[k].accepted # 0
        PROVE  \E j \in i + 1 .. L + 1 : link'[j] \in Pointer /\ link'[j].n = k
    <3>1. CASE k = N + 1
      <4>1. L + 1 \in i + 1 .. L + 1
        BY <1>3, SMT
      <4> QED
        BY <1>7, <2>1, <3>1, <4>1
    <3>2. CASE k # N + 1
      <4>1. k \in d + 1 .. N /\ k \in 1 .. N
        BY <1>1, <3>2, SMT
      <4>2. PICK j \in i + 1 .. L : link[j] \in Pointer /\ link[j].n = k
        BY <1>1, <2>4, <4>1 DEF Follows
      <4> QED
        BY <2>1, <2>2, <4>2
    <3> QED
      BY <3>1, <3>2
  <2>5. ASSUME \A j \in i + 1 .. L + 1 : link'[j] \in Pointer
        PROVE  touches'[d].resizes = resizes
    BY <1>5, <2>1, <2>2, <2>5 DEF Follows
  <2>6. ASSUME NEW j \in i + 1 .. L + 1, \A k \in i + 1 .. j : link'[k] \in Pointer
        PROVE  touches'[d].resizes = touches'[link'[j].n].resizes
    <3>1. CASE j = L + 1
      BY <1>1, <1>2, <1>7, <2>1, <2>5, <2>6, <3>1
    <3>2. CASE j # L + 1
      <4>1. j \in i + 1 .. L /\ j \in i + 1 .. j /\ \A k \in i + 1 .. j : k \in i + 1 .. L
        BY <1>3, <3>2, SMT
      <4>2. \A k \in i + 1 .. j : link[k] \in Pointer
        BY <2>1, <2>2, <2>6, <4>1
      <4> QED
        BY <1>4, <1>5, <2>1, <2>2, <4>1, <4>2 DEF Follows
    <3> QED
      BY <3>1, <3>2
  <2> QED
    BY <1>1, <1>2, <2>1, <2>3, <2>4, <2>5, <2>6 DEF Follows
<1>8. \/ link' = link /\ t.accepted = 0
      \/ \E m \in Pointer : link' = Append(link, m) /\ m.n = N + 1
  BY Forwarding
<1> QED
  BY <1>6, <1>7, <1>8

\* So does a viewport change, which ends the geometry of what was sent before.
LEMMA FollowsResized ==
    ASSUME TypeOK, NEW m, m \in Messages, m \notin Pointer, link' = Append(link, m),
           UNCHANGED touches, NEW d, NEW i \in 0 .. Len(link), Follows(d, i)
    PROVE  Follows(d, i)'
<1>. DEFINE L == Len(link)
<1>1. L \in Nat /\ link \in Seq(Messages)
  BY Linked
<1>2. Len(link') = L + 1 /\ link'[L + 1] = m /\ \A j \in 1 .. L : link'[j] = link[j]
  BY <1>1, AppendProperties
<1>3. L + 1 \in i + 1 .. L + 1 /\ \A j \in i + 1 .. L : j \in 1 .. L /\ j \in i + 1 .. L + 1
  BY <1>1, SMT
<1>4. \A j \in i + 1 .. L + 1 : j = L + 1 \/ j \in i + 1 .. L
  BY <1>1, SMT
<1>5. \A j \in i + 1 .. L + 1 : link'[j] \in Pointer => j \in i + 1 .. L /\ link'[j] = link[j]
  BY <1>2, <1>3, <1>4
<1>6. N' = N
  BY DEF N
<1>7. \A j \in i + 1 .. L + 1 : link'[j] \in Pointer => d < link'[j].n
  BY <1>5 DEF Follows
<1>8. ASSUME NEW k \in d + 1 .. N, touches[k].accepted # 0
      PROVE  \E j \in i + 1 .. L + 1 : link'[j] \in Pointer /\ link'[j].n = k
  <2>1. PICK j \in i + 1 .. L : link[j] \in Pointer /\ link[j].n = k
    BY <1>8 DEF Follows
  <2> QED
    BY <1>2, <1>3, <2>1
<1>9. ~(\A j \in i + 1 .. L + 1 : link'[j] \in Pointer)
  BY <1>2, <1>3
<1>10. ASSUME NEW j \in i + 1 .. L + 1, \A k \in i + 1 .. j : link'[k] \in Pointer
       PROVE  touches[d].resizes = touches[link'[j].n].resizes
  <2>1. j \in i + 1 .. j
    BY <1>1, SMT
  <2>2. j \in i + 1 .. L /\ link'[j] = link[j]
    BY <1>5, <1>10, <2>1
  <2>3. \A k \in i + 1 .. j : k \in i + 1 .. L
    BY <1>1, <2>2, SMT
  <2>4. \A k \in i + 1 .. j : link[k] \in Pointer
    BY <1>2, <1>3, <1>10, <2>3
  <2> QED
    BY <2>2, <2>4 DEF Follows
<1> QED
  BY <1>2, <1>6, <1>7, <1>8, <1>9, <1>10 DEF Follows

\* Receiving moves every message one place to the front.
LEMMA FollowsReceived ==
    ASSUME TypeOK, Receive, NEW d, NEW i \in Nat, Follows(d, i + 1)
    PROVE  Follows(d, i)'
<1>. DEFINE L == Len(link)
<1>1. L \in Nat \ {0} /\ Len(link') = L - 1 /\ \A j \in 1 .. L - 1 : link'[j] = link[j + 1]
  BY Receiving
<1>2. UNCHANGED <<touches, resizes>> /\ N' = N
  BY DEF Receive, resetVars, N
<1>3. \A j \in i + 1 .. L - 1 : j \in 1 .. L - 1 /\ j + 1 \in (i + 1) + 1 .. L
  BY <1>1, SMT
<1>4. \A j \in (i + 1) + 1 .. L : j - 1 \in i + 1 .. L - 1 /\ (j - 1) + 1 = j
  BY <1>1, SMT
<1>5. \A j \in i + 1 .. L - 1 : link'[j] = link[j + 1]
  BY <1>1, <1>3
<1>6. \A j \in (i + 1) + 1 .. L : link[j] = link'[j - 1]
  BY <1>4, <1>5
<1>7. \A j \in i + 1 .. L - 1 : link'[j] \in Pointer => d < link'[j].n
  BY <1>3, <1>5 DEF Follows
<1>8. ASSUME NEW k \in d + 1 .. N, touches[k].accepted # 0
      PROVE  \E j \in i + 1 .. L - 1 : link'[j] \in Pointer /\ link'[j].n = k
  <2>1. PICK j \in (i + 1) + 1 .. L : link[j] \in Pointer /\ link[j].n = k
    BY <1>8 DEF Follows
  <2> QED
    BY <1>4, <1>6, <2>1
<1>9. ASSUME \A j \in i + 1 .. L - 1 : link'[j] \in Pointer
      PROVE  touches[d].resizes = resizes
  <2>1. \A j \in (i + 1) + 1 .. L : link[j] \in Pointer
    BY <1>4, <1>6, <1>9
  <2> QED
    BY <2>1 DEF Follows
<1>10. ASSUME NEW j \in i + 1 .. L - 1, \A k \in i + 1 .. j : link'[k] \in Pointer
       PROVE  touches[d].resizes = touches[link'[j].n].resizes
  <2>1. \A k \in (i + 1) + 1 .. j + 1 : k \in (i + 1) + 1 .. L /\ k - 1 \in i + 1 .. j
    BY <1>1, SMT
  <2>2. \A k \in (i + 1) + 1 .. j + 1 : link[k] \in Pointer
    BY <1>6, <1>10, <2>1
  <2> QED
    BY <1>3, <1>5, <2>2 DEF Follows
<1> QED
  BY <1>1, <1>2, <1>7, <1>8, <1>9, <1>10 DEF Follows

\* What was done is not undone by another touch.
LEMMA ActedTouched ==
    ASSUME TypeOK, Acted, NEW phase \in Phases, NEW at \in Places, PointerEvent(phase, at)
    PROVE  Acted'
<1>1. N \in Nat /\ N' = N + 1 /\ \A k \in 1 .. N : touches'[k] = touches[k]
  BY Forwarding, Touched
<1>2. actions' = actions
  BY DEF PointerEvent, hostVars
<1>3. \A a \in actions : a.n \in 1 .. N /\ a.n \in 1 .. N + 1
  BY <1>1, SMT DEF Acted
<1>4. ASSUME NEW a \in actions
      PROVE  \E d \in 1 .. a.n - 1 :
                /\ touches'[d].phase = "down" /\ touches'[d].at = a.button
                /\ touches'[a.n].phase = "up" /\ touches'[a.n].at = a.button
                /\ touches'[d].accepted # 0 /\ touches'[d].accepted = touches'[a.n].accepted
                /\ touches'[d].resizes = touches'[a.n].resizes
                /\ \A k \in d + 1 .. a.n - 1 : touches'[k].accepted = 0
  <2>1. PICK d \in 1 .. a.n - 1 :
                /\ touches[d].phase = "down" /\ touches[d].at = a.button
                /\ touches[a.n].phase = "up" /\ touches[a.n].at = a.button
                /\ touches[d].accepted # 0 /\ touches[d].accepted = touches[a.n].accepted
                /\ touches[d].resizes = touches[a.n].resizes
                /\ \A k \in d + 1 .. a.n - 1 : touches[k].accepted = 0
    BY DEF Acted, ActionsHaveBothPhases
  <2>2. d \in 1 .. N /\ \A k \in d + 1 .. a.n - 1 : k \in 1 .. N
    BY <1>1, <1>3, SMT
  <2>3. a.n \in 1 .. N
    BY <1>3
  <2>4. touches'[d] = touches[d] /\ touches'[a.n] = touches[a.n]
    BY <1>1, <2>2, <2>3
  <2>5. \A k \in d + 1 .. a.n - 1 : touches'[k].accepted = 0
    BY <1>1, <2>1, <2>2
  <2> QED
    BY <2>1, <2>4, <2>5
<1>5. ActionsHaveBothPhases'
  BY <1>2, <1>4 DEF ActionsHaveBothPhases
<1> QED
  BY <1>1, <1>2, <1>3, <1>5 DEF Acted

LEMMA ToldTouched ==
    ASSUME TypeOK, TypeOK', Told, NEW phase \in Phases, NEW at \in Places,
           PointerEvent(phase, at)
    PROVE  Told'
<1>. DEFINE sent == remote_phase(phase, at)
            t == Touch(phase, at, sent, phase = "up" /\ exit_activated(at))
            L == Len(link)
<1>1. /\ N \in Nat /\ N' = N + 1 /\ touches'[N + 1] = t
      /\ \A k \in 1 .. N : touches'[k] = touches[k]
  BY Forwarding, Touched
<1>2. t.resizes = resizes /\ t.at = at /\ t.phase = phase /\ UNCHANGED <<session, hostContact, resizes>>
  BY DEF Touch, PointerEvent, hostVars, resetVars
<1>3. L \in Nat /\ link \in Seq(Messages)
  BY Linked
<1>4. /\ UnderWay /\ Armed /\ Acted
  BY DEF Told
<1>5. ASSUME NEW i \in 1 .. L, NEW m \in Pointer, link[i] = m
      PROVE  Sent(m)' /\ Follows(m.n, i)'
  <2>1. Sent(m) /\ Follows(m.n, i) /\ i \in 0 .. L
    BY <1>3, <1>4, <1>5, SMT DEF UnderWay
  <2>2. m.n \in 1 .. N /\ m.n \in 1 .. N + 1
    BY <1>1, <2>1, SMT DEF Sent
  <2>3. Sent(m)'
    BY <1>1, <1>2, <2>1, <2>2 DEF Sent
  <2>4. Follows(m.n, i)'
    BY <1>4, <2>1, <2>2, FollowsTouched
  <2> QED
    BY <2>3, <2>4
<1>6. UnderWay'
  <2>1. CASE link' = link
    <3>1. session' = 0 => link' = <<>>
      BY <1>2, <1>4, <2>1 DEF UnderWay
    <3> QED
      BY <1>5, <2>1, <3>1 DEF UnderWay
  <2>2. ASSUME session # 0, t.accepted = session, NEW m \in Pointer,
               link' = Append(link, m), m.n = N + 1,
               m.at \in Buttons => m.at = at /\ m.phase = phase
        PROVE  UnderWay'
    <3>1. Len(link') = L + 1 /\ link'[L + 1] = m /\ \A j \in 1 .. L : link'[j] = link[j]
      <4>1. m \in Messages
        BY DEF Messages
      <4> QED
        BY <1>3, <2>2, <4>1, AppendProperties
    <3>. HIDE DEF t
    <3>2. Sent(m)'
      <4>1. m.n \in 1 .. N + 1
        BY <1>1, <2>2, SMT
      <4> QED
        BY <1>1, <1>2, <2>2, <4>1 DEF Sent
    <3>3. \A i : i = L + 1 => Follows(m.n, i)'
      <4>. SUFFICES ASSUME NEW i, i = L + 1 PROVE Follows(m.n, i)'
        OBVIOUS
      <4>1. i + 1 .. L + 1 = {} /\ m.n + 1 .. N + 1 = {}
        BY <1>1, <1>3, <2>2, SMT
      <4>2. touches'[m.n].resizes = resizes'
        BY <1>1, <1>2, <2>2
      <4> QED
        BY <1>1, <3>1, <4>1, <4>2 DEF Follows
    <3>4. ASSUME NEW i \in 1 .. L + 1, NEW x \in Pointer, link'[i] = x
          PROVE  Sent(x)' /\ Follows(x.n, i)'
      <4>1. CASE i = L + 1
        BY <3>1, <3>2, <3>3, <3>4, <4>1
      <4>2. CASE i # L + 1
        <5>1. i \in 1 .. L
          BY <1>3, <4>2, SMT
        <5> QED
          BY <1>5, <3>1, <3>4, <5>1
      <4> QED
        BY <4>1, <4>2
    <3> QED
      BY <1>2, <2>2, <3>1, <3>4 DEF UnderWay
  <2> QED
    BY <2>1, <2>2, Forwarding
<1>7. Armed'
  <2>. SUFFICES ASSUME session # 0, hostContact \in Buttons
                PROVE  \E d \in 1 .. N + 1 : Pressed(d)'
    BY <1>1, <1>2 DEF Armed
  <2>1. PICK d \in 1 .. N : Pressed(d)
    BY <1>4 DEF Armed
  <2>2. d \in 1 .. N + 1 /\ 0 \in 0 .. L
    BY <1>1, <1>3, SMT
  <2>3. Follows(d, 0)'
    BY <1>4, <2>1, <2>2, FollowsTouched DEF Pressed
  <2>4. Pressed(d)'
    BY <1>1, <1>2, <2>1, <2>3 DEF Pressed
  <2> QED
    BY <2>2, <2>4
<1> QED
  BY <1>4, <1>6, <1>7, ActedTouched DEF Told

LEMMA ToldResized ==
    ASSUME TypeOK, Told, NEW new \in Sizes, Configure(new)
    PROVE  Told'
<1>. DEFINE v == [kind |-> "viewport", size |-> new]
            L == Len(link)
<1>1. UNCHANGED <<touches, hostContact, actions>> /\ N' = N
  BY DEF Configure, hostVars, N
<1>2. UnderWay /\ Armed /\ Acted /\ Acted'
  BY <1>1 DEF Told, Acted, ActionsHaveBothPhases
<1>3. CASE session = 0 /\ UNCHANGED <<session, link>>
  <2>1. link' = <<>> /\ Len(link') = 0 /\ session' = 0
    BY <1>2, <1>3, EmptySeq DEF UnderWay
  <2> QED
    BY <1>2, <2>1, ToldNothing DEF Told, UnderWay, Armed
<1>4. CASE session' = 0 /\ link' = <<>>
  <2>1. Len(link') = 0
    BY <1>4, EmptySeq
  <2>2. 1 .. Len(link') = {}
    BY <2>1, SMT
  <2> QED
    BY <1>2, <1>4, <2>2 DEF Told, UnderWay, Armed
<1>5. CASE session # 0 /\ session' = session /\ link' = Append(link, v)
  <2>1. v \in Messages /\ v \notin Pointer /\ link \in Seq(Messages) /\ L \in Nat
    BY Linked DEF Messages, ViewportChanged, Pointer
  <2>. HIDE DEF v
  <2>2. Len(link') = L + 1 /\ link'[L + 1] = v /\ \A j \in 1 .. L : link'[j] = link[j]
    BY <1>5, <2>1, AppendProperties
  <2>3. ASSUME NEW i \in 1 .. L + 1, NEW x \in Pointer, link'[i] = x
        PROVE  Sent(x)' /\ Follows(x.n, i)'
    <3>1. i # L + 1
      BY <2>1, <2>2, <2>3
    <3>2. i \in 1 .. L /\ i \in 0 .. L
      BY <2>1, <3>1, SMT
    <3>3. Sent(x) /\ Follows(x.n, i)
      BY <1>2, <2>2, <2>3, <3>2 DEF UnderWay
    <3>4. Sent(x)'
      BY <1>1, <1>5, <3>3 DEF Sent
    <3>5. Follows(x.n, i)'
      BY <1>1, <1>5, <2>1, <3>2, <3>3, FollowsResized
    <3> QED
      BY <3>4, <3>5
  <2>4. UnderWay'
    BY <1>5, <2>2, <2>3 DEF UnderWay
  <2>5. Armed'
    <3>. SUFFICES ASSUME hostContact \in Buttons
                  PROVE  \E d \in 1 .. N : Pressed(d)'
      BY <1>1 DEF Armed
    <3>1. PICK d \in 1 .. N : Pressed(d)
      BY <1>2, <1>5 DEF Armed
    <3>2. 0 \in 0 .. L
      BY <2>1, SMT
    <3>3. Follows(d, 0)'
      BY <1>1, <1>5, <2>1, <3>1, <3>2, FollowsResized DEF Pressed
    <3>4. Pressed(d)'
      BY <1>1, <1>5, <3>1, <3>3 DEF Pressed
    <3> QED
      BY <3>4
  <2> QED
    BY <1>2, <2>4, <2>5 DEF Told
<1> QED
  BY <1>3, <1>4, <1>5 DEF Configure, Accepts

LEMMA ToldReceived ==
    ASSUME TypeOK, Told, Receive
    PROVE  Told'
<1>. DEFINE L == Len(link)
<1>1. /\ L \in Nat \ {0} /\ Len(link') = L - 1 /\ \A i \in 1 .. L - 1 : link'[i] = link[i + 1]
      /\ \/ hostContact' \in {"idle", "cancelled"}
         \/ /\ link[1] \in Pointer /\ link[1].phase = "down"
            /\ hostContact' \in Buttons /\ link[1].at = hostContact'
      /\ \/ actions' = actions
         \/ /\ link[1] \in Pointer /\ link[1].phase = "up"
            /\ hostContact \in Buttons /\ link[1].at = hostContact
            /\ actions' = actions \cup {[button |-> hostContact, n |-> link[1].n]}
  BY Receiving
<1>2. UNCHANGED <<touches, session, resizes>> /\ N' = N /\ session # 0
  BY DEF Receive, resetVars, N
<1>3. UnderWay /\ Armed /\ Acted
  BY DEF Told
<1>4. ASSUME NEW m \in Pointer, link[1] = m
      PROVE  Sent(m) /\ Follows(m.n, 1) /\ m.n \in 1 .. N
  <2>1. 1 \in 1 .. L
    BY <1>1, SMT
  <2> QED
    BY <1>3, <1>4, <2>1 DEF UnderWay, Sent
<1>5. UnderWay'
  <2>. SUFFICES ASSUME NEW i \in 1 .. L - 1, NEW m \in Pointer, link'[i] = m
                PROVE  Sent(m)' /\ Follows(m.n, i)'
    BY <1>1, <1>2 DEF UnderWay
  <2>1. i \in Nat /\ i + 1 \in 1 .. L /\ link[i + 1] = m
    BY <1>1, SMT
  <2>2. Sent(m) /\ Follows(m.n, i + 1)
    BY <1>3, <2>1 DEF UnderWay
  <2>3. Sent(m)'
    BY <1>2, <2>2 DEF Sent
  <2> QED
    BY <2>1, <2>2, <2>3, FollowsReceived
<1>6. Armed'
  <2>. SUFFICES ASSUME hostContact' \in Buttons
                PROVE  \E d \in 1 .. N : Pressed(d)'
    BY <1>2 DEF Armed
  <2>1. hostContact' \notin {"idle", "cancelled"}
    BY PointerAssumption
  <2>2. PICK m \in Pointer : link[1] = m
    BY <1>1, <2>1
  <2>3. m.phase = "down" /\ m.at = hostContact'
    BY <1>1, <2>1, <2>2
  <2>4. Sent(m) /\ Follows(m.n, 0 + 1) /\ m.n \in 1 .. N
    BY <1>4, <2>2
  <2>5. Follows(m.n, 0)'
    BY <2>4, FollowsReceived
  <2>6. Pressed(m.n)'
    BY <1>2, <2>3, <2>4, <2>5 DEF Pressed, Sent
  <2> QED
    BY <2>4, <2>6
<1>7. Acted'
  <2>1. CASE actions' = actions
    BY <1>2, <1>3, <2>1 DEF Acted, ActionsHaveBothPhases
  <2>2. ASSUME NEW m \in Pointer, link[1] = m, m.phase = "up",
               hostContact \in Buttons, m.at = hostContact,
               actions' = actions \cup {[button |-> hostContact, n |-> m.n]}
        PROVE  Acted'
    <3>1. Sent(m) /\ Follows(m.n, 1) /\ m.n \in 1 .. N
      BY <1>4, <2>2
    <3>2. PICK d \in 1 .. N : Pressed(d)
      BY <1>2, <1>3, <2>2 DEF Armed
    <3>3. 1 \in 0 + 1 .. L /\ \A k \in 0 + 1 .. 1 : k = 1
      BY <1>1, SMT
    <3>4. d < m.n /\ touches[d].resizes = touches[m.n].resizes
      BY <2>2, <3>2, <3>3 DEF Pressed, Follows
    <3>5. N \in Nat /\ m.n \in Nat
      BY Touched, NumberedTouches
    <3>6. d \in 1 .. m.n - 1
      BY <3>1, <3>4, <3>5, SMT
    <3>7. ASSUME NEW k \in d + 1 .. m.n - 1, touches[k].accepted # 0
          PROVE  FALSE
      <4>1. k \in d + 1 .. N /\ k # m.n /\ ~(m.n < k)
        BY <3>1, <3>5, <3>7, SMT
      <4>2. PICK j \in 0 + 1 .. L : link[j] \in Pointer /\ link[j].n = k
        BY <3>2, <3>7, <4>1 DEF Pressed, Follows
      <4>3. CASE j = 1
        BY <2>2, <4>1, <4>2, <4>3
      <4>4. CASE j # 1
        <5>1. j \in 1 + 1 .. L
          BY <1>1, <4>4, SMT
        <5> QED
          BY <3>1, <4>1, <4>2, <5>1 DEF Follows
      <4> QED
        BY <4>3, <4>4
    <3>8. /\ touches[d].phase = "down" /\ touches[d].at = hostContact
          /\ touches[m.n].phase = "up" /\ touches[m.n].at = hostContact
          /\ touches[d].accepted # 0 /\ touches[d].accepted = touches[m.n].accepted
      BY <1>2, <2>2, <3>1, <3>2 DEF Pressed, Sent
    <3>. DEFINE Both(a) == \E e \in 1 .. a.n - 1 :
                   /\ touches[e].phase = "down" /\ touches[e].at = a.button
                   /\ touches[a.n].phase = "up" /\ touches[a.n].at = a.button
                   /\ touches[e].accepted # 0 /\ touches[e].accepted = touches[a.n].accepted
                   /\ touches[e].resizes = touches[a.n].resizes
                   /\ \A k \in e + 1 .. a.n - 1 : touches[k].accepted = 0
    <3>9. Both([button |-> hostContact, n |-> m.n])
      BY <3>4, <3>6, <3>7, <3>8
    <3>10. \A a \in actions : Both(a) /\ a.n \in 1 .. N
      BY <1>3 DEF Acted, ActionsHaveBothPhases
    <3>11. \A a \in actions' : a \in actions \/ a = [button |-> hostContact, n |-> m.n]
      BY <2>2
    <3>12. [button |-> hostContact, n |-> m.n].n \in 1 .. N
      BY <3>1
    <3>13. \A a \in actions' : Both(a) /\ a.n \in 1 .. N
      <4>. HIDE DEF Both
      <4> QED
        BY <3>9, <3>10, <3>11, <3>12
    <3> QED
      BY <1>2, <3>13 DEF Acted, ActionsHaveBothPhases
  <2> QED
    BY <1>1, <2>1, <2>2
<1> QED
  BY <1>5, <1>6, <1>7 DEF Told

LEMMA ToldInit == Init => Told
<1>. SUFFICES ASSUME Init PROVE Told
  OBVIOUS
<1>1. Len(link) = 0 /\ link = <<>> /\ session = 0
  BY EmptySeq DEF Init
<1>2. Acted
  BY DEF Init, Acted, ActionsHaveBothPhases
<1> QED
  BY <1>1, <1>2, ToldNothing

LEMMA ToldStep == TypeOK /\ TypeOK' /\ Told /\ [Next]_vars => Told'
<1>. SUFFICES ASSUME TypeOK, TypeOK', Told, [Next]_vars PROVE Told'
  OBVIOUS
<1>1. ASSUME NEW phase \in Phases, NEW at \in Places, PointerEvent(phase, at)
      PROVE  Told'
  BY <1>1, ToldTouched
<1>2. ASSUME NEW new \in Sizes, Configure(new)
      PROVE  Told'
  BY <1>2, ToldResized
<1>3. ASSUME UNCHANGED <<touches, session, link, hostContact, actions, resizes>>
      PROVE  Told'
  BY <1>3 DEF Told, UnderWay, Armed, Acted, ActionsHaveBothPhases, Sent, Pressed, Follows, N
<1>4. CASE Unmap
  BY <1>3, <1>4 DEF Unmap, linkVars, hostVars
<1>5. CASE Destroyed
  BY <1>3, <1>5 DEF Destroyed, linkVars, hostVars, resetVars
<1>6. ASSUME UNCHANGED <<touches, actions>>, link' = <<>>,
             session' = 0 \/ hostContact' \notin Buttons
      PROVE  Told'
  <2>1. (Len(link))' = 0
    BY <1>6, EmptySeq
  <2>2. Acted'
    BY <1>6 DEF Told, Acted, ActionsHaveBothPhases, N
  <2>3. (1 .. Len(link))' = {}
    BY <2>1, SMT
  <2> QED
    BY <1>6, <2>2, <2>3 DEF Told, UnderWay, Armed
<1>7. CASE Connect
  <2>1. "idle" \notin Buttons
    BY PointerAssumption
  <2> QED
    BY <1>6, <1>7, <2>1 DEF Connect, set_viewport
<1>8. CASE ConnectionLost
  BY <1>6, <1>8 DEF ConnectionLost, hostVars
<1>9. CASE Receive
  BY <1>9, ToldReceived
<1>10. CASE UNCHANGED vars
  BY <1>3, <1>10 DEF vars, linkVars, hostVars, resetVars
<1> QED
  BY <1>1, <1>2, <1>4, <1>5, <1>7, <1>8, <1>9, <1>10 DEF Next

\* The user pressed and released the button, in this order, on one connection
\* and without a viewport change between, and PaperSpoon was told of nothing
\* else between the two.
THEOREM ActionsAreTaps == Spec => []ActionsHaveBothPhases
<1>1. Init => TypeOK /\ Told
  BY TypeInit, ToldInit
<1>2. TypeOK /\ Told /\ [Next]_vars => (TypeOK /\ Told)'
  BY TypeStep, ToldStep
<1>3. Told => ActionsHaveBothPhases
  BY DEF Told, Acted
<1> QED
  BY <1>1, <1>2, <1>3, PTL DEF Spec
=============================================================================
