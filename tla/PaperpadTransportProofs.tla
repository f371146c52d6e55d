---------------------- MODULE PaperpadTransportProofs ----------------------
(***************************************************************************)
(* Theorems about PaperpadTransport for any viewports, queue capacity and  *)
(* number of connections: its types, what drop releases, what a write      *)
(* error touches, what the mailbox holds, which geometry the peer of each  *)
(* pointer knows, and that it implements OrderedDelivery.                  *)
(***************************************************************************)
EXTENDS PaperpadTransport, TLAPS, WellFoundedInduction

-----------------------------------------------------------------------------
(* Facts about messages and sequences.                                     *)

LEMMA HelloIsMessage ==
    ASSUME NEW g \in Sockets, NEW v \in Viewports
    PROVE  Hello(g, v) \in Message
  BY TransportAssumption DEF Hello, Message, Sockets

LEMMA TornIsMessage ==
    ASSUME NEW m \in Message
    PROVE  Torn(m) \in Message
  BY DEF Torn, Message

LEMMA HeadAndTail ==
    ASSUME NEW S, NEW s \in Seq(S), s # <<>>
    PROVE  Head(s) \in S /\ Tail(s) \in Seq(S) /\ Len(Tail(s)) = Len(s) - 1
  OBVIOUS

LEMMA AppendKeepsType ==
    ASSUME NEW S, NEW s \in Seq(S), NEW m \in S
    PROVE  Append(s, m) \in Seq(S) /\ Len(Append(s, m)) = Len(s) + 1
  OBVIOUS

-----------------------------------------------------------------------------
(* Every variable keeps its type.  Typing rests on HandsAreFull: a thread  *)
(* that is about to use a socket or a message has one.                     *)

HandsAreFull ==
    /\ startupPc = "send_connected" \/ startupChannel = "connected" => startupSock \in Sockets
    /\ writerPc \in {"write", "fail"} => writerStream \in Sockets
    /\ mainPc \in {"pointer_send", "resize_send"} => mainToken \in Sockets

TypeInv == TypeOK /\ HandsAreFull

LEMMA TypeInit == Init => TypeInv
<1> SUFFICES ASSUME Init PROVE TypeInv
  OBVIOUS
<1> USE TransportAssumption DEF Init
<1>1. TypeOK
  <2>1. /\ outbound \in Seq(Message) /\ Len(outbound) <= OUTBOUND_QUEUE_CAPACITY
        /\ wire \in [Sockets -> Seq(Message)]
    OBVIOUS
  <2>2. held \subseteq Message /\ fresh \subseteq Message
    OBVIOUS
  <2>3. /\ inputs \in 0 .. MaxInputs
        /\ opened \in 0 .. MaxConnections
        /\ wakes \in Nat
    OBVIOUS
  <2>4. /\ reader \in [Sockets -> {"none", "reading", "done"}]
        /\ sock \in [Sockets -> SocketStates]
        /\ pending \subseteq Frame
    BY DEF SocketStates
  <2>5. QED
    BY <2>1, <2>2, <2>3, <2>4 DEF TypeOK, Disconnected
<1>2. HandsAreFull
  BY DEF HandsAreFull
<1>3. QED
  BY <1>1, <1>2 DEF TypeInv

LEMMA TypeStartup == TypeInv /\ Startup => TypeInv'
<1> SUFFICES ASSUME TypeInv, Startup PROVE TypeInv'
  OBVIOUS
<1> USE TransportAssumption
    DEF TypeInv, TypeOK, HandsAreFull, Sockets, SocketStates, StartupUnchanged, mainVars,
        viewVars, queueVars, writerVars, reconnectorVars
<1>1. CASE StartupCheck
  BY <1>1 DEF StartupCheck
<1>2. CASE StartupConnectOk
  BY <1>2 DEF StartupConnectOk, OpenSocket
<1>3. CASE StartupConnectErr
  BY <1>3 DEF StartupConnectErr
<1>4. CASE StartupSendConnected
  BY <1>4 DEF StartupSendConnected, ShutDown
<1>5. CASE StartupSendFailed
  BY <1>5 DEF StartupSendFailed
<1>6. CASE StartupWait
  BY <1>6 DEF StartupWait
<1> HIDE DEF TypeInv
<1>7. QED
  BY <1>1, <1>2, <1>3, <1>4, <1>5, <1>6 DEF Startup

LEMMA TypeWriter == TypeInv /\ Writer => TypeInv'
<1> SUFFICES ASSUME TypeInv, Writer PROVE TypeInv'
  OBVIOUS
<1> USE TransportAssumption
    DEF TypeInv, TypeOK, HandsAreFull, Disconnected, Sockets, SocketStates, WriterUnchanged,
        mainVars, viewVars, queueVars, startupVars, reconnectorVars
<1>1. CASE WriterRecv
  <2>1. CASE outbound = <<>>
    BY <1>1, <2>1 DEF WriterRecv
  <2>2. CASE outbound # <<>>
    <3>1. outbound \in Seq(Message) /\ Len(outbound) <= OUTBOUND_QUEUE_CAPACITY
      OBVIOUS
    <3>2. Head(outbound) \in Message /\ Tail(outbound) \in Seq(Message)
          /\ Len(Tail(outbound)) = Len(outbound) - 1
      BY <2>2, <3>1, HeadAndTail
    <3>3. Len(Tail(outbound)) <= OUTBOUND_QUEUE_CAPACITY
      BY <2>2, <3>1, <3>2
    <3>4. held' \subseteq Message
      BY <1>1, <2>2, <3>2 DEF WriterRecv
    <3>5. outbound' = Tail(outbound) /\ writerPc' = "clone"
      BY <1>1, <2>2 DEF WriterRecv
    <3> HIDE DEF Sockets
    <3>6. QED
      BY <1>1, <2>2, <3>2, <3>3, <3>4, <3>5 DEF WriterRecv
  <2>3. QED
    BY <2>1, <2>2
<1>2. CASE WriterClone
  BY <1>2 DEF WriterClone, clone_stream_for
<1>3. CASE WriterWriteOk
  BY <1>3, AppendKeepsType DEF WriterWriteOk
<1>4. CASE WriterWriteErr
  BY <1>4, TornIsMessage, AppendKeepsType DEF WriterWriteErr
<1>5. CASE WriterFail
  BY <1>5 DEF WriterFail, disconnect_if_current, disconnect, ShutDown
<1> HIDE DEF TypeInv
<1>6. QED
  BY <1>1, <1>2, <1>3, <1>4, <1>5 DEF Writer

LEMMA TypeReconnector == TypeInv /\ Reconnector => TypeInv'
<1> SUFFICES ASSUME TypeInv, Reconnector PROVE TypeInv'
  OBVIOUS
<1> USE TransportAssumption
    DEF TypeInv, TypeOK, HandsAreFull, Disconnected, SocketStates,
        ReconnectorUnchanged, mainVars, viewVars, queueVars, startupVars, writerVars, netVars
<1>1. CASE ReconnectorRecv
  BY <1>1 DEF ReconnectorRecv
<1>2. CASE ReconnectorJoin
  BY <1>2 DEF ReconnectorJoin
<1>3. CASE ReconnectorClear
  BY <1>3 DEF ReconnectorClear, disconnect, ShutDown
<1>4. CASE ReconnectorStops
  BY <1>4 DEF ReconnectorStops
<1>5. CASE ReconnectorConnect
  <2>1. opened + 1 \in Sockets /\ opened' \in 0 .. MaxConnections
    BY <1>5 DEF ReconnectorConnect, OpenSocket, Sockets
  <2>2. fresh' \subseteq Message
    BY <1>5, <2>1, HelloIsMessage DEF ReconnectorConnect
  <2>3. QED
    BY <1>5, <2>1, <2>2 DEF ReconnectorConnect, OpenSocket
<1>6. \A m \in fresh : m \in Message /\ m.token \in Sockets
  BY DEF Message
<1>7. CASE ReconnectorHelloOk
  BY <1>6, <1>7 DEF ReconnectorHelloOk
<1>8. CASE ReconnectorHelloErr
  BY <1>6, <1>8, TornIsMessage DEF ReconnectorHelloErr, ShutDown
<1>9. CASE ReconnectorInstall
  <2>1. PICK hello \in fresh :
          IF stopping
          THEN /\ sock' = ShutDown(hello.token)
               /\ reconnectorPc' = "exited"
               /\ fresh' = {}
               /\ UNCHANGED connection
          ELSE /\ reconnect(hello.token)
               /\ reconnectorPc' = "spawn"
               /\ UNCHANGED fresh
    BY <1>9 DEF ReconnectorInstall
  <2>2. /\ sock' \in [Sockets -> SocketStates]
        /\ connection' \in {Disconnected} \cup Sockets
        /\ fresh' \subseteq Message
        /\ reconnectorPc' \in {"exited", "spawn"}
    BY <1>6, <2>1 DEF reconnect, ShutDown
  <2>3. QED
    BY <1>9, <2>2 DEF ReconnectorInstall
<1>10. CASE ReconnectorSpawnReader
  BY <1>6, <1>10 DEF ReconnectorSpawnReader
<1> HIDE DEF TypeInv
<1>11. QED
  BY <1>1, <1>2, <1>3, <1>4, <1>5, <1>7, <1>8, <1>9, <1>10 DEF Reconnector

LEMMA TypePromote ==
    ASSUME TypeInv, promote_startup,
           mainPc' \in {"poll_take", "pointer_token", "resize_token"},
           mainToken' = mainToken, inputs' \in 0 .. MaxInputs
    PROVE  TypeInv'
<1> USE TransportAssumption
    DEF TypeInv, TypeOK, HandsAreFull, Disconnected, SocketStates, viewVars, startupVars
<1>1. CASE PromoteNothing
  BY <1>1 DEF promote_startup, PromoteNothing
<1>2. CASE PromoteFailed
  BY <1>2 DEF promote_startup, PromoteFailed
<1>3. CASE PromoteConnected
  <2>1. startupSock \in Sockets
    BY <1>3 DEF PromoteConnected
  <2>2. <<Hello(startupSock, remoteViewport)>> \in Seq(Message)
    BY <2>1, HelloIsMessage
  <2>3. QED
    BY <1>3, <2>1, <2>2 DEF promote_startup, PromoteConnected, set_viewport
<1>4. CASE PromoteFromStreamErr
  <2>1. startupSock \in Sockets
    BY <1>4 DEF PromoteFromStreamErr
  <2>2. <<Torn(Hello(startupSock, remoteViewport))>> \in Seq(Message)
    BY <2>1, HelloIsMessage, TornIsMessage
  <2>3. QED
    <3>1. sock' \in [Sockets -> SocketStates]
      BY <1>4, <2>1 DEF PromoteFromStreamErr, ShutDown
    <3>2. wire' \in [Sockets -> Seq(Message)]
      BY <1>4, <2>1, <2>2 DEF PromoteFromStreamErr
    <3>3. startupRx' \in BOOLEAN /\ startupChannel' = "empty"
      BY <1>4, Zenon DEF PromoteFromStreamErr
    <3>4. QED
      BY <1>4, <3>1, <3>2, <3>3 DEF promote_startup, PromoteFromStreamErr, set_viewport
<1> HIDE DEF TypeInv
<1>5. QED
  BY <1>1, <1>2, <1>3, <1>4 DEF promote_startup

LEMMA TypeEnqueue ==
    ASSUME TypeInv, CanEnqueue, NEW kind \in {"viewport", "pointer"}, Enqueue(kind),
           mainToken \in Sockets
    PROVE  outbound' \in Seq(Message) /\ Len(outbound') <= OUTBOUND_QUEUE_CAPACITY
<1> DEFINE m == [kind |-> kind, viewport |-> remoteViewport, token |-> mainToken,
                 id |-> inputs]
<1>1. m \in Message
  BY DEF TypeInv, TypeOK, Message
<1>2. outbound \in Seq(Message) /\ Len(outbound) \in Nat
  BY DEF TypeInv, TypeOK
<1> HIDE DEF m
<1>3. Append(outbound, m) \in Seq(Message) /\ Len(Append(outbound, m)) = Len(outbound) + 1
  BY <1>1, <1>2, AppendKeepsType
<1>4. Len(outbound) + 1 <= OUTBOUND_QUEUE_CAPACITY
  BY <1>2, TransportAssumption DEF CanEnqueue
<1>5. QED
  BY <1>3, <1>4 DEF Enqueue, m

LEMMA TypeMain == TypeInv /\ Main => TypeInv'
<1> SUFFICES ASSUME TypeInv, Main PROVE TypeInv'
  OBVIOUS
<1>1. CASE PollPromote
  BY <1>1, TypePromote DEF PollPromote, TypeInv, TypeOK
<1>2. CASE PointerPromote
  <2>1. inputs \in 0 .. MaxInputs /\ MaxInputs \in Nat
    BY TransportAssumption DEF TypeInv, TypeOK
  <2>2. inputs < MaxInputs /\ inputs' = inputs + 1
    BY <1>2 DEF PointerPromote
  <2>3. inputs' \in 0 .. MaxInputs
    BY <2>1, <2>2
  <2>4. QED
    BY <1>2, <2>3, TypePromote DEF PointerPromote
<1>3. CASE ResizePromote
  BY <1>3, TypePromote DEF ResizePromote, TypeInv, TypeOK
<1> USE TransportAssumption
    DEF TypeInv, TypeOK, HandsAreFull, Disconnected, SocketStates, MainUnchanged,
        DropUnchanged, viewVars, queueVars, writerVars, reconnectorVars
<1>4. CASE PollTake
  BY <1>4 DEF PollTake
<1>5. CASE PointerToken
  BY <1>5 DEF PointerToken
<1>6. CASE PointerSend
  <2>1. outbound' \in Seq(Message) /\ Len(outbound') <= OUTBOUND_QUEUE_CAPACITY
    BY <1>6, TypeEnqueue DEF PointerSend
  <2>2. QED
    BY <1>6, <2>1 DEF PointerSend
<1>7. ASSUME NEW v \in Viewports, ResizeRetain(v) PROVE TypeInv'
  BY <1>7 DEF ResizeRetain
<1>8. CASE ResizeMailbox
  BY <1>8 DEF ResizeMailbox, set_viewport
<1>9. CASE ResizeToken
  BY <1>9 DEF ResizeToken
<1>10. CASE ResizeSend
  <2>1. outbound' \in Seq(Message) /\ Len(outbound') <= OUTBOUND_QUEUE_CAPACITY
    BY <1>10, TypeEnqueue DEF ResizeSend
  <2>2. QED
    BY <1>10, <2>1 DEF ResizeSend
<1>11. CASE ResizeDisconnect
  BY <1>11 DEF ResizeDisconnect, disconnect, ShutDown
<1>12. CASE DropStop
  BY <1>12 DEF DropStop
<1>13. CASE DropStartup
  <2>1. sock' \in [Sockets -> SocketStates]
    BY <1>13 DEF DropStartup, ShutDown
  <2>2. startupRx' \in BOOLEAN /\ startupChannel' = "empty"
    BY <1>13, Zenon DEF DropStartup
  <2>3. QED
    BY <1>13, <2>1, <2>2 DEF DropStartup
<1>14. CASE DropDisconnect
  BY <1>14 DEF DropDisconnect, disconnect, ShutDown
<1>15. CASE DropWake
  BY <1>15 DEF DropWake
<1>16. CASE DropQueue
  <2>1. outboundOpen' \in BOOLEAN
    BY <1>16, Zenon DEF DropQueue
  <2>2. QED
    BY <1>16, <2>1 DEF DropQueue
<1>17. CASE DropJoinWriter
  BY <1>17 DEF DropJoinWriter
<1>18. CASE DropJoinReconnector
  BY <1>18 DEF DropJoinReconnector
<1> HIDE DEF TypeInv
<1>19. QED
  BY <1>1, <1>2, <1>3, <1>4, <1>5, <1>6, <1>7, <1>8, <1>9, <1>10, <1>11, <1>12, <1>13,
     <1>14, <1>15, <1>16, <1>17, <1>18 DEF Main, MainContinues, Drop

LEMMA TypeNext == TypeInv /\ [Next]_vars => TypeInv'
<1> SUFFICES ASSUME TypeInv, [Next]_vars PROVE TypeInv'
  OBVIOUS
<1>1. ASSUME NEW g \in Sockets,
             PeerCloses(g) \/ ReaderStops(g) \/ \E v \in FrameViewports : ReaderFrame(g, v)
      PROVE  TypeInv'
  <2> USE TransportAssumption
      DEF TypeInv, TypeOK, HandsAreFull, mainVars, viewVars, queueVars, startupVars,
          writerVars, reconnectorVars, netVars
  <2>1. CASE PeerCloses(g)
    BY <2>1 DEF PeerCloses, SocketStates
  <2>2. CASE ReaderStops(g)
    BY <2>2 DEF ReaderStops
  <2>3. ASSUME NEW v \in FrameViewports, ReaderFrame(g, v) PROVE TypeInv'
    BY <2>3 DEF ReaderFrame, publish, Frame
  <2> HIDE DEF TypeInv
  <2>4. QED
    BY <1>1, <2>1, <2>2, <2>3
<1>2. CASE UNCHANGED vars
  BY <1>2 DEF TypeInv, TypeOK, HandsAreFull, vars, mainVars, viewVars, queueVars,
              startupVars, writerVars, reconnectorVars, netVars
<1>3. QED
  BY <1>1, <1>2, TypeStartup, TypeWriter, TypeReconnector, TypeMain
     DEF Next, Terminated, ReaderEof, ReaderError

\* Every variable of the transport keeps its type, the outbound queue its
\* capacity, whatever the threads do and however many connections there are.
THEOREM TypeCorrect == Spec => []TypeOK
<1>1. TypeInv => TypeOK
  BY DEF TypeInv
<1>2. QED
  BY <1>1, TypeInit, TypeNext, PTL DEF Spec

-----------------------------------------------------------------------------
(* Who is answerable for a socket that is still up: the connection slot,   *)
(* the startup hand-over, or the reconnector that has just opened it.      *)
(* Together with the order of drop's steps this is inductive and gives     *)
(* DropReleasesEverything.                                                 *)

Owned(g) ==
    \/ g = connection
    \/ /\ g = startupSock
       /\ startupPc = "send_connected" \/ startupChannel = "connected"
    \/ /\ reconnectorPc \in {"hello", "install"}
       /\ \E hello \in fresh : hello.token = g

DropPcs == {"drop_startup", "drop_disconnect", "drop_wake", "drop_queue",
            "drop_join_writer", "drop_join_reconnector", "dropped"}

Ownership ==
    /\ \A g \in Sockets : Usable(g) => Owned(g)
    /\ startupChannel = "connected" => startupPc = "done" /\ startupRx
    /\ startupRx => reconnectorPc = "none"
    /\ reconnectorPc = "none" => connection = Disconnected /\ writerPc = "none"
    /\ fresh # {} => reconnectorPc \in {"hello", "install", "spawn"}
    /\ \A h1, h2 \in fresh : h1 = h2
    /\ \A g \in Sockets :
         reader[g] = "reading" => g = activeReader /\ reconnectorPc \in {"recv", "join"}
    /\ mainPc \in DropPcs => stopping
    /\ mainPc \in DropPcs \ {"drop_startup"} => ~startupRx
    /\ mainPc \in DropPcs \ {"drop_startup", "drop_disconnect"} => connection = Disconnected
    /\ mainPc = "dropped" => reconnectorPc \in {"none", "exited"}

LEMMA OwnershipInit == Init => Ownership
  BY TransportAssumption DEF Init, Ownership, Owned, DropPcs, Usable

LEMMA OwnershipStartup == TypeInv /\ Ownership /\ Startup => Ownership'
<1> SUFFICES ASSUME TypeInv, Ownership, Startup PROVE Ownership'
  OBVIOUS
<1> USE TransportAssumption
    DEF Ownership, Owned, Usable, DropPcs, StartupUnchanged, mainVars, viewVars, queueVars,
        writerVars, reconnectorVars
<1>0. sock \in [Sockets -> SocketStates] /\ startupSock \in {0} \cup Sockets
  BY DEF TypeInv, TypeOK
<1>1. CASE StartupCheck
  BY <1>1 DEF StartupCheck
<1>2. CASE StartupConnectOk
  BY <1>0, <1>2 DEF StartupConnectOk, OpenSocket
<1>3. CASE StartupConnectErr
  BY <1>3 DEF StartupConnectErr
<1>4. CASE StartupSendConnected
  BY <1>0, <1>4 DEF StartupSendConnected, ShutDown
<1>5. CASE StartupSendFailed
  BY <1>5 DEF StartupSendFailed
<1>6. CASE StartupWait
  BY <1>6 DEF StartupWait
<1> HIDE DEF Ownership
<1>7. QED
  BY <1>1, <1>2, <1>3, <1>4, <1>5, <1>6 DEF Startup

LEMMA OwnershipDisconnect ==
    ASSUME TypeInv, Ownership, disconnect,
           UNCHANGED <<startupVars, reconnectorPc, fresh>>
    PROVE  /\ connection' = Disconnected
           /\ \A g \in Sockets : Usable(g)' => Owned(g)'
           /\ sock' \in [Sockets -> SocketStates]
  BY DEF TypeInv, TypeOK, Ownership, Owned, Usable, disconnect, ShutDown, startupVars,
         SocketStates, Disconnected

LEMMA OwnershipWriter == TypeInv /\ Ownership /\ Writer => Ownership'
<1> SUFFICES ASSUME TypeInv, Ownership, Writer PROVE Ownership'
  OBVIOUS
<1> USE DEF Ownership, Owned, Usable, DropPcs, WriterUnchanged, mainVars, startupVars,
            reconnectorVars
<1>1. CASE WriterRecv
  BY <1>1 DEF WriterRecv
<1>2. CASE WriterClone
  BY <1>2 DEF WriterClone
<1>3. CASE WriterWriteOk
  BY <1>3 DEF WriterWriteOk
<1>4. CASE WriterWriteErr
  BY <1>4 DEF WriterWriteErr
<1>5. CASE WriterFail
  <2>1. CASE connection = writerStream
    BY <1>5, <2>1, OwnershipDisconnect DEF WriterFail, disconnect_if_current, disconnect
  <2>2. CASE connection # writerStream
    BY <1>5, <2>2 DEF WriterFail, disconnect_if_current
  <2>3. QED
    BY <2>1, <2>2
<1> HIDE DEF Ownership
<1>6. QED
  BY <1>1, <1>2, <1>3, <1>4, <1>5 DEF Writer

LEMMA OwnershipReconnector == TypeInv /\ Ownership /\ Reconnector => Ownership'
<1> SUFFICES ASSUME TypeInv, Ownership, Reconnector PROVE Ownership'
  OBVIOUS
<1> USE DEF Ownership, Owned, Usable, DropPcs, ReconnectorUnchanged, mainVars, startupVars,
            writerVars, netVars
<1>0. /\ sock \in [Sockets -> SocketStates]
      /\ reader \in [Sockets -> {"none", "reading", "done"}]
      /\ \A m \in fresh : m.token \in Sockets
      /\ connection \in {Disconnected} \cup Sockets
      /\ Disconnected \notin Sockets
  BY TransportAssumption DEF TypeInv, TypeOK, Message, Sockets, Disconnected
<1>1. CASE ReconnectorRecv
  BY <1>1 DEF ReconnectorRecv
<1>2. CASE ReconnectorJoin
  <2>1. \A g \in Sockets : reader[g] # "reading"
    BY <1>0, <1>2 DEF ReconnectorJoin, Disconnected
  <2>2. QED
    BY <1>2, <2>1 DEF ReconnectorJoin
<1>3. CASE ReconnectorClear
  <2>1. /\ connection' = Disconnected
        /\ \A g \in Sockets : Usable(g)' => Owned(g)'
    <3>1. \A g \in Sockets : Usable(g) => Owned(g)
      OBVIOUS
    <3>2. connection' = Disconnected /\ reconnectorPc = "clear"
      BY <1>3 DEF ReconnectorClear, disconnect
    <3>3. \A g \in Sockets : Usable(g)' => Usable(g) /\ g # connection
      <4>1. CASE connection = Disconnected
        BY <1>0, <1>3, <4>1 DEF ReconnectorClear, disconnect
      <4>2. CASE connection # Disconnected
        BY <1>0, <1>3, <4>2 DEF ReconnectorClear, disconnect, ShutDown
      <4>3. QED
        BY <4>1, <4>2
    <3>4. UNCHANGED <<startupVars, fresh>>
      BY <1>3 DEF ReconnectorClear
    <3>5. QED
      BY <3>1, <3>2, <3>3, <3>4
  <2>2. UNCHANGED <<mainPc, startupVars, writerVars, reader, fresh, stopping>>
        /\ reconnectorPc = "clear" /\ reconnectorPc' = "connect"
    BY <1>3 DEF ReconnectorClear
  <2>3. QED
    BY <2>1, <2>2
<1>4. CASE ReconnectorStops
  BY <1>4 DEF ReconnectorStops
<1>5. CASE ReconnectorConnect
  BY <1>0, <1>5 DEF ReconnectorConnect, OpenSocket, Hello
<1>7. CASE ReconnectorHelloOk
  BY <1>7 DEF ReconnectorHelloOk
<1>8. CASE ReconnectorHelloErr
  BY <1>0, <1>8 DEF ReconnectorHelloErr, ShutDown
<1>9. CASE ReconnectorInstall
  <2>1. PICK hello \in fresh :
          IF stopping
          THEN /\ sock' = ShutDown(hello.token)
               /\ reconnectorPc' = "exited"
               /\ fresh' = {}
               /\ UNCHANGED connection
          ELSE /\ reconnect(hello.token)
               /\ reconnectorPc' = "spawn"
               /\ UNCHANGED fresh
    BY <1>9 DEF ReconnectorInstall
  <2>2. UNCHANGED <<mainPc, startupVars, writerVars, reader, stopping>>
        /\ reconnectorPc = "install"
    BY <1>9 DEF ReconnectorInstall
  <2>3. CASE stopping
    <3>1. \A g \in Sockets : Usable(g)' => Usable(g) /\ g # hello.token
      BY <1>0, <2>1, <2>3 DEF ShutDown
    <3>2. QED
      BY <2>1, <2>2, <2>3, <3>1
  <2>4. CASE ~stopping
    <3>1. connection' = hello.token /\ reconnectorPc' = "spawn" /\ fresh' = fresh
      BY <2>1, <2>4 DEF reconnect
    <3>2. \A g \in Sockets : Usable(g)' => Usable(g) /\ g # connection
      <4>1. CASE connection = Disconnected
        BY <1>0, <2>1, <2>4, <4>1 DEF reconnect
      <4>2. CASE connection # Disconnected
        BY <1>0, <2>1, <2>4, <4>2 DEF reconnect, ShutDown
      <4>3. QED
        BY <4>1, <4>2
    <3>3. QED
      BY <2>1, <2>2, <2>4, <3>1, <3>2
  <2>5. QED
    BY <2>3, <2>4
<1>10. CASE ReconnectorSpawnReader
  BY <1>0, <1>10 DEF ReconnectorSpawnReader
<1> HIDE DEF Ownership
<1>11. QED
  BY <1>1, <1>2, <1>3, <1>4, <1>5, <1>7, <1>8, <1>9, <1>10 DEF Reconnector

LEMMA OwnershipPromote ==
    ASSUME TypeInv, Ownership, promote_startup, mainPc \notin DropPcs, mainPc' \notin DropPcs
    PROVE  Ownership'
<1> USE DEF Ownership, Owned, Usable, DropPcs, viewVars, startupVars
<1>0. /\ sock \in [Sockets -> SocketStates]
      /\ reader \in [Sockets -> {"none", "reading", "done"}]
      /\ startupChannel = "connected" => startupSock \in Sockets
      /\ Disconnected \notin Sockets
  BY TransportAssumption DEF TypeInv, TypeOK, HandsAreFull, Sockets, Disconnected
<1>1. CASE PromoteNothing
  BY <1>1 DEF promote_startup, PromoteNothing
<1>2. CASE PromoteFailed
  BY <1>2 DEF promote_startup, PromoteFailed
<1>3. CASE PromoteConnected
  BY <1>0, <1>3 DEF promote_startup, PromoteConnected
<1>4. CASE PromoteFromStreamErr
  <2>1. \A g \in Sockets : Usable(g)' => Usable(g) /\ g # startupSock
    BY <1>0, <1>4 DEF PromoteFromStreamErr, ShutDown
  <2>2. /\ UNCHANGED <<connection, startupPc, startupSock, writerPc, reconnectorPc,
                       activeReader, reader, fresh, stopping>>
        /\ startupChannel' = "empty" /\ ~startupRx'
    BY <1>4 DEF promote_startup, PromoteFromStreamErr
  <2>3. QED
    BY <2>1, <2>2
<1> HIDE DEF Ownership
<1>5. QED
  BY <1>1, <1>2, <1>3, <1>4 DEF promote_startup

LEMMA OwnershipMain == TypeInv /\ Ownership /\ Main => Ownership'
<1> SUFFICES ASSUME TypeInv, Ownership, Main PROVE Ownership'
  OBVIOUS
<1>0. /\ sock \in [Sockets -> SocketStates]
      /\ startupChannel = "connected" => startupSock \in Sockets
  BY DEF TypeInv, TypeOK, HandsAreFull
<1>1. CASE PollPromote
  BY <1>1, OwnershipPromote DEF PollPromote, DropPcs
<1>2. CASE PointerPromote
  BY <1>2, OwnershipPromote DEF PointerPromote, DropPcs
<1>3. CASE ResizePromote
  BY <1>3, OwnershipPromote DEF ResizePromote, DropPcs
<1> USE DEF Ownership, Owned, Usable, DropPcs, MainUnchanged, DropUnchanged, viewVars,
            queueVars, writerVars, reconnectorVars
<1>4. CASE PollTake
  BY <1>4 DEF PollTake
<1>5. CASE PointerToken
  BY <1>5 DEF PointerToken
<1>6. CASE PointerSend
  BY <1>6 DEF PointerSend
<1>7. ASSUME NEW v \in Viewports, ResizeRetain(v) PROVE Ownership'
  BY <1>7 DEF ResizeRetain
<1>8. CASE ResizeMailbox
  BY <1>8 DEF ResizeMailbox
<1>9. CASE ResizeToken
  BY <1>9 DEF ResizeToken
<1>10. CASE ResizeSend
  BY <1>10 DEF ResizeSend
<1>11. CASE ResizeDisconnect
  <2>1. connection' = Disconnected /\ \A g \in Sockets : Usable(g)' => Owned(g)'
    BY <1>11, OwnershipDisconnect DEF ResizeDisconnect, startupVars
  <2>2. QED
    BY <1>11, <2>1 DEF ResizeDisconnect
<1>12. CASE DropStop
  BY <1>12 DEF DropStop
<1>13. CASE DropStartup
  <2>1. \A g \in Sockets :
          Usable(g)' => Usable(g) /\ ~(startupChannel = "connected" /\ g = startupSock)
    BY <1>0, <1>13 DEF DropStartup, ShutDown
  <2>2. QED
    BY <1>13, <2>1 DEF DropStartup
<1>14. CASE DropDisconnect
  <2>1. connection' = Disconnected /\ \A g \in Sockets : Usable(g)' => Owned(g)'
    BY <1>14, OwnershipDisconnect DEF DropDisconnect, startupVars
  <2>2. QED
    BY <1>14, <2>1 DEF DropDisconnect
<1>15. CASE DropWake
  BY <1>15 DEF DropWake
<1>16. CASE DropQueue
  BY <1>16 DEF DropQueue
<1>17. CASE DropJoinWriter
  BY <1>17 DEF DropJoinWriter
<1>18. CASE DropJoinReconnector
  BY <1>18 DEF DropJoinReconnector
<1> HIDE DEF Ownership
<1>19. QED
  BY <1>1, <1>2, <1>3, <1>4, <1>5, <1>6, <1>7, <1>8, <1>9, <1>10, <1>11, <1>12, <1>13,
     <1>14, <1>15, <1>16, <1>17, <1>18 DEF Main, MainContinues, Drop

LEMMA OwnershipNext == TypeInv /\ Ownership /\ [Next]_vars => Ownership'
<1> SUFFICES ASSUME TypeInv, Ownership, [Next]_vars PROVE Ownership'
  OBVIOUS
<1>1. ASSUME NEW g \in Sockets,
             PeerCloses(g) \/ ReaderStops(g) \/ \E v \in FrameViewports : ReaderFrame(g, v)
      PROVE  Ownership'
  <2>0. /\ sock \in [Sockets -> SocketStates]
        /\ reader \in [Sockets -> {"none", "reading", "done"}]
    BY DEF TypeInv, TypeOK
  <2> USE DEF Ownership, Owned, Usable, DropPcs, mainVars, startupVars, writerVars,
              reconnectorVars, netVars
  <2>1. CASE PeerCloses(g)
    BY <2>0, <2>1 DEF PeerCloses
  <2>2. CASE ReaderStops(g)
    BY <2>0, <2>2 DEF ReaderStops
  <2>3. ASSUME NEW v \in FrameViewports, ReaderFrame(g, v) PROVE Ownership'
    BY <2>3 DEF ReaderFrame
  <2> HIDE DEF Ownership
  <2>4. QED
    BY <1>1, <2>1, <2>2, <2>3
<1>2. CASE UNCHANGED vars
  BY <1>2 DEF Ownership, Owned, Usable, vars, mainVars, startupVars, writerVars,
              reconnectorVars, netVars
<1>3. QED
  BY <1>1, <1>2, OwnershipStartup, OwnershipWriter, OwnershipReconnector, OwnershipMain
     DEF Next, Terminated, ReaderEof, ReaderError

LEMMA Invariance == Spec => [](TypeInv /\ Ownership)
<1>1. Init => TypeInv /\ Ownership
  BY TypeInit, OwnershipInit
<1>2. TypeInv /\ Ownership /\ [Next]_vars => (TypeInv /\ Ownership)'
  BY TypeNext, OwnershipNext
<1>3. QED
  BY <1>1, <1>2, PTL DEF Spec

\* Once drop has returned no reader runs, the slot is empty and no socket is
\* up but one the startup worker has still to discover nobody wants.
THEOREM DropReleases == Spec => []DropReleasesEverything
<1>1. ASSUME TypeInv, Ownership, mainPc = "dropped"
      PROVE  /\ connection = Disconnected
             /\ \A g \in Sockets : reader[g] # "reading"
             /\ \A g \in Sockets : Usable(g) => g = startupSock /\ startupPc = "send_connected"
  <2>1. connection = Disconnected /\ reconnectorPc \in {"none", "exited"} /\ ~startupRx
    BY <1>1 DEF Ownership, DropPcs
  <2>2. Disconnected \notin Sockets
    BY DEF Disconnected, Sockets
  <2>3. ASSUME NEW g \in Sockets, Usable(g)
        PROVE  g = startupSock /\ startupPc = "send_connected"
    BY <1>1, <2>1, <2>2, <2>3 DEF Ownership, Owned
  <2>4. \A g \in Sockets : reader[g] # "reading"
    BY <1>1, <2>1 DEF Ownership
  <2>5. QED
    BY <2>1, <2>3, <2>4
<1>2. TypeInv /\ Ownership => DropReleasesEverything
  BY <1>1 DEF DropReleasesEverything
<1>3. QED
  BY <1>2, Invariance, PTL

-----------------------------------------------------------------------------
\* Handling a write error reaches no socket but the one written to, whatever
\* the reconnector installed in the meantime.
THEOREM WriteErrorsAreLocal == Spec => WriteErrorsStayLocal
<1> DEFINE Local ==
      writerPc = "fail" /\ writerPc' = "recv" =>
        \A g \in Sockets \ {writerStream} :
           sock'[g] = sock[g] /\ (connection = g => connection' = g)
<1>1. ASSUME TypeInv, Ownership, [Next]_vars, writerPc = "fail", writerPc' = "recv"
      PROVE  WriterFail
  <2>1. writerPc' # writerPc
    BY <1>1
  <2>2. ~promote_startup
    <3>1. ~startupRx
      BY <1>1 DEF Ownership
    <3>2. ~PromoteNothing
      BY <2>1 DEF PromoteNothing
    <3>3. QED
      BY <3>1, <3>2
         DEF promote_startup, PromoteFailed, PromoteConnected, PromoteFromStreamErr
  <2>3. ~Main
    BY <2>1, <2>2
       DEF Main, MainContinues, Drop, PollPromote, PointerPromote, ResizePromote, PollTake,
           PointerToken, PointerSend, ResizeRetain, ResizeMailbox, ResizeToken, ResizeSend,
           ResizeDisconnect, DropStop, DropStartup, DropDisconnect, DropWake, DropQueue,
           DropJoinWriter, DropJoinReconnector, MainUnchanged, DropUnchanged, writerVars
  <2>4. ~Startup
    BY <2>1 DEF Startup, StartupCheck, StartupConnectOk, StartupConnectErr,
                StartupSendConnected, StartupSendFailed, StartupWait, StartupUnchanged,
                writerVars
  <2>5. ~Reconnector
    BY <2>1 DEF Reconnector, ReconnectorRecv, ReconnectorJoin, ReconnectorClear,
                ReconnectorStops, ReconnectorConnect, ReconnectorHelloOk,
                ReconnectorHelloErr, ReconnectorInstall, ReconnectorSpawnReader,
                ReconnectorUnchanged, writerVars
  <2>6. ~UNCHANGED vars
    BY <2>1 DEF vars, writerVars
  <2>7. \A g \in Sockets : ~PeerCloses(g) /\ ~ReaderStops(g)
    BY <2>1 DEF PeerCloses, ReaderStops, writerVars
  <2>8. \A g \in Sockets : \A v \in FrameViewports : ~ReaderFrame(g, v)
    BY <2>1 DEF ReaderFrame, writerVars
  <2>9. Writer
    BY <1>1, <2>3, <2>4, <2>5, <2>6, <2>7, <2>8
       DEF Next, Terminated, ReaderEof, ReaderError
  <2>10. QED
    BY <1>1, <2>9 DEF Writer, WriterRecv, WriterClone, WriterWriteOk, WriterWriteErr
<1>2. ASSUME TypeInv, WriterFail
      PROVE  \A g \in Sockets \ {writerStream} :
               sock'[g] = sock[g] /\ (connection = g => connection' = g)
  <2>1. sock \in [Sockets -> SocketStates] /\ connection \in {Disconnected} \cup Sockets
    BY <1>2 DEF TypeInv, TypeOK
  <2>2. CASE connection = writerStream
    BY <1>2, <2>1, <2>2 DEF WriterFail, disconnect_if_current, disconnect, ShutDown
  <2>3. CASE connection # writerStream
    BY <1>2, <2>3 DEF WriterFail, disconnect_if_current
  <2>4. QED
    BY <2>2, <2>3
<1>3. TypeInv /\ Ownership /\ [Next]_vars => [Local]_vars
  BY <1>1, <1>2
<1>4. QED
  BY <1>3, Invariance, PTL DEF Spec, WriteErrorsStayLocal
-----------------------------------------------------------------------------
(* The mailbox lags remote_viewport only between the two locks of          *)
(* send_viewport_changed, and its frame always fits its own viewport.      *)

MailboxFollows ==
    /\ \A f \in pending : f.viewport = mailboxViewport
    /\ mainPc # "resize_mailbox" => mailboxViewport = remoteViewport

LEMMA MailboxPromote ==
    ASSUME MailboxFollows, mainPc # "resize_mailbox", promote_startup
    PROVE  /\ \A f \in pending' : f.viewport = mailboxViewport'
           /\ mailboxViewport' = remoteViewport'
  BY DEF MailboxFollows, promote_startup, PromoteNothing, PromoteFailed, PromoteConnected,
         PromoteFromStreamErr, set_viewport, viewVars

LEMMA MailboxMain == MailboxFollows /\ Main => MailboxFollows'
<1> SUFFICES ASSUME MailboxFollows, Main PROVE MailboxFollows'
  OBVIOUS
<1>1. CASE PollPromote \/ PointerPromote \/ ResizePromote
  <2>1. promote_startup /\ mainPc # "resize_mailbox"
    BY <1>1 DEF PollPromote, PointerPromote, ResizePromote
  <2>2. QED
    BY <2>1, MailboxPromote DEF MailboxFollows
<1>2. CASE PollTake
  BY <1>2 DEF PollTake, MailboxFollows
<1>3. CASE \E v \in Viewports : ResizeRetain(v)
  BY <1>3 DEF ResizeRetain, MailboxFollows
<1>4. CASE ResizeMailbox
  BY <1>4 DEF ResizeMailbox, set_viewport, MailboxFollows
<1>5. CASE PointerToken \/ PointerSend \/ ResizeToken \/ ResizeSend \/ ResizeDisconnect
  <2>1. UNCHANGED viewVars /\ mainPc # "resize_mailbox"
    BY <1>5 DEF PointerToken, PointerSend, ResizeToken, ResizeSend, ResizeDisconnect
  <2>2. QED
    BY <2>1 DEF MailboxFollows, viewVars
<1>6. CASE DropStop \/ Drop
  <2>1. UNCHANGED viewVars /\ mainPc # "resize_mailbox"
    BY <1>6 DEF DropStop, Drop, DropStartup, DropDisconnect, DropWake, DropQueue,
                DropJoinWriter, DropJoinReconnector, DropUnchanged
  <2>2. QED
    BY <2>1 DEF MailboxFollows, viewVars
<1>7. QED
  BY <1>1, <1>2, <1>3, <1>4, <1>5, <1>6 DEF Main, MainContinues

LEMMA MailboxNext == MailboxFollows /\ [Next]_vars => MailboxFollows'
<1> SUFFICES ASSUME MailboxFollows, [Next]_vars PROVE MailboxFollows'
  OBVIOUS
<1>1. CASE Startup \/ Writer \/ Reconnector
  <2>1. UNCHANGED <<mainVars, viewVars>>
    BY <1>1 DEF Startup, StartupCheck, StartupConnectOk, StartupConnectErr,
                StartupSendConnected, StartupSendFailed, StartupWait, StartupUnchanged,
                Writer, WriterRecv, WriterClone, WriterWriteOk, WriterWriteErr, WriterFail,
                WriterUnchanged, Reconnector, ReconnectorRecv, ReconnectorJoin,
                ReconnectorClear, ReconnectorStops, ReconnectorConnect,
                ReconnectorHelloOk, ReconnectorHelloErr, ReconnectorInstall,
                ReconnectorSpawnReader, ReconnectorUnchanged
  <2>2. QED
    BY <2>1 DEF MailboxFollows, mainVars, viewVars
<1>2. ASSUME NEW g \in Sockets, PeerCloses(g) \/ ReaderStops(g) PROVE MailboxFollows'
  BY <1>2 DEF PeerCloses, ReaderStops, MailboxFollows, mainVars, viewVars
<1>3. ASSUME NEW g \in Sockets, NEW v \in FrameViewports, ReaderFrame(g, v)
      PROVE  MailboxFollows'
  BY <1>3 DEF ReaderFrame, publish, MailboxFollows, mainVars
<1>4. CASE UNCHANGED vars
  BY <1>4 DEF vars, mainVars, viewVars, MailboxFollows
<1>5. QED
  BY <1>1, <1>2, <1>3, <1>4, MailboxMain DEF Next, Terminated, ReaderEof, ReaderError

\* Whatever the event loop takes from the mailbox has the dimensions it
\* retained last, however a resize interleaves with the reader threads.
THEOREM PendingFits == Spec => []PendingFrameFits
<1>1. Init => MailboxFollows
  BY DEF Init, MailboxFollows
<1>2. MailboxFollows => PendingFrameFits
  BY DEF MailboxFollows, PendingFrameFits
<1>3. QED
  BY <1>1, <1>2, MailboxNext, PTL DEF Spec

-----------------------------------------------------------------------------
(* What the peer of a socket will know when it reads a pointer.  A message *)
(* goes from the queue through the writer's hand to the wire, so what is   *)
(* said of the wire is proved of the whole Way of a socket that can still  *)
(* be written to.  A socket is Covered once its geometry is promised to be *)
(* kept up: from the start on the one made at startup, else from the first *)
(* ViewportChanged on.                                                     *)

Announces(g, m) == m.token = g /\ m.kind \in {"hello", "viewport"}

\* Before position i of s the last announcement to g was v.
Known(g, s, i, v) ==
    \E j \in 1 .. i - 1 :
        /\ Announces(g, s[j]) /\ s[j].viewport = v
        /\ \A k \in j + 1 .. i - 1 : ~Announces(g, s[k])

Covered(first, g, s, i) ==
    first \/ \E j \in 1 .. i - 1 : s[j].token = g /\ s[j].kind = "viewport"

IsPointer(g, m) == m.token = g /\ m.kind = "pointer"

Fits(first, g, s) ==
    \A i \in DOMAIN s :
        IsPointer(g, s[i]) /\ Covered(first, g, s, i) => Known(g, s, i, s[i].viewport)

Hand == IF held = {} THEN <<>> ELSE <<CHOOSE m \in held : TRUE>>

Way(g) == wire[g] \o (Hand \o outbound)
End(g) == Len(Way(g)) + 1

Changing == {"resize_mailbox", "resize_promote", "resize_token", "resize_send",
             "resize_disconnect"}

Unknown(g) ==
    /\ connection # g /\ writerStream # g /\ mainToken # g
    /\ \A m \in held : m.token # g
    /\ \A i \in DOMAIN outbound : outbound[i].token # g


References ==
    /\ startupSock <= opened
    /\ \A g \in Sockets : \A i \in DOMAIN wire[g] : wire[g][i].token = g
    /\ \A g \in Sockets : g > opened => wire[g] = <<>> /\ Unknown(g)
    /\ writerPc = "none" =>
         outbound = <<>> /\ mainToken = Disconnected /\ reconnectorPc = "none"
    /\ held = {} <=> writerPc \notin {"clone", "write"}
    /\ \A m, n \in held : m = n
    /\ writerPc = "write" => \A m \in held : m.token = writerStream
    /\ writerPc \notin {"write", "fail"} => writerStream = Disconnected
    /\ mainPc \notin {"pointer_send", "resize_send"} => mainToken = Disconnected
    /\ \A m \in fresh :
         /\ m = Hello(m.token, m.viewport) /\ m.token <= opened
         /\ reconnectorPc \in {"hello", "install"} =>
              Unknown(m.token) /\ m.token # startupSock
         /\ reconnectorPc = "hello" => wire[m.token] = <<>>
         /\ reconnectorPc = "install" => wire[m.token] = <<m>>

Streams(g) ==
    LET first == g = startupSock IN
    /\ Fits(first, g, wire[g])
    /\ writerPc = "write" /\ writerStream = g => Fits(first, g, wire[g] \o Hand)
    /\ Writable(g) =>
         /\ Fits(first, g, Way(g))
         /\ mainPc \notin Changing /\ Covered(first, g, Way(g), End(g)) =>
              Known(g, Way(g), End(g), remoteViewport)
         /\ mainPc = "resize_send" /\ mainToken # g => ~Covered(first, g, Way(g), End(g))

AllStreams == \A g \in Sockets : Streams(g)

LEMMA Appended ==
    ASSUME NEW s \in Seq(Message), NEW m \in Message
    PROVE  /\ DOMAIN s = 1 .. Len(s) /\ Len(s) \in Nat
           /\ Append(s, m) \in Seq(Message) /\ Len(Append(s, m)) = Len(s) + 1
           /\ DOMAIN Append(s, m) = 1 .. Len(s) + 1
           /\ \A i \in 1 .. Len(s) : Append(s, m)[i] = s[i]
           /\ Append(s, m)[Len(s) + 1] = m
  OBVIOUS

LEMMA Joined ==
    ASSUME NEW s \in Seq(Message), NEW t \in Seq(Message)
    PROVE  /\ DOMAIN s = 1 .. Len(s) /\ Len(s) \in Nat
           /\ DOMAIN t = 1 .. Len(t) /\ Len(t) \in Nat
           /\ s \o t \in Seq(Message) /\ Len(s \o t) = Len(s) + Len(t)
           /\ DOMAIN (s \o t) = 1 .. Len(s) + Len(t)
           /\ \A i \in 1 .. Len(s) : (s \o t)[i] = s[i]
           /\ \A i \in 1 .. Len(t) : (s \o t)[Len(s) + i] = t[i]
  OBVIOUS

LEMMA EachJoined ==
    ASSUME NEW s \in Seq(Message), NEW t \in Seq(Message)
    PROVE  \A i \in DOMAIN (s \o t) : \/ \E j \in DOMAIN s : (s \o t)[i] = s[j]
                                   \/ \E j \in DOMAIN t : (s \o t)[i] = t[j]
<1>1. SUFFICES ASSUME NEW i \in 1 .. Len(s) + Len(t)
               PROVE  \/ \E j \in DOMAIN s : (s \o t)[i] = s[j]
                      \/ \E j \in DOMAIN t : (s \o t)[i] = t[j]
  BY Joined
<1>2. CASE i <= Len(s)
  <2>1. i \in DOMAIN s /\ (s \o t)[i] = s[i]
    BY <1>2, Joined
  <2>. QED
    BY <2>1
<1>3. CASE i > Len(s)
  <2>1. i - Len(s) \in DOMAIN t /\ (s \o t)[i] = t[i - Len(s)]
    BY <1>3
  <2>. QED
    BY <2>1
<1>. QED
  BY <1>2, <1>3, Joined

LEMMA JoinAppended ==
    ASSUME NEW s \in Seq(Message), NEW t \in Seq(Message), NEW m \in Message
    PROVE  /\ s \o Append(t, m) = Append(s \o t, m)
           /\ s \o (<<m>> \o t) = Append(s, m) \o t
           /\ s \o <<m>> = Append(s, m)
           /\ <<>> \o t = t /\ s \o <<>> = s
  OBVIOUS

\* What is before i is all that matters.
LEMMA Before ==
    ASSUME NEW g, NEW first, NEW s, NEW t, NEW i \in Nat,
           \A j \in 1 .. i - 1 : s[j] = t[j]
    PROVE  /\ Covered(first, g, s, i) <=> Covered(first, g, t, i)
           /\ \A v : Known(g, s, i, v) <=> Known(g, t, i, v)
<1>1. Covered(first, g, s, i) <=> Covered(first, g, t, i)
  BY DEF Covered
<1>2. ASSUME NEW v PROVE Known(g, s, i, v) <=> Known(g, t, i, v)
  BY DEF Known
<1>. QED
  BY <1>1, <1>2

LEMMA PrefixFits ==
    ASSUME NEW g, NEW first, NEW s \in Seq(Message), NEW t \in Seq(Message),
           Fits(first, g, s \o t)
    PROVE  Fits(first, g, s)
<1>1. SUFFICES ASSUME NEW i \in DOMAIN s, IsPointer(g, s[i]), Covered(first, g, s, i)
               PROVE  Known(g, s, i, s[i].viewport)
  BY DEF Fits
<1>2. i \in DOMAIN (s \o t) /\ (s \o t)[i] = s[i] /\ i \in Nat
      /\ \A j \in 1 .. i - 1 : (s \o t)[j] = s[j]
  BY <1>1, Joined
<1>. QED
  BY <1>1, <1>2, Before DEF Fits

\* A message sent after s.
LEMMA Sent ==
    ASSUME NEW g, NEW first, NEW s \in Seq(Message), NEW m \in Message
    PROVE  /\ Fits(first, g, s)
              /\ (IsPointer(g, m) /\ Covered(first, g, s, Len(s) + 1)
                    => Known(g, s, Len(s) + 1, m.viewport))
              => Fits(first, g, Append(s, m))
           /\ Covered(first, g, Append(s, m), Len(s) + 2) =>
                 Covered(first, g, s, Len(s) + 1) \/ (m.token = g /\ m.kind = "viewport")
           /\ Announces(g, m) => Known(g, Append(s, m), Len(s) + 2, m.viewport)
           /\ \A v : ~Announces(g, m) /\ Known(g, s, Len(s) + 1, v)
                        => Known(g, Append(s, m), Len(s) + 2, v)
<1>. DEFINE u == Append(s, m)
<1>1. /\ DOMAIN s = 1 .. Len(s) /\ Len(s) \in Nat /\ DOMAIN u = 1 .. Len(s) + 1
      /\ \A i \in 1 .. Len(s) : u[i] = s[i]
      /\ u[Len(s) + 1] = m
  BY Appended
<1>. HIDE DEF u
<1>2. \A i \in 1 .. Len(s) + 1 :
         /\ Covered(first, g, u, i) <=> Covered(first, g, s, i)
         /\ \A v : Known(g, u, i, v) <=> Known(g, s, i, v)
  <2>1. SUFFICES ASSUME NEW i \in 1 .. Len(s) + 1
                 PROVE  \A j \in 1 .. i - 1 : u[j] = s[j]
    BY <1>1, Before
  <2>. QED
    BY <1>1
<1>3. ASSUME Fits(first, g, s),
             IsPointer(g, m) /\ Covered(first, g, s, Len(s) + 1)
                => Known(g, s, Len(s) + 1, m.viewport)
      PROVE  Fits(first, g, u)
  <2>1. SUFFICES ASSUME NEW i \in 1 .. Len(s) + 1, IsPointer(g, u[i]), Covered(first, g, u, i)
                 PROVE  Known(g, u, i, u[i].viewport)
    BY <1>1 DEF Fits
  <2>2. CASE i \in 1 .. Len(s)
    BY <1>1, <1>2, <1>3, <2>1, <2>2 DEF Fits
  <2>3. CASE i = Len(s) + 1
    BY <1>1, <1>2, <1>3, <2>1, <2>3
  <2>. QED
    BY <1>1, <2>2, <2>3
<1>4. Covered(first, g, u, Len(s) + 2) =>
         Covered(first, g, s, Len(s) + 1) \/ (m.token = g /\ m.kind = "viewport")
  BY <1>1 DEF Covered
<1>5. Announces(g, m) => Known(g, u, Len(s) + 2, m.viewport)
  BY <1>1 DEF Known
<1>6. ASSUME NEW v, ~Announces(g, m), Known(g, s, Len(s) + 1, v)
      PROVE  Known(g, u, Len(s) + 2, v)
  <2>1. PICK j \in 1 .. Len(s) :
           /\ Announces(g, s[j]) /\ s[j].viewport = v
           /\ \A k \in j + 1 .. Len(s) : ~Announces(g, s[k])
    BY <1>1, <1>6 DEF Known
  <2>2. /\ j \in 1 .. Len(s) + 1 /\ u[j] = s[j]
        /\ \A k \in j + 1 .. Len(s) + 1 : ~Announces(g, u[k])
    BY <1>1, <1>6, <2>1
  <2>. QED
    BY <1>1, <2>1, <2>2 DEF Known
<1>. QED
  BY <1>3, <1>4, <1>5, <1>6 DEF u

\* A message to another socket that is left out.
LEMMA LeftOut ==
    ASSUME NEW g, NEW first, NEW s \in Seq(Message), NEW t \in Seq(Message),
           NEW m \in Message, m.token # g
    PROVE  /\ Fits(first, g, s \o (<<m>> \o t)) => Fits(first, g, s \o t)
           /\ Covered(first, g, s \o t, Len(s \o t) + 1) =>
                 Covered(first, g, s \o (<<m>> \o t), Len(s \o (<<m>> \o t)) + 1)
           /\ \A v : Known(g, s \o (<<m>> \o t), Len(s \o (<<m>> \o t)) + 1, v) =>
                 Known(g, s \o t, Len(s \o t) + 1, v)
<1>. DEFINE u == s \o (<<m>> \o t)
            w == s \o t
            n == Len(s)
            at(i) == IF i <= n THEN i ELSE i + 1
<1>1. <<m>> \in Seq(Message) /\ Len(<<m>>) = 1 /\ <<m>>[1] = m
  OBVIOUS
<1>2. /\ n \in Nat /\ Len(t) \in Nat /\ Len(u) = n + Len(t) + 1 /\ Len(w) = n + Len(t)
      /\ DOMAIN u = 1 .. Len(u) /\ DOMAIN w = 1 .. Len(w)
      /\ u[n + 1] = m
      /\ \A i \in 1 .. n : u[i] = s[i] /\ w[i] = s[i]
      /\ \A i \in 1 .. Len(t) : u[n + 1 + i] = t[i] /\ w[n + i] = t[i]
  <2>. DEFINE r == <<m>> \o t
  <2>1. /\ r \in Seq(Message) /\ Len(r) = 1 + Len(t) /\ r[1] = m
        /\ \A i \in 1 .. Len(t) : r[1 + i] = t[i]
    BY <1>1, Joined
  <2>. HIDE DEF r
  <2>2. /\ Len(t) \in Nat /\ n \in Nat
        /\ Len(w) = n + Len(t) /\ DOMAIN w = 1 .. Len(w)
        /\ \A i \in 1 .. n : w[i] = s[i]
        /\ \A i \in 1 .. Len(t) : w[n + i] = t[i]
    BY Joined
  <2>3. /\ Len(s \o r) = n + Len(r) /\ DOMAIN (s \o r) = 1 .. Len(s \o r)
        /\ \A i \in 1 .. n : (s \o r)[i] = s[i]
        /\ \A i \in 1 .. Len(r) : (s \o r)[n + i] = r[i]
    BY <2>1, Joined
  <2>4. u = s \o r
    BY DEF r
  <2>. HIDE DEF u, w, n
  <2>5. \A i \in 1 .. Len(t) : 1 + i \in 1 .. Len(r) /\ n + (1 + i) = n + 1 + i
    BY <2>1, <2>2
  <2>. QED
    BY <2>1, <2>2, <2>3, <2>4, <2>5
<1>. HIDE DEF u, w, n
<1>3. \A i \in 1 .. Len(w) : at(i) \in 1 .. Len(u) /\ u[at(i)] = w[i] /\ at(i) # n + 1
  <2>1. SUFFICES ASSUME NEW i \in 1 .. Len(w)
                 PROVE  at(i) \in 1 .. Len(u) /\ u[at(i)] = w[i] /\ at(i) # n + 1
    OBVIOUS
  <2>2. CASE i <= n
    BY <1>2, <2>2
  <2>3. CASE i > n
    <3>1. i - n \in 1 .. Len(t) /\ n + 1 + (i - n) = i + 1 /\ n + (i - n) = i
      BY <1>2, <2>3
    <3>2. u[n + 1 + (i - n)] = t[i - n] /\ w[n + (i - n)] = t[i - n]
      BY <1>2, <3>1
    <3>3. u[i + 1] = w[i] /\ at(i) = i + 1
      BY <1>2, <2>3, <3>1, <3>2
    <3>. QED
      BY <1>2, <2>3, <3>3
  <2>. QED
    BY <1>2, <2>2, <2>3
<1>4. \A i \in 1 .. Len(u) : i # n + 1 => \E j \in 1 .. Len(w) : at(j) = i
  <2>1. SUFFICES ASSUME NEW i \in 1 .. Len(u), i # n + 1
                 PROVE  \E j \in 1 .. Len(w) : at(j) = i
    OBVIOUS
  <2>2. CASE i <= n
    <3>1. i \in 1 .. Len(w) /\ at(i) = i
      BY <1>2, <2>2
    <3>. QED
      BY <3>1
  <2>3. CASE i > n + 1
    <3>1. i - 1 \in 1 .. Len(w) /\ at(i - 1) = i
      BY <1>2, <2>3
    <3>. QED
      BY <3>1
  <2>. QED
    BY <1>2, <2>1, <2>2, <2>3
<1>5. \A i \in 1 .. Len(w) + 1 : at(i) \in Nat /\ 1 <= at(i) /\ at(i) <= Len(u) + 1
  BY <1>2
<1>6. \A i \in 1 .. Len(w) + 1 : \A j \in 1 .. Len(w) + 1 : i < j <=> at(i) < at(j)
  BY <1>2
<1>. HIDE DEF at
<1>7. \A i \in 1 .. Len(w) + 1 : Covered(first, g, w, i) => Covered(first, g, u, at(i))
  <2>1. SUFFICES ASSUME NEW i \in 1 .. Len(w) + 1, ~first, NEW j \in 1 .. i - 1,
                        w[j].token = g /\ w[j].kind = "viewport"
                 PROVE  \E k \in 1 .. at(i) - 1 : u[k].token = g /\ u[k].kind = "viewport"
    BY DEF Covered
  <2>2. j \in 1 .. Len(w) /\ j \in 1 .. Len(w) + 1 /\ j < i
    BY <1>2
  <2>3. at(j) \in 1 .. at(i) - 1
    BY <1>5, <1>6, <2>2
  <2>. QED
    BY <1>3, <2>1, <2>2, <2>3
<1>8. \A i \in 1 .. Len(w) + 1 : \A v : Known(g, u, at(i), v) => Known(g, w, i, v)
  <2>1. SUFFICES ASSUME NEW i \in 1 .. Len(w) + 1, NEW v, NEW j \in 1 .. at(i) - 1,
                        Announces(g, u[j]) /\ u[j].viewport = v,
                        \A k \in j + 1 .. at(i) - 1 : ~Announces(g, u[k])
                 PROVE  Known(g, w, i, v)
    BY DEF Known
  <2>2. j # n + 1 /\ j \in 1 .. Len(u)
    <3>1. at(i) \in Nat /\ at(i) <= Len(u) + 1
      BY <1>5
    <3>. QED
      BY <1>2, <2>1, <3>1 DEF Announces
  <2>3. PICK p \in 1 .. Len(w) : at(p) = j
    BY <1>4, <2>2
  <2>4. p \in 1 .. i - 1
    <3>1. p \in 1 .. Len(w) + 1 /\ at(p) < at(i)
      BY <1>2, <1>5, <2>3
    <3>2. p < i
      BY <1>6, <3>1
    <3>. QED
      BY <1>2, <3>2
  <2>5. Announces(g, w[p]) /\ w[p].viewport = v
    BY <1>3, <2>1, <2>3
  <2>6. ASSUME NEW k \in p + 1 .. i - 1 PROVE ~Announces(g, w[k])
    <3>1. /\ k \in 1 .. Len(w) /\ k \in 1 .. Len(w) + 1 /\ p \in 1 .. Len(w) + 1
          /\ p < k /\ k < i
      BY <1>2, <2>4
    <3>2. j < at(k) /\ at(k) < at(i)
      BY <1>6, <2>3, <3>1
    <3>3. at(k) \in j + 1 .. at(i) - 1
      BY <1>5, <2>3, <3>1, <3>2
    <3>. QED
      BY <1>3, <2>1, <3>1, <3>3
  <2>. QED
    BY <2>4, <2>5, <2>6 DEF Known
<1>9. Fits(first, g, u) => Fits(first, g, w)
  <2>1. SUFFICES ASSUME Fits(first, g, u), NEW i \in 1 .. Len(w),
                        IsPointer(g, w[i]), Covered(first, g, w, i)
                 PROVE  Known(g, w, i, w[i].viewport)
    BY <1>2 DEF Fits
  <2>2. at(i) \in 1 .. Len(u) /\ u[at(i)] = w[i] /\ i \in 1 .. Len(w) + 1
    BY <1>2, <1>3
  <2>3. Covered(first, g, u, at(i))
    BY <1>7, <2>1, <2>2
  <2>4. Known(g, u, at(i), w[i].viewport)
    BY <1>2, <2>1, <2>2, <2>3 DEF Fits
  <2>. QED
    BY <1>8, <2>2, <2>4
<1>10. at(Len(w) + 1) = Len(u) + 1
  BY <1>2 DEF at
<1>11. Len(w) + 1 \in 1 .. Len(w) + 1
  BY <1>2
<1>. QED
  BY <1>7, <1>8, <1>9, <1>10, <1>11 DEF u, w

LEMMA HandHolds ==
    ASSUME TypeOK, \A m, n \in held : m = n
    PROVE  /\ Hand \in Seq(Message)
           /\ held = {} => Hand = <<>>
           /\ \A m \in held : m \in Message /\ held = {m} /\ Hand = <<m>>
  BY DEF Hand, TypeOK

LEMMA ReferencesInit == Init => References
  BY TransportAssumption DEF Init, References, Unknown, Sockets, Disconnected

LEMMA ReferencesStartup == TypeInv /\ References /\ Startup => References'
<1> SUFFICES ASSUME TypeInv, References, Startup PROVE References'
  OBVIOUS
<1> USE DEF References, Unknown, StartupUnchanged, mainVars, viewVars, queueVars, writerVars,
            reconnectorVars
<1>0. opened \in Nat /\ startupSock \in Nat /\ \A m \in fresh : m.token \in Nat
  BY TransportAssumption DEF TypeInv, TypeOK, Message, Sockets
<1>1. CASE StartupCheck
  BY <1>1 DEF StartupCheck
<1>2. CASE StartupConnectOk
  <2>1. startupSock' = opened + 1 /\ opened' = opened + 1
    BY <1>2 DEF StartupConnectOk, OpenSocket
  <2>2. \A m \in fresh : m.token # opened + 1
    BY <1>0
  <2>3. \A g \in Sockets : g > opened + 1 => g > opened
    BY <1>0 DEF Sockets
  <2>4. UNCHANGED <<wire, connection, mainVars, queueVars, writerVars, reconnectorVars>>
    BY <1>2 DEF StartupConnectOk
  <2>5. \A g : Unknown(g)' <=> Unknown(g)
    BY <2>4
  <2>. HIDE DEF Unknown
  <2>6. startupSock' <= opened' /\ \A m \in fresh : m.token <= opened'
    BY <1>0, <2>1
  <2>. QED
    BY <2>1, <2>2, <2>3, <2>4, <2>5, <2>6
<1>3. CASE StartupConnectErr
  BY <1>3 DEF StartupConnectErr
<1>4. CASE StartupSendConnected
  BY <1>4 DEF StartupSendConnected
<1>5. CASE StartupSendFailed
  BY <1>5 DEF StartupSendFailed
<1>6. CASE StartupWait
  BY <1>6 DEF StartupWait
<1> HIDE DEF References
<1>7. QED
  BY <1>1, <1>2, <1>3, <1>4, <1>5, <1>6 DEF Startup

LEMMA ReferencesWriter == TypeInv /\ References /\ Writer => References'
<1> SUFFICES ASSUME TypeInv, References, Writer PROVE References'
  OBVIOUS
<1> USE DEF References, Unknown, WriterUnchanged, mainVars, viewVars, startupVars,
            reconnectorVars
<1>0. /\ outbound \in Seq(Message) /\ wire \in [Sockets -> Seq(Message)]
      /\ held \subseteq Message
  BY DEF TypeInv, TypeOK
<1>1. CASE WriterRecv
  <2>1. CASE outbound = <<>>
    BY <1>1, <2>1 DEF WriterRecv
  <2>2. CASE outbound # <<>>
    <3>1. /\ held' = {Head(outbound)} /\ outbound' = Tail(outbound) /\ writerPc' = "clone"
          /\ writerPc = "recv"
          /\ UNCHANGED <<connection, writerStream, wire, mainVars, startupVars,
                         reconnectorVars, opened>>
      BY <1>1, <2>2 DEF WriterRecv
    <3>2. /\ \E i \in DOMAIN outbound : outbound[i] = Head(outbound)
          /\ \A i \in DOMAIN Tail(outbound) :
                i + 1 \in DOMAIN outbound /\ Tail(outbound)[i] = outbound[i + 1]
      BY <1>0, <2>2
    <3>3. \A g : Unknown(g) => Unknown(g)'
      BY <3>1, <3>2
    <3>. HIDE DEF Unknown
    <3>. QED
      BY <3>1, <3>3
  <2>. QED
    BY <2>1, <2>2
<1>2. CASE WriterClone
  <2>1. \A g \in Sockets : Unknown(g) => Unknown(g)'
    BY <1>2 DEF WriterClone, clone_stream_for, Disconnected, Sockets
  <2>2. /\ writerPc' = "write" => held' = held /\ held # {}
        /\ writerPc' = "write" => \A m \in held' : m.token = writerStream'
        /\ writerPc' # "write" => held' = {} /\ writerStream' = Disconnected
        /\ writerPc' \in {"write", "recv", "exited"}
    BY <1>2 DEF WriterClone, clone_stream_for
  <2>3. UNCHANGED <<connection, outbound, wire, mainVars, startupVars, reconnectorVars, opened>>
    BY <1>2 DEF WriterClone
  <2>4. \A m \in fresh : m.token \in Sockets
    BY DEF TypeInv, TypeOK, Message
  <2>5. writerPc = "clone"
    BY <1>2 DEF WriterClone
  <2>. HIDE DEF Unknown
  <2>. QED
    BY <2>1, <2>2, <2>3, <2>4, <2>5
<1>3. ASSUME NEW t \in Message, NEW m \in held, m.token = writerStream, t.token = m.token,
             writerPc = "write",
             wire' = wire \/ wire' = [wire EXCEPT ![writerStream] = Append(@, t)],
             writerPc' \in {"recv", "fail"}, held' = {},
             writerStream' = IF writerPc' = "recv" THEN Disconnected ELSE writerStream,
             UNCHANGED <<connection, outbound, mainVars, startupVars, reconnectorVars, opened>>
      PROVE  References'
  <2>1. \A g \in Sockets : Unknown(g) => Unknown(g)'
    BY <1>3 DEF Disconnected, Sockets
  <2>2. \A g \in Sockets : g # writerStream => wire'[g] = wire[g]
    BY <1>0, <1>3
  <2>3. \A g \in Sockets : Unknown(g) => wire'[g] = wire[g]
    BY <1>3, <2>2
  <2>4. ASSUME NEW g \in Sockets PROVE \A i \in DOMAIN wire'[g] : wire'[g][i].token = g
    <3>1. CASE wire'[g] = wire[g]
      BY <3>1
    <3>2. CASE g = writerStream /\ wire'[g] = Append(wire[g], t)
      <4>1. wire[g] \in Seq(Message)
        BY <1>0
      <4>. QED
        BY <1>3, <3>2, <4>1, Appended
    <3>. QED
      BY <1>0, <1>3, <3>1, <3>2
  <2>5. \A n \in fresh : n.token \in Sockets
    BY DEF TypeInv, TypeOK, Message
  <2>. HIDE DEF Unknown
  <2>. QED
    BY <1>3, <2>1, <2>3, <2>4, <2>5
<1>4. CASE WriterWriteOk
  <2>1. PICK m \in held : wire' = [wire EXCEPT ![writerStream] = Append(@, m)]
    BY <1>4 DEF WriterWriteOk
  <2>. QED
    BY <1>0, <1>3, <1>4, <2>1 DEF WriterWriteOk
<1>5. CASE WriterWriteErr
  <2>1. PICK m \in held : wire' = IF Usable(writerStream)
                  THEN [wire EXCEPT ![writerStream] = Append(@, Torn(m))]
                  ELSE wire
    BY <1>5 DEF WriterWriteErr
  <2>2. Torn(m) \in Message /\ Torn(m).token = m.token
    BY <1>0, TornIsMessage DEF Torn
  <2>. QED
    BY <1>0, <1>3, <1>5, <2>1, <2>2 DEF WriterWriteErr
<1>6. CASE WriterFail
  <2>1. connection' \in {connection, Disconnected}
    BY <1>6 DEF WriterFail, disconnect_if_current, disconnect
  <2>2. \A g \in Sockets : Unknown(g) => Unknown(g)'
    BY <1>6, <2>1 DEF WriterFail, Disconnected, Sockets
  <2>3. \A n \in fresh : n.token \in Sockets
    BY DEF TypeInv, TypeOK, Message
  <2>. HIDE DEF Unknown
  <2>. QED
    BY <1>6, <2>2, <2>3 DEF WriterFail
<1> HIDE DEF References
<1>7. QED
  BY <1>1, <1>2, <1>4, <1>5, <1>6 DEF Writer

LEMMA ReferencesReconnector ==
    TypeInv /\ Ownership /\ References /\ Reconnector => References'
<1> SUFFICES ASSUME TypeInv, Ownership, References, Reconnector PROVE References'
  OBVIOUS
<1> USE DEF References, ReconnectorUnchanged, mainVars, viewVars, queueVars,
            startupVars, writerVars, netVars
<1>0. /\ \A m \in fresh : m \in Message /\ m.token \in Sockets
      /\ wire \in [Sockets -> Seq(Message)] /\ opened \in Nat /\ startupSock \in Nat
      /\ Disconnected \notin Sockets /\ Sockets \subseteq Nat
  <2>1. Disconnected \notin Sockets /\ Sockets \subseteq Nat
    BY DEF Sockets, Disconnected
  <2>2. /\ fresh \subseteq Message /\ \A m \in Message : m.token \in Sockets
        /\ wire \in [Sockets -> Seq(Message)]
    BY DEF TypeInv, TypeOK, Message
  <2>3. opened \in 0 .. MaxConnections /\ startupSock \in {0} \cup Sockets
    BY DEF TypeInv, TypeOK
  <2>4. opened \in Nat
    BY <2>3, TransportAssumption
  <2>. QED
    BY <2>1, <2>2, <2>3, <2>4
<1>9. writerPc # "none"
  BY DEF Reconnector, ReconnectorRecv, ReconnectorJoin, ReconnectorClear, ReconnectorStops,
     ReconnectorConnect, ReconnectorHelloOk, ReconnectorHelloErr, ReconnectorInstall,
     ReconnectorSpawnReader
<1>1. CASE ReconnectorRecv \/ ReconnectorJoin \/ ReconnectorStops
  <2>1. \A g \in Sockets : Unknown(g) => Unknown(g)'
    BY <1>1 DEF Unknown, ReconnectorRecv, ReconnectorJoin, ReconnectorStops
  <2>. QED
    BY <1>0, <1>1, <2>1 DEF ReconnectorRecv, ReconnectorJoin, ReconnectorStops
<1>2. CASE ReconnectorClear
  <2>1. \A g \in Sockets : Unknown(g) => Unknown(g)'
    BY <1>0, <1>2 DEF Unknown, ReconnectorClear, disconnect
  <2>. QED
    BY <1>0, <1>2, <2>1 DEF ReconnectorClear
<1>3. CASE ReconnectorConnect
  <2>1. \A g : Unknown(g) => Unknown(g)'
    BY <1>3 DEF Unknown, ReconnectorConnect
  <2>2. opened + 1 \in Sockets /\ opened' = opened + 1
    BY <1>0, <1>3, TransportAssumption DEF ReconnectorConnect, OpenSocket, Sockets
  <2>3. fresh' = {Hello(opened + 1, remoteViewport)} /\ reconnectorPc' = "hello"
    BY <1>3 DEF ReconnectorConnect
  <2>4. wire[opened + 1] = <<>> /\ Unknown(opened + 1) /\ opened + 1 # startupSock
    BY <1>0, <2>2
  <2>5. \A m \in fresh' : m = Hello(opened + 1, remoteViewport) /\ m.token = opened + 1
          /\ m.viewport = remoteViewport
    BY <2>3 DEF Hello
  <2>6. UNCHANGED <<wire, mainVars, startupVars, writerVars, queueVars>>
    BY <1>3 DEF ReconnectorConnect
  <2>7. \A g \in Sockets : g > opened + 1 => g > opened
    BY <1>0
  <2>8. startupSock' <= opened'
    BY <1>0, <2>2, <2>6
  <2>9. \A m \in fresh' : m = Hello(m.token, m.viewport) /\ m.token <= opened'
    BY <1>0, <2>2, <2>5
  <2>10. \A m \in fresh' : Unknown(m.token)' /\ m.token # startupSock' /\ wire'[m.token] = <<>>
    BY <2>1, <2>4, <2>5, <2>6
  <2>11. \A g \in Sockets : g > opened' => wire'[g] = <<>> /\ Unknown(g)'
    BY <2>1, <2>2, <2>6, <2>7
  <2>12. reconnectorPc' # "install"
    BY <2>3
  <2>. QED
    BY <1>9, <2>6, <2>8, <2>9, <2>10, <2>11, <2>12
<1>4. CASE ReconnectorHelloOk
  <2>1. PICK hello \in fresh : wire' = [wire EXCEPT ![hello.token] = <<hello>>]
    BY <1>4 DEF ReconnectorHelloOk
  <2>2. /\ reconnectorPc = "hello" /\ reconnectorPc' = "install"
        /\ UNCHANGED <<connection, mainVars, startupVars, writerVars, queueVars, fresh, opened>>
    BY <1>4 DEF ReconnectorHelloOk
  <2>3. \A g \in Sockets : Unknown(g) => Unknown(g)'
    BY <2>2 DEF Unknown
  <2>4. wire'[hello.token] = <<hello>> /\ \A g \in Sockets : g # hello.token => wire'[g] = wire[g]
    BY <1>0, <2>1
  <2>5. \A g \in Sockets : g > opened => g # hello.token
    BY <1>0
  <2>6. \A m \in fresh : m = hello
    BY DEF Ownership
  <2>7. \A i \in DOMAIN wire'[hello.token] : wire'[hello.token][i].token = hello.token
    BY <2>4
  <2>8. \A g \in Sockets : \A i \in DOMAIN wire'[g] : wire'[g][i].token = g
    BY <2>4, <2>7
  <2>9. \A g \in Sockets : g > opened' => wire'[g] = <<>> /\ Unknown(g)'
    BY <2>2, <2>3, <2>4, <2>5
  <2>10. \A m \in fresh' : /\ Unknown(m.token)' /\ m.token # startupSock'
                           /\ wire'[m.token] = <<m>>
    BY <1>0, <2>2, <2>3, <2>4, <2>6
  <2>. QED
    BY <1>9, <2>2, <2>8, <2>9, <2>10
<1>5. CASE ReconnectorHelloErr
  <2>1. PICK hello \in fresh : wire' = [wire EXCEPT ![hello.token] = <<Torn(hello)>>]
    BY <1>5 DEF ReconnectorHelloErr
  <2>2. /\ fresh' = {}
        /\ UNCHANGED <<connection, mainVars, startupVars, writerVars, queueVars, opened>>
    BY <1>5 DEF ReconnectorHelloErr
  <2>3. \A g \in Sockets : Unknown(g) => Unknown(g)'
    BY <2>2 DEF Unknown
  <2>4. wire'[hello.token] = <<Torn(hello)>>
        /\ \A g \in Sockets : g # hello.token => wire'[g] = wire[g]
    BY <1>0, <2>1
  <2>5. \A g \in Sockets : g > opened => g # hello.token
    BY <1>0
  <2>6. \A i \in DOMAIN wire'[hello.token] : wire'[hello.token][i].token = hello.token
    BY <2>4 DEF Torn
  <2>7. \A g \in Sockets : \A i \in DOMAIN wire'[g] : wire'[g][i].token = g
    BY <2>4, <2>6
  <2>8. \A g \in Sockets : g > opened => wire'[g] = <<>> /\ Unknown(g)'
    BY <2>3, <2>4, <2>5
  <2>. QED
    BY <1>9, <2>2, <2>7, <2>8
<1>6. CASE ReconnectorInstall
  <2>1. PICK hello \in fresh :
          \/ reconnectorPc' = "exited" /\ fresh' = {} /\ UNCHANGED connection
          \/ reconnectorPc' = "spawn" /\ connection' = hello.token /\ UNCHANGED fresh
    BY <1>6 DEF ReconnectorInstall, reconnect
  <2>2. UNCHANGED <<wire, mainVars, startupVars, writerVars, queueVars, opened>>
    BY <1>6 DEF ReconnectorInstall
  <2>3. \A g \in Sockets : g > opened /\ Unknown(g) => Unknown(g)'
    BY <1>0, <2>1, <2>2 DEF Unknown
  <2>. QED
    BY <1>0, <1>9, <2>1, <2>2, <2>3
<1>7. CASE ReconnectorSpawnReader
  <2>1. fresh' = {}
        /\ UNCHANGED <<connection, wire, mainVars, startupVars, writerVars,
                       queueVars, opened>>
    BY <1>7 DEF ReconnectorSpawnReader
  <2>2. \A g \in Sockets : Unknown(g) => Unknown(g)'
    BY <2>1 DEF Unknown
  <2>. QED
    BY <1>9, <2>1, <2>2
<1> HIDE DEF References
<1>8. QED
  BY <1>1, <1>2, <1>3, <1>4, <1>5, <1>6, <1>7 DEF Reconnector

LEMMA ReferencesPromote ==
    ASSUME TypeInv, Ownership, References, promote_startup, mainToken' = mainToken
    PROVE  /\ startupSock' <= opened'
           /\ \A g \in Sockets : \A i \in DOMAIN wire'[g] : wire'[g][i].token = g
           /\ \A g \in Sockets : g > opened' => wire'[g] = <<>> /\ Unknown(g)'
           /\ writerPc' = "none" =>
                outbound' = <<>> /\ mainToken' = Disconnected /\ reconnectorPc' = "none"
           /\ held' = {} <=> writerPc' \notin {"clone", "write"}
           /\ \A m, n \in held' : m = n
           /\ writerPc' = "write" => \A m \in held' : m.token = writerStream'
           /\ writerPc' \notin {"write", "fail"} => writerStream' = Disconnected
           /\ \A m \in fresh' :
                /\ m = Hello(m.token, m.viewport) /\ m.token <= opened'
                /\ reconnectorPc' \in {"hello", "install"} =>
                     Unknown(m.token)' /\ m.token # startupSock'
                /\ reconnectorPc' = "hello" => wire'[m.token] = <<>>
                /\ reconnectorPc' = "install" => wire'[m.token] = <<m>>
<1> USE DEF References, viewVars, startupVars
<1>1. CASE PromoteNothing \/ PromoteFailed
  <2>1. /\ UNCHANGED <<connection, outbound, wire, held, writerStream, writerPc, reconnectorPc,
                       fresh, opened, startupSock>>
    BY <1>1 DEF promote_startup, PromoteNothing, PromoteFailed
  <2>2. \A g : Unknown(g)' <=> Unknown(g)
    BY <2>1 DEF Unknown
  <2>. QED
    BY <2>1, <2>2
<1>2. CASE PromoteConnected \/ PromoteFromStreamErr
  <2>1. /\ startupRx /\ startupSock \in Sockets
        /\ \E m : /\ wire' = [wire EXCEPT ![startupSock] = <<m>>]
                  /\ m.token = startupSock
        /\ UNCHANGED <<outbound, held, writerStream, fresh, opened, startupSock>>
        /\ \/ connection' = startupSock /\ writerPc' = "recv" /\ reconnectorPc' = "recv"
           \/ UNCHANGED <<connection, writerPc, reconnectorPc>>
    <3>1. startupRx /\ startupSock \in Sockets
      BY <1>2 DEF PromoteConnected, PromoteFromStreamErr, TypeInv, HandsAreFull
    <3>2. \E m : wire' = [wire EXCEPT ![startupSock] = <<m>>] /\ m.token = startupSock
      <4>. DEFINE h == Hello(startupSock, remoteViewport)
      <4>1. h.token = startupSock /\ Torn(h).token = startupSock
        BY DEF Hello, Torn
      <4>2. \/ wire' = [wire EXCEPT ![startupSock] = <<h>>]
            \/ wire' = [wire EXCEPT ![startupSock] = <<Torn(h)>>]
        BY <1>2 DEF PromoteConnected, PromoteFromStreamErr
      <4>. HIDE DEF h
      <4>. QED
        BY <4>1, <4>2
    <3>3. /\ UNCHANGED <<outbound, held, writerStream, fresh, opened, startupSock>>
          /\ \/ connection' = startupSock /\ writerPc' = "recv" /\ reconnectorPc' = "recv"
             \/ UNCHANGED <<connection, writerPc, reconnectorPc>>
      BY <1>2 DEF promote_startup, PromoteConnected, PromoteFromStreamErr
    <3>. QED
      BY <3>1, <3>2, <3>3
  <2>2. reconnectorPc = "none" /\ writerPc = "none" /\ fresh = {}
    BY <2>1 DEF Ownership
  <2>3. wire \in [Sockets -> Seq(Message)] /\ opened \in Nat /\ Sockets \subseteq Nat
    BY TransportAssumption DEF TypeInv, TypeOK, Sockets
  <2>4. \A g \in Sockets : g > opened => g # startupSock
    BY <2>1, <2>3
  <2>5. \A g \in Sockets : g > opened => Unknown(g)'
    BY <2>1, <2>4 DEF Unknown
  <2>6. \A g \in Sockets : g # startupSock => wire'[g] = wire[g]
    BY <2>1, <2>3
  <2>7. \A i \in DOMAIN wire'[startupSock] : wire'[startupSock][i].token = startupSock
    BY <2>1, <2>3
  <2>. HIDE DEF Unknown
  <2>. QED
    BY <2>1, <2>2, <2>4, <2>5, <2>6, <2>7
<1>. QED
  BY <1>1, <1>2 DEF promote_startup

LEMMA ReferencesMain == TypeInv /\ Ownership /\ References /\ Main => References'
<1> SUFFICES ASSUME TypeInv, Ownership, References, Main PROVE References'
  OBVIOUS
<1>0. /\ \A m \in fresh : m.token \in Sockets
      /\ outbound \in Seq(Message) /\ Disconnected \notin Sockets
  BY DEF TypeInv, TypeOK, Message, Sockets, Disconnected
<1>1. CASE PollPromote \/ PointerPromote \/ ResizePromote
  <2>1. /\ promote_startup /\ mainToken' = mainToken
        /\ mainPc \notin {"pointer_send", "resize_send"}
    BY <1>1 DEF PollPromote, PointerPromote, ResizePromote
  <2>2. mainToken' = Disconnected
    BY <2>1 DEF References
  <2>. QED
    BY <2>1, <2>2, ReferencesPromote DEF References
<1> USE DEF References, MainUnchanged, DropUnchanged, viewVars, queueVars, writerVars,
            reconnectorVars
<1>2. CASE PollTake \/ ResizeMailbox \/ \E v \in Viewports : ResizeRetain(v)
  <2>1. \A g : Unknown(g)' <=> Unknown(g)
    BY <1>2 DEF Unknown, PollTake, ResizeMailbox, ResizeRetain
  <2>. QED
    BY <1>2, <2>1 DEF PollTake, ResizeMailbox, ResizeRetain
<1>3. CASE PointerToken \/ ResizeToken
  <2>1. /\ mainToken' = connection /\ connection' = connection
        /\ \/ connection = Disconnected
           \/ mainPc' \in {"pointer_send", "resize_send"}
        /\ UNCHANGED <<outbound, wire, held, writerStream, writerPc, reconnectorPc, fresh,
                       opened, startupSock>>
    BY <1>3 DEF PointerToken, ResizeToken
  <2>2. \A g : Unknown(g) => Unknown(g)'
    BY <2>1 DEF Unknown
  <2>3. writerPc = "none" => connection = Disconnected
    BY DEF Ownership
  <2>. QED
    BY <2>1, <2>2, <2>3
<1>4. CASE PointerSend \/ ResizeSend
  <2>1. /\ mainToken' = Disconnected /\ mainPc' \in {"idle", "resize_disconnect"}
        /\ mainToken # Disconnected
        /\ UNCHANGED <<connection, wire, held, writerStream, writerPc, reconnectorPc, fresh,
                       opened, startupSock>>
        /\ \/ outbound' = outbound
           \/ \E kind \in {"pointer", "viewport"} : Enqueue(kind) /\ CanEnqueue
    BY <1>4 DEF PointerSend, ResizeSend, TypeInv, HandsAreFull, Sockets, Disconnected
  <2>2. \A g \in Sockets : Unknown(g) => Unknown(g)'
    <3>1. CASE outbound' = outbound
      BY <1>0, <2>1, <3>1 DEF Unknown
    <3>2. ASSUME NEW kind \in {"pointer", "viewport"}, Enqueue(kind), CanEnqueue
          PROVE  \A g \in Sockets : Unknown(g) => Unknown(g)'
      <4>. DEFINE m == [kind |-> kind, viewport |-> remoteViewport, token |-> mainToken,
                        id |-> inputs]
      <4>1. m.token = mainToken /\ outbound' = Append(outbound, m)
        BY <3>2 DEF Enqueue
      <4>2. m \in Message
        <5>1. mainToken \in Sockets
          BY <1>4 DEF PointerSend, ResizeSend, TypeInv, HandsAreFull
        <5>. QED
          BY <5>1 DEF TypeInv, TypeOK, Message
      <4>. HIDE DEF m
      <4>3. \A i \in DOMAIN outbound' :
               outbound'[i] = m \/ (i \in DOMAIN outbound /\ outbound'[i] = outbound[i])
        <5>1. /\ DOMAIN outbound' = 1 .. Len(outbound) + 1 /\ Len(outbound) \in Nat
              /\ DOMAIN outbound = 1 .. Len(outbound)
              /\ \A i \in 1 .. Len(outbound) : outbound'[i] = outbound[i]
              /\ outbound'[Len(outbound) + 1] = m
          BY <1>0, <4>1, <4>2, Appended
        <5>2. \A i \in 1 .. Len(outbound) + 1 :
                 i = Len(outbound) + 1 \/ i \in 1 .. Len(outbound)
          BY <5>1
        <5>. QED
          BY <5>1, <5>2
      <4>. QED
        BY <1>0, <2>1, <4>1, <4>3 DEF Unknown
    <3>. QED
      BY <2>1, <3>1, <3>2
  <2>3. writerPc # "none"
    BY <2>1
  <2>. HIDE DEF Unknown
  <2>. QED
    BY <1>0, <2>1, <2>2, <2>3
<1>5. CASE ResizeDisconnect \/ DropStop \/ Drop
  <2>1. /\ connection' \in {connection, Disconnected}
        /\ mainPc' \notin {"pointer_send", "resize_send"}
        /\ mainPc \notin {"pointer_send", "resize_send"}
        /\ UNCHANGED <<mainToken, outbound, wire, held, writerStream, writerPc,
                       reconnectorPc, fresh, opened, startupSock>>
    BY <1>5 DEF ResizeDisconnect, DropStop, Drop, DropStartup, DropDisconnect, DropWake,
       DropQueue, DropJoinWriter, DropJoinReconnector, disconnect
  <2>2. \A g \in Sockets : Unknown(g) => Unknown(g)'
    BY <1>0, <2>1 DEF Unknown
  <2>. QED
    BY <1>0, <2>1, <2>2
<1> HIDE DEF References
<1>6. QED
  BY <1>1, <1>2, <1>3, <1>4, <1>5 DEF Main, MainContinues

LEMMA ReferencesNext == TypeInv /\ Ownership /\ References /\ [Next]_vars => References'
<1> SUFFICES ASSUME TypeInv, Ownership, References, [Next]_vars PROVE References'
  OBVIOUS
<1>1. CASE \/ \E g \in Sockets : \/ PeerCloses(g) \/ ReaderStops(g)
                              \/ \E v \in FrameViewports : ReaderFrame(g, v)
           \/ UNCHANGED vars
  <2>1. UNCHANGED <<mainVars, connection, queueVars, startupVars, writerVars,
                    reconnectorVars, wire, opened>>
    BY <1>1 DEF PeerCloses, ReaderStops, ReaderFrame, netVars, vars
  <2>2. \A g : Unknown(g)' <=> Unknown(g)
    BY <2>1 DEF Unknown, mainVars, queueVars, writerVars
  <2>. QED
    BY <2>1, <2>2 DEF References, mainVars, queueVars, startupVars, writerVars,
       reconnectorVars
<1>. QED
  BY <1>1, ReferencesStartup, ReferencesWriter, ReferencesReconnector, ReferencesMain
     DEF Next, Terminated, ReaderEof, ReaderError

LEMMA WayTypes ==
    ASSUME TypeInv, References, NEW g \in Sockets
    PROVE  /\ wire[g] \in Seq(Message) /\ outbound \in Seq(Message)
           /\ Hand \in Seq(Message) /\ Hand \o outbound \in Seq(Message)
           /\ Way(g) \in Seq(Message)
<1>1. wire[g] \in Seq(Message) /\ outbound \in Seq(Message) /\ Hand \in Seq(Message)
  BY HandHolds DEF TypeInv, TypeOK, References
<1>2. Hand \o outbound \in Seq(Message)
  BY <1>1, Joined
<1>. QED
  BY <1>1, <1>2, Joined DEF Way

LEMMA Weaker ==
    ASSUME NEW first, NEW stronger, first => stronger, NEW g, NEW s
    PROVE  /\ Fits(stronger, g, s) => Fits(first, g, s)
           /\ \A i : Covered(first, g, s, i) => Covered(stronger, g, s, i)
  BY DEF Fits, Covered

\* A step that neither sends nor gives up a message to g.
LEMMA StreamsQuiet ==
    ASSUME NEW g \in Sockets, Streams(g), wire'[g] = wire[g],
           g = startupSock' => g = startupSock,
           writerPc' = "write" /\ writerStream' = g =>
              writerPc = "write" /\ writerStream = g /\ Hand' = Hand,
           Writable(g)' =>
              /\ Writable(g) /\ Way(g)' = Way(g)
              /\ mainPc' \notin Changing =>
                    mainPc \notin Changing /\ remoteViewport' = remoteViewport
              /\ mainPc' = "resize_send" /\ mainToken' # g =>
                    mainPc = "resize_send" /\ mainToken # g
    PROVE  Streams(g)'
<1>. DEFINE first == g = startupSock
            next == g = startupSock'
<1>1. next => first
  OBVIOUS
<1>2. Fits(next, g, wire'[g])
  BY <1>1, Weaker DEF Streams
<1>3. writerPc' = "write" /\ writerStream' = g => Fits(next, g, wire'[g] \o Hand')
  BY <1>1, Weaker DEF Streams
<1>4. ASSUME Writable(g)'
      PROVE  /\ Fits(next, g, Way(g)')
             /\ mainPc' \notin Changing /\ Covered(next, g, Way(g)', End(g)') =>
                   Known(g, Way(g)', End(g)', remoteViewport')
             /\ mainPc' = "resize_send" /\ mainToken' # g =>
                   ~Covered(next, g, Way(g)', End(g)')
  <2>1. Writable(g) /\ Way(g)' = Way(g) /\ End(g)' = End(g)
    BY <1>4 DEF End
  <2>2. /\ Fits(first, g, Way(g))
        /\ mainPc \notin Changing /\ Covered(first, g, Way(g), End(g)) =>
              Known(g, Way(g), End(g), remoteViewport)
        /\ mainPc = "resize_send" /\ mainToken # g => ~Covered(first, g, Way(g), End(g))
    BY <2>1 DEF Streams
  <2>3. /\ Fits(first, g, Way(g)) => Fits(next, g, Way(g))
        /\ Covered(next, g, Way(g), End(g)) => Covered(first, g, Way(g), End(g))
    BY <1>1, Weaker
  <2>. HIDE DEF first, next
  <2>. QED
    BY <1>4, <2>1, <2>2, <2>3
<1>. QED
  BY <1>2, <1>3, <1>4 DEF Streams

\* A socket that cannot be written to through the queue, but with one message.
LEMMA StreamsUnused ==
    ASSUME NEW g \in Sockets, ~Writable(g)', ~(writerPc' = "write" /\ writerStream' = g),
           NEW m, m.kind # "pointer", wire'[g] \in {<<>>, <<m>>}
    PROVE  Streams(g)'
  BY DEF Streams, Fits, IsPointer

\* The writer is rid of a message to another socket.
LEMMA StreamsPassed ==
    ASSUME TypeInv, References, NEW g \in Sockets, Streams(g),
           NEW m \in held, m.token # g, held' = {}, outbound' = outbound, wire'[g] = wire[g],
           startupSock' = startupSock, writerPc' # "write",
           mainPc' = mainPc, mainToken' = mainToken, remoteViewport' = remoteViewport,
           Writable(g)' => Writable(g)
    PROVE  Streams(g)'
<1>. DEFINE first == g = startupSock
            long == wire[g] \o (<<m>> \o outbound)
            short == wire[g] \o outbound
<1>1. m \in Message /\ Hand = <<m>> /\ wire[g] \in Seq(Message) /\ outbound \in Seq(Message)
  BY HandHolds, WayTypes DEF TypeInv, References
<1>2. Way(g) = long /\ Way(g)' = short
  <2>1. Hand' = <<>>
    BY DEF Hand
  <2>2. <<>> \o outbound = outbound
    BY <1>1
  <2>. QED
    BY <1>1, <2>1, <2>2 DEF Way
<1>3. /\ Fits(first, g, long) => Fits(first, g, short)
      /\ Covered(first, g, short, Len(short) + 1) => Covered(first, g, long, Len(long) + 1)
      /\ \A v : Known(g, long, Len(long) + 1, v) => Known(g, short, Len(short) + 1, v)
  BY <1>1, LeftOut
<1>. HIDE DEF long, short
<1>4. End(g) = Len(long) + 1 /\ End(g)' = Len(short) + 1
  BY <1>2 DEF End
<1>. QED
  BY <1>2, <1>3, <1>4 DEF Streams

\* Main queues a message that has the viewport main retains.
LEMMA StreamsQueued ==
    ASSUME TypeInv, References, NEW g \in Sockets, Streams(g), NEW m \in Message,
           m.viewport = remoteViewport, outbound' = Append(outbound, m),
           UNCHANGED <<wire, held, writerPc, writerStream, connection, startupSock,
                       remoteViewport>>,
           mainPc' = "idle",
           \/ mainPc = "resize_send" /\ m.kind = "viewport" /\ m.token = mainToken
           \/ mainPc \notin Changing /\ m.kind = "pointer"
    PROVE  Streams(g)'
<1>. DEFINE first == g = startupSock
            s == Way(g)
<1>1. s \in Seq(Message) /\ Hand \in Seq(Message) /\ outbound \in Seq(Message)
      /\ wire[g] \in Seq(Message) /\ Hand \o outbound \in Seq(Message)
  BY WayTypes
<1>2. Way(g)' = Append(s, m) /\ Hand' = Hand
  <2>1. Hand' = Hand
    BY DEF Hand
  <2>2. Hand \o Append(outbound, m) = Append(Hand \o outbound, m)
    BY <1>1, JoinAppended
  <2>3. wire[g] \o Append(Hand \o outbound, m) = Append(wire[g] \o (Hand \o outbound), m)
    <3>. DEFINE r == Hand \o outbound
                w == wire[g]
    <3>1. r \in Seq(Message) /\ w \in Seq(Message)
      BY <1>1
    <3>. HIDE DEF r, w
    <3>2. w \o Append(r, m) = Append(w \o r, m)
      BY <3>1, JoinAppended
    <3>. QED
      BY <3>2 DEF r, w
  <2>. QED
    BY <2>1, <2>2, <2>3 DEF Way
<1>3. Len(s) \in Nat /\ Len(Append(s, m)) = Len(s) + 1
  BY <1>1, Appended
<1>4. /\ Fits(first, g, s)
         /\ (IsPointer(g, m) /\ Covered(first, g, s, Len(s) + 1)
               => Known(g, s, Len(s) + 1, m.viewport))
         => Fits(first, g, Append(s, m))
      /\ Covered(first, g, Append(s, m), Len(s) + 2) =>
            Covered(first, g, s, Len(s) + 1) \/ (m.token = g /\ m.kind = "viewport")
      /\ Announces(g, m) => Known(g, Append(s, m), Len(s) + 2, m.viewport)
      /\ \A v : ~Announces(g, m) /\ Known(g, s, Len(s) + 1, v)
                  => Known(g, Append(s, m), Len(s) + 2, v)
  BY <1>1, Sent
<1>5. End(g) = Len(s) + 1 /\ End(g)' = Len(s) + 2
  BY <1>2, <1>3 DEF End
<1>6. Writable(g)' = Writable(g)
  BY DEF Writable
<1>7. mainPc' \notin Changing /\ mainPc' # "resize_send"
  BY DEF Changing
<1>8. /\ Fits(first, g, wire'[g])
      /\ writerPc' = "write" /\ writerStream' = g => Fits(first, g, wire'[g] \o Hand')
  BY <1>2 DEF Streams
<1>9. ASSUME Writable(g)
      PROVE  /\ Fits(first, g, Append(s, m))
             /\ Covered(first, g, Append(s, m), Len(s) + 2) =>
                   Known(g, Append(s, m), Len(s) + 2, remoteViewport)
  <2>1. /\ Fits(first, g, s)
        /\ mainPc \notin Changing /\ Covered(first, g, s, Len(s) + 1) =>
              Known(g, s, Len(s) + 1, remoteViewport)
        /\ mainPc = "resize_send" /\ mainToken # g => ~Covered(first, g, s, Len(s) + 1)
    BY <1>5, <1>9 DEF Streams
  <2>. HIDE DEF s, first
  <2>2. CASE m.kind = "pointer"
    <3>1. mainPc \notin Changing /\ ~Announces(g, m)
      BY <2>2 DEF Announces
    <3>. QED
      BY <1>4, <2>1, <2>2, <3>1
  <2>3. CASE m.kind = "viewport" /\ m.token # g
    <3>1. mainPc = "resize_send" /\ mainToken # g /\ ~IsPointer(g, m)
      BY <2>3 DEF IsPointer
    <3>. QED
      BY <1>4, <2>1, <2>3, <3>1
  <2>4. CASE m.kind = "viewport" /\ m.token = g
    <3>1. Announces(g, m) /\ ~IsPointer(g, m)
      BY <2>4 DEF IsPointer, Announces
    <3>. QED
      BY <1>4, <2>1, <3>1
  <2>. QED
    BY <2>2, <2>3, <2>4
<1>. HIDE DEF s
<1>. QED
  BY <1>2, <1>5, <1>6, <1>7, <1>8, <1>9 DEF Streams

LEMMA StreamsInit == Init => AllStreams
  BY DEF Init, AllStreams, Streams, Fits, Writable, Disconnected, Sockets

LEMMA HelloKind == \A g, v : Hello(g, v).kind = "hello"
  BY DEF Hello

LEMMA WayKept ==
    ASSUME NEW g, UNCHANGED <<held, outbound>>
    PROVE  Hand' = Hand /\ (wire'[g] = wire[g] => Way(g)' = Way(g))
<1>0. held' = held /\ outbound' = outbound
  OBVIOUS
<1>1. Hand' = Hand
  BY <1>0 DEF Hand
<1>2. ASSUME wire'[g] = wire[g] PROVE Way(g)' = Way(g)
  BY <1>0, <1>1, <1>2, Zenon DEF Way
<1>. QED
  BY <1>1, <1>2

\* A step that leaves writer, queue and wires alone and opens no socket.
LEMMA StreamsKept ==
    ASSUME NEW g \in Sockets, Streams(g), wire'[g] = wire[g],
           UNCHANGED <<held, outbound, writerPc, writerStream>>,
           g = startupSock' => g = startupSock,
           connection' = g => connection = g,
           connection' = g =>
              /\ mainPc' \notin Changing =>
                    mainPc \notin Changing /\ remoteViewport' = remoteViewport
              /\ mainPc' = "resize_send" /\ mainToken' # g =>
                    mainPc = "resize_send" /\ mainToken # g
    PROVE  Streams(g)'
<1>1. Hand' = Hand /\ Way(g)' = Way(g)
  BY WayKept
<1>2. Writable(g)' => Writable(g) /\ connection' = g
  BY DEF Writable
<1>. QED
  BY <1>1, <1>2, StreamsQuiet

LEMMA StreamsStartup == TypeInv /\ References /\ AllStreams /\ Startup => AllStreams'
<1> SUFFICES ASSUME TypeInv, References, AllStreams, Startup, NEW g \in Sockets
             PROVE  Streams(g)'
  BY DEF AllStreams
<1>1. /\ Streams(g)
      /\ UNCHANGED <<mainVars, viewVars, connection, queueVars, writerVars, wire>>
  BY DEF AllStreams, Startup, StartupCheck, StartupConnectOk, StartupConnectErr,
     StartupSendConnected, StartupSendFailed, StartupWait, StartupUnchanged
<1>2. \/ startupSock' = startupSock
      \/ startupSock' = opened + 1
  BY DEF Startup, StartupCheck, StartupConnectOk, StartupConnectErr,
     StartupSendConnected, StartupSendFailed, StartupWait
<1>3. CASE g = opened + 1
  <2>1. g > opened
    BY <1>3, TransportAssumption DEF TypeInv, TypeOK
  <2>2. wire[g] = <<>> /\ Unknown(g)
    BY <2>1 DEF References
  <2>3. ~Writable(g)' /\ ~(writerPc' = "write" /\ writerStream' = g) /\ wire'[g] = <<>>
    BY <1>1, <2>2 DEF Writable, Unknown, writerVars
  <2>. DEFINE m == [kind |-> "torn"]
  <2>4. m.kind # "pointer" /\ wire'[g] \in {<<>>, <<m>>}
    BY <2>3
  <2>. HIDE DEF m
  <2>. QED
    BY <2>3, <2>4, StreamsUnused
<1>4. CASE g # opened + 1
  BY <1>1, <1>2, <1>4, StreamsKept DEF mainVars, viewVars, queueVars, writerVars
<1>. QED
  BY <1>3, <1>4

LEMMA StreamsReconnector ==
    TypeInv /\ Ownership /\ References /\ AllStreams /\ Reconnector => AllStreams'
<1> SUFFICES ASSUME TypeInv, Ownership, References, AllStreams, Reconnector, NEW g \in Sockets
             PROVE  Streams(g)'
  BY DEF AllStreams
<1>1. Streams(g) /\ UNCHANGED <<mainVars, viewVars, queueVars, startupVars, writerVars>>
  BY DEF AllStreams, Reconnector, ReconnectorRecv, ReconnectorJoin, ReconnectorClear,
     ReconnectorStops, ReconnectorConnect, ReconnectorHelloOk, ReconnectorHelloErr,
     ReconnectorInstall, ReconnectorSpawnReader, ReconnectorUnchanged
<1>2. /\ Disconnected \notin Sockets /\ wire \in [Sockets -> Seq(Message)]
      /\ \A m \in fresh : m \in Message /\ m.token \in Sockets
  <2>1. Disconnected \notin Sockets
    BY DEF Disconnected, Sockets
  <2>2. /\ wire \in [Sockets -> Seq(Message)] /\ fresh \subseteq Message
        /\ \A m \in Message : m.token \in Sockets
    BY DEF TypeInv, TypeOK, Message
  <2>. QED
    BY <2>1, <2>2
<1>3. ASSUME wire'[g] = wire[g], connection' \in {connection, Disconnected}
      PROVE  Streams(g)'
  BY <1>1, <1>2, <1>3, StreamsKept DEF mainVars, viewVars, queueVars, startupVars, writerVars
<1>4. CASE ReconnectorRecv \/ ReconnectorJoin \/ ReconnectorClear \/ ReconnectorStops
           \/ ReconnectorConnect \/ ReconnectorSpawnReader
  BY <1>3, <1>4 DEF ReconnectorRecv, ReconnectorJoin, ReconnectorClear, ReconnectorStops,
     ReconnectorConnect, ReconnectorSpawnReader, disconnect, netVars
<1>5. CASE ReconnectorHelloOk \/ ReconnectorHelloErr
  <2>1. PICK hello \in fresh : \E m \in {hello, Torn(hello)} :
          wire' = [wire EXCEPT ![hello.token] = <<m>>]
    BY <1>5 DEF ReconnectorHelloOk, ReconnectorHelloErr
  <2>2. PICK m \in {hello, Torn(hello)} : wire' = [wire EXCEPT ![hello.token] = <<m>>]
    BY <2>1
  <2>3. connection' = connection /\ reconnectorPc = "hello"
    BY <1>5 DEF ReconnectorHelloOk, ReconnectorHelloErr
  <2>4. m.kind # "pointer"
    <3>1. hello = Hello(hello.token, hello.viewport)
      BY DEF References
    <3>2. hello.kind = "hello"
      BY <3>1, HelloKind, Zenon
    <3>. QED
      BY <3>2 DEF Torn
  <2>5. CASE g = hello.token
    <3>1. Unknown(g) /\ wire'[g] = <<m>>
      BY <1>2, <2>2, <2>3, <2>5 DEF References
    <3>2. ~Writable(g)' /\ ~(writerPc' = "write" /\ writerStream' = g)
      BY <1>1, <2>3, <3>1 DEF Unknown, Writable, writerVars
    <3>. QED
      BY <2>4, <3>1, <3>2, StreamsUnused
  <2>6. CASE g # hello.token
    BY <1>2, <1>3, <2>2, <2>3, <2>6
  <2>. QED
    BY <2>5, <2>6
<1>6. CASE ReconnectorInstall
  <2>1. PICK hello \in fresh : connection' \in {connection, hello.token}
    BY <1>6 DEF ReconnectorInstall, reconnect
  <2>2. wire' = wire /\ reconnectorPc = "install"
    BY <1>6 DEF ReconnectorInstall
  <2>3. CASE connection' = connection
    BY <1>3, <2>2, <2>3
  <2>4. CASE connection' = hello.token /\ g # hello.token
    BY <1>1, <2>2, <2>4, StreamsKept
       DEF mainVars, viewVars, queueVars, startupVars, writerVars
  <2>5. CASE g = hello.token
    <3>1. /\ Unknown(g) /\ g # startupSock /\ wire[g] = <<hello>>
          /\ hello = Hello(hello.token, hello.viewport)
      BY <2>2, <2>5 DEF References
    <3>2. hello.kind = "hello"
      BY <3>1, HelloKind, Zenon
    <3>3. /\ Hand \in Seq(Message) /\ outbound \in Seq(Message) /\ wire[g] \in Seq(Message)
          /\ Hand \o outbound \in Seq(Message)
      BY WayTypes
    <3>4. \A i \in DOMAIN Hand : Hand[i].token # g
      <4>1. CASE held = {}
        BY <4>1 DEF Hand
      <4>2. ASSUME NEW m \in held PROVE \A i \in DOMAIN Hand : Hand[i].token # g
        <5>1. Hand = <<m>> /\ m.token # g
          BY <3>1, HandHolds DEF TypeInv, References, Unknown
        <5>. QED
          BY <5>1
      <4>. QED
        BY <4>1, <4>2
    <3>5. \A i \in DOMAIN outbound : outbound[i].token # g
      BY <3>1 DEF Unknown
    <3>6. \A i \in DOMAIN Way(g) : Way(g)[i] = hello \/ Way(g)[i].token # g
      <4>. DEFINE rest == Hand \o outbound
      <4>1. \A i \in DOMAIN rest : rest[i].token # g
        <5>1. \A i \in DOMAIN rest : \/ \E j \in DOMAIN Hand : rest[i] = Hand[j]
                                    \/ \E j \in DOMAIN outbound : rest[i] = outbound[j]
          BY <3>3, EachJoined, Zenon
        <5>. HIDE DEF rest
        <5>. QED
          BY <3>4, <3>5, <5>1, Zenon
      <4>. DEFINE sent == wire[g]
      <4>2. /\ rest \in Seq(Message) /\ sent \in Seq(Message) /\ Way(g) = sent \o rest
            /\ \A j \in DOMAIN sent : sent[j] = hello
        BY <3>1, <3>3 DEF Way
      <4>. HIDE DEF rest, sent
      <4>3. \A i \in DOMAIN (sent \o rest) : \/ \E j \in DOMAIN sent : (sent \o rest)[i] = sent[j]
                                           \/ \E j \in DOMAIN rest : (sent \o rest)[i] = rest[j]
        BY <4>2, EachJoined, Zenon
      <4>4. \A i \in DOMAIN (sent \o rest) :
               (sent \o rest)[i] = hello \/ (sent \o rest)[i].token # g
        BY <4>1, <4>2, <4>3, Zenon
      <4>. QED
        BY <4>2, <4>4, Zenon
    <3>7. ~Covered(FALSE, g, Way(g), End(g)) /\ Fits(FALSE, g, Way(g))
      <4>1. Way(g) \in Seq(Message) /\ DOMAIN Way(g) = 1 .. Len(Way(g)) /\ Len(Way(g)) \in Nat
        BY WayTypes, Joined
      <4>. QED
        BY <3>2, <3>6, <4>1 DEF Covered, Fits, End, IsPointer
    <3>8. Hand' = Hand /\ Way(g)' = Way(g) /\ End(g)' = End(g)
      BY <1>1, <2>2, WayKept DEF End, writerVars, queueVars
    <3>9. /\ Fits(FALSE, g, wire'[g]) /\ g # startupSock'
          /\ ~(writerPc' = "write" /\ writerStream' = g)
      BY <1>1, <2>2, <3>1 DEF Streams, Unknown, startupVars, writerVars
    <3>. QED
      BY <3>7, <3>8, <3>9 DEF Streams
  <2>. QED
    BY <2>1, <2>3, <2>4, <2>5
<1>. QED
  BY <1>4, <1>5, <1>6 DEF Reconnector

LEMMA StreamsWriter == TypeInv /\ References /\ AllStreams /\ Writer => AllStreams'
<1> SUFFICES ASSUME TypeInv, References, AllStreams, Writer, NEW g \in Sockets
             PROVE  Streams(g)'
  BY DEF AllStreams
<1>1. /\ Streams(g)
      /\ mainPc' = mainPc /\ mainToken' = mainToken /\ remoteViewport' = remoteViewport
      /\ startupSock' = startupSock
  BY DEF AllStreams, Writer, WriterRecv, WriterClone, WriterWriteOk, WriterWriteErr,
     WriterFail, WriterUnchanged, mainVars, viewVars, startupVars
<1>2. /\ wire \in [Sockets -> Seq(Message)] /\ wire[g] \in Seq(Message)
      /\ outbound \in Seq(Message) /\ \A m \in Message : m.token \in Sockets
      /\ \A m \in held : m \in Message /\ held = {m} /\ Hand = <<m>>
      /\ held = {} => Hand = <<>>
      /\ Disconnected \notin Sockets
  <2>1. /\ wire \in [Sockets -> Seq(Message)] /\ outbound \in Seq(Message)
        /\ \A m \in Message : m.token \in Sockets
    BY DEF TypeInv, TypeOK, Message
  <2>2. Disconnected \notin Sockets
    BY DEF Disconnected, Sockets
  <2>3. /\ \A m \in held : m \in Message /\ held = {m} /\ Hand = <<m>>
        /\ held = {} => Hand = <<>>
    BY HandHolds DEF TypeInv, References
  <2>. QED
    BY <2>1, <2>2, <2>3
<1>3. \A m \in Message : Append(wire[g], m) \o outbound = wire[g] \o (<<m>> \o outbound)
  <2>. DEFINE w == wire[g]
              q == outbound
  <2>1. w \in Seq(Message) /\ q \in Seq(Message)
    BY <1>2
  <2>. HIDE DEF w, q
  <2>2. \A m \in Message : Append(w, m) \o q = w \o (<<m>> \o q)
    BY <2>1, JoinAppended
  <2>. QED
    BY <2>2 DEF w, q
<1>4. CASE WriterRecv
  <2>1. /\ writerPc = "recv" /\ held = {} /\ wire' = wire /\ connection' = connection
        /\ writerPc' # "write" /\ writerStream' = writerStream
    BY <1>4 DEF WriterRecv, References
  <2>2. CASE outbound = <<>>
    <3>1. ~Writable(g)'
      BY <1>4, <2>2 DEF WriterRecv, Writable
    <3>. QED
      BY <1>1, <2>1, <3>1, StreamsQuiet
  <2>3. CASE outbound # <<>>
    <3>1. held' = {Head(outbound)} /\ outbound' = Tail(outbound) /\ writerPc' = "clone"
      BY <1>4, <2>3 DEF WriterRecv
    <3>2. Hand' = <<Head(outbound)>>
      BY <3>1 DEF Hand
    <3>3. <<Head(outbound)>> \o Tail(outbound) = outbound /\ <<>> \o outbound = outbound
      BY <1>2, <2>3
    <3>4. Hand' \o outbound' = Hand \o outbound
      BY <1>2, <2>1, <3>1, <3>2, <3>3
    <3>5. Way(g)' = Way(g)
      BY <2>1, <3>4, Zenon DEF Way
    <3>6. Writable(g)' = Writable(g)
      BY <2>1, <3>1 DEF Writable
    <3>. QED
      BY <1>1, <2>1, <3>5, <3>6, StreamsQuiet
  <2>. QED
    BY <2>2, <2>3
<1>5. CASE WriterClone
  <2>1. /\ writerPc = "clone" /\ held # {} /\ wire' = wire /\ connection' = connection
        /\ outbound' = outbound /\ writerStream = Disconnected
    BY <1>5 DEF WriterClone, References
  <2>2. PICK m \in held : TRUE
    BY <2>1
  <2>3. CASE stopping
    <3>1. ~Writable(g)' /\ writerPc' # "write"
      BY <1>5, <2>3 DEF WriterClone, Writable
    <3>. QED
      BY <1>1, <2>1, <3>1, StreamsQuiet
  <2>4. CASE ~stopping /\ connection # m.token
    <3>1. writerStream' = Disconnected /\ writerPc' = "recv" /\ held' = {}
      BY <1>2, <1>5, <2>2, <2>4 DEF WriterClone, clone_stream_for
    <3>2. CASE connection = g
      <4>1. m.token # g /\ (Writable(g)' => Writable(g))
        BY <1>2, <2>1, <2>4, <3>2 DEF Writable
      <4>. QED
        BY <1>1, <2>1, <3>1, <4>1, StreamsPassed
    <3>3. CASE connection # g
      <4>1. ~Writable(g)' /\ writerPc' # "write"
        BY <2>1, <3>1, <3>3 DEF Writable
      <4>. QED
        BY <1>1, <2>1, <4>1, StreamsQuiet
    <3>. QED
      BY <3>2, <3>3
  <2>5. CASE ~stopping /\ connection = m.token
    <3>1. m.token \in Sockets /\ m.token # Disconnected
      BY <1>2
    <3>2. writerStream' = m.token /\ writerPc' = "write" /\ held' = held
      <4>1. writerStream' = m.token
        BY <1>2, <1>5, <2>5 DEF WriterClone, clone_stream_for
      <4>. QED
        BY <1>5, <2>5, <3>1, <4>1 DEF WriterClone
    <3>3. Hand' = Hand /\ Way(g)' = Way(g)
      BY <2>1, <3>2, WayKept
    <3>4. Writable(g)' => Writable(g)
      BY <1>2, <2>1 DEF Writable
    <3>5. CASE g # m.token
      BY <1>1, <2>1, <3>2, <3>3, <3>4, <3>5, StreamsQuiet
    <3>6. CASE g = m.token
      <4>1. Writable(g)
        BY <1>2, <2>1, <2>5, <3>6 DEF Writable
      <4>. DEFINE first == g = startupSock
      <4>2. Fits(first, g, Way(g))
        BY <1>1, <4>1 DEF Streams
      <4>3. Fits(first, g, wire[g] \o Hand)
        <5>. DEFINE w == wire[g]
                    q == outbound
        <5>1. w \in Seq(Message) /\ q \in Seq(Message) /\ m \in Message /\ Hand = <<m>>
          BY <1>2
        <5>2. Fits(first, g, w \o (<<m>> \o q))
          BY <4>2, <5>1, Zenon DEF Way
        <5>. HIDE DEF w, q
        <5>3. /\ w \o (<<m>> \o q) = Append(w, m) \o q /\ w \o <<m>> = Append(w, m)
              /\ Append(w, m) \in Seq(Message)
          BY <5>1, JoinAppended, Appended
        <5>4. Fits(first, g, w \o <<m>>)
          BY <5>1, <5>2, <5>3, PrefixFits
        <5>. QED
          BY <5>1, <5>4 DEF w
      <4>4. End(g)' = End(g)
        BY <3>3 DEF End
      <4>. QED
        BY <1>1, <2>1, <3>3, <3>4, <4>3, <4>4 DEF Streams
    <3>. QED
      BY <3>5, <3>6
  <2>. QED
    BY <2>3, <2>4, <2>5
<1>6. CASE WriterWriteOk
  <2>1. /\ writerPc = "write" /\ writerPc' = "recv" /\ held' = {}
        /\ connection' = connection /\ outbound' = outbound
    BY <1>6 DEF WriterWriteOk
  <2>2. PICK m \in held : wire' = [wire EXCEPT ![writerStream] = Append(@, m)]
    BY <1>6 DEF WriterWriteOk
  <2>3. m.token = writerStream /\ Hand = <<m>> /\ m \in Message /\ Hand' = <<>>
    BY <1>2, <2>1 DEF References, Hand
  <2>4. Writable(g)' = Writable(g)
    BY <2>1 DEF Writable
  <2>5. CASE g = writerStream
    <3>1. wire'[g] = Append(wire[g], m)
      BY <1>2, <2>2, <2>5
    <3>2. Way(g)' = Way(g)
      <4>. DEFINE w == wire[g]
                  q == outbound
      <4>1. <<>> \o q = q
        BY <1>2
      <4>2. Way(g) = w \o (<<m>> \o q)
        BY <2>3, Zenon DEF Way
      <4>3. Way(g)' = Append(w, m) \o (<<>> \o q)
        BY <2>1, <2>3, <3>1, Zenon DEF Way
      <4>. QED
        BY <1>3, <2>3, <4>1, <4>2, <4>3
    <3>3. wire[g] \o Hand = wire'[g]
      <4>. DEFINE w == wire[g]
      <4>1. w \in Seq(Message)
        BY <1>2
      <4>. HIDE DEF w
      <4>2. w \o <<m>> = Append(w, m)
        BY <2>3, <4>1, JoinAppended
      <4>. QED
        BY <2>3, <3>1, <4>2 DEF w
    <3>4. End(g)' = End(g)
      BY <3>2 DEF End
    <3>. QED
      BY <1>1, <2>1, <2>4, <2>5, <3>2, <3>3, <3>4 DEF Streams
  <2>6. CASE g # writerStream
    <3>1. wire'[g] = wire[g] /\ m.token # g /\ writerPc' # "write"
      BY <1>2, <2>1, <2>2, <2>3, <2>6
    <3>. QED
      BY <1>1, <2>1, <2>4, <3>1, StreamsPassed
  <2>. QED
    BY <2>5, <2>6
<1>7. CASE WriterWriteErr
  <2>1. /\ writerPc = "write" /\ writerPc' = "fail" /\ held' = {}
        /\ connection' = connection /\ outbound' = outbound /\ writerStream' = writerStream
    BY <1>7 DEF WriterWriteErr
  <2>2. PICK m \in held : wire' = IF Usable(writerStream)
                  THEN [wire EXCEPT ![writerStream] = Append(@, Torn(m))]
                  ELSE wire
    BY <1>7 DEF WriterWriteErr
  <2>3. m.token = writerStream /\ m \in Message
    BY <1>2, <2>1 DEF References
  <2>4. CASE g # writerStream
    <3>1. wire'[g] = wire[g] /\ m.token # g /\ writerPc' # "write"
      BY <1>2, <2>1, <2>2, <2>3, <2>4
    <3>2. Writable(g)' => Writable(g)
      BY <2>1 DEF Writable
    <3>. QED
      BY <1>1, <2>1, <3>1, <3>2, StreamsPassed
  <2>5. CASE g = writerStream
    <3>1. ~Writable(g)' /\ writerPc' # "write"
      BY <2>1, <2>5 DEF Writable
    <3>2. CASE ~Usable(writerStream)
      BY <1>1, <2>2, <3>1, <3>2, StreamsQuiet
    <3>3. CASE Usable(writerStream)
      <4>. DEFINE w == wire[g]
                  t == Torn(m)
                  first == g = startupSock
      <4>1. w \in Seq(Message) /\ t \in Message /\ ~IsPointer(g, t) /\ wire'[g] = Append(w, t)
        BY <1>2, <2>2, <2>3, <2>5, <3>3, TornIsMessage DEF Torn, IsPointer
      <4>2. Fits(first, g, w)
        BY <1>1 DEF Streams
      <4>. HIDE DEF w, t
      <4>3. Fits(first, g, Append(w, t))
        BY <4>1, <4>2, Sent
      <4>. QED
        BY <1>1, <3>1, <4>1, <4>3 DEF Streams
    <3>. QED
      BY <3>2, <3>3
  <2>. QED
    BY <2>4, <2>5
<1>8. CASE WriterFail
  <2>1. /\ UNCHANGED <<held, outbound, wire>> /\ writerPc' # "write"
        /\ connection' \in {connection, Disconnected} /\ connection' # writerStream
    <3>1. writerStream # Disconnected
      BY <1>8 DEF WriterFail, TypeInv, HandsAreFull, Sockets, Disconnected
    <3>. QED
      BY <1>8, <3>1 DEF WriterFail, disconnect_if_current, disconnect
  <2>2. Way(g)' = Way(g)
    BY <2>1, WayKept
  <2>3. Writable(g)' => Writable(g)
    BY <1>2, <1>8, <2>1 DEF Writable, WriterFail
  <2>. QED
    BY <1>1, <2>1, <2>2, <2>3, StreamsQuiet
<1>. QED
  BY <1>4, <1>5, <1>6, <1>7, <1>8 DEF Writer

LEMMA StreamsPromote ==
    ASSUME TypeInv, Ownership, References, NEW g \in Sockets, Streams(g), promote_startup,
           mainPc' # "resize_send", mainPc' \notin Changing => mainPc \notin Changing
    PROVE  Streams(g)'
<1>1. UNCHANGED <<remoteViewport, outbound, held, writerStream, startupSock>>
  BY DEF promote_startup, PromoteNothing, PromoteFailed, PromoteConnected,
     PromoteFromStreamErr, viewVars, startupVars
<1>2. CASE PromoteNothing \/ PromoteFailed
  <2>1. UNCHANGED <<wire, writerPc, connection>>
    BY <1>2 DEF PromoteNothing, PromoteFailed
  <2>. QED
    BY <1>1, <2>1, StreamsKept
<1>3. CASE PromoteConnected \/ PromoteFromStreamErr
  <2>1. /\ startupRx /\ startupSock \in Sockets
        /\ writerPc' # "write"
        /\ connection' \in {connection, startupSock}
    BY <1>3 DEF PromoteConnected, PromoteFromStreamErr, TypeInv, HandsAreFull, Ownership
  <2>2. /\ writerPc = "none" /\ connection = Disconnected /\ outbound = <<>> /\ held = {}
        /\ writerStream = Disconnected
    BY <2>1 DEF Ownership, References
  <2>3. Disconnected \notin Sockets /\ wire \in [Sockets -> Seq(Message)]
    BY DEF Disconnected, Sockets, TypeInv, TypeOK
  <2>4. CASE g # startupSock
    <3>1. wire'[g] = wire[g]
      BY <1>3, <2>1, <2>3, <2>4 DEF PromoteConnected, PromoteFromStreamErr
    <3>2. ~Writable(g)'
      BY <2>1, <2>2, <2>3, <2>4 DEF Writable
    <3>. QED
      BY <2>1, <3>1, <3>2, <1>1, StreamsQuiet
  <2>5. CASE g = startupSock /\ PromoteFromStreamErr
    <3>. DEFINE h == Hello(startupSock, remoteViewport)
    <3>1. wire'[g] = <<Torn(h)>> /\ connection' = connection
      BY <2>1, <2>3, <2>5 DEF PromoteFromStreamErr
    <3>2. Torn(h).kind # "pointer"
      BY DEF Torn
    <3>3. ~Writable(g)'
      BY <2>2, <2>3, <3>1 DEF Writable
    <3>. HIDE DEF h
    <3>. QED
      BY <2>1, <3>1, <3>2, <3>3, StreamsUnused
  <2>6. CASE g = startupSock /\ PromoteConnected
    <3>. DEFINE h == Hello(g, remoteViewport)
    <3>1. wire'[g] = <<h>>
      BY <2>1, <2>3, <2>6 DEF PromoteConnected
    <3>2. h.kind = "hello" /\ h.token = g /\ h.viewport = remoteViewport
      BY DEF Hello
    <3>. HIDE DEF h
    <3>3. Hand' = <<>> /\ outbound' = <<>>
      BY <1>1, <2>2 DEF Hand
    <3>4. Way(g)' = <<h>> /\ End(g)' = 2
      <4>1. <<h>> \o (<<>> \o <<>>) = <<h>>
        OBVIOUS
      <4>2. Way(g)' = <<h>>
        BY <3>1, <3>3, <4>1, Zenon DEF Way
      <4>. QED
        BY <4>2 DEF End
    <3>5. \A first : Fits(first, g, <<h>>)
      BY <3>2 DEF Fits, IsPointer
    <3>6. Known(g, <<h>>, 2, remoteViewport)
      BY <3>2 DEF Known, Announces
    <3>. QED
      BY <1>1, <2>1, <3>1, <3>4, <3>5, <3>6 DEF Streams
  <2>. QED
    BY <1>3, <2>4, <2>5, <2>6
<1>. QED
  BY <1>2, <1>3 DEF promote_startup

LEMMA StreamsMain ==
    TypeInv /\ Ownership /\ References /\ AllStreams /\ Main => AllStreams'
<1> SUFFICES ASSUME TypeInv, Ownership, References, AllStreams, Main, NEW g \in Sockets
             PROVE  Streams(g)'
  BY DEF AllStreams
<1>1. Streams(g) /\ Disconnected \notin Sockets
  BY DEF AllStreams, Disconnected, Sockets
<1> USE DEF MainUnchanged, DropUnchanged, viewVars, queueVars, writerVars
<1>2. CASE PollPromote \/ PointerPromote \/ ResizePromote
  <2>1. /\ promote_startup /\ mainPc' # "resize_send"
        /\ mainPc' \notin Changing => mainPc \notin Changing
    BY <1>2 DEF PollPromote, PointerPromote, ResizePromote, Changing
  <2>. QED
    BY <1>1, <2>1, StreamsPromote
<1>3. CASE PollTake \/ ResizeMailbox \/ PointerToken \/ DropStop \/ Drop \/ ResizeDisconnect
           \/ \E v \in Viewports : ResizeRetain(v)
  <2>1. /\ UNCHANGED <<wire, held, outbound, writerPc, writerStream, startupSock>>
        /\ connection' \in {connection, Disconnected}
        /\ mainPc' # "resize_send"
    BY <1>3 DEF PollTake, ResizeMailbox, PointerToken, DropStop, Drop, DropStartup,
       DropDisconnect, DropWake, DropQueue, DropJoinWriter, DropJoinReconnector,
       ResizeDisconnect, ResizeRetain, disconnect
  <2>2. connection' = g /\ mainPc' \notin Changing =>
           mainPc \notin Changing /\ remoteViewport' = remoteViewport
    <3>1. CASE ResizeDisconnect
      BY <1>1, <3>1 DEF ResizeDisconnect, disconnect
    <3>2. CASE ~ResizeDisconnect
      BY <1>3, <3>2 DEF PollTake, ResizeMailbox, PointerToken, DropStop, Drop, DropStartup,
         DropDisconnect, DropWake, DropQueue, DropJoinWriter, DropJoinReconnector,
         ResizeRetain, Changing
    <3>. QED
      BY <3>1, <3>2
  <2>. QED
    BY <1>1, <2>1, <2>2, StreamsKept
<1>4. CASE ResizeToken
  <2>1. /\ UNCHANGED <<wire, held, outbound, writerPc, writerStream, startupSock, connection,
                       remoteViewport>>
        /\ mainToken' = connection
        /\ mainPc' = IF connection = Disconnected THEN "idle" ELSE "resize_send"
    BY <1>4 DEF ResizeToken
  <2>2. connection' = g => mainPc' \in Changing /\ mainToken' = g
    BY <1>1, <2>1 DEF Changing
  <2>. QED
    BY <1>1, <2>1, <2>2, StreamsKept
<1>5. CASE PointerSend \/ ResizeSend
  <2>1. UNCHANGED <<wire, held, writerPc, writerStream, startupSock, connection, remoteViewport>>
    BY <1>5 DEF PointerSend, ResizeSend
  <2>2. CASE ~CanEnqueue
    <3>1. /\ outbound' = outbound /\ mainPc' # "resize_send"
          /\ mainPc' \notin Changing => mainPc \notin Changing
      BY <1>5, <2>2 DEF PointerSend, ResizeSend, Changing
    <3>. QED
      BY <1>1, <2>1, <3>1, StreamsKept
  <2>3. CASE CanEnqueue
    <3>1. PICK kind \in {"viewport", "pointer"} :
            /\ Enqueue(kind) /\ mainPc' = "idle"
            /\ \/ mainPc = "resize_send" /\ kind = "viewport"
               \/ mainPc = "pointer_send" /\ kind = "pointer"
      BY <1>5, <2>3 DEF PointerSend, ResizeSend
    <3>. DEFINE m == [kind |-> kind, viewport |-> remoteViewport, token |-> mainToken,
                      id |-> inputs]
    <3>2. /\ m.kind = kind /\ m.viewport = remoteViewport /\ m.token = mainToken
          /\ outbound' = Append(outbound, m)
      BY <3>1 DEF Enqueue
    <3>3. m \in Message
      BY <3>1 DEF TypeInv, TypeOK, HandsAreFull, Message
    <3>4. \/ mainPc = "resize_send" /\ m.kind = "viewport" /\ m.token = mainToken
          \/ mainPc \notin Changing /\ m.kind = "pointer"
      BY <3>1, <3>2 DEF Changing
    <3>. HIDE DEF m
    <3>. QED
      BY <1>1, <2>1, <3>1, <3>2, <3>3, <3>4, StreamsQueued
  <2>. QED
    BY <2>2, <2>3
<1>. QED
  BY <1>2, <1>3, <1>4, <1>5 DEF Main, MainContinues

LEMMA StreamsNext ==
    TypeInv /\ Ownership /\ References /\ AllStreams /\ [Next]_vars => AllStreams'
<1> SUFFICES ASSUME TypeInv, Ownership, References, AllStreams, [Next]_vars PROVE AllStreams'
  OBVIOUS
<1>1. CASE \/ \E g \in Sockets : \/ PeerCloses(g) \/ ReaderStops(g)
                              \/ \E v \in FrameViewports : ReaderFrame(g, v)
           \/ UNCHANGED vars
  <2>1. UNCHANGED <<mainPc, mainToken, remoteViewport, connection, outbound, held, writerPc,
                    writerStream, startupSock, wire>>
    BY <1>1 DEF PeerCloses, ReaderStops, ReaderFrame, vars, mainVars, viewVars, queueVars,
       startupVars, writerVars, netVars
  <2>. QED
    BY <2>1, StreamsKept DEF AllStreams
<1>. QED
  BY <1>1, StreamsStartup, StreamsWriter, StreamsReconnector, StreamsMain
     DEF Next, Terminated, ReaderEof, ReaderError

\* The last announcement is unique, so it is the one AnnouncedAt chooses.
LEMMA KnownIsAnnounced ==
    ASSUME TypeInv, References, NEW g \in Sockets, NEW i \in DOMAIN wire[g], NEW v,
           Known(g, wire[g], i, v)
    PROVE  v = AnnouncedAt(g, i)
<1>. DEFINE announcements == {j \in 1 .. i - 1 : wire[g][j].kind \in {"hello", "viewport"}}
            IsLast(j) == \A k \in announcements : k <= j
            last == CHOOSE j \in announcements : IsLast(j)
<1>1. i \in Nat /\ DOMAIN wire[g] = 1 .. Len(wire[g]) /\ Len(wire[g]) \in Nat
  <2>1. wire[g] \in Seq(Message)
    BY WayTypes
  <2>. QED
    BY <2>1
<1>2. \A k \in 1 .. i - 1 : Announces(g, wire[g][k]) <=> k \in announcements
  <2>1. \A k \in 1 .. i - 1 : wire[g][k].token = g
    BY <1>1 DEF References
  <2>. QED
    BY <2>1 DEF Announces
<1>3. PICK j \in 1 .. i - 1 :
        /\ Announces(g, wire[g][j]) /\ wire[g][j].viewport = v
        /\ \A k \in j + 1 .. i - 1 : ~Announces(g, wire[g][k])
  BY DEF Known
<1>4. j \in announcements /\ IsLast(j)
  <2>1. j \in announcements
    BY <1>2, <1>3
  <2>2. ASSUME NEW k \in announcements PROVE k <= j
    <3>1. k \in 1 .. i - 1 /\ Announces(g, wire[g][k])
      BY <1>2
    <3>. HIDE DEF announcements
    <3>2. k \notin j + 1 .. i - 1
      BY <1>3, <3>1
    <3>. QED
      BY <1>1, <3>1, <3>2
  <2>. QED
    BY <2>1, <2>2
<1>5. last \in announcements /\ IsLast(last)
  BY <1>4
<1>6. last = j
  <2>1. last <= j /\ j <= last /\ last \in 1 .. i - 1
    BY <1>4, <1>5
  <2>. HIDE DEF last
  <2>. QED
    BY <1>1, <2>1
<1>. QED
  BY <1>3, <1>6 DEF AnnouncedAt

LEMMA FitsFollow ==
    ASSUME TypeInv, References, AllStreams
    PROVE  PointersFollowViewport
<1>1. ASSUME NEW g \in Sockets, NEW first \in Nat \ {0},
             g = startupSock
             \/ \E j \in DOMAIN wire[g] : wire[g][j].kind = "viewport" /\ first = j + 1
      PROVE  PointersFit(g, first)
  <2>1. SUFFICES ASSUME NEW i \in first .. Len(wire[g]), wire[g][i].kind = "pointer"
                 PROVE  wire[g][i].viewport = AnnouncedAt(g, i)
    BY DEF PointersFit
  <2>2. wire[g] \in Seq(Message)
    BY WayTypes
  <2>3. DOMAIN wire[g] = 1 .. Len(wire[g]) /\ i \in DOMAIN wire[g] /\ i \in Nat
    BY <2>2
  <2>4. \A j \in DOMAIN wire[g] : wire[g][j].token = g
    BY DEF References
  <2>5. Covered(g = startupSock, g, wire[g], i)
    <3>1. ASSUME NEW j \in DOMAIN wire[g], wire[g][j].kind = "viewport", first = j + 1
          PROVE  j \in 1 .. i - 1 /\ wire[g][j].token = g /\ wire[g][j].kind = "viewport"
      BY <2>3, <2>4, <3>1
    <3>. QED
      BY <1>1, <3>1 DEF Covered
  <2>6. Known(g, wire[g], i, wire[g][i].viewport)
    BY <2>1, <2>3, <2>4, <2>5 DEF AllStreams, Streams, Fits, IsPointer
  <2>. QED
    BY <2>3, <2>6, KnownIsAnnounced
<1>2. ASSUME NEW g \in Sockets PROVE DOMAIN wire[g] = 1 .. Len(wire[g])
  <2>1. wire[g] \in Seq(Message)
    BY WayTypes
  <2>. QED
    BY <2>1
<1>3. ASSUME NEW g \in Sockets, g = startupSock PROVE PointersFit(g, 1)
  BY <1>1, <1>3
<1>4. ASSUME NEW g \in Sockets, NEW j \in DOMAIN wire[g], wire[g][j].kind = "viewport"
      PROVE  PointersFit(g, j + 1)
  <2>1. j + 1 \in Nat \ {0}
    BY <1>2
  <2>. QED
    BY <1>1, <1>4, <2>1
<1>. QED
  BY <1>3, <1>4 DEF PointersFollowViewport

\* Each pointer is read by a peer that knows the viewport its coordinates
\* refer to, on the connection made at startup and behind every
\* ViewportChanged, whatever the queue refuses and the reconnector replaces.
THEOREM PointersFollow == Spec => []PointersFollowViewport
<1>1. Init => References /\ AllStreams
  BY ReferencesInit, StreamsInit
<1>2. TypeInv /\ Ownership /\ References /\ AllStreams /\ [Next]_vars
        => (References /\ AllStreams)'
  BY ReferencesNext, StreamsNext
<1>3. TypeInv /\ References /\ AllStreams => PointersFollowViewport
  BY FitsFollow
<1>. QED
  BY <1>1, <1>2, <1>3, Invariance, PTL DEF Spec

-----------------------------------------------------------------------------
(* The messages of a queue that have one token: what becomes of them when  *)
(* a message is appended to the queue or taken from its front.             *)

LEMMA Least ==
    ASSUME NEW S, S \subseteq Nat, S # {}
    PROVE  \E n \in S : \A k \in S : ~(k < n)
<1>. DEFINE R == OpToRel(<, Nat)
<1>1. IsWellFoundedOn(R, Nat)
  BY NatLessThanWellFounded
<1>2. \E n \in S : \A k \in S : ~(<<k, n>> \in R)
  <2>. HIDE DEF R
  <2>. QED
    BY <1>1, WFMin
<1>3. \A k, n \in Nat : k < n => <<k, n>> \in R
  BY DEF OpToRel
<1>. QED
  BY <1>2, <1>3

\* Induction over the natural numbers, for a set.
LEMMA Induct ==
    ASSUME NEW S, 0 \in S, \A n \in Nat : n \in S => n + 1 \in S
    PROVE  Nat \subseteq S
<1>. DEFINE T == {n \in Nat : n \notin S}
<1>1. CASE T # {}
  <2>1. PICK n \in T : \A k \in T : ~(k < n)
    <3>1. T \subseteq Nat
      OBVIOUS
    <3>. HIDE DEF T
    <3>. QED
      BY <1>1, <3>1, Least
  <2>2. n # 0 /\ n \in Nat
    BY <2>1
  <2>3. n - 1 \in Nat /\ n - 1 < n /\ (n - 1) + 1 = n
    BY <2>2
  <2>4. n - 1 \in S
    BY <2>1, <2>3
  <2>. QED
    BY <2>1, <2>3, <2>4
<1>. QED
  BY <1>1

\* What becomes of the messages selected so far with one more message.
Select(g, selected, m) == IF m.token = g THEN Append(selected, m) ELSE selected

\* f is the recursive function of MessagesFor for the first n messages.
Selects(g, messages, n, f) ==
    f = [i \in 0 .. n |-> IF i = 0 THEN <<>>
                          ELSE IF messages[i].token = g THEN Append(f[i - 1], messages[i])
                          ELSE f[i - 1]]

\* f begins with nothing and selects message by message.
Steps(g, messages, n, f) ==
    f[0] = <<>> /\ \A i \in 1 .. n : f[i] = Select(g, f[i - 1], messages[i])

LEMMA SelectsAt ==
    ASSUME NEW g, NEW messages, NEW n \in Nat, NEW f, Selects(g, messages, n, f)
    PROVE  Steps(g, messages, n, f)
<1>1. f[0] = <<>>
  BY DEF Selects
<1>2. \A i \in 1 .. n : i \in 0 .. n /\ i # 0
  OBVIOUS
<1>3. \A i \in 1 .. n : f[i] = Select(g, f[i - 1], messages[i])
  BY <1>2 DEF Selects, Select
<1>. QED
  BY <1>1, <1>3 DEF Steps

LEMMA SelectsFunction ==
    ASSUME NEW g, NEW messages, NEW n, NEW f, Selects(g, messages, n, f)
    PROVE  f = [i \in 0 .. n |-> f[i]]
  BY DEF Selects

\* A function that begins with the empty sequence and selects step by step is it.
LEMMA SelectsFrom ==
    ASSUME NEW g, NEW messages, NEW n \in Nat, NEW f, f = [i \in 0 .. n |-> f[i]],
           Steps(g, messages, n, f)
    PROVE  Selects(g, messages, n, f)
<1>1. \A i \in 0 .. n : f[i] = IF i = 0 THEN <<>>
                          ELSE IF messages[i].token = g THEN Append(f[i - 1], messages[i])
                          ELSE f[i - 1]
  <2>1. \A i \in 0 .. n : i = 0 \/ i \in 1 .. n
    OBVIOUS
  <2>. QED
    BY <2>1 DEF Steps, Select
<1>. QED
  BY <1>1 DEF Selects

LEMMA SelectsExists == \A g, messages : \A n \in Nat : \E f : Selects(g, messages, n, f)
<1>. TAKE g, messages
<1>. DEFINE S == {n \in Nat : \E f : Selects(g, messages, n, f)}
<1>1. 0 \in S
  <2>. DEFINE f == [i \in 0 .. 0 |-> <<>>]
  <2>1. f = [i \in 0 .. 0 |-> f[i]] /\ f[0] = <<>> /\ 0 \in Nat
    OBVIOUS
  <2>2. \A i \in 1 .. 0 : f[i] = Select(g, f[i - 1], messages[i])
    OBVIOUS
  <2>. HIDE DEF f
  <2>. QED
    BY <2>1, <2>2, SelectsFrom DEF Steps
<1>2. ASSUME NEW n \in Nat, n \in S
      PROVE  n + 1 \in S
  <2>1. PICK f : Selects(g, messages, n, f)
    BY <1>2
  <2>2. /\ f[0] = <<>>
        /\ \A i \in 1 .. n : f[i] = Select(g, f[i - 1], messages[i])
    <3>1. Steps(g, messages, n, f)
      BY <2>1, SelectsAt
    <3>. QED
      BY <3>1 DEF Steps
  <2>. DEFINE h == [i \in 0 .. n + 1 |->
                      IF i = n + 1 THEN Select(g, f[n], messages[n + 1]) ELSE f[i]]
  <2>3. h = [i \in 0 .. n + 1 |-> h[i]] /\ n + 1 \in Nat
    OBVIOUS
  <2>4. /\ h[n + 1] = Select(g, f[n], messages[n + 1])
        /\ \A i \in 0 .. n : h[i] = f[i]
    OBVIOUS
  <2>5. h[0] = <<>>
    <3>1. 0 \in 0 .. n
      OBVIOUS
    <3>. HIDE DEF h
    <3>. QED
      BY <2>2, <2>4, <3>1
  <2>. HIDE DEF h
  <2>6. ASSUME NEW i \in 1 .. n + 1
        PROVE  h[i] = Select(g, h[i - 1], messages[i])
    <3>1. CASE i = n + 1
      <4>1. i - 1 = n /\ n \in 0 .. n
        BY <3>1
      <4>. QED
        BY <2>4, <3>1, <4>1
    <3>2. CASE i # n + 1
      <4>1. i \in 1 .. n /\ i \in 0 .. n /\ i - 1 \in 0 .. n
        BY <3>2
      <4>. QED
        BY <2>2, <2>4, <4>1
    <3>. QED
      BY <3>1, <3>2
  <2>7. Selects(g, messages, n + 1, h)
    BY <2>3, <2>5, <2>6, SelectsFrom DEF Steps
  <2>. QED
    BY <2>3, <2>7
<1>. HIDE DEF S
<1>3. Nat \subseteq S
  BY <1>1, <1>2, Induct
<1>. QED
  BY <1>3 DEF S

LEMMA SelectsUnique ==
    ASSUME NEW g, NEW messages, NEW n \in Nat, NEW f, NEW h,
           Selects(g, messages, n, f), Selects(g, messages, n, h)
    PROVE  f = h
<1>. DEFINE S == {i \in Nat : i \in 0 .. n => f[i] = h[i]}
<1>1. /\ f[0] = <<>>
      /\ \A i \in 1 .. n : f[i] = Select(g, f[i - 1], messages[i])
  <2>1. Steps(g, messages, n, f)
    BY SelectsAt, Zenon
  <2>. QED
    BY <2>1 DEF Steps
<1>5. /\ h[0] = <<>>
      /\ \A i \in 1 .. n : h[i] = Select(g, h[i - 1], messages[i])
  <2>1. Steps(g, messages, n, h)
    BY SelectsAt, Zenon
  <2>. QED
    BY <2>1 DEF Steps
<1>2. 0 \in S
  BY <1>1, <1>5
<1>3. ASSUME NEW i \in Nat, i \in S
      PROVE  i + 1 \in S
  <2> SUFFICES ASSUME i + 1 \in 0 .. n
               PROVE  f[i + 1] = h[i + 1]
    OBVIOUS
  <2>1. i \in 0 .. n /\ i + 1 \in 1 .. n /\ (i + 1) - 1 = i
    OBVIOUS
  <2>2. f[i] = h[i]
    BY <1>3, <2>1
  <2>3. /\ f[i + 1] = Select(g, f[(i + 1) - 1], messages[i + 1])
        /\ h[i + 1] = Select(g, h[(i + 1) - 1], messages[i + 1])
    BY <1>1, <1>5, <2>1
  <2>. QED
    BY <2>1, <2>2, <2>3
<1>4. Nat \subseteq S
  <2>. HIDE DEF S
  <2>. QED
    BY <1>2, <1>3, Induct
<1>6. \A i \in 0 .. n : f[i] = h[i]
  BY <1>4
<1>7. f = [i \in 0 .. n |-> f[i]] /\ h = [i \in 0 .. n |-> h[i]]
  BY SelectsFunction, Zenon
<1>. QED
  BY <1>6, <1>7

LEMMA MessagesForIs ==
    ASSUME NEW g, NEW messages, Len(messages) \in Nat, NEW f,
           Selects(g, messages, Len(messages), f)
    PROVE  MessagesFor(g, messages) = f[Len(messages)]
<1>. DEFINE h == CHOOSE h : Selects(g, messages, Len(messages), h)
<1>1. MessagesFor(g, messages) = h[Len(messages)]
  BY DEF MessagesFor, Selects
<1>2. Selects(g, messages, Len(messages), h)
  OBVIOUS
<1>. HIDE DEF h
<1>3. h = f
  BY <1>2, SelectsUnique
<1>. QED
  BY <1>1, <1>3

LEMMA MessagesForNone ==
    ASSUME NEW g, NEW s, s = <<>>
    PROVE  MessagesFor(g, s) = <<>>
<1>1. Len(s) = 0 /\ 0 \in Nat
  OBVIOUS
<1>2. PICK f : Selects(g, s, 0, f)
  BY <1>1, SelectsExists, Zenon
<1>3. MessagesFor(g, s) = f[0]
  BY <1>1, <1>2, MessagesForIs
<1>4. f[0] = <<>>
  <2>1. Steps(g, s, 0, f)
    BY <1>1, <1>2, SelectsAt, Zenon
  <2>. QED
    BY <2>1 DEF Steps
<1>. QED
  BY <1>3, <1>4

LEMMA MessagesForAppend ==
    ASSUME NEW g, NEW s \in Seq(Message), NEW m \in Message
    PROVE  MessagesFor(g, Append(s, m)) = Select(g, MessagesFor(g, s), m)
<1>. DEFINE n == Len(s)
            t == Append(s, m)
<1>1. /\ n \in Nat /\ n + 1 \in Nat /\ Len(t) = n + 1
      /\ t[n + 1] = m /\ \A i \in 1 .. n : t[i] = s[i]
  OBVIOUS
<1>. HIDE DEF n, t
<1>2. PICK f : Selects(g, t, n + 1, f)
  BY <1>1, SelectsExists, Zenon
<1>3. MessagesFor(g, t) = f[n + 1]
  BY <1>1, <1>2, MessagesForIs
<1>4. /\ f[0] = <<>>
      /\ \A i \in 1 .. n + 1 : f[i] = Select(g, f[i - 1], t[i])
  <2>1. Steps(g, t, n + 1, f)
    BY <1>1, <1>2, SelectsAt, Zenon
  <2>. QED
    BY <2>1 DEF Steps
<1>. DEFINE h == [i \in 0 .. n |-> f[i]]
<1>5. h = [i \in 0 .. n |-> h[i]] /\ \A i \in 0 .. n : h[i] = f[i]
  OBVIOUS
<1>. HIDE DEF h
<1>6. \A i \in 1 .. n : h[i] = Select(g, h[i - 1], s[i])
  <2>1. \A i \in 1 .. n : i \in 0 .. n /\ i - 1 \in 0 .. n /\ i \in 1 .. n + 1
    BY <1>1
  <2>. QED
    BY <1>1, <1>4, <1>5, <2>1
<1>7. h[0] = <<>> /\ h[n] = f[n]
  <2>1. 0 \in 0 .. n /\ n \in 0 .. n
    BY <1>1
  <2>. QED
    BY <1>4, <1>5, <2>1
<1>8. Selects(g, s, n, h)
  BY <1>1, <1>5, <1>6, <1>7, SelectsFrom DEF Steps
<1>9. MessagesFor(g, s) = h[n]
  BY <1>1, <1>8, MessagesForIs DEF n
<1>10. f[n + 1] = Select(g, f[n], m)
  <2>1. n + 1 \in 1 .. n + 1 /\ (n + 1) - 1 = n
    BY <1>1
  <2>. QED
    BY <1>1, <1>4, <2>1
<1>. QED
  BY <1>3, <1>7, <1>9, <1>10 DEF t

\* What comes first in the queue comes first of the messages of its connection.
LEMMA MessagesForTail ==
    ASSUME NEW g, NEW s \in Seq(Message), s # <<>>
    PROVE  /\ MessagesFor(g, Tail(s)) \in Seq(Message)
           /\ MessagesFor(g, s) =
                IF Head(s).token = g THEN <<Head(s)>> \o MessagesFor(g, Tail(s))
                ELSE MessagesFor(g, Tail(s))
<1>. DEFINE n == Len(s) - 1
            t == Tail(s)
            m == Head(s)
            first == Select(g, <<>>, m)
<1>1. /\ n \in Nat /\ n + 1 \in Nat /\ Len(s) = n + 1 /\ Len(t) = n
      /\ t \in Seq(Message) /\ m \in Message
      /\ s[1] = m /\ \A i \in 1 .. n : t[i] = s[i + 1]
  OBVIOUS
<1>2. \A i \in 1 .. n : t[i] \in Message
  BY <1>1
<1>. HIDE DEF n, t, m
<1>3. first \in Seq(Message)
  BY <1>1 DEF Select
<1>4. PICK f : Selects(g, s, n + 1, f)
  BY <1>1, SelectsExists, Zenon
<1>5. PICK h : Selects(g, t, n, h)
  BY <1>1, SelectsExists, Zenon
<1>6. MessagesFor(g, s) = f[n + 1] /\ MessagesFor(g, t) = h[n]
  BY <1>1, <1>4, <1>5, MessagesForIs
<1>7. /\ f[0] = <<>>
      /\ \A i \in 1 .. n + 1 : f[i] = Select(g, f[i - 1], s[i])
  <2>1. Steps(g, s, n + 1, f)
    BY <1>1, <1>4, SelectsAt, Zenon
  <2>. QED
    BY <2>1 DEF Steps
<1>8. /\ h[0] = <<>>
      /\ \A i \in 1 .. n : h[i] = Select(g, h[i - 1], t[i])
  <2>1. Steps(g, t, n, h)
    BY <1>1, <1>5, SelectsAt, Zenon
  <2>. QED
    BY <2>1 DEF Steps
<1>. DEFINE S == {i \in Nat : i \in 0 .. n =>
                     h[i] \in Seq(Message) /\ f[i + 1] = first \o h[i]}
<1>9. 0 \in S
  <2>1. f[1] = Select(g, f[0], s[1])
    <3>1. 1 \in 1 .. n + 1 /\ 1 - 1 = 0
      BY <1>1
    <3>. QED
      BY <1>7, <3>1
  <2>2. f[0 + 1] = first
    BY <1>1, <1>7, <2>1
  <2>. HIDE DEF first
  <2>3. first \o <<>> = first
    BY <1>3
  <2>4. h[0] \in Seq(Message)
    BY <1>8
  <2>. QED
    BY <1>8, <2>2, <2>3, <2>4
<1>. HIDE DEF first
<1>10. ASSUME NEW i \in Nat, i \in S
       PROVE  i + 1 \in S
  <2>. SUFFICES ASSUME i + 1 \in 0 .. n
                PROVE  h[i + 1] \in Seq(Message) /\ f[(i + 1) + 1] = first \o h[i + 1]
    OBVIOUS
  <2>. DEFINE j == i + 1
  <2>1. /\ i \in 0 .. n /\ j \in 1 .. n /\ j - 1 = i
        /\ j + 1 \in 1 .. n + 1 /\ (j + 1) - 1 = j
    BY <1>1
  <2>2. h[i] \in Seq(Message) /\ f[j] = first \o h[i]
    BY <1>10, <2>1
  <2>. HIDE DEF j, S
  <2>3. /\ h[j] = Select(g, h[i], t[j])
        /\ f[j + 1] = Select(g, f[j], t[j])
    BY <1>1, <1>7, <1>8, <2>1
  <2>4. t[j] \in Message
    BY <1>2, <2>1
  <2>. DEFINE a == h[i]
              b == t[j]
  <2>5. /\ Append(a, b) \in Seq(Message)
        /\ first \o Append(a, b) = Append(first \o a, b)
    <3>1. a \in Seq(Message) /\ b \in Message
      BY <2>2, <2>4
    <3>. HIDE DEF a, b
    <3>. QED
      BY <1>3, <3>1, JoinAppended, AppendKeepsType
  <2>6. h[j] \in Seq(Message) /\ f[j + 1] = first \o h[j]
    BY <2>2, <2>3, <2>5 DEF Select
  <2>. QED
    BY <2>6 DEF j
<1>11. Nat \subseteq S
  <2>. HIDE DEF S
  <2>. QED
    BY <1>9, <1>10, Induct
<1>12. h[n] \in Seq(Message) /\ f[n + 1] = first \o h[n]
  <2>1. n \in S /\ n \in 0 .. n
    BY <1>1, <1>11
  <2>. QED
    BY <2>1
<1>13. <<>> \o MessagesFor(g, t) = MessagesFor(g, t)
  BY <1>6, <1>12
<1>14. first = IF m.token = g THEN <<m>> ELSE <<>>
  <2>1. Append(<<>>, m) = <<m>>
    OBVIOUS
  <2>. QED
    BY <2>1 DEF first, Select
<1>. QED
  BY <1>6, <1>12, <1>13, <1>14 DEF t, m

-----------------------------------------------------------------------------
(* The refinement of OrderedDelivery: what the steps of the abstract       *)
(* transport ask of the steps of this one.                                 *)

\* A connection that is greeted and has not ended.
Live(g) == Writable(g) \/ Installing(g)

LEMMA NotLive ==
    /\ \A g : ~Live(g) => Pending(g) = <<>>
    /\ Ended = {g \in Sockets : wire[g] # <<>> /\ ~Live(g)}
  BY DEF Live, Pending, Ended

LEMMA NotLivePrimed ==
    /\ \A g : ~Live(g)' => Pending(g)' = <<>>
    /\ Ended' = {g \in Sockets : wire'[g] # <<>> /\ ~Live(g)'}
  BY DEF Live, Pending, Ended

\* Nothing is written and one connection ends, or none.
LEMMA Ends ==
    ASSUME wire' = wire,
           \A g \in Sockets : Live(g)' => Live(g) /\ Pending(g)' = Pending(g),
           \A g \in Sockets : Live(g) => wire[g] # <<>>,
           \A g, h \in Sockets : Live(g) /\ ~Live(g)' /\ Live(h) /\ ~Live(h)' => g = h
    PROVE  [Delivery!Next]_(Delivery!vars)
<1>1. \A g \in Sockets : ~Live(g) => Pending(g) = <<>> /\ Pending(g)' = <<>> /\ ~Live(g)'
  BY NotLive, NotLivePrimed
<1>2. CASE \A g \in Sockets : Live(g) => Live(g)'
  <2>1. Ended' = Ended
    BY <1>1, <1>2, NotLive, NotLivePrimed
  <2>2. \A g \in Sockets : Pending(g)' = Pending(g)
    BY <1>1, <1>2
  <2>. QED
    BY <2>1, <2>2 DEF Delivery!vars
<1>3. ASSUME NEW g \in Sockets, Live(g), ~Live(g)'
      PROVE  Delivery!Next
  <2>1. g \notin Ended /\ Ended' = Ended \cup {g}
    BY <1>1, <1>3, NotLive, NotLivePrimed
  <2>2. Pending(g)' = <<>> /\ \A h \in Sockets : h # g => Pending(h)' = Pending(h)
    BY <1>1, <1>3, NotLivePrimed
  <2>3. Delivery!End(g)
    BY <2>1, <2>2 DEF Delivery!End
  <2>. QED
    BY <2>3 DEF Delivery!Next
<1>. QED
  BY <1>2, <1>3

\* All other connections stay as they are.
Others(g) ==
    \A h \in Sockets : h # g => (Live(h)' <=> Live(h)) /\ Pending(h)' = Pending(h)

LEMMA Greets ==
    ASSUME NEW g \in Sockets, wire \in [Sockets -> Seq(Message)], wire[g] = <<>>,
           NEW hello \in Message, hello.kind = "hello",
           Others(g), Pending(g)' = Pending(g),
           \/ wire' = [wire EXCEPT ![g] = <<hello>>] /\ Live(g)'
           \/ wire' = [wire EXCEPT ![g] = <<Torn(hello)>>] /\ ~Live(g)'
    PROVE  Delivery!Next
<1>1. g \notin Ended
  BY NotLive
<1>2. \A h \in Sockets : Pending(h)' = Pending(h)
  BY DEF Others
<1>3. CASE wire' = [wire EXCEPT ![g] = <<hello>>] /\ Live(g)'
  <2>1. Ended' = Ended
    BY <1>1, <1>3, NotLive, NotLivePrimed DEF Others
  <2>2. Delivery!Greet(g, hello)
    BY <1>1, <1>2, <1>3, <2>1 DEF Delivery!Greet
  <2>. QED
    BY <2>2 DEF Delivery!Next
<1>4. CASE wire' = [wire EXCEPT ![g] = <<Torn(hello)>>] /\ ~Live(g)'
  <2>1. Ended' = Ended \cup {g}
    BY <1>1, <1>4, NotLive, NotLivePrimed DEF Others
  <2>2. Delivery!GreetingFails(g, hello)
    BY <1>1, <1>2, <1>4, <2>1 DEF Delivery!GreetingFails
  <2>. QED
    BY <2>2 DEF Delivery!Next
<1>. QED
  BY <1>3, <1>4

LEMMA Front ==
    ASSUME NEW m \in Message, NEW rest \in Seq(Message)
    PROVE  /\ Head(<<m>> \o rest) = m /\ Tail(<<m>> \o rest) = rest
           /\ <<m>> \o rest # <<>>
  OBVIOUS

\* A message is written, or breaks off and its connection ends.
LEMMA Delivers ==
    ASSUME NEW g \in Sockets, wire \in [Sockets -> Seq(Message)], Live(g),
           NEW m \in Message, NEW rest \in Seq(Message), Pending(g) = <<m>> \o rest,
           Others(g),
           \/ /\ wire' = [wire EXCEPT ![g] = Append(@, m)]
              /\ Live(g)' /\ Pending(g)' = rest
           \/ wire' = [wire EXCEPT ![g] = Append(@, Torn(m))] /\ ~Live(g)'
    PROVE  Delivery!Next
<1>1. g \notin Ended /\ Pending(g) # <<>> /\ Head(Pending(g)) = m /\ Tail(Pending(g)) = rest
  BY NotLive, Front
<1>2. Append(wire[g], Torn(m)) # <<>>
  BY TornIsMessage
<1>3. CASE /\ wire' = [wire EXCEPT ![g] = Append(@, m)]
           /\ Live(g)' /\ Pending(g)' = rest
  <2>1. Ended' = Ended
    BY <1>1, <1>3, NotLive, NotLivePrimed DEF Others
  <2>2. Delivery!Deliver(g)
    BY <1>1, <1>3, <2>1 DEF Delivery!Deliver, Others
  <2>. QED
    BY <2>2 DEF Delivery!Next
<1>4. CASE wire' = [wire EXCEPT ![g] = Append(@, Torn(m))] /\ ~Live(g)'
  <2>1. Ended' = Ended \cup {g}
    <3>1. wire'[g] # <<>>
      BY <1>2, <1>4
    <3>2. \A h \in Sockets : h # g => wire'[h] = wire[h]
      BY <1>4
    <3>. QED
      BY <1>1, <1>4, <3>1, <3>2, NotLive, NotLivePrimed DEF Others
  <2>2. Pending(g)' = <<>>
    BY <1>4, NotLivePrimed
  <2>3. Delivery!DeliveryFails(g)
    BY <1>1, <1>4, <2>1, <2>2 DEF Delivery!DeliveryFails, Others
  <2>. QED
    BY <2>3 DEF Delivery!Next
<1>. QED
  BY <1>3, <1>4

LEMMA Accepts ==
    ASSUME NEW g \in Sockets, wire' = wire, wire[g] # <<>>, Live(g), Live(g)',
           NEW m \in Message, m.kind \in {"viewport", "pointer"},
           Pending(g)' = Append(Pending(g), m), Others(g)
    PROVE  Delivery!Next
<1>1. g \notin Ended /\ Ended' = Ended
  BY NotLive, NotLivePrimed DEF Others
<1>2. Delivery!Accept(g, m)
  BY <1>1 DEF Delivery!Accept, Others
<1>. QED
  BY <1>2 DEF Delivery!Next

-----------------------------------------------------------------------------
(* Every step of a thread is a step of the abstract transport or none.     *)

\* The current connection was greeted, the startup worker's not yet, and it
\* had done its work when the other threads started.
Greeted ==
    /\ connection \in Sockets => wire[connection] # <<>>
    /\ startupPc = "send_connected" \/ startupChannel = "connected" => wire[startupSock] = <<>>
    /\ reconnectorPc # "none" => startupPc = "done"

GreetInv == TypeInv /\ Ownership /\ References /\ Greeted

LEMMA TypesOf ==
    ASSUME TypeInv
    PROVE  /\ wire \in [Sockets -> Seq(Message)] /\ outbound \in Seq(Message)
           /\ \A g \in Sockets : g # Disconnected
           /\ \A m \in held : m \in Message
           /\ \A m \in fresh : m \in Message
           /\ \A m \in Message : m.token \in Sockets
<1>1. \A g \in Sockets : g # Disconnected
  BY DEF Sockets, Disconnected
<1>2. /\ wire \in [Sockets -> Seq(Message)] /\ outbound \in Seq(Message)
      /\ held \subseteq Message /\ fresh \subseteq Message
  BY DEF TypeInv, TypeOK
<1>3. \A m \in Message : m.token \in Sockets
  BY DEF Message
<1>. QED
  BY <1>1, <1>2, <1>3

LEMMA LiveIsGreeted == GreetInv => \A g \in Sockets : Live(g) => wire[g] # <<>>
<1>. SUFFICES ASSUME GreetInv, NEW g \in Sockets, Live(g)
              PROVE  wire[g] # <<>>
  OBVIOUS
<1>1. CASE Writable(g)
  BY <1>1 DEF Writable, GreetInv, Greeted
<1>2. CASE Installing(g)
  <2>1. PICK hello \in fresh : hello.token = g /\ wire[g] = <<hello>>
    BY <1>2 DEF Installing, GreetInv, References
  <2>. QED
    BY <2>1
<1>. QED
  BY <1>1, <1>2 DEF Live

\* Who is installing is not yet current, and nothing waits for it.
LEMMA InstallingIsUnknown ==
    ASSUME GreetInv, NEW g \in Sockets, Installing(g)
    PROVE  ~Writable(g) /\ Unknown(g)
<1>1. Unknown(g)
  BY DEF Installing, GreetInv, References
<1>. QED
  BY <1>1 DEF Unknown, Writable

\* Nothing is written, and who could be written to may not be any more.
LEMMA Leaves ==
    ASSUME GreetInv, wire' = wire, \A g \in Sockets : Installing(g)' <=> Installing(g),
           \A g \in Sockets : Writable(g)' => Writable(g) /\ Pending(g)' = Pending(g)
    PROVE  [Delivery!Next]_(Delivery!vars)
<1>1. ASSUME NEW g \in Sockets, Live(g)'
      PROVE  Live(g) /\ Pending(g)' = Pending(g)
  <2>1. CASE Writable(g)'
    BY <2>1 DEF Live
  <2>2. CASE ~Writable(g)'
    <3>1. Installing(g)
      BY <1>1, <2>2 DEF Live
    <3>2. ~Writable(g)
      BY <3>1, InstallingIsUnknown
    <3>. QED
      BY <2>2, <3>1, <3>2 DEF Live, Pending
  <2>. QED
    BY <2>1, <2>2
<1>2. ASSUME NEW g \in Sockets, Live(g), ~Live(g)'
      PROVE  g = connection
  BY <1>2 DEF Live, Writable
<1>. QED
  BY <1>1, <1>2, Ends, LiveIsGreeted

\* Nothing is sent or written, and the connection may go.
LEMMA Shuts ==
    ASSUME GreetInv, UNCHANGED <<wire, held, outbound, writerPc, writerStream>>,
           \A g \in Sockets : Installing(g)' <=> Installing(g),
           connection' \in {connection, Disconnected}
    PROVE  [Delivery!Next]_(Delivery!vars)
<1>1. \A g \in Sockets : g # Disconnected
  BY TypesOf DEF GreetInv
<1>2. \A g \in Sockets : Writable(g)' => Writable(g)
  BY <1>1 DEF Writable
<1>3. \A g \in Sockets : InFlight(g)' = InFlight(g)
  BY DEF InFlight
<1>4. \A g \in Sockets : Writable(g)' => Pending(g)' = Pending(g)
  BY <1>2, <1>3 DEF Pending
<1>. QED
  BY <1>2, <1>4, Leaves

-----------------------------------------------------------------------------
(* What waits for a connection.                                            *)

LEMMA HeldIs ==
    ASSUME GreetInv, NEW g \in Sockets
    PROVE  /\ held = {} => InFlight(g) = <<>>
           /\ \A m \in held : InFlight(g) = IF m.token = g THEN <<m>> ELSE <<>>
<1>1. \A m \in held : (CHOOSE n \in held : TRUE) = m
  BY DEF GreetInv, References
<1>. QED
  BY <1>1 DEF InFlight

LEMMA MessagesForTyped ==
    ASSUME NEW g, NEW s \in Seq(Message)
    PROVE  MessagesFor(g, s) \in Seq(Message)
<1>1. CASE s = <<>>
  BY <1>1, MessagesForNone
<1>2. CASE s # <<>>
  <2>. DEFINE m == Head(s)
              rest == MessagesFor(g, Tail(s))
  <2>1. m \in Message /\ rest \in Seq(Message)
        /\ MessagesFor(g, s) = IF m.token = g THEN <<m>> \o rest ELSE rest
    BY <1>2, HeadAndTail, MessagesForTail
  <2>. HIDE DEF m, rest
  <2>. QED
    BY <2>1
<1>. QED
  BY <1>1, <1>2

\* Nothing waits in the queue for whom no message is meant.
LEMMA MessagesForUnknown ==
    ASSUME NEW g, NEW s \in Seq(Message), \A i \in DOMAIN s : s[i].token # g
    PROVE  MessagesFor(g, s) = <<>>
<1>. DEFINE n == Len(s)
<1>1. n \in Nat /\ \A i \in 1 .. n : s[i].token # g
  OBVIOUS
<1>. HIDE DEF n
<1>2. PICK f : Selects(g, s, n, f)
  BY <1>1, SelectsExists, Zenon
<1>3. MessagesFor(g, s) = f[n]
  BY <1>1, <1>2, MessagesForIs DEF n
<1>4. f[0] = <<>> /\ \A i \in 1 .. n : f[i] = f[i - 1]
  <2>1. Steps(g, s, n, f)
    BY <1>1, <1>2, SelectsAt, Zenon
  <2>. QED
    BY <1>1, <2>1 DEF Steps, Select
<1>. DEFINE S == {i \in Nat : i \in 0 .. n => f[i] = <<>>}
<1>5. 0 \in S
  BY <1>4
<1>6. ASSUME NEW i \in Nat, i \in S
      PROVE  i + 1 \in S
  <2>1. i + 1 \in 0 .. n => i \in 0 .. n /\ i + 1 \in 1 .. n /\ (i + 1) - 1 = i
    BY <1>1
  <2>. QED
    BY <1>4, <1>6, <2>1
<1>7. Nat \subseteq S
  <2>. HIDE DEF S
  <2>. QED
    BY <1>5, <1>6, Induct
<1>8. n \in S /\ n \in 0 .. n
  BY <1>1, <1>7
<1>. QED
  BY <1>3, <1>8

-----------------------------------------------------------------------------
(* The writer.                                                             *)

LEMMA WriterDelivers == GreetInv /\ Writer => [Delivery!Next]_(Delivery!vars)
<1>. SUFFICES ASSUME GreetInv, Writer PROVE [Delivery!Next]_(Delivery!vars)
  OBVIOUS
<1>1. /\ UNCHANGED <<reconnectorPc, fresh>>
      /\ \A g \in Sockets : Installing(g)' <=> Installing(g)
  BY DEF Writer, WriterRecv, WriterClone, WriterWriteOk, WriterWriteErr, WriterFail,
     WriterUnchanged, reconnectorVars, Installing
<1>2. /\ wire \in [Sockets -> Seq(Message)] /\ outbound \in Seq(Message)
      /\ \A g \in Sockets : g # Disconnected
      /\ \A m \in held : m \in Message
      /\ \A m \in Message : m.token \in Sockets
  BY TypesOf DEF GreetInv
<1>3. /\ held = {} <=> writerPc \notin {"clone", "write"}
      /\ \A m, n \in held : m = n
      /\ writerPc = "write" => \A m \in held : m.token = writerStream
      /\ writerPc \notin {"write", "fail"} => writerStream = Disconnected
  BY DEF GreetInv, References
<1>4. \A g \in Sockets : MessagesFor(g, outbound) \in Seq(Message)
  BY <1>2, MessagesForTyped
<1>5. CASE WriterRecv
  <2>1. UNCHANGED <<connection, writerStream, wire>> /\ writerPc = "recv"
    BY <1>5 DEF WriterRecv
  <2>2. CASE outbound = <<>>
    <3>1. writerPc' = "exited"
      BY <1>5, <2>2 DEF WriterRecv
    <3>2. \A g \in Sockets : ~Writable(g)'
      BY <3>1 DEF Writable
    <3>. QED
      BY <1>1, <2>1, <3>2, Leaves
  <2>3. CASE outbound # <<>>
    <3>. DEFINE m == Head(outbound)
    <3>1. /\ held' = {m} /\ outbound' = Tail(outbound) /\ writerPc' = "clone" /\ held = {}
      BY <1>3, <1>5, <2>1, <2>3 DEF WriterRecv
    <3>2. \A g \in Sockets : Writable(g)' <=> Writable(g)
      BY <2>1, <3>1 DEF Writable
    <3>3. ASSUME NEW g \in Sockets
          PROVE  Pending(g)' = Pending(g)
      <4>. DEFINE rest == MessagesFor(g, Tail(outbound))
      <4>1. /\ rest \in Seq(Message)
            /\ MessagesFor(g, outbound) = IF m.token = g THEN <<m>> \o rest ELSE rest
        BY <1>2, <2>3, MessagesForTail
      <4>2. MessagesFor(g, outbound)' = rest
        BY <3>1
      <4>3. InFlight(g) = <<>>
        BY <3>1 DEF InFlight
      <4>4. InFlight(g)' = IF m.token = g THEN <<m>> ELSE <<>>
        <5>. HIDE DEF m
        <5>. QED
          BY <3>1 DEF InFlight
      <4>5. m \in Message
        BY <1>2, <2>3
      <4>. HIDE DEF m, rest
      <4>6. <<>> \o rest = rest /\ <<>> \o (<<m>> \o rest) = <<m>> \o rest
        BY <4>1, <4>5
      <4>. QED
        BY <3>2, <4>1, <4>2, <4>3, <4>4, <4>6 DEF Pending
    <3>. QED
      BY <1>1, <2>1, <3>2, <3>3, Leaves
  <2>. QED
    BY <2>2, <2>3
<1>6. CASE WriterClone
  <2>1. UNCHANGED <<connection, outbound, wire>> /\ writerPc = "clone"
    BY <1>6 DEF WriterClone
  <2>2. CASE stopping
    <3>1. \A g \in Sockets : ~Writable(g)'
      BY <1>6, <2>2 DEF WriterClone, Writable
    <3>. QED
      BY <1>1, <2>1, <3>1, Leaves
  <2>3. CASE ~stopping
    <3>1. PICK m \in held : writerStream' = clone_stream_for(m.token)
      BY <1>6, <2>3 DEF WriterClone
    <3>2. writerPc' \in {"recv", "write"}
      BY <1>6, <2>3 DEF WriterClone
    <3>3. \A g \in Sockets : Writable(g)' <=> Writable(g)
      BY <2>1, <3>2 DEF Writable
    <3>4. ASSUME NEW g \in Sockets, Writable(g)
          PROVE  InFlight(g)' = InFlight(g)
      <4>1. g = connection /\ m.token \in Sockets /\ m.token # Disconnected
        BY <1>2, <3>1, <3>4 DEF Writable
      <4>2. CASE m.token = g
        <5>1. writerStream' # Disconnected
          BY <3>1, <4>1, <4>2 DEF clone_stream_for
        <5>2. held' = held
          BY <1>6, <2>3, <5>1 DEF WriterClone
        <5>. QED
          BY <5>2 DEF InFlight
      <4>3. CASE m.token # g
        <5>1. writerStream' = Disconnected
          BY <3>1, <4>1, <4>3 DEF clone_stream_for
        <5>2. held' = {}
          BY <1>6, <2>3, <5>1 DEF WriterClone
        <5>3. InFlight(g) = <<>>
          BY <3>1, <4>3, HeldIs
        <5>. QED
          BY <5>2, <5>3 DEF InFlight
      <4>. QED
        BY <4>2, <4>3
    <3>5. \A g \in Sockets : Pending(g)' = Pending(g)
      BY <2>1, <3>3, <3>4 DEF Pending
    <3>. QED
      BY <1>1, <2>1, <3>3, <3>5, Leaves
  <2>. QED
    BY <2>2, <2>3
<1>7. CASE WriterFail
  <2>1. /\ UNCHANGED <<outbound, held, wire>> /\ writerPc = "fail"
        /\ \/ connection = writerStream /\ connection' = Disconnected
           \/ connection # writerStream /\ connection' = connection
    BY <1>7 DEF WriterFail, disconnect_if_current, disconnect
  <2>2. \A g \in Sockets : Writable(g)' => Writable(g)
    BY <1>2, <2>1 DEF Writable
  <2>3. \A g \in Sockets : InFlight(g)' = InFlight(g)
    BY <2>1 DEF InFlight
  <2>4. \A g \in Sockets : Writable(g)' => Pending(g)' = Pending(g)
    BY <2>1, <2>2, <2>3 DEF Pending
  <2>. QED
    BY <1>1, <2>1, <2>2, <2>4, Leaves
<1>8. CASE WriterWriteOk \/ WriterWriteErr
  <2>1. UNCHANGED <<connection, outbound>> /\ writerPc = "write" /\ held' = {}
    BY <1>8 DEF WriterWriteOk, WriterWriteErr
  <2>2. PICK g \in Sockets : g = writerStream
    BY <2>1 DEF GreetInv, TypeInv, HandsAreFull
  <2>3. PICK m \in held :
          \/ /\ WriterWriteOk /\ Usable(g)
             /\ wire' = [wire EXCEPT ![g] = Append(@, m)]
          \/ /\ WriterWriteErr /\ Usable(g)
             /\ wire' = [wire EXCEPT ![g] = Append(@, Torn(m))]
          \/ WriterWriteErr /\ ~Usable(g) /\ wire' = wire
    BY <1>8, <2>2 DEF WriterWriteOk, WriterWriteErr
  <2>4. m \in Message /\ m.token = g
    BY <1>2, <1>3, <2>1, <2>2, <2>3
  <2>5. PICK rest \in Seq(Message) : rest = MessagesFor(g, outbound)
    BY <1>4
  <2>6. /\ \A h \in Sockets : InFlight(h)' = <<>>
        /\ \A h \in Sockets : InFlight(h) = IF h = g THEN <<m>> ELSE <<>>
    <3>1. \A h \in Sockets : InFlight(h)' = <<>>
      BY <2>1 DEF InFlight
    <3>. QED
      BY <2>3, <2>4, <3>1, HeldIs
  <2>7. \A h \in Sockets : h # g => (Writable(h)' <=> Writable(h))
    BY <1>8, <2>1, <2>2 DEF Writable, WriterWriteOk, WriterWriteErr
  <2>8. \A h \in Sockets : h # g => Pending(h)' = Pending(h)
    BY <2>1, <2>6, <2>7 DEF Pending
  <2>9. Others(g)
    BY <1>1, <2>7, <2>8 DEF Others, Live
  <2>10. ASSUME Usable(g)
         PROVE  /\ Writable(g) /\ ~Installing(g)
                /\ Pending(g) = <<m>> \o rest
    <3>1. ~Installing(g)
      <4>1. ~Unknown(g)
        BY <2>2 DEF Unknown
      <4>. QED
        BY <4>1, InstallingIsUnknown
    <3>2. \A h \in fresh : reconnectorPc \in {"hello", "install"} => h.token # g
      BY <2>2 DEF GreetInv, References, Unknown
    <3>3. startupPc # "send_connected" /\ startupChannel # "connected"
      <4>1. reconnectorPc # "none"
        BY <2>1 DEF GreetInv, Ownership
      <4>. QED
        BY <4>1 DEF GreetInv, Ownership, Greeted
    <3>4. g = connection
      <4>1. Owned(g)
        BY <2>10 DEF GreetInv, Ownership
      <4>. QED
        BY <3>2, <3>3, <4>1 DEF Owned
    <3>5. Writable(g)
      BY <2>1, <3>4 DEF Writable
    <3>6. InFlight(g) = <<m>>
      BY <2>6
    <3>. QED
      BY <2>5, <3>1, <3>5, <3>6 DEF Pending
  <2>11. CASE WriterWriteErr /\ ~Usable(g) /\ wire' = wire
    <3>1. ~Writable(g)'
      BY <2>2, <2>11 DEF WriterWriteErr, Writable
    <3>2. \A h \in Sockets : Writable(h)' => Writable(h) /\ Pending(h)' = Pending(h)
      BY <2>7, <2>8, <3>1
    <3>. QED
      BY <1>1, <2>11, <3>2, Leaves
  <2>12. CASE WriterWriteOk /\ Usable(g) /\ wire' = [wire EXCEPT ![g] = Append(@, m)]
    <3>1. Writable(g) /\ Pending(g) = <<m>> \o rest
      BY <2>10, <2>12
    <3>2. Writable(g)'
      BY <2>1, <2>12, <3>1 DEF Writable, WriterWriteOk
    <3>3. Pending(g)' = rest
      <4>1. MessagesFor(g, outbound)' = rest
        BY <2>1, <2>5
      <4>2. <<>> \o rest = rest
        BY <2>5
      <4>. QED
        BY <2>6, <3>2, <4>1, <4>2 DEF Pending
    <3>4. Live(g) /\ Live(g)'
      BY <3>1, <3>2 DEF Live
    <3>5. Delivery!Next
      BY <1>2, <2>4, <2>5, <2>9, <2>12, <3>1, <3>3, <3>4, Delivers
    <3>. QED
      BY <3>5
  <2>13. CASE WriterWriteErr /\ Usable(g) /\ wire' = [wire EXCEPT ![g] = Append(@, Torn(m))]
    <3>1. Live(g) /\ ~Installing(g) /\ Pending(g) = <<m>> \o rest
      BY <2>10, <2>13 DEF Live
    <3>2. ~Live(g)'
      <4>1. ~Writable(g)'
        BY <2>2, <2>13 DEF Writable, WriterWriteErr
      <4>. QED
        BY <1>1, <3>1, <4>1 DEF Live
    <3>3. Delivery!Next
      BY <1>2, <2>4, <2>5, <2>9, <2>13, <3>1, <3>2, Delivers
    <3>. QED
      BY <3>3
  <2>. QED
    BY <2>3, <2>11, <2>12, <2>13
<1>. QED
  BY <1>5, <1>6, <1>7, <1>8 DEF Writer

-----------------------------------------------------------------------------
(* Greeted holds in every reachable state.                                 *)

LEMMA GreetedInit == Init => Greeted
  BY DEF Init, Greeted, Sockets, Disconnected

\* A reconnector leaves the startup worker nothing to hand over.
LEMMA StartupIsOver ==
    GreetInv /\ reconnectorPc # "none" => startupPc = "done" /\ startupChannel # "connected"
  BY DEF GreetInv, Ownership, Greeted

LEMMA GreetedStartup == GreetInv /\ Startup => Greeted'
<1>. SUFFICES ASSUME GreetInv, Startup PROVE Greeted'
  OBVIOUS
<1>1. UNCHANGED <<connection, wire, reconnectorPc>>
  BY DEF Startup, StartupCheck, StartupConnectOk, StartupConnectErr, StartupSendConnected,
     StartupSendFailed, StartupWait, StartupUnchanged, reconnectorVars
<1>2. startupPc # "done"
  BY DEF Startup, StartupCheck, StartupConnectOk, StartupConnectErr, StartupSendConnected,
     StartupSendFailed, StartupWait
<1>3. reconnectorPc = "none" /\ startupChannel # "connected"
  BY <1>2 DEF GreetInv, Ownership, Greeted
<1>4. CASE StartupConnectOk
  <2>1. startupSock' = opened + 1 /\ opened + 1 \in Sockets /\ opened + 1 > opened
    BY <1>4, TransportAssumption
       DEF StartupConnectOk, OpenSocket, Sockets, GreetInv, TypeInv, TypeOK
  <2>2. wire[startupSock'] = <<>>
    BY <2>1 DEF GreetInv, References
  <2>. QED
    BY <1>1, <1>3, <2>2 DEF GreetInv, Greeted
<1>5. CASE ~StartupConnectOk
  <2>1. /\ startupSock' = startupSock
        /\ startupPc' = "send_connected" \/ startupChannel' = "connected" =>
             startupPc = "send_connected" \/ startupChannel = "connected"
    BY <1>3, <1>5 DEF Startup, StartupCheck, StartupConnectErr, StartupSendConnected,
       StartupSendFailed, StartupWait
  <2>. QED
    BY <1>1, <1>3, <2>1 DEF GreetInv, Greeted
<1>. QED
  BY <1>4, <1>5

LEMMA GreetedWriter == GreetInv /\ Writer => Greeted'
<1>. SUFFICES ASSUME GreetInv, Writer PROVE Greeted'
  OBVIOUS
<1>1. UNCHANGED <<startupPc, startupChannel, reconnectorPc>>
  BY DEF Writer, WriterRecv, WriterClone, WriterWriteOk, WriterWriteErr, WriterFail,
     WriterUnchanged, startupVars, reconnectorVars
<1>2. writerPc # "none"
  BY DEF Writer, WriterRecv, WriterClone, WriterWriteOk, WriterWriteErr, WriterFail
<1>3. startupPc = "done" /\ startupChannel # "connected"
  BY <1>2, StartupIsOver DEF GreetInv, Ownership
<1>4. connection' \in {connection, Disconnected}
  BY DEF Writer, WriterRecv, WriterClone, WriterWriteOk, WriterWriteErr, WriterFail,
     disconnect_if_current, disconnect
<1>5. /\ wire \in [Sockets -> Seq(Message)] /\ Disconnected \notin Sockets
      /\ \A m \in held : m \in Message
  BY TypesOf DEF GreetInv
<1>6. ASSUME NEW g \in Sockets, wire[g] # <<>>
      PROVE  wire'[g] # <<>>
  <2>1. CASE WriterWriteOk
    <3>1. PICK m \in held : wire' = [wire EXCEPT ![writerStream] = Append(@, m)]
      BY <2>1 DEF WriterWriteOk
    <3>. QED
      BY <1>5, <1>6, <3>1
  <2>2. CASE WriterWriteErr
    <3>1. PICK m \in held :
            \/ wire' = [wire EXCEPT ![writerStream] = Append(@, Torn(m))]
            \/ wire' = wire
      BY <2>2 DEF WriterWriteErr
    <3>2. Torn(m) \in Message
      BY <1>5, TornIsMessage
    <3>. QED
      BY <1>5, <1>6, <3>1, <3>2
  <2>3. CASE WriterRecv \/ WriterClone \/ WriterFail
    BY <1>6, <2>3 DEF WriterRecv, WriterClone, WriterFail
  <2>. QED
    BY <2>1, <2>2, <2>3 DEF Writer
<1>. QED
  BY <1>1, <1>3, <1>4, <1>5, <1>6 DEF GreetInv, Greeted

LEMMA GreetedReconnector == GreetInv /\ Reconnector => Greeted'
<1>. SUFFICES ASSUME GreetInv, Reconnector PROVE Greeted'
  OBVIOUS
<1>. USE DEF Reconnector, ReconnectorUnchanged
<1>1. UNCHANGED <<startupPc, startupChannel>>
  BY DEF ReconnectorRecv, ReconnectorJoin, ReconnectorClear, ReconnectorStops,
     ReconnectorConnect, ReconnectorHelloOk, ReconnectorHelloErr, ReconnectorInstall,
     ReconnectorSpawnReader, startupVars
<1>2. startupPc = "done" /\ startupChannel # "connected"
  <2>1. reconnectorPc # "none"
    BY DEF ReconnectorRecv, ReconnectorJoin, ReconnectorClear, ReconnectorStops,
       ReconnectorConnect, ReconnectorHelloOk, ReconnectorHelloErr, ReconnectorInstall,
       ReconnectorSpawnReader
  <2>. QED
    BY <2>1, StartupIsOver
<1>3. /\ wire \in [Sockets -> Seq(Message)] /\ Disconnected \notin Sockets
      /\ \A m \in fresh : m.token \in Sockets
  BY TypesOf DEF GreetInv
<1>4. connection' \in Sockets => wire'[connection'] # <<>>
  <2>1. CASE ReconnectorHelloOk
    <3>1. PICK m \in fresh : wire' = [wire EXCEPT ![m.token] = <<m>>]
      BY <2>1 DEF ReconnectorHelloOk
    <3>2. connection' = connection
      BY <2>1 DEF ReconnectorHelloOk
    <3>. QED
      BY <1>3, <3>1, <3>2 DEF GreetInv, Greeted
  <2>2. CASE ReconnectorHelloErr
    <3>1. PICK m \in fresh : wire' = [wire EXCEPT ![m.token] = <<Torn(m)>>]
      BY <2>2 DEF ReconnectorHelloErr
    <3>2. connection' = connection
      BY <2>2 DEF ReconnectorHelloErr
    <3>. QED
      BY <1>3, <3>1, <3>2 DEF GreetInv, Greeted
  <2>3. CASE ReconnectorInstall
    <3>1. PICK m \in fresh : connection' \in {connection, m.token}
      BY <2>3 DEF ReconnectorInstall, reconnect
    <3>2. wire' = wire /\ wire[m.token] = <<m>>
      BY <2>3 DEF ReconnectorInstall, GreetInv, References
    <3>. QED
      BY <3>1, <3>2 DEF GreetInv, Greeted
  <2>4. CASE ReconnectorClear
    <3>1. connection' = Disconnected
      BY <2>4 DEF ReconnectorClear, disconnect
    <3>. QED
      BY <1>3, <3>1
  <2>5. CASE \/ ReconnectorRecv \/ ReconnectorJoin \/ ReconnectorStops
             \/ ReconnectorConnect \/ ReconnectorSpawnReader
    <3>1. UNCHANGED <<wire, connection>>
      BY <2>5 DEF ReconnectorRecv, ReconnectorJoin, ReconnectorStops, ReconnectorConnect,
         ReconnectorSpawnReader, netVars
    <3>. QED
      BY <3>1 DEF GreetInv, Greeted
  <2>. QED
    BY <2>1, <2>2, <2>3, <2>4, <2>5
<1>. QED
  BY <1>1, <1>2, <1>4 DEF Greeted

LEMMA GreetedMain == GreetInv /\ Main => Greeted'
<1>. SUFFICES ASSUME GreetInv, Main PROVE Greeted'
  OBVIOUS
<1>1. /\ wire \in [Sockets -> Seq(Message)] /\ Disconnected \notin Sockets
  BY TypesOf DEF GreetInv
<1>2. ASSUME UNCHANGED <<wire, startupPc, startupSock, reconnectorPc>>,
             connection' \in {connection, Disconnected},
             startupChannel' \in {startupChannel, "empty", "failed"}
      PROVE  Greeted'
  BY <1>1, <1>2 DEF GreetInv, Greeted
<1>3. CASE promote_startup
  <2>1. CASE PromoteNothing \/ PromoteFailed
    BY <1>2, <2>1 DEF PromoteNothing, PromoteFailed, startupVars
  <2>2. CASE PromoteConnected \/ PromoteFromStreamErr
    <3>1. startupPc = "done" /\ startupSock \in Sockets
      BY <2>2 DEF PromoteConnected, PromoteFromStreamErr, GreetInv, Ownership, TypeInv,
         HandsAreFull
    <3>2. UNCHANGED startupPc /\ startupChannel' = "empty"
      BY <2>2 DEF PromoteConnected, PromoteFromStreamErr
    <3>3. connection' \in {connection, startupSock}
      BY <2>2 DEF PromoteConnected, PromoteFromStreamErr
    <3>4. PICK m : wire' = [wire EXCEPT ![startupSock] = <<m>>]
      BY <2>2 DEF PromoteConnected, PromoteFromStreamErr
    <3>5. wire'[startupSock] # <<>> /\ \A g \in Sockets : wire[g] # <<>> => wire'[g] # <<>>
      BY <1>1, <3>1, <3>4
    <3>. QED
      BY <3>1, <3>2, <3>3, <3>5 DEF GreetInv, Greeted
  <2>. QED
    BY <1>3, <2>1, <2>2 DEF promote_startup
<1>4. CASE \/ PollTake \/ PointerToken \/ PointerSend \/ ResizeMailbox \/ ResizeToken
           \/ ResizeSend \/ ResizeDisconnect \/ Drop \/ DropStop
           \/ \E v \in Viewports : ResizeRetain(v)
  <2>1. UNCHANGED <<wire, startupPc, startupSock, reconnectorPc>>
    BY <1>4 DEF PollTake, PointerToken, PointerSend, ResizeMailbox, ResizeToken, ResizeSend,
       ResizeDisconnect, Drop, DropStop, DropStartup, DropDisconnect, DropWake, DropQueue,
       DropJoinWriter, DropJoinReconnector, ResizeRetain, DropUnchanged, MainUnchanged,
       reconnectorVars
  <2>2. connection' \in {connection, Disconnected}
    BY <1>4 DEF PollTake, PointerToken, PointerSend, ResizeMailbox, ResizeToken, ResizeSend,
       ResizeDisconnect, Drop, DropStop, DropStartup, DropDisconnect, DropWake, DropQueue,
       DropJoinWriter, DropJoinReconnector, ResizeRetain, disconnect
  <2>3. startupChannel' \in {startupChannel, "empty"}
    BY <1>4 DEF PollTake, PointerToken, PointerSend, ResizeMailbox, ResizeToken, ResizeSend,
       ResizeDisconnect, Drop, DropStop, DropStartup, DropDisconnect, DropWake, DropQueue,
       DropJoinWriter, DropJoinReconnector, ResizeRetain
  <2>. QED
    BY <1>2, <2>1, <2>2, <2>3
<1>. QED
  BY <1>3, <1>4 DEF Main, MainContinues, PollPromote, PointerPromote, ResizePromote

LEMMA GreetedNext == GreetInv /\ [Next]_vars => Greeted'
<1>. SUFFICES ASSUME GreetInv, [Next]_vars PROVE Greeted'
  OBVIOUS
<1>1. CASE \/ \E g \in Sockets : \/ PeerCloses(g) \/ ReaderStops(g)
                              \/ \E v \in FrameViewports : ReaderFrame(g, v)
           \/ UNCHANGED vars
  <2>1. UNCHANGED <<connection, startupPc, startupSock, startupChannel, reconnectorPc, wire>>
    BY <1>1 DEF PeerCloses, ReaderStops, ReaderFrame, netVars, vars, startupVars,
       reconnectorVars
  <2>. QED
    BY <2>1 DEF GreetInv, Greeted
<1>. QED
  BY <1>1, GreetedStartup, GreetedWriter, GreetedReconnector, GreetedMain
     DEF Next, Terminated, ReaderEof, ReaderError

LEMMA Greeting == Spec => []GreetInv
<1>1. Init => GreetInv
  BY TypeInit, OwnershipInit, ReferencesInit, GreetedInit DEF GreetInv
<1>2. GreetInv /\ [Next]_vars => GreetInv'
  BY TypeNext, OwnershipNext, ReferencesNext, GreetedNext DEF GreetInv
<1>. QED
  BY <1>1, <1>2, PTL DEF Spec

-----------------------------------------------------------------------------
(* The reconnector.                                                        *)

LEMMA ReconnectorGreets == GreetInv /\ Reconnector => [Delivery!Next]_(Delivery!vars)
<1>. SUFFICES ASSUME GreetInv, Reconnector PROVE [Delivery!Next]_(Delivery!vars)
  OBVIOUS
<1>1. UNCHANGED <<outbound, held, writerPc, writerStream>>
  BY DEF Reconnector, ReconnectorRecv, ReconnectorJoin, ReconnectorClear, ReconnectorStops,
     ReconnectorConnect, ReconnectorHelloOk, ReconnectorHelloErr, ReconnectorInstall,
     ReconnectorSpawnReader, ReconnectorUnchanged, queueVars, writerVars
<1>2. /\ wire \in [Sockets -> Seq(Message)] /\ outbound \in Seq(Message)
      /\ \A g \in Sockets : g # Disconnected
      /\ \A m \in fresh : m \in Message /\ m.token \in Sockets
  BY TypesOf DEF GreetInv
<1>3. /\ \A h1, h2 \in fresh : h1 = h2
      /\ \A m \in fresh :
            /\ m.kind = "hello"
            /\ reconnectorPc \in {"hello", "install"} => Unknown(m.token)
            /\ reconnectorPc = "hello" => wire[m.token] = <<>>
  <2>1. \A m \in fresh : m.kind = "hello"
    BY HelloKind DEF GreetInv, References
  <2>. QED
    BY <2>1 DEF GreetInv, Ownership, References
<1>4. \A g \in Sockets : InFlight(g)' = InFlight(g)
  BY <1>1 DEF InFlight
<1>5. CASE \/ ReconnectorRecv \/ ReconnectorJoin \/ ReconnectorClear \/ ReconnectorStops
           \/ ReconnectorConnect \/ ReconnectorSpawnReader
  <2>1. /\ wire' = wire /\ connection' \in {connection, Disconnected}
        /\ reconnectorPc # "install" /\ reconnectorPc' # "install"
    BY <1>5 DEF ReconnectorRecv, ReconnectorJoin, ReconnectorClear, ReconnectorStops,
       ReconnectorConnect, ReconnectorSpawnReader, disconnect, netVars
  <2>2. \A g \in Sockets : Installing(g)' <=> Installing(g)
    BY <2>1 DEF Installing
  <2>. QED
    BY <1>1, <2>1, <2>2, Shuts
<1>6. CASE ReconnectorHelloOk \/ ReconnectorHelloErr
  <2>1. /\ reconnectorPc = "hello" /\ connection' = connection
        /\ reconnectorPc' = IF ReconnectorHelloOk THEN "install" ELSE "connect"
    BY <1>6 DEF ReconnectorHelloOk, ReconnectorHelloErr
  <2>2. PICK m \in fresh :
          \/ /\ ReconnectorHelloOk /\ fresh' = fresh
             /\ wire' = [wire EXCEPT ![m.token] = <<m>>]
          \/ /\ ~ReconnectorHelloOk
             /\ wire' = [wire EXCEPT ![m.token] = <<Torn(m)>>]
    BY <1>6, <2>1 DEF ReconnectorHelloOk, ReconnectorHelloErr
  <2>3. PICK g \in Sockets : g = m.token
    BY <1>2
  <2>4. wire[g] = <<>> /\ ~Writable(g) /\ m \in Message /\ m.kind = "hello"
    BY <1>2, <1>3, <2>1, <2>3 DEF Unknown, Writable
  <2>5. \A h \in Sockets : (Writable(h)' <=> Writable(h)) /\ Pending(h)' = Pending(h)
    <3>1. \A h \in Sockets : Writable(h)' <=> Writable(h)
      BY <1>1, <2>1 DEF Writable
    <3>. QED
      BY <1>1, <1>4, <3>1 DEF Pending
  <2>6. \A h \in Sockets : h # g => (Installing(h)' <=> Installing(h))
    <3>1. \A h \in Sockets : ~Installing(h)
      BY <2>1 DEF Installing
    <3>2. \A h \in Sockets : h # g => ~Installing(h)'
      BY <1>3, <2>1, <2>2, <2>3 DEF Installing
    <3>. QED
      BY <3>1, <3>2
  <2>7. Others(g)
    BY <2>5, <2>6 DEF Others, Live
  <2>8. \/ wire' = [wire EXCEPT ![g] = <<m>>] /\ Live(g)'
        \/ wire' = [wire EXCEPT ![g] = <<Torn(m)>>] /\ ~Live(g)'
    <3>1. CASE ReconnectorHelloOk
      <4>1. Installing(g)'
        BY <2>1, <2>2, <2>3, <3>1 DEF Installing
      <4>. QED
        BY <2>2, <2>3, <3>1, <4>1 DEF Live
    <3>2. CASE ~ReconnectorHelloOk
      <4>1. ~Installing(g)' /\ ~Writable(g)'
        BY <2>1, <2>4, <2>5, <3>2 DEF Installing
      <4>. QED
        BY <2>2, <2>3, <3>2, <4>1 DEF Live
    <3>. QED
      BY <3>1, <3>2
  <2>9. Delivery!Next
    BY <1>2, <2>4, <2>5, <2>7, <2>8, Greets
  <2>. QED
    BY <2>9
<1>7. CASE ReconnectorInstall
  <2>1. /\ wire' = wire /\ reconnectorPc = "install" /\ reconnectorPc' # "install"
    BY <1>7 DEF ReconnectorInstall
  <2>2. PICK m \in fresh :
          \/ stopping /\ connection' = connection
          \/ ~stopping /\ connection' = m.token
    BY <1>7 DEF ReconnectorInstall, reconnect
  <2>3. PICK g \in Sockets : g = m.token
    BY <1>2
  <2>4. /\ \A h \in Sockets : Installing(h) <=> h = g
        /\ \A h \in Sockets : ~Installing(h)'
    BY <1>3, <2>1, <2>2, <2>3 DEF Installing
  <2>5. Unknown(g) /\ ~Writable(g)
    BY <1>3, <2>1, <2>2, <2>3 DEF Unknown, Writable
  <2>6. CASE stopping /\ connection' = connection
    <3>1. \A h \in Sockets : Writable(h)' <=> Writable(h)
      BY <1>1, <2>6 DEF Writable
    <3>2. \A h \in Sockets : Pending(h)' = Pending(h)
      BY <1>1, <1>4, <3>1 DEF Pending
    <3>. QED
      BY <2>1, <2>4, <3>1, <3>2, Ends, LiveIsGreeted DEF Live
  <2>7. CASE connection' = g
    <3>1. \A h \in Sockets : Writable(h)' => h = g
      BY <2>7 DEF Writable
    <3>2. Pending(g) = <<>> /\ Pending(g)' = <<>>
      <4>1. InFlight(g) = <<>>
        BY <2>5, HeldIs DEF Unknown, InFlight
      <4>2. PICK s \in Seq(Message) : s = outbound
        BY <1>2
      <4>3. MessagesFor(g, s) = <<>>
        BY <2>5, <4>2, MessagesForUnknown DEF Unknown
      <4>4. MessagesFor(g, outbound)' = <<>>
        BY <1>1, <4>2, <4>3
      <4>5. <<>> \o <<>> = <<>>
        OBVIOUS
      <4>. QED
        BY <1>4, <2>5, <4>1, <4>4, <4>5 DEF Pending
    <3>3. \A h \in Sockets : Live(h)' => Live(h) /\ Pending(h)' = Pending(h)
      BY <2>4, <3>1, <3>2 DEF Live
    <3>4. writerPc # "exited" => Writable(g)'
      BY <1>1, <2>5, <2>7 DEF Writable, Unknown
    <3>5. ASSUME NEW h \in Sockets, Live(h), ~Live(h)'
          PROVE  h = IF writerPc = "exited" THEN g ELSE connection
      <4>1. CASE writerPc = "exited"
        BY <2>4, <3>5, <4>1 DEF Live, Writable
      <4>2. CASE writerPc # "exited"
        <5>1. h # g
          BY <3>4, <3>5, <4>2 DEF Live
        <5>. QED
          BY <2>4, <3>5, <4>2, <5>1 DEF Live, Writable
      <4>. QED
        BY <4>1, <4>2
    <3>6. \A h, k \in Sockets : Live(h) /\ ~Live(h)' /\ Live(k) /\ ~Live(k)' => h = k
      BY <3>5
    <3>. QED
      BY <2>1, <3>3, <3>6, Ends, LiveIsGreeted
  <2>. QED
    BY <2>2, <2>3, <2>6, <2>7
<1>. QED
  BY <1>5, <1>6, <1>7 DEF Reconnector

-----------------------------------------------------------------------------
(* Main: it greets the startup worker's connection and accepts messages.   *)

LEMMA PromoteGreets == GreetInv /\ promote_startup => [Delivery!Next]_(Delivery!vars)
<1>. SUFFICES ASSUME GreetInv, promote_startup PROVE [Delivery!Next]_(Delivery!vars)
  OBVIOUS
<1>1. UNCHANGED <<outbound, held, writerStream, fresh>>
  BY DEF promote_startup
<1>2. CASE PromoteNothing \/ PromoteFailed
  <2>1. UNCHANGED <<wire, connection, writerPc, reconnectorPc>>
    BY <1>2 DEF PromoteNothing, PromoteFailed
  <2>2. \A g \in Sockets : Installing(g)' <=> Installing(g)
    BY <1>1, <2>1 DEF Installing
  <2>. QED
    BY <1>1, <2>1, <2>2, Shuts
<1>3. CASE PromoteConnected \/ PromoteFromStreamErr
  <2>1. startupRx /\ startupChannel = "connected"
    BY <1>3 DEF PromoteConnected, PromoteFromStreamErr
  <2>2. /\ startupSock \in Sockets /\ wire[startupSock] = <<>>
        /\ reconnectorPc = "none" /\ writerPc = "none" /\ connection = Disconnected
        /\ outbound = <<>> /\ held = {} /\ writerStream = Disconnected
    BY <2>1 DEF GreetInv, Ownership, References, Greeted, TypeInv, HandsAreFull
  <2>3. PICK g \in Sockets : g = startupSock
    BY <2>2
  <2>4. PICK hello \in Message : hello = Hello(startupSock, remoteViewport)
    <3>1. remoteViewport \in Viewports
      BY DEF GreetInv, TypeInv, TypeOK
    <3>. QED
      BY <2>2, <3>1, HelloIsMessage
  <2>5. /\ wire \in [Sockets -> Seq(Message)] /\ Disconnected \notin Sockets
        /\ hello.kind = "hello" /\ wire[g] = <<>>
    BY <2>2, <2>3, <2>4, TypesOf, HelloKind DEF GreetInv
  <2>6. \A h \in Sockets : ~Writable(h) /\ ~Installing(h) /\ Pending(h) = <<>>
    BY <2>2, <2>5 DEF Writable, Installing, Pending
  <2>7. \A h \in Sockets : Pending(h)' = <<>>
    <3>1. \A h \in Sockets : InFlight(h)' = <<>>
      BY <1>1, <2>2 DEF InFlight
    <3>2. \A h \in Sockets : MessagesFor(h, outbound)' = <<>>
      <4>1. outbound' = <<>>
        BY <1>1, <2>2
      <4>2. PICK s : s = outbound'
        OBVIOUS
      <4>3. \A h \in Sockets : MessagesFor(h, s) = <<>>
        BY <4>1, <4>2, MessagesForNone
      <4>. QED
        BY <4>2, <4>3
    <3>3. <<>> \o <<>> = <<>>
      OBVIOUS
    <3>. QED
      BY <3>1, <3>2, <3>3 DEF Pending
  <2>8. CASE PromoteConnected
    <3>1. /\ connection' = g /\ writerPc' = "recv" /\ reconnectorPc' = "recv"
          /\ wire' = [wire EXCEPT ![g] = <<hello>>]
      BY <2>3, <2>4, <2>8 DEF PromoteConnected
    <3>2. \A h \in Sockets : (Writable(h)' <=> h = g) /\ ~Installing(h)'
      BY <3>1 DEF Writable, Installing
    <3>3. Live(g)' /\ Others(g)
      BY <2>6, <2>7, <3>2 DEF Live, Others
    <3>4. Delivery!Next
      BY <2>5, <2>6, <2>7, <3>1, <3>3, Greets
    <3>. QED
      BY <3>4
  <2>9. CASE PromoteFromStreamErr
    <3>1. /\ UNCHANGED <<connection, writerPc, reconnectorPc>>
          /\ wire' = [wire EXCEPT ![g] = <<Torn(hello)>>]
      BY <2>3, <2>4, <2>9 DEF PromoteFromStreamErr
    <3>2. \A h \in Sockets : ~Writable(h)' /\ ~Installing(h)'
      BY <2>2, <2>5, <3>1 DEF Writable, Installing
    <3>3. ~Live(g)' /\ Others(g)
      BY <2>6, <2>7, <3>2 DEF Live, Others
    <3>4. Delivery!Next
      BY <2>5, <2>6, <2>7, <3>1, <3>3, Greets
    <3>. QED
      BY <3>4
  <2>. QED
    BY <1>3, <2>8, <2>9
<1>. QED
  BY <1>2, <1>3 DEF promote_startup

\* A message enters the queue: its connection accepts it, or it is lost already.
LEMMA EnqueueAccepts ==
    ASSUME GreetInv, NEW kind \in {"viewport", "pointer"}, Enqueue(kind),
           mainPc \in {"pointer_send", "resize_send"},
           UNCHANGED <<wire, connection, held, writerPc, writerStream, reconnectorPc, fresh>>
    PROVE  [Delivery!Next]_(Delivery!vars)
<1>1. /\ outbound \in Seq(Message)
      /\ \A g \in Sockets : g # Disconnected
  BY TypesOf DEF GreetInv
<1>2. PICK g \in Sockets : g = mainToken
  BY DEF GreetInv, TypeInv, HandsAreFull
<1>3. PICK m \in Message : /\ outbound' = Append(outbound, m)
                           /\ m.token = g /\ m.kind = kind
  <2>. DEFINE m == [kind |-> kind, viewport |-> remoteViewport,
                    token |-> mainToken, id |-> inputs]
  <2>1. remoteViewport \in Viewports /\ inputs \in 0 .. MaxInputs
    BY DEF GreetInv, TypeInv, TypeOK
  <2>2. m \in Message /\ m.token = g /\ m.kind = kind
    BY <1>2, <2>1 DEF Message
  <2>3. outbound' = Append(outbound, m)
    BY DEF Enqueue
  <2>. HIDE DEF m
  <2>. QED
    BY <2>2, <2>3
<1>4. PICK s \in Seq(Message) : s = outbound
  BY <1>1
<1>5. ASSUME NEW h \in Sockets
      PROVE  MessagesFor(h, outbound)' = Select(h, MessagesFor(h, s), m)
  <2>1. MessagesFor(h, Append(s, m)) = Select(h, MessagesFor(h, s), m)
    BY MessagesForAppend
  <2>. QED
    BY <1>3, <1>4, <2>1
<1>6. \A h \in Sockets : (Writable(h)' <=> Writable(h)) /\ (Installing(h)' <=> Installing(h))
  BY DEF Writable, Installing
<1>7. \A h \in Sockets : InFlight(h)' = InFlight(h)
  BY DEF InFlight
<1>8. \A h \in Sockets : h # g \/ ~Writable(h) => Pending(h)' = Pending(h)
  BY <1>3, <1>4, <1>5, <1>6, <1>7 DEF Pending, Select
<1>9. Others(g)
  BY <1>6, <1>8 DEF Others, Live
<1>10. CASE ~Writable(g)
  BY <1>6, <1>8, <1>10, Leaves
<1>11. CASE Writable(g)
  <2>1. PICK front \in Seq(Message) : front = InFlight(g)
    <3>1. \A n \in Message : <<n>> \in Seq(Message) /\ <<>> \in Seq(Message)
      OBVIOUS
    <3>2. \A n \in held : n \in Message
      BY TypesOf DEF GreetInv
    <3>3. held = {} => InFlight(g) = <<>>
      BY DEF InFlight
    <3>4. \A n \in held : InFlight(g) = IF n.token = g THEN <<n>> ELSE <<>>
      BY HeldIs
    <3>5. InFlight(g) \in Seq(Message)
      BY <3>1, <3>2, <3>3, <3>4
    <3>. QED
      BY <3>5
  <2>2. PICK queue \in Seq(Message) : queue = MessagesFor(g, s)
    BY MessagesForTyped
  <2>3. front \o Append(queue, m) = Append(front \o queue, m)
    BY JoinAppended
  <2>4. Pending(g) = front \o queue
    BY <1>4, <1>11, <2>1, <2>2 DEF Pending
  <2>5. Pending(g)' = front \o Append(queue, m)
    BY <1>3, <1>5, <1>6, <1>7, <1>11, <2>1, <2>2 DEF Pending, Select
  <2>6. Live(g) /\ Live(g)' /\ wire[g] # <<>>
    BY <1>6, <1>11, LiveIsGreeted DEF Live
  <2>7. Delivery!Next
    BY <1>3, <1>9, <2>3, <2>4, <2>5, <2>6, Accepts
  <2>. QED
    BY <2>7
<1>. QED
  BY <1>10, <1>11

LEMMA MainAccepts == GreetInv /\ Main => [Delivery!Next]_(Delivery!vars)
<1>. SUFFICES ASSUME GreetInv, Main PROVE [Delivery!Next]_(Delivery!vars)
  OBVIOUS
<1>1. CASE PollPromote \/ PointerPromote \/ ResizePromote
  BY <1>1, PromoteGreets DEF PollPromote, PointerPromote, ResizePromote
<1>2. CASE \/ PollTake \/ PointerToken \/ PointerSend \/ ResizeMailbox \/ ResizeToken
           \/ ResizeSend \/ ResizeDisconnect \/ Drop \/ DropStop
           \/ \E v \in Viewports : ResizeRetain(v)
  <2>1. UNCHANGED <<wire, held, writerPc, writerStream, reconnectorPc, fresh>>
    BY <1>2 DEF PollTake, PointerToken, PointerSend, ResizeMailbox, ResizeToken, ResizeSend,
       ResizeDisconnect, Drop, DropStop, DropStartup, DropDisconnect, DropWake, DropQueue,
       DropJoinWriter, DropJoinReconnector, ResizeRetain, DropUnchanged, MainUnchanged,
       writerVars, reconnectorVars
  <2>2. connection' \in {connection, Disconnected}
    BY <1>2 DEF PollTake, PointerToken, PointerSend, ResizeMailbox, ResizeToken, ResizeSend,
       ResizeDisconnect, Drop, DropStop, DropStartup, DropDisconnect, DropWake, DropQueue,
       DropJoinWriter, DropJoinReconnector, ResizeRetain, disconnect
  <2>3. \A g \in Sockets : Installing(g)' <=> Installing(g)
    BY <2>1 DEF Installing
  <2>4. CASE outbound' = outbound
    BY <2>1, <2>2, <2>3, <2>4, Shuts
  <2>5. CASE outbound' # outbound
    <3>1. PointerSend \/ ResizeSend
      BY <1>2, <2>5 DEF PollTake, PointerToken, ResizeMailbox, ResizeToken,
         ResizeDisconnect, Drop, DropStop, DropStartup, DropDisconnect, DropWake, DropQueue,
         DropJoinWriter, DropJoinReconnector, ResizeRetain, queueVars
    <3>2. /\ Enqueue("pointer") \/ Enqueue("viewport")
          /\ mainPc \in {"pointer_send", "resize_send"} /\ connection' = connection
      BY <2>5, <3>1 DEF PointerSend, ResizeSend
    <3>. QED
      BY <2>1, <3>2, EnqueueAccepts
  <2>. QED
    BY <2>4, <2>5
<1>. QED
  BY <1>1, <1>2 DEF Main, MainContinues

LEMMA StartupIsSilent == GreetInv /\ Startup => [Delivery!Next]_(Delivery!vars)
<1>. SUFFICES ASSUME GreetInv, Startup PROVE [Delivery!Next]_(Delivery!vars)
  OBVIOUS
<1>1. UNCHANGED <<connection, wire, outbound, held, writerPc, writerStream,
                  reconnectorPc, fresh>>
  BY DEF Startup, StartupCheck, StartupConnectOk, StartupConnectErr, StartupSendConnected,
     StartupSendFailed, StartupWait, StartupUnchanged, queueVars, writerVars, reconnectorVars
<1>2. \A g \in Sockets : Installing(g)' <=> Installing(g)
  BY <1>1 DEF Installing
<1>. QED
  BY <1>1, <1>2, Shuts

LEMMA DeliveryInit == Init => Delivery!Init
<1>. SUFFICES ASSUME Init PROVE Delivery!Init
  OBVIOUS
<1>1. \A g \in Sockets : g # Disconnected
  BY DEF Sockets, Disconnected
<1>2. \A g \in Sockets : ~Writable(g) /\ ~Installing(g) /\ wire[g] = <<>>
  BY <1>1 DEF Init, Writable, Installing
<1>3. Ended = {} /\ \A g \in Sockets : Pending(g) = <<>>
  BY <1>2 DEF Ended, Pending
<1>4. wire = [g \in Sockets |-> <<>>]
  BY DEF Init
<1>. QED
  BY <1>3, <1>4 DEF Delivery!Init

LEMMA DeliveryNext == GreetInv /\ [Next]_vars => [Delivery!Next]_(Delivery!vars)
<1>. SUFFICES ASSUME GreetInv, [Next]_vars PROVE [Delivery!Next]_(Delivery!vars)
  OBVIOUS
<1>1. CASE \/ \E g \in Sockets : \/ PeerCloses(g) \/ ReaderStops(g)
                              \/ \E v \in FrameViewports : ReaderFrame(g, v)
           \/ UNCHANGED vars
  <2>1. UNCHANGED <<connection, wire, outbound, held, writerPc, writerStream,
                    reconnectorPc, fresh>>
    BY <1>1 DEF PeerCloses, ReaderStops, ReaderFrame, netVars, vars, queueVars, writerVars,
       reconnectorVars
  <2>2. \A g \in Sockets : Installing(g)' <=> Installing(g)
    BY <2>1 DEF Installing
  <2>. QED
    BY <2>1, <2>2, Shuts
<1>. QED
  BY <1>1, StartupIsSilent, WriterDelivers, ReconnectorGreets, MainAccepts
     DEF Next, Terminated, ReaderEof, ReaderError

\* The transport implements what OrderedDelivery promises the peers: every
\* connection carries one Hello and then, in order, a prefix of what was
\* accepted for it, nothing after a message that broke off, and no message of
\* another connection, however the five threads interleave.
THEOREM DeliveryIsOrdered == Spec => DeliversInOrder
<1>1. Init => Delivery!Init
  BY DeliveryInit
<1>2. GreetInv /\ [Next]_vars => [Delivery!Next]_(Delivery!vars)
  BY DeliveryNext
<1>. QED
  BY <1>1, <1>2, Greeting, PTL DEF Spec, DeliversInOrder, Delivery!Spec
=============================================================================
