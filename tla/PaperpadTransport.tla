------------------------- MODULE PaperpadTransport -------------------------
(***************************************************************************)
(* PaperPad's TCP transport: src/net/mod.rs and src/net/connection.rs.     *)
(*                                                                         *)
(* Five kinds of thread share the state below.  The X11 event loop (main)  *)
(* calls send_pointer, send_viewport_changed, poll_frame and drop.  The    *)
(* detached startup worker makes the first connection and hands it over    *)
(* through a channel of capacity one.  Once main has promoted it, a writer *)
(* drains the bounded outbound queue, a reader per connection publishes    *)
(* frames in the mailbox, and the reconnector replaces a connection whose  *)
(* reader stopped.  Every step between two lock acquisitions, channel      *)
(* operations or socket calls of one thread is an action of its own.       *)
(*                                                                         *)
(* A connection is the number of its socket in the order of connecting;    *)
(* a ConnectionToken (an Arc compared by pointer) is that number.  A       *)
(* pointer carries the viewport its coordinates refer to.                  *)
(***************************************************************************)
EXTENDS Naturals, Sequences

CONSTANTS
    Viewports,               \* the dimensions the remote area may have
    FrameViewports,          \* the dimensions of the frames PaperSpoon sends
    OUTBOUND_QUEUE_CAPACITY, \* of the bounded queue to the writer
    MaxConnections,          \* bound: sockets ever opened
    MaxInputs                \* bound: pointers sent and viewport changes made

ASSUME TransportAssumption ==
    /\ Viewports # {}
    /\ FrameViewports \subseteq Viewports
    /\ OUTBOUND_QUEUE_CAPACITY \in Nat \ {0}
    /\ MaxConnections \in Nat \ {0}
    /\ MaxInputs \in Nat

Sockets == 1 .. MaxConnections
Disconnected == 0

Message == [kind : {"hello", "viewport", "pointer", "torn"},
            viewport : Viewports, token : Sockets, id : 0 .. MaxInputs]
Frame == [conn : Sockets, viewport : Viewports]

Hello(g, v) == [kind |-> "hello", viewport |-> v, token |-> g, id |-> 0]
Torn(m) == [kind |-> "torn", viewport |-> m.viewport, token |-> m.token, id |-> m.id]

VARIABLES
    \* main
    mainPc, mainToken, inputs,
    \* remote_viewport, and FrameMailboxState: pending is {} or one frame
    remoteViewport, mailboxViewport, pending,
    \* the ConnectionState: Disconnected or the number of its socket
    connection,
    \* outbound_tx exists, what it holds; wake messages not yet received
    outboundOpen, outbound, wakes,
    stopping,
    \* startup worker, its stream, the channel to main and its receiver
    startupPc, startupSock, startupChannel, startupRx,
    \* writer, the message it took ({} or one), the socket it cloned
    writerPc, held, writerStream,
    \* reconnector, the Hello for its new stream ({} or one), active_reader
    reconnectorPc, fresh, activeReader,
    \* reader thread of each connection
    reader,
    \* the sockets, what was written on each, how many were opened
    sock, wire, opened

mainVars == <<mainPc, mainToken, inputs>>
viewVars == <<remoteViewport, mailboxViewport, pending>>
queueVars == <<outboundOpen, outbound>>
startupVars == <<startupPc, startupSock, startupChannel, startupRx>>
writerVars == <<writerPc, held, writerStream>>
reconnectorVars == <<reconnectorPc, fresh, activeReader>>
netVars == <<sock, wire, opened>>
vars == <<mainVars, viewVars, connection, queueVars, wakes, stopping,
          startupVars, writerVars, reconnectorVars, reader, netVars>>

-----------------------------------------------------------------------------
(* Sockets.  A socket is unused, open, closed by its peer only, or shut    *)
(* down: shutdown(Both) and dropping the last handle look the same.        *)

SocketStates == {"unused", "open", "peer_closed", "shutdown"}

Usable(g) == sock[g] \in {"open", "peer_closed"}

ShutDown(g) == [sock EXCEPT ![g] = "shutdown"]

\* A slip: the slot is cleared and its socket stays up, so its reader too.
disconnect_without_shutdown ==
    /\ connection' = Disconnected
    /\ sock' = sock

\* ConnectionState::disconnect: clear the slot and shut its socket down.
disconnect ==
    /\ connection' = Disconnected
    /\ sock' = IF connection = Disconnected THEN sock ELSE ShutDown(connection)

\* A connect that succeeds: PaperSpoon's listener takes the next socket.
OpenSocket ==
    /\ opened < MaxConnections
    /\ opened' = opened + 1
    /\ sock' = [sock EXCEPT ![opened + 1] = "open"]

\* The peer closes its end, or dies.
PeerCloses(g) ==
    /\ sock[g] = "open"
    /\ sock' = [sock EXCEPT ![g] = "peer_closed"]
    /\ UNCHANGED <<mainVars, viewVars, connection, queueVars, wakes, stopping, startupVars,
                   writerVars, reconnectorVars, reader, wire, opened>>

-----------------------------------------------------------------------------
(* Init: `start`, before the detached worker has run.                      *)

Init ==
    /\ mainPc = "idle" /\ mainToken = Disconnected /\ inputs = 0
    /\ remoteViewport \in Viewports
    /\ mailboxViewport = remoteViewport /\ pending = {}
    /\ connection = Disconnected
    /\ outboundOpen = FALSE /\ outbound = <<>> /\ wakes = 0
    /\ stopping = FALSE
    /\ startupPc = "check" /\ startupSock = 0
    /\ startupChannel = "empty" /\ startupRx = TRUE
    /\ writerPc = "none" /\ held = {} /\ writerStream = Disconnected
    /\ reconnectorPc = "none" /\ fresh = {} /\ activeReader = 0
    /\ reader = [g \in Sockets |-> "none"]
    /\ sock = [g \in Sockets |-> "unused"]
    /\ wire = [g \in Sockets |-> <<>>]
    /\ opened = 0

-----------------------------------------------------------------------------
(* The startup worker of start_with_pixel_formats.                         *)

StartupUnchanged ==
    UNCHANGED <<mainVars, viewVars, connection, queueVars, wakes, stopping,
                writerVars, reconnectorVars, reader, wire>>

StartupCheck ==
    /\ startupPc = "check"
    /\ startupPc' = IF stopping THEN "done" ELSE "connect"
    /\ UNCHANGED <<startupSock, startupChannel, startupRx, sock, opened>>
    /\ StartupUnchanged

StartupConnectOk ==
    /\ startupPc = "connect"
    /\ OpenSocket
    /\ startupSock' = opened + 1
    /\ startupPc' = "send_connected"
    /\ UNCHANGED <<startupChannel, startupRx>>
    /\ StartupUnchanged

StartupConnectErr ==
    /\ startupPc = "connect"
    /\ startupPc' = "send_failed"
    /\ UNCHANGED <<startupSock, startupChannel, startupRx, sock, opened>>
    /\ StartupUnchanged

\* send blocks while the channel is full and fails once its receiver is
\* gone; a stream that cannot be handed over is dropped with the update.
StartupSendConnected ==
    /\ startupPc = "send_connected"
    /\ startupPc' = "done"
    /\ \/ /\ startupRx /\ startupChannel = "empty"
          /\ startupChannel' = "connected"
          /\ UNCHANGED sock
       \/ /\ ~startupRx
          /\ sock' = ShutDown(startupSock)
          /\ UNCHANGED startupChannel
    /\ UNCHANGED <<startupSock, startupRx, opened>>
    /\ StartupUnchanged

StartupSendFailed ==
    /\ startupPc = "send_failed"
    /\ \/ /\ startupRx /\ startupChannel = "empty"
          /\ startupChannel' = "failed"
          /\ startupPc' = "wait"
       \/ /\ ~startupRx
          /\ startupPc' = "done"
          /\ UNCHANGED startupChannel
    /\ UNCHANGED <<startupSock, startupRx, sock, opened>>
    /\ StartupUnchanged

\* wait_for_startup_retry: the delay passes or stopping is seen.
StartupWait ==
    /\ startupPc = "wait"
    /\ startupPc' = IF stopping THEN "done" ELSE "check"
    /\ UNCHANGED <<startupSock, startupChannel, startupRx, sock, opened>>
    /\ StartupUnchanged

Startup ==
    \/ StartupCheck
    \/ StartupConnectOk
    \/ StartupConnectErr
    \/ StartupSendConnected
    \/ StartupSendFailed
    \/ StartupWait

-----------------------------------------------------------------------------
(* Main: the event loop's calls.  Each begins with promote_startup except  *)
(* send_viewport_changed, which promotes after it retained the viewport.   *)

\* FrameMailbox::set_viewport drops a pending frame of other dimensions.
set_viewport(v) ==
    /\ mailboxViewport' = v
    /\ pending' = {f \in pending : f.viewport = v}

\* promote_startup with nothing in the channel.  Its Disconnected arm is
\* out of reach: the worker retries, so it stops only after Connected, and
\* taking Connected takes the receiver.
PromoteNothing ==
    /\ startupRx => startupChannel = "empty"
    /\ UNCHANGED <<viewVars, connection, outboundOpen, startupVars, writerPc,
                   reconnectorPc, activeReader, reader, sock, wire>>

PromoteFailed ==
    /\ startupRx /\ startupChannel = "failed"
    /\ startupChannel' = "empty"
    /\ UNCHANGED <<viewVars, connection, outboundOpen, startupPc, startupSock, startupRx,
                   writerPc, reconnectorPc, activeReader, reader, sock, wire>>

\* from_stream: the Hello is written before any other thread can reach the
\* socket, then reader, writer and reconnector start.
PromoteConnected ==
    /\ startupRx /\ startupChannel = "connected"
    /\ startupRx' = FALSE /\ startupChannel' = "empty"
    /\ set_viewport(remoteViewport)
    /\ wire' = [wire EXCEPT ![startupSock] = <<Hello(startupSock, remoteViewport)>>]
    /\ connection' = startupSock
    /\ outboundOpen' = TRUE
    /\ reader' = [reader EXCEPT ![startupSock] = "reading"]
    /\ activeReader' = startupSock
    /\ writerPc' = "recv"
    /\ reconnectorPc' = "recv"
    /\ UNCHANGED <<remoteViewport, startupPc, startupSock, sock>>

\* from_stream fails: the stream is dropped with the update, startup_rx is
\* taken and no worker is left.
PromoteFromStreamErr ==
    /\ startupRx /\ startupChannel = "connected"
    /\ startupRx' = FALSE /\ startupChannel' = "empty"
    /\ set_viewport(remoteViewport)
    /\ wire' = [wire EXCEPT ![startupSock] = <<Torn(Hello(startupSock, remoteViewport))>>]
    /\ sock' = ShutDown(startupSock)
    /\ UNCHANGED <<remoteViewport, connection, outboundOpen, startupPc, startupSock,
                   writerPc, reconnectorPc, activeReader, reader>>

promote_startup ==
    /\ \/ PromoteNothing
       \/ PromoteFailed
       \/ PromoteConnected
       \/ PromoteFromStreamErr
    /\ UNCHANGED <<outbound, wakes, stopping, held, writerStream, fresh, opened>>

MainUnchanged ==
    UNCHANGED <<startupPc, startupSock, writerVars, reconnectorVars, reader, wire, opened>>

\* poll_frame, and is_connected, which only promotes and reads.
PollPromote ==
    /\ mainPc = "idle"
    /\ promote_startup
    /\ mainPc' = "poll_take"
    /\ UNCHANGED <<mainToken, inputs>>

PollTake ==
    /\ mainPc = "poll_take"
    /\ pending' = {}
    /\ mainPc' = "idle"
    /\ UNCHANGED <<mainToken, inputs, remoteViewport, mailboxViewport, connection,
                   queueVars, wakes, stopping, startupChannel, startupRx, sock>>
    /\ MainUnchanged

\* send_pointer: promote, read the token, try_send.
PointerPromote ==
    /\ mainPc = "idle"
    /\ inputs < MaxInputs
    /\ inputs' = inputs + 1
    /\ promote_startup
    /\ mainPc' = "pointer_token"
    /\ UNCHANGED mainToken

PointerToken ==
    /\ mainPc = "pointer_token"
    /\ mainToken' = connection
    /\ mainPc' = IF connection = Disconnected THEN "idle" ELSE "pointer_send"
    /\ UNCHANGED <<inputs, viewVars, connection, queueVars, wakes, stopping,
                   startupChannel, startupRx, sock>>
    /\ MainUnchanged

\* enqueue_outbound: try_send never waits; a full queue refuses.
CanEnqueue == Len(outbound) < OUTBOUND_QUEUE_CAPACITY

Enqueue(kind) ==
    outbound' = Append(outbound, [kind |-> kind, viewport |-> remoteViewport,
                                  token |-> mainToken, id |-> inputs])

PointerSend ==
    /\ mainPc = "pointer_send"
    /\ IF CanEnqueue THEN Enqueue("pointer") ELSE UNCHANGED outbound
    /\ mainPc' = "idle"
    /\ mainToken' = Disconnected
    /\ UNCHANGED <<inputs, viewVars, connection, outboundOpen, wakes, stopping,
                   startupChannel, startupRx, sock>>
    /\ MainUnchanged

\* send_viewport_changed.  A call with the retained dimensions changes
\* nothing, so only changes are taken.
ResizeRetain(v) ==
    /\ mainPc = "idle"
    /\ inputs < MaxInputs
    /\ v # remoteViewport
    /\ inputs' = inputs + 1
    /\ remoteViewport' = v
    /\ mainPc' = "resize_mailbox"
    /\ UNCHANGED <<mainToken, mailboxViewport, pending, connection, queueVars, wakes,
                   stopping, startupChannel, startupRx, sock>>
    /\ MainUnchanged

ResizeMailbox ==
    /\ mainPc = "resize_mailbox"
    /\ set_viewport(remoteViewport)
    /\ mainPc' = "resize_promote"
    /\ UNCHANGED <<mainToken, inputs, remoteViewport, connection, queueVars, wakes,
                   stopping, startupChannel, startupRx, sock>>
    /\ MainUnchanged

ResizePromote ==
    /\ mainPc = "resize_promote"
    /\ promote_startup
    /\ mainPc' = "resize_token"
    /\ UNCHANGED <<mainToken, inputs>>

ResizeToken ==
    /\ mainPc = "resize_token"
    /\ mainToken' = connection
    /\ mainPc' = IF connection = Disconnected THEN "idle" ELSE "resize_send"
    /\ UNCHANGED <<inputs, viewVars, connection, queueVars, wakes, stopping,
                   startupChannel, startupRx, sock>>
    /\ MainUnchanged

\* A slip: a refused viewport change is only reported.
ResizeSendOnlyReports ==
    /\ mainPc = "resize_send"
    /\ IF CanEnqueue THEN Enqueue("viewport") ELSE UNCHANGED outbound
    /\ mainPc' = "idle"
    /\ mainToken' = Disconnected
    /\ UNCHANGED <<inputs, viewVars, connection, outboundOpen, wakes, stopping,
                   startupChannel, startupRx, sock>>
    /\ MainUnchanged

\* A refused viewport change closes whatever connection is current.
ResizeSend ==
    /\ mainPc = "resize_send"
    /\ IF CanEnqueue
       THEN Enqueue("viewport") /\ mainPc' = "idle"
       ELSE mainPc' = "resize_disconnect" /\ UNCHANGED outbound
    /\ mainToken' = Disconnected
    /\ UNCHANGED <<inputs, viewVars, connection, outboundOpen, wakes, stopping,
                   startupChannel, startupRx, sock>>
    /\ MainUnchanged

ResizeDisconnect ==
    /\ mainPc = "resize_disconnect"
    /\ disconnect
    /\ mainPc' = "idle"
    /\ UNCHANGED <<mainToken, inputs, viewVars, queueVars, wakes, stopping,
                   startupChannel, startupRx>>
    /\ MainUnchanged

\* Drop for Paperspoon: stop, drop the startup receiver and what it holds,
\* disconnect, wake the reconnector, close the queue, join both threads.
DropUnchanged == UNCHANGED <<mainToken, inputs, viewVars>> /\ MainUnchanged

DropStop ==
    /\ mainPc = "idle"
    /\ stopping' = TRUE
    /\ mainPc' = "drop_startup"
    /\ UNCHANGED <<connection, queueVars, wakes, startupChannel, startupRx, sock>>
    /\ DropUnchanged

DropStartup ==
    /\ mainPc = "drop_startup"
    /\ startupRx' = FALSE /\ startupChannel' = "empty"
    /\ sock' = IF startupChannel = "connected" THEN ShutDown(startupSock) ELSE sock
    /\ mainPc' = "drop_disconnect"
    /\ UNCHANGED <<connection, queueVars, wakes, stopping>>
    /\ DropUnchanged

DropDisconnect ==
    /\ mainPc = "drop_disconnect"
    /\ disconnect
    /\ mainPc' = "drop_wake"
    /\ UNCHANGED <<queueVars, wakes, stopping, startupChannel, startupRx>>
    /\ DropUnchanged

DropWake ==
    /\ mainPc = "drop_wake"
    /\ wakes' = IF reconnectorPc = "none" THEN wakes ELSE wakes + 1
    /\ mainPc' = "drop_queue"
    /\ UNCHANGED <<connection, queueVars, stopping, startupChannel, startupRx, sock>>
    /\ DropUnchanged

DropQueue ==
    /\ mainPc = "drop_queue"
    /\ outboundOpen' = FALSE
    /\ mainPc' = "drop_join_writer"
    /\ UNCHANGED <<connection, outbound, wakes, stopping, startupChannel, startupRx, sock>>
    /\ DropUnchanged

DropJoinWriter ==
    /\ mainPc = "drop_join_writer"
    /\ writerPc \in {"none", "exited"}
    /\ mainPc' = "drop_join_reconnector"
    /\ UNCHANGED <<connection, queueVars, wakes, stopping, startupChannel, startupRx, sock>>
    /\ DropUnchanged

\* A slip: the reconnector is left to end by itself.
DropDetachesReconnector ==
    /\ mainPc = "drop_join_reconnector"
    /\ mainPc' = "dropped"
    /\ UNCHANGED <<connection, queueVars, wakes, stopping, startupChannel, startupRx, sock>>
    /\ DropUnchanged

DropJoinReconnector ==
    /\ mainPc = "drop_join_reconnector"
    /\ reconnectorPc \in {"none", "exited"}
    /\ mainPc' = "dropped"
    /\ UNCHANGED <<connection, queueVars, wakes, stopping, startupChannel, startupRx, sock>>
    /\ DropUnchanged

Drop ==
    \/ DropStartup
    \/ DropDisconnect
    \/ DropWake
    \/ DropQueue
    \/ DropJoinWriter
    \/ DropJoinReconnector

\* Steps that finish a call main has begun.
MainContinues ==
    \/ PollTake
    \/ PointerToken
    \/ PointerSend
    \/ ResizeMailbox
    \/ ResizePromote
    \/ ResizeToken
    \/ ResizeSend
    \/ ResizeDisconnect
    \/ Drop

Main ==
    \/ PollPromote
    \/ PointerPromote
    \/ \E v \in Viewports : ResizeRetain(v)
    \/ DropStop
    \/ MainContinues

-----------------------------------------------------------------------------
(* Writer: spawn_writer and write_outbound.                                *)

WriterUnchanged ==
    UNCHANGED <<mainVars, viewVars, outboundOpen, wakes, stopping, startupVars,
                reconnectorVars, reader, opened>>

WriterRecv ==
    /\ writerPc = "recv"
    /\ IF outbound # <<>>
       THEN /\ held' = {Head(outbound)}
            /\ outbound' = Tail(outbound)
            /\ writerPc' = "clone"
       ELSE /\ ~outboundOpen
            /\ writerPc' = "exited"
            /\ UNCHANGED <<outbound, held>>
    /\ UNCHANGED <<connection, writerStream, sock, wire>>
    /\ WriterUnchanged

\* A slip: clone_stream instead of clone_stream_for.
clone_stream_for_any(token) == connection

\* ConnectionState::clone_stream_for, under the lock: a message is given up
\* when its connection is no longer the current one.
clone_stream_for(token) ==
    IF connection = token THEN connection ELSE Disconnected

\* The stopping check ahead of it reads a flag that is only ever raised.
WriterClone ==
    /\ writerPc = "clone"
    /\ IF stopping
       THEN writerPc' = "exited" /\ held' = {} /\ UNCHANGED writerStream
       ELSE /\ \E m \in held : writerStream' = clone_stream_for(m.token)
            /\ IF writerStream' = Disconnected
               THEN writerPc' = "recv" /\ held' = {}
               ELSE writerPc' = "write" /\ UNCHANGED held
    /\ UNCHANGED <<connection, outbound, sock, wire>>
    /\ WriterUnchanged

\* write_all, outside the lock.
WriterWriteOk ==
    /\ writerPc = "write"
    /\ Usable(writerStream)
    /\ \E m \in held : wire' = [wire EXCEPT ![writerStream] = Append(@, m)]
    /\ writerPc' = "recv"
    /\ held' = {} /\ writerStream' = Disconnected
    /\ UNCHANGED <<connection, outbound, sock>>
    /\ WriterUnchanged

\* It times out, or the socket is gone; any part may have been written.
WriterWriteErr ==
    /\ writerPc = "write"
    /\ \E m \in held :
          wire' = IF Usable(writerStream)
                  THEN [wire EXCEPT ![writerStream] = Append(@, Torn(m))]
                  ELSE wire
    /\ writerPc' = "fail"
    /\ held' = {}
    /\ UNCHANGED <<connection, outbound, writerStream, sock>>
    /\ WriterUnchanged

\* ConnectionState::disconnect_if_current: only the connection written to.
disconnect_if_current(candidate) ==
    IF connection = candidate THEN disconnect ELSE UNCHANGED <<connection, sock>>

WriterFail ==
    /\ writerPc = "fail"
    /\ disconnect_if_current(writerStream)
    /\ writerPc' = "recv"
    /\ writerStream' = Disconnected
    /\ UNCHANGED <<outbound, held, wire>>
    /\ WriterUnchanged

Writer ==
    \/ WriterRecv
    \/ WriterClone
    \/ WriterWriteOk
    \/ WriterWriteErr
    \/ WriterFail

-----------------------------------------------------------------------------
(* Readers: spawn_reader, one per connection.                              *)

\* A slip: the check of the dimensions is left to the event loop.
publish_unchecked(f) == pending' = {f}

\* FrameMailbox::publish refuses other dimensions and keeps the latest.
publish(f) == pending' = IF f.viewport = mailboxViewport THEN {f} ELSE pending

\* A frame of any dimensions; what the peer sent before its end or before a
\* shutdown may still be read.
ReaderFrame(g, v) ==
    /\ reader[g] = "reading"
    /\ publish([conn |-> g, viewport |-> v])
    /\ UNCHANGED <<mainVars, remoteViewport, mailboxViewport, connection, queueVars, wakes,
                   stopping, startupVars, writerVars, reconnectorVars, reader, netVars>>

ReaderStops(g) ==
    /\ reader[g] = "reading"
    /\ reader' = [reader EXCEPT ![g] = "done"]
    /\ wakes' = wakes + 1
    /\ UNCHANGED <<mainVars, viewVars, connection, queueVars, stopping, startupVars,
                   writerVars, reconnectorVars, netVars>>

ReaderEof(g) == sock[g] \in {"peer_closed", "shutdown"} /\ ReaderStops(g)

\* A read error, or bytes that are not a protocol-v2 Frame, on a live socket.
ReaderError(g) == sock[g] = "open" /\ ReaderStops(g)

-----------------------------------------------------------------------------
(* Reconnector: the thread from_stream spawns.                             *)

ReconnectorUnchanged ==
    UNCHANGED <<mainVars, viewVars, queueVars, stopping, startupVars, writerVars>>

ReconnectorRecv ==
    /\ reconnectorPc = "recv"
    /\ wakes > 0
    /\ wakes' = wakes - 1
    /\ reconnectorPc' = "join"
    /\ UNCHANGED <<connection, fresh, activeReader, reader, netVars>>
    /\ ReconnectorUnchanged

\* reader.join: the wake of drop can come while the reader still reads.
ReconnectorJoin ==
    /\ reconnectorPc = "join"
    /\ activeReader # 0 => reader[activeReader] = "done"
    /\ activeReader' = 0
    /\ reconnectorPc' = "clear"
    /\ UNCHANGED <<connection, wakes, fresh, reader, netVars>>
    /\ ReconnectorUnchanged

ReconnectorClear ==
    /\ reconnectorPc = "clear"
    /\ disconnect
    /\ reconnectorPc' = "connect"
    /\ UNCHANGED <<wakes, fresh, activeReader, reader, wire, opened>>
    /\ ReconnectorUnchanged

\* The stopping check after the disconnect and the one that heads the loop.
ReconnectorStops ==
    /\ reconnectorPc = "connect"
    /\ stopping
    /\ reconnectorPc' = "exited"
    /\ UNCHANGED <<connection, wakes, fresh, activeReader, reader, netVars>>
    /\ ReconnectorUnchanged

\* Connecting, then reading remote_viewport.  A connect that fails sleeps
\* and changes nothing.
ReconnectorConnect ==
    /\ reconnectorPc = "connect"
    /\ ~stopping
    /\ OpenSocket
    /\ fresh' = {Hello(opened + 1, remoteViewport)}
    /\ reconnectorPc' = "hello"
    /\ UNCHANGED <<connection, wakes, activeReader, reader, wire>>
    /\ ReconnectorUnchanged

ReconnectorHelloOk ==
    /\ reconnectorPc = "hello"
    /\ \E hello \in fresh : wire' = [wire EXCEPT ![hello.token] = <<hello>>]
    /\ reconnectorPc' = "install"
    /\ UNCHANGED <<connection, wakes, fresh, activeReader, reader, sock, opened>>
    /\ ReconnectorUnchanged

\* configure_stream or write_hello fails: shut down, sleep, try again.
ReconnectorHelloErr ==
    /\ reconnectorPc = "hello"
    /\ \E hello \in fresh :
          /\ wire' = [wire EXCEPT ![hello.token] = <<Torn(hello)>>]
          /\ sock' = ShutDown(hello.token)
    /\ fresh' = {}
    /\ reconnectorPc' = "connect"
    /\ UNCHANGED <<connection, wakes, activeReader, reader, opened>>
    /\ ReconnectorUnchanged

\* ConnectionState::reconnect disconnects what is there before it takes the
\* new socket.
reconnect(g) ==
    /\ sock' = IF connection = Disconnected THEN sock ELSE ShutDown(connection)
    /\ connection' = g

\* A slip: stopping is checked at the head of the loop only.
ReconnectorInstallUnchecked ==
    /\ reconnectorPc = "install"
    /\ \E hello \in fresh : reconnect(hello.token)
    /\ reconnectorPc' = "spawn"
    /\ UNCHANGED <<wakes, fresh, activeReader, reader, wire, opened>>
    /\ ReconnectorUnchanged

\* One critical section of the connection lock: give up if stopping, else
\* reconnect.
ReconnectorInstall ==
    /\ reconnectorPc = "install"
    /\ \E hello \in fresh :
          IF stopping
          THEN /\ sock' = ShutDown(hello.token)
               /\ reconnectorPc' = "exited"
               /\ fresh' = {}
               /\ UNCHANGED connection
          ELSE /\ reconnect(hello.token)
               /\ reconnectorPc' = "spawn"
               /\ UNCHANGED fresh
    /\ UNCHANGED <<wakes, activeReader, reader, wire, opened>>
    /\ ReconnectorUnchanged

ReconnectorSpawnReader ==
    /\ reconnectorPc = "spawn"
    /\ \E hello \in fresh :
          /\ reader' = [reader EXCEPT ![hello.token] = "reading"]
          /\ activeReader' = hello.token
    /\ fresh' = {}
    /\ reconnectorPc' = "recv"
    /\ UNCHANGED <<connection, wakes, netVars>>
    /\ ReconnectorUnchanged

Reconnector ==
    \/ ReconnectorRecv
    \/ ReconnectorJoin
    \/ ReconnectorClear
    \/ ReconnectorStops
    \/ ReconnectorConnect
    \/ ReconnectorHelloOk
    \/ ReconnectorHelloErr
    \/ ReconnectorInstall
    \/ ReconnectorSpawnReader

-----------------------------------------------------------------------------
\* Every thread is done; the state may repeat for ever.
Terminated ==
    /\ mainPc = "dropped"
    /\ startupPc = "done"
    /\ UNCHANGED vars

Next ==
    \/ Main
    \/ Startup
    \/ Writer
    \/ Reconnector
    \/ \E g \in Sockets : \/ PeerCloses(g)
                          \/ ReaderEof(g)
                          \/ ReaderError(g)
                          \/ \E v \in FrameViewports : ReaderFrame(g, v)
    \/ Terminated

Spec == Init /\ [][Next]_vars

\* Threads are scheduled.  connect_timeout and the write timeout bound every
\* socket call, so the worker threads always move on; a call main began runs
\* to its end; a reader at the end of its stream returns.  A PaperSpoon that
\* stays reachable lets connecting and greeting succeed again and again.
Fairness ==
    /\ WF_vars(MainContinues)
    /\ WF_vars(Writer)
    /\ WF_vars(Reconnector)
    /\ \A g \in Sockets : WF_vars(ReaderEof(g))

Reachable ==
    /\ SF_vars(ReconnectorConnect)
    /\ SF_vars(ReconnectorHelloOk)

FairSpec == Spec /\ Fairness /\ Reachable

-----------------------------------------------------------------------------
(* Properties                                                              *)

\* The types.  The queue to the writer never holds more than its capacity.
TypeOK ==
    /\ mainPc \in {"idle", "poll_take", "pointer_token", "pointer_send",
                   "resize_mailbox", "resize_promote", "resize_token", "resize_send",
                   "resize_disconnect", "drop_startup", "drop_disconnect", "drop_wake",
                   "drop_queue", "drop_join_writer", "drop_join_reconnector", "dropped"}
    /\ mainToken \in {Disconnected} \cup Sockets
    /\ inputs \in 0 .. MaxInputs
    /\ remoteViewport \in Viewports
    /\ mailboxViewport \in Viewports
    /\ pending \subseteq Frame
    /\ connection \in {Disconnected} \cup Sockets
    /\ outboundOpen \in BOOLEAN
    /\ outbound \in Seq(Message) /\ Len(outbound) <= OUTBOUND_QUEUE_CAPACITY
    /\ wakes \in Nat
    /\ stopping \in BOOLEAN
    /\ startupPc \in {"check", "connect", "send_connected", "send_failed", "wait", "done"}
    /\ startupSock \in {0} \cup Sockets
    /\ startupChannel \in {"empty", "failed", "connected"}
    /\ startupRx \in BOOLEAN
    /\ writerPc \in {"none", "recv", "clone", "write", "fail", "exited"}
    /\ held \subseteq Message
    /\ writerStream \in {0} \cup Sockets
    /\ reconnectorPc \in {"none", "recv", "join", "clear", "connect", "hello",
                          "install", "spawn", "exited"}
    /\ fresh \subseteq Message
    /\ activeReader \in {0} \cup Sockets
    /\ reader \in [Sockets -> {"none", "reading", "done"}]
    /\ sock \in [Sockets -> SocketStates]
    /\ wire \in [Sockets -> Seq(Message)]
    /\ opened \in 0 .. MaxConnections

\* The event loop displays a frame only when it fits the remote area: what
\* the mailbox holds always has the retained viewport, whichever way a resize
\* interleaves with a reader that decoded a frame for the previous one.
\* Between the two locks of send_viewport_changed main does not poll.
PendingFrameFits ==
    mainPc # "resize_mailbox" => \A f \in pending : f.viewport = remoteViewport

\* The viewport the peer of g knows when it reads the message at i.
AnnouncedAt(g, i) ==
    LET announcements == {j \in 1 .. i - 1 : wire[g][j].kind \in {"hello", "viewport"}}
        last == CHOOSE j \in announcements : \A k \in announcements : k <= j
    IN  wire[g][last].viewport

PointersFit(g, first) ==
    \A i \in first .. Len(wire[g]) :
        wire[g][i].kind = "pointer" => wire[g][i].viewport = AnnouncedAt(g, i)

\* send_viewport_changed: "later pointers cannot reach PaperSpoon with stale
\* coordinate geometry".  On the connection made at startup, and on every
\* connection from its first ViewportChanged on, each pointer is read by a
\* peer that knows the viewport the pointer's coordinates are relative to,
\* although viewport changes can be refused by a full queue.
PointersFollowViewport ==
    \A g \in Sockets :
        /\ g = startupSock => PointersFit(g, 1)
        /\ \A i \in DOMAIN wire[g] : wire[g][i].kind = "viewport" => PointersFit(g, i + 1)

\* The same promise for every connection, the ones the reconnector makes
\* included.  It does not hold: a viewport changed between the reconnector's
\* read of it and its install of the connection is announced by neither.
PointersUseAnnouncedViewport == \A g \in Sockets : PointersFit(g, 1)

\* The module doc: "If startup fails, the background worker retries resolution
\* and connection".  Whenever the event loop is idle and disconnected, some
\* thread is still there to connect.  It does not hold once from_stream fails.
SomeWorkerReconnects ==
    mainPc = "idle" /\ connection = Disconnected =>
        \/ startupPc # "done"
        \/ startupChannel = "connected"
        \/ reconnectorPc \notin {"none", "exited"}

\* A write error on a connection that was already replaced must not shut the
\* replacement down: handling it touches the socket written to and no other.
WriteErrorsStayLocal ==
    [][writerPc = "fail" /\ writerPc' = "recv" =>
         \A g \in Sockets \ {writerStream} :
            sock'[g] = sock[g] /\ (connection = g => connection' = g)]_vars

\* After drop returned no thread of the transport runs but the detached
\* startup worker, and no socket is left open but one that worker has not
\* yet found to be unwanted.
DropReleasesEverything ==
    mainPc = "dropped" =>
        /\ connection = Disconnected
        /\ \A g \in Sockets : reader[g] # "reading"
        /\ \A g \in Sockets : Usable(g) => g = startupSock /\ startupPc = "send_connected"

\* What was written on each connection is what OrderedDelivery promises.
\* Accepted and not yet delivered is what the writer holds and what waits in
\* the queue with the token of a connection that can still be written to.
Writable(g) ==
    connection = g /\ writerPc # "exited" /\ ~(writerPc = "fail" /\ writerStream = g)

InFlight(g) ==
    IF \E m \in held : m.token = g THEN <<CHOOSE m \in held : TRUE>> ELSE <<>>

\* What a queue holds for g, in the queue's order: SelectSeq, index by index.
MessagesFor(g, messages) ==
    LET upTo[n \in 0 .. Len(messages)] ==
            IF n = 0 THEN <<>>
            ELSE IF messages[n].token = g THEN Append(upTo[n - 1], messages[n])
            ELSE upTo[n - 1]
    IN  upTo[Len(messages)]

Pending(g) == IF Writable(g) THEN InFlight(g) \o MessagesFor(g, outbound) ELSE <<>>

\* Greeted, and the lock of the connection not yet taken.
Installing(g) == reconnectorPc = "install" /\ \E hello \in fresh : hello.token = g

Ended == {g \in Sockets : wire[g] # <<>> /\ ~Writable(g) /\ ~Installing(g)}

Delivery == INSTANCE OrderedDelivery WITH
    Connections <- Sockets,
    Hellos <- {m \in Message : m.kind = "hello"},
    Messages <- {m \in Message : m.kind \in {"viewport", "pointer"}},
    delivered <- wire,
    pending <- [g \in Sockets |-> Pending(g)],
    ended <- Ended

\* Every connection carries one Hello and then a prefix of what was accepted
\* for it, in order, without gap, duplicate or message of another connection,
\* and nothing after a message that broke off: "Accepted pointer events are
\* not retried after reconnect", "deterministic" byte ordering.
DeliversInOrder == Delivery!Spec

\* Once drop began, it returns: neither join waits for ever, whatever the
\* peer, the writer and the reconnector were doing.
DropReturns == stopping ~> mainPc = "dropped"

\* A lost connection is replaced while PaperSpoon is reachable, unless the
\* program exits (or the model has no socket left to give).
LostConnectionIsReplaced ==
    (reconnectorPc # "none" /\ connection = Disconnected)
        ~> (connection # Disconnected \/ stopping \/ opened = MaxConnections)
=============================================================================
