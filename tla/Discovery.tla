------------------------------ MODULE Discovery ------------------------------
(***************************************************************************)
(* How PaperPad finds PaperSpoon: the UDP client (src/net/discover.rs,     *)
(* src/discovery.rs), the startup worker that retries it (src/net/mod.rs)  *)
(* and the responder (tools/paperspoon/src/discovery.rs).                  *)
(*                                                                         *)
(* One PaperPad makes one attempt after another, each with a nonce of its  *)
(* own: the number of the attempt stands for it.  Hosts come and go and    *)
(* come back with another TCP port.  A datagram may be lost, duplicated,   *)
(* delayed into a later attempt or reordered, so a datagram that was sent  *)
(* stays in its set: it may be received any number of times or never.      *)
(* Strangers' datagrams and answers that do not parse reach the client at  *)
(* any time.  Time is two countdowns in ticks that run while it works.     *)
(***************************************************************************)
EXTENDS Naturals

CONSTANTS
    Hosts,          \* machines that may run PaperSpoon
    Ports,          \* TCP ports it may listen on
    PROBE_COUNT,    \* probes of an attempt
    PROBE_WINDOW,   \* ticks an answer to a probe is waited for
    Targets,        \* number of broadcast addresses a probe is sent to
    MaxAttempts,    \* bound: attempts
    MaxRestarts     \* bound: starts and ends of PaperSpoon

ASSUME DiscoveryAssumption ==
    /\ 0 \notin Ports
    /\ {PROBE_COUNT, PROBE_WINDOW, Targets} \subseteq Nat \ {0}
    /\ {MaxAttempts, MaxRestarts} \subseteq Nat

Attempts == 1 .. MaxAttempts
Endpoint == [host : Hosts, port : Ports]
Here == [nonce : Attempts, endpoint : Endpoint]

VARIABLES
    \* the client: where it is, number of its attempt and probe, targets the
    \* probe was sent to, ticks to the ends of window and attempt, the
    \* endpoints that answered, the one it resolved ({}: none)
    pc, attempt, probe, sent, left, total, responses, result,
    \* each host's TCP port (0: PaperSpoon is not running), the hosts whose
    \* discovery listener runs
    port, listening, restarts,
    \* the network: nonces and answers ever sent
    requests, answers,
    \* history: endpoints that existed at some time of this attempt, and the
    \* endpoints its socket was handed in answers to it
    existed, heard

found == <<responses, result>>
clientVars == <<pc, attempt, probe, sent, found>>
clockVars == <<left, total>>
hostVars == <<port, listening, restarts>>
network == <<requests, answers>>
history == <<existed, heard>>
surroundings == <<clockVars, hostVars, network, history>>
vars == <<clientVars, surroundings>>

Running(ports) == {e \in Endpoint : ports[e.host] = e.port}

Init ==
    /\ pc = "waiting" /\ attempt = 0 /\ probe = 0 /\ sent = 0
    /\ left = 0 /\ total = 0 /\ responses = {} /\ result = {}
    /\ port \in [Hosts -> Ports \cup {0}]
    /\ listening = {h \in Hosts : port[h] # 0}
    /\ restarts = 0
    /\ requests = {} /\ answers = {}
    /\ existed = Running(port) /\ heard = {}

-----------------------------------------------------------------------------
(* The client.                                                             *)

\* The retry interval has passed: bind the socket, choose a nonce.
Begin ==
    /\ pc = "waiting"
    /\ attempt < MaxAttempts
    /\ attempt' = attempt + 1
    /\ pc' = "probe" /\ probe' = 1 /\ sent' = 0
    /\ left' = 0 /\ total' = PROBE_COUNT * PROBE_WINDOW
    /\ responses' = {} /\ result' = {}
    /\ existed' = Running(port) /\ heard' = {}
    /\ UNCHANGED <<hostVars, network>>

\* The socket cannot be bound: the attempt fails before it has begun.
BindFails ==
    /\ pc = "waiting"
    /\ attempt < MaxAttempts
    /\ attempt' = attempt + 1
    /\ UNCHANGED <<pc, probe, sent, found, surroundings>>

Probe ==
    /\ pc = "probe" /\ probe <= PROBE_COUNT /\ total > 0
    /\ pc' = "send" /\ sent' = 0
    /\ UNCHANGED <<attempt, probe, found, surroundings>>

\* After the last target the window opens; it ends with the attempt.
WindowAfterSend == IF total < PROBE_WINDOW THEN total ELSE PROBE_WINDOW

Send ==
    /\ pc = "send"
    /\ sent' = sent + 1
    /\ requests' = requests \cup {attempt}
    /\ IF sent' = Targets
       THEN pc' = "window" /\ left' = WindowAfterSend
       ELSE UNCHANGED <<pc, left>>
    /\ UNCHANGED <<attempt, probe, found, total, hostVars, answers, history>>

\* One send or receive that fails ends the attempt, whatever was collected.
SocketFails ==
    /\ pc \in {"send", "receive"}
    /\ pc' = "waiting"
    /\ UNCHANGED <<attempt, probe, sent, found, surroundings>>

\* continue 'probe
NextProbe == pc' = "probe" /\ probe' = probe + 1

WindowOpen ==
    /\ pc = "window" /\ left > 0
    /\ pc' = "receive"
    /\ UNCHANGED <<attempt, probe, sent, found, surroundings>>

WindowElapsed ==
    /\ pc \in {"window", "receive"} /\ left = 0
    /\ NextProbe
    /\ UNCHANGED <<attempt, sent, found, surroundings>>

\* recv_from returns an answer; only one with the nonce of the attempt counts.
AcceptsAny(here) == here.endpoint \in Endpoint
Accepts(here) == here.nonce = attempt

Receive(here) ==
    /\ pc = "receive"
    /\ here \in answers
    /\ responses' = responses \cup {e \in {here.endpoint} : Accepts(here)}
    /\ heard' = heard \cup {e \in {here.endpoint} : here.nonce = attempt}
    /\ pc' = "window"
    /\ UNCHANGED <<attempt, probe, sent, result, clockVars, hostVars, network, existed>>

\* A datagram that does not parse, or that carries a nonce of no attempt.
ReceiveOtherRestarting ==
    /\ pc = "receive"
    /\ pc' = "window" /\ left' = PROBE_WINDOW
    /\ UNCHANGED <<attempt, probe, sent, found, total, hostVars, network, history>>
ReceiveOther ==
    /\ pc = "receive"
    /\ pc' = "window"
    /\ UNCHANGED <<attempt, probe, sent, found, surroundings>>

\* select_endpoint: the only endpoint there is among those that answered.
select_any_endpoint(endpoints) == endpoints
select_endpoint(endpoints) == {e \in endpoints : endpoints = {e}}

Selecting == pc = "probe" /\ (probe > PROBE_COUNT \/ total = 0)

Resolve(e) ==
    /\ Selecting
    /\ e \in select_endpoint(responses)
    /\ pc' = "resolved" /\ result' = {e}
    /\ UNCHANGED <<attempt, probe, sent, responses, surroundings>>

\* No responder, or several.
ResolveFails ==
    /\ Selecting
    /\ select_endpoint(responses) = {}
    /\ pc' = "waiting"
    /\ UNCHANGED <<attempt, probe, sent, found, surroundings>>

\* connect_timeout; the startup worker is done when it succeeds and begins
\* the whole attempt again when it fails.
Connect ==
    /\ pc = "resolved"
    /\ result \subseteq Running(port)
    /\ pc' = "connected"
    /\ UNCHANGED <<attempt, probe, sent, found, surroundings>>

ConnectFails ==
    /\ pc = "resolved"
    /\ pc' = "waiting"
    /\ UNCHANGED <<attempt, probe, sent, found, surroundings>>

-----------------------------------------------------------------------------
(* Hosts, and time.                                                        *)

\* respond_once: a unicast answer with the port the TCP listener got.
Respond(h, n) ==
    /\ h \in listening
    /\ n \in requests
    /\ answers' = answers \cup
         {[nonce |-> n, endpoint |-> e] : e \in {e \in Running(port) : e.host = h}}
    /\ UNCHANGED <<clientVars, clockVars, hostVars, requests, history>>

\* recv_from or send_to failed: the thread ends, PaperSpoon runs on.
ListenerEnds(h) ==
    /\ h \in listening
    /\ listening' = listening \ {h}
    /\ UNCHANGED <<clientVars, clockVars, port, restarts, network, history>>

HostStarts(h, p) ==
    /\ restarts < MaxRestarts /\ port[h] = 0
    /\ restarts' = restarts + 1
    /\ port' = [port EXCEPT ![h] = p]
    /\ listening' = listening \cup {h}
    /\ existed' = existed \cup {[host |-> h, port |-> p]}
    /\ UNCHANGED <<clientVars, clockVars, network, heard>>

HostEnds(h) ==
    /\ restarts < MaxRestarts /\ port[h] # 0
    /\ restarts' = restarts + 1
    /\ port' = [port EXCEPT ![h] = 0]
    /\ listening' = listening \ {h}
    /\ UNCHANGED <<clientVars, clockVars, network, history>>

Tick ==
    /\ pc \in {"probe", "send", "window", "receive"}
    /\ left + total > 0
    /\ left' = IF left > 0 THEN left - 1 ELSE 0
    /\ total' = IF total > 0 THEN total - 1 ELSE 0
    /\ UNCHANGED <<clientVars, hostVars, network, history>>

Client ==
    \/ Begin \/ BindFails \/ Probe \/ Send \/ SocketFails
    \/ WindowOpen \/ WindowElapsed
    \/ (\E here \in Here : Receive(here)) \/ ReceiveOther
    \/ (\E e \in Endpoint : Resolve(e)) \/ ResolveFails
    \/ Connect \/ ConnectFails

Host(h) ==
    \/ \E n \in Attempts : Respond(h, n)
    \/ ListenerEnds(h)
    \/ \E p \in Ports : HostStarts(h, p)
    \/ HostEnds(h)

Next == Client \/ Tick \/ \E h \in Hosts : Host(h)

Spec == Init /\ [][Next]_vars

\* The worker is scheduled and clocks run, however many datagrams arrive;
\* nothing is assumed of hosts or network.
FairSpec == Spec /\ WF_vars(Client) /\ WF_vars(Tick)

-----------------------------------------------------------------------------
(* Properties.                                                             *)

\* Types.  The window of a probe never outlasts the attempt, and there are
\* no more probes than PROBE_COUNT (the last value stands for "all done").
TypeOK ==
    /\ pc \in {"waiting", "probe", "send", "window", "receive", "resolved",
               "connected"}
    /\ attempt \in 0 .. MaxAttempts
    /\ probe \in 0 .. PROBE_COUNT + 1
    /\ sent \in 0 .. Targets
    /\ total \in 0 .. PROBE_COUNT * PROBE_WINDOW
    /\ left \in 0 .. total
    /\ responses \subseteq Endpoint /\ result \subseteq Endpoint
    /\ port \in [Hosts -> Ports \cup {0}]
    /\ listening \subseteq {h \in Hosts : port[h] # 0}
    /\ restarts \in 0 .. MaxRestarts
    /\ requests \subseteq Attempts
    /\ answers \subseteq Here
    /\ existed \subseteq Endpoint /\ heard \subseteq Endpoint

\* PaperPad resolves no endpoint that was gone before the attempt began: a
\* late answer to an earlier attempt, of a PaperSpoon that ended or moved to
\* another port since, is never taken for an answer to this one.
EndpointIsOfThisAttempt == pc = "resolved" => result \subseteq existed

\* When two endpoints answered the attempt, in whichever of its windows and
\* however often, PaperPad resolves neither.
AmbiguityIsRefused == pc = "resolved" => result = heard

\* An attempt ends although strangers' datagrams arrive all the time.
AttemptEnds == (pc = "probe") ~> (pc \in {"waiting", "connected"})

=============================================================================
