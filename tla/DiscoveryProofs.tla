--------------------------- MODULE DiscoveryProofs ---------------------------
(***************************************************************************)
(* What Discovery promises for any number of hosts, ports, probes, targets *)
(* and ticks: TypeOK, EndpointIsOfThisAttempt and AmbiguityIsRefused.      *)
(*                                                                         *)
(* Neither promise is inductive.  An endpoint in responses existed in this *)
(* attempt because its answer bears this attempt's nonce, no answer bears  *)
(* a nonce that no request had, and no request has the nonce of a later    *)
(* attempt; so an answer to this attempt names a host as it was after the  *)
(* attempt had begun.                                                      *)
(***************************************************************************)
EXTENDS Discovery, TLAPS

USE DEF Endpoint, Here, Attempts, Running

\* Requests and answers bear nonces of attempts that have begun.
NoncesHaveBegun ==
    /\ \A n \in requests : n <= attempt
    /\ \A here \in answers : here.nonce \in requests

\* What runs now, and whatever answered this attempt, existed in it.
AnswersExisted ==
    /\ Running(port) \subseteq existed
    /\ \A here \in answers : here.nonce = attempt => here.endpoint \in existed

\* The client keeps exactly what its socket was handed.
Collected ==
    /\ responses = heard
    /\ responses \subseteq existed
    /\ pc = "resolved" => result = responses

\* A probe under way belongs to an attempt, is one of PROBE_COUNT and lacks
\* a target while it is sent.
Counters ==
    /\ pc # "waiting" => attempt > 0
    /\ pc \in {"send", "window", "receive"} => probe <= PROBE_COUNT
    /\ pc = "send" => sent < Targets

IInv == TypeOK /\ Counters /\ NoncesHaveBegun /\ AnswersExisted /\ Collected

-----------------------------------------------------------------------------
\* The window opened by the last send ends with the attempt.
LEMMA WindowFits ==
    ASSUME total \in Nat
    PROVE  WindowAfterSend \in 0 .. total
BY DiscoveryAssumption DEF WindowAfterSend

\* The attempt's time is a natural number, and positive.
LEMMA AttemptTime == PROBE_COUNT * PROBE_WINDOW \in Nat
<1>1. \A m, n \in Nat : m * n \in Nat
  OBVIOUS
<1> QED BY <1>1, DiscoveryAssumption

LEMMA Initially == Init => IInv
BY AttemptTime, DiscoveryAssumption
DEF Init, IInv, TypeOK, Counters, NoncesHaveBegun, AnswersExisted, Collected

\* With the counters the types are inductive.
LEMMA TypeNext == TypeOK /\ Counters /\ [Next]_vars => TypeOK' /\ Counters'
<1> SUFFICES ASSUME TypeOK, Counters, [Next]_vars PROVE TypeOK' /\ Counters'
  OBVIOUS
<1> USE DiscoveryAssumption DEF TypeOK, Counters
<1>1. CASE Begin
  BY <1>1, AttemptTime DEF Begin, hostVars, network
<1>2. CASE BindFails
  BY <1>2 DEF BindFails, surroundings, clockVars, hostVars, network, history, found
<1>3. CASE Probe
  BY <1>3 DEF Probe, surroundings, clockVars, hostVars, network, history, found
<1>4. CASE Send
  <2>1. attempt \in Attempts
    BY <1>4 DEF Send
  <2> QED BY <1>4, <2>1, WindowFits DEF Send, hostVars, history, found
<1>5. CASE SocketFails
  BY <1>5 DEF SocketFails, surroundings, clockVars, hostVars, network, history, found
<1>6. CASE WindowOpen
  BY <1>6 DEF WindowOpen, surroundings, clockVars, hostVars, network, history, found
<1>7. CASE WindowElapsed
  BY <1>7 DEF WindowElapsed, NextProbe, surroundings, clockVars, hostVars, network, history, found
<1>8. ASSUME NEW here \in Here, Receive(here) PROVE TypeOK' /\ Counters'
  BY <1>8 DEF Receive, clockVars, hostVars, network
<1>9. CASE ReceiveOther
  BY <1>9 DEF ReceiveOther, surroundings, clockVars, hostVars, network, history, found
<1>10. ASSUME NEW e \in Endpoint, Resolve(e) PROVE TypeOK' /\ Counters'
  BY <1>10 DEF Resolve, Selecting, surroundings, clockVars, hostVars, network, history
<1>11. CASE ResolveFails
  BY <1>11 DEF ResolveFails, surroundings, clockVars, hostVars, network, history, found
<1>12. CASE Connect
  BY <1>12 DEF Connect, surroundings, clockVars, hostVars, network, history, found
<1>13. CASE ConnectFails
  BY <1>13 DEF ConnectFails, surroundings, clockVars, hostVars, network, history, found
<1>14. CASE Tick
  BY <1>14 DEF Tick, clientVars, hostVars, network, history, found
<1>15. ASSUME NEW h \in Hosts, NEW n \in Attempts, Respond(h, n) PROVE TypeOK' /\ Counters'
  BY <1>15 DEF Respond, clientVars, clockVars, hostVars, history, found
<1>16. ASSUME NEW h \in Hosts, ListenerEnds(h) PROVE TypeOK' /\ Counters'
  BY <1>16 DEF ListenerEnds, clientVars, clockVars, network, history, found
<1>17. ASSUME NEW h \in Hosts, NEW p \in Ports, HostStarts(h, p) PROVE TypeOK' /\ Counters'
  BY <1>17 DEF HostStarts, clientVars, clockVars, network, found
<1>18. ASSUME NEW h \in Hosts, HostEnds(h) PROVE TypeOK' /\ Counters'
  BY <1>18 DEF HostEnds, clientVars, clockVars, network, history, found
<1>19. CASE UNCHANGED vars
  BY <1>19 DEF vars, clientVars, surroundings, clockVars, hostVars, network, history, found
<1> QED
  BY <1>1, <1>2, <1>3, <1>4, <1>5, <1>6, <1>7, <1>8, <1>9, <1>10, <1>11, <1>12,
     <1>13, <1>14, <1>15, <1>16, <1>17, <1>18, <1>19
  DEF Next, Client, Host

\* Type correctness, with the window that ends with its attempt.
THEOREM TypeCorrect == Spec => []TypeOK
<1>1. Init => TypeOK /\ Counters
  BY Initially DEF IInv
<1>2. TypeOK /\ Counters /\ [Next]_vars => TypeOK' /\ Counters'
  BY TypeNext
<1> QED BY <1>1, <1>2, PTL DEF Spec

-----------------------------------------------------------------------------
\* Nonces, answers and what was collected, step by step.
LEMMA AnswersNext == IInv /\ [Next]_vars =>
                       NoncesHaveBegun' /\ AnswersExisted' /\ Collected'
<1> DEFINE Goal == NoncesHaveBegun /\ AnswersExisted /\ Collected
<1> SUFFICES ASSUME IInv, [Next]_vars PROVE Goal'
  OBVIOUS
<1> USE DiscoveryAssumption DEF NoncesHaveBegun, AnswersExisted, Collected
<1>0. TypeOK
  BY DEF IInv
<1>1. CASE Begin
  <2>1. \A n \in requests : n < attempt'
    BY <1>0, <1>1 DEF Begin, IInv, TypeOK
  <2>2. \A here \in answers : here.nonce # attempt'
    BY <1>0, <1>1, <2>1 DEF Begin, IInv, TypeOK
  <2> QED BY <1>0, <1>1, <2>1, <2>2 DEF Begin, IInv, TypeOK, hostVars, network
<1>2. CASE BindFails
  <2>1. \A n \in requests : n < attempt'
    BY <1>0, <1>2 DEF BindFails, IInv, TypeOK
  <2>2. \A here \in answers : here.nonce # attempt'
    BY <1>0, <1>2, <2>1 DEF BindFails, IInv, TypeOK
  <2> QED
    BY <1>0, <1>2, <2>1, <2>2
    DEF BindFails, IInv, TypeOK, surroundings, hostVars, network, history, found
<1>3. CASE Send
  BY <1>0, <1>3 DEF Send, IInv, TypeOK, hostVars, history, found
<1>4. CASE Probe \/ SocketFails \/ WindowOpen \/ WindowElapsed \/ ReceiveOther
           \/ Connect \/ ConnectFails \/ ResolveFails
  BY <1>4 DEF Probe, SocketFails, WindowOpen, WindowElapsed, NextProbe, ReceiveOther,
              Connect, ConnectFails, ResolveFails, Selecting, IInv,
              surroundings, hostVars, network, history, found
<1>5. ASSUME NEW here \in Here, Receive(here) PROVE Goal'
  BY <1>5 DEF Receive, Accepts, IInv, hostVars, network
<1>6. ASSUME NEW e \in Endpoint, Resolve(e) PROVE Goal'
  BY <1>6 DEF Resolve, Selecting, select_endpoint, IInv,
              surroundings, hostVars, network, history
<1>7. CASE Tick
  BY <1>7 DEF Tick, IInv, clientVars, hostVars, network, history, found
<1>8. ASSUME NEW h \in Hosts, NEW n \in Attempts, Respond(h, n) PROVE Goal'
  <2> DEFINE New == {[nonce |-> n, endpoint |-> e] : e \in {e \in Running(port) : e.host = h}}
  <2>1. \A here \in New : here.nonce = n /\ here.endpoint \in existed
    BY DEF IInv
  <2>2. answers' = answers \cup New
    BY <1>8 DEF Respond
  <2> HIDE DEF New
  <2> QED
    BY <1>8, <2>1, <2>2 DEF Respond, IInv, clientVars, clockVars, hostVars, history, found
<1>9. ASSUME NEW h \in Hosts, ListenerEnds(h) PROVE Goal'
  BY <1>9 DEF ListenerEnds, IInv, clientVars, clockVars, network, history, found
<1>10. ASSUME NEW h \in Hosts, NEW p \in Ports, HostStarts(h, p) PROVE Goal'
  <2>1. Running(port') \subseteq Running(port) \cup {[host |-> h, port |-> p]}
    BY <1>0, <1>10 DEF HostStarts, TypeOK
  <2> QED
    BY <1>10, <2>1 DEF HostStarts, IInv, clientVars, clockVars, network, found
<1>11. ASSUME NEW h \in Hosts, HostEnds(h) PROVE Goal'
  <2>1. Running(port') \subseteq Running(port)
    BY <1>0, <1>11 DEF HostEnds, TypeOK
  <2> QED
    BY <1>11, <2>1 DEF HostEnds, IInv, clientVars, clockVars, network, history, found
<1>12. CASE UNCHANGED vars
  BY <1>12 DEF IInv, vars, clientVars, surroundings, hostVars, network, history, found
<1> QED
  BY <1>1, <1>2, <1>3, <1>4, <1>5, <1>6, <1>7, <1>8, <1>9, <1>10, <1>11, <1>12
  DEF Next, Client, Host

LEMMA Invariance == Spec => []IInv
<1>1. IInv /\ [Next]_vars => IInv'
  BY TypeNext, AnswersNext DEF IInv
<1> QED BY <1>1, Initially, PTL DEF Spec

\* A late answer of an earlier attempt is never taken for one to this: what
\* is resolved ran at some time since the attempt began.
THEOREM EndpointOfThisAttempt == Spec => []EndpointIsOfThisAttempt
<1>1. IInv => EndpointIsOfThisAttempt
  BY DEF IInv, Collected, EndpointIsOfThisAttempt
<1> QED BY <1>1, Invariance, PTL

\* Several answers in one attempt resolve to nothing.
THEOREM AmbiguityRefused == Spec => []AmbiguityIsRefused
<1>1. IInv => AmbiguityIsRefused
  BY DEF IInv, Collected, AmbiguityIsRefused
<1> QED BY <1>1, Invariance, PTL

=============================================================================
