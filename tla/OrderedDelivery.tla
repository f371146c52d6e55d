-------------------------- MODULE OrderedDelivery --------------------------
(***************************************************************************)
(* What PaperPad's transport promises the peer of each connection: first   *)
(* one Hello, then exactly a prefix of the messages accepted for that      *)
(* connection, in the order they were accepted, with at most one broken    *)
(* message and nothing after it.  A connection that ended takes and        *)
(* delivers nothing more, and a message accepted for one connection never  *)
(* shows up on another.                                                    *)
(***************************************************************************)
EXTENDS Sequences

CONSTANTS Connections,   \* every connection there may be
          Hellos,        \* the greetings
          Messages,      \* what may be accepted after the greeting
          Torn(_)        \* the broken form of a greeting or message

VARIABLES delivered,     \* per connection, what its peer has been handed
          pending,       \* per connection, accepted and not yet delivered
          ended          \* the connections that ended

vars == <<delivered, pending, ended>>

Init ==
    /\ delivered = [g \in Connections |-> <<>>]
    /\ pending = [g \in Connections |-> <<>>]
    /\ ended = {}

Greet(g, hello) ==
    /\ delivered[g] = <<>>
    /\ g \notin ended
    /\ delivered' = [delivered EXCEPT ![g] = <<hello>>]
    /\ UNCHANGED <<pending, ended>>

GreetingFails(g, hello) ==
    /\ delivered[g] = <<>>
    /\ g \notin ended
    /\ delivered' = [delivered EXCEPT ![g] = <<Torn(hello)>>]
    /\ ended' = ended \cup {g}
    /\ UNCHANGED pending

Accept(g, m) ==
    /\ delivered[g] # <<>>
    /\ g \notin ended
    /\ pending' = [pending EXCEPT ![g] = Append(@, m)]
    /\ UNCHANGED <<delivered, ended>>

Deliver(g) ==
    /\ g \notin ended
    /\ pending[g] # <<>>
    /\ delivered' = [delivered EXCEPT ![g] = Append(@, Head(pending[g]))]
    /\ pending' = [pending EXCEPT ![g] = Tail(@)]
    /\ UNCHANGED ended

DeliveryFails(g) ==
    /\ g \notin ended
    /\ pending[g] # <<>>
    /\ delivered' = [delivered EXCEPT ![g] = Append(@, Torn(Head(pending[g])))]
    /\ pending' = [pending EXCEPT ![g] = <<>>]
    /\ ended' = ended \cup {g}

\* The connection is lost or given up: what was accepted and not delivered
\* is forgotten, never moved to another connection.
End(g) ==
    /\ g \notin ended
    /\ pending' = [pending EXCEPT ![g] = <<>>]
    /\ ended' = ended \cup {g}
    /\ UNCHANGED delivered

Next ==
    \E g \in Connections :
        \/ \E hello \in Hellos : Greet(g, hello) \/ GreetingFails(g, hello)
        \/ \E m \in Messages : Accept(g, m)
        \/ Deliver(g)
        \/ DeliveryFails(g)
        \/ End(g)

Spec == Init /\ [][Next]_vars
=============================================================================
