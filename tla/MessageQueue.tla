---------------------------- MODULE MessageQueue ----------------------------
(***************************************************************************)
(* What sendMessage promises: the messages it accepts for a client reach   *)
(* that client whole, once each and in order, and the end of the           *)
(* connection, unless it is broken off, comes after the last of them.      *)
(* There are no bytes here, no buffer and no partial writes.               *)
(***************************************************************************)
EXTENDS Naturals, Sequences

CONSTANT Messages  \* lines as they go over the wire

VARIABLES
    accepted,   \* the messages sendMessage took
    delivered,  \* the messages the peer has read
    end         \* "open", "closed" in good order, or "broken" off

queueVars == <<accepted, delivered, end>>

QueueInit == accepted = <<>> /\ delivered = <<>> /\ end = "open"

\* A break is not noticed at once.
Accept ==
    /\ end # "closed"
    /\ \E m \in Messages : accepted' = Append(accepted, m)
    /\ UNCHANGED <<delivered, end>>

\* What was on its way may still arrive after the connection broke.
Deliver ==
    /\ end # "closed"
    /\ Len(delivered) < Len(accepted)
    /\ delivered' = Append(delivered, accepted[Len(delivered) + 1])
    /\ UNCHANGED accepted
    /\ end' \in {end, "broken"}

Close ==
    /\ end = "open" /\ delivered = accepted
    /\ end' = "closed"
    /\ UNCHANGED <<accepted, delivered>>

Break ==
    /\ end = "open"
    /\ end' = "broken"
    /\ UNCHANGED <<accepted, delivered>>

QueueSpec == QueueInit /\ [][Accept \/ Deliver \/ Close \/ Break]_queueVars
=============================================================================
