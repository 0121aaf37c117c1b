-------------------------- MODULE EsbReliableLink --------------------------
(***************************************************************************)
(* What an ESB link with acknowledgments promises (the ESB user guide,     *)
(* doc/nrf/protocols/esb/index.rst): packets written by the transmitting   *)
(* application are delivered one at a time, in order and exactly once, and *)
(* success is reported for a packet only after its delivery.  The packets  *)
(* are numbered 1, 2, ... in the order in which they are written.          *)
(***************************************************************************)
EXTENDS Naturals, Sequences

VARIABLES
    written,    \* packets accepted from the transmitting application
    delivered,  \* packets handed to the receiving application, in order
    succeeded   \* the last packet reported with ESB_EVENT_TX_SUCCESS

Init == written = 0 /\ delivered = <<>> /\ succeeded = 0

Write ==
    /\ written' = written + 1
    /\ UNCHANGED <<delivered, succeeded>>

Deliver ==
    /\ succeeded = Len(delivered) /\ succeeded < written
    /\ delivered' = Append(delivered, succeeded + 1)
    /\ UNCHANGED <<written, succeeded>>

Succeed ==
    /\ succeeded < Len(delivered)
    /\ succeeded' = succeeded + 1
    /\ UNCHANGED <<written, delivered>>

Next == Write \/ Deliver \/ Succeed

Spec == Init /\ [][Next]_<<written, delivered, succeeded>>
=============================================================================
