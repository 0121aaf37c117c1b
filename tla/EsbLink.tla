------------------------------ MODULE EsbLink ------------------------------
(***************************************************************************)
(* A PTX and a PRX running subsys/esb/esb.c, and the air between them.     *)
(*                                                                         *)
(* `air` is the PDU that was sent and not yet received: at most one,       *)
(* because the radio is half-duplex and the retransmission delay is set    *)
(* longer than the acknowledgment takes.  Any PDU may be lost; a PDU with  *)
(* a bad CRC has the same effect on both sides as a lost one.  The window  *)
(* in which the PTX listens (wait_for_ack_timeout_us) covers the answer,   *)
(* so it closes on an answer or after the answer was lost.                 *)
(***************************************************************************)
EXTENDS EsbPtx, EsbPrx

VARIABLE air

linkVars == <<ptxVars, prxVars, air>>

Data(p) == [dir |-> "data", pdu |-> p]
Ack(a) == [dir |-> "ack", pdu |-> a]

LinkInit == PtxInit /\ PrxInit /\ air = {}

(* The end of a transmission, on each side.                                *)
PtxSends ==
    /\ air = {}
    /\ on_radio_disabled_tx \/ on_radio_disabled_tx_noack
    /\ air' = {Data(tx_pdu)}
    /\ UNCHANGED prxVars

PrxSends ==
    /\ on_radio_disabled_rx_ack
    /\ air' = {Ack(ack_pdu)}
    /\ UNCHANGED ptxVars

(* The end of a reception, on each side.                                   *)
PrxReceives ==
    \E f \in air :
        /\ f.dir = "data"
        /\ PacketReceived(f.pdu) \/ PacketRefused
        /\ air' = {}
        /\ UNCHANGED ptxVars

PtxReceives ==
    \E f \in air :
        /\ f.dir = "ack"
        /\ AckReceived(f.pdu)
        /\ air' = {}
        /\ UNCHANGED prxVars

(* The window closes with nothing received.                                *)
PtxTimeout ==
    /\ air = {} /\ prx_state # "PRX_SEND_ACK"
    /\ AckMissed
    /\ UNCHANGED <<prxVars, air>>

Lose ==
    /\ air # {}
    /\ air' = {}
    /\ UNCHANGED <<ptxVars, prxVars>>

LinkNext ==
    \/ PtxLocal /\ UNCHANGED <<prxVars, air>>
    \/ PrxLocal /\ UNCHANGED <<ptxVars, air>>
    \/ PtxSends \/ PrxSends \/ PrxReceives \/ PtxReceives \/ PtxTimeout
    \/ Lose

LinkSpec == LinkInit /\ [][LinkNext]_linkVars

(***************************************************************************)
(* Interrupts and timers are served and started API calls go on (weak      *)
(* fairness); the air loses some PDUs, not all (strong fairness of the     *)
(* receptions); the transmitting application starts the radio again after  *)
(* a failure, and the readers read what there is.                          *)
(***************************************************************************)
PtxGoesOn(c) == PtxWriteEnqueue(c) \/ PtxWriteStart(c) \/ PtxReadLocked(c) \/ PtxPopLocked(c)
PrxGoesOn(c) == PrxWriteEnqueue(c) \/ PrxReadLocked(c) \/ PrxPopLocked(c)

LinkFairness ==
    /\ WF_linkVars(PtxSends) /\ WF_linkVars(PrxSends) /\ WF_linkVars(PtxTimeout)
    /\ SF_linkVars(PrxReceives /\ prx_rx_fifo.count < PrxRxSize) /\ SF_linkVars(PtxReceives)
    /\ WF_linkVars((PtxEvtEnter \/ PtxEvtFetch \/ PtxEvtReturn) /\ UNCHANGED <<prxVars, air>>)
    /\ WF_linkVars((PrxEvtEnter \/ PrxEvtReturn) /\ UNCHANGED <<ptxVars, air>>)
    /\ \A c \in Contexts :
        /\ WF_linkVars(PtxGoesOn(c) /\ UNCHANGED <<prxVars, air>>)
        /\ WF_linkVars(PrxGoesOn(c) /\ UNCHANGED <<ptxVars, air>>)
        /\ WF_linkVars(PrxReadCheck(c) /\ UNCHANGED <<ptxVars, air>>)
        /\ WF_linkVars(esb_start_rx(c) /\ UNCHANGED <<ptxVars, air>>)
        /\ WF_linkVars(esb_start_tx(c) /\ UNCHANGED <<prxVars, air>>)

LinkFairSpec == LinkSpec /\ LinkFairness

-----------------------------------------------------------------------------
(* Whatever the two applications call, a packet is delivered again only    *)
(* when the PRX was made to forget it (esb_flush_rx and esb_init clear     *)
(* rx_pipe_info), once for each time.                                      *)
RedeliveriesBounded ==
    \A n \in 1 .. written :
        Cardinality({i \in 1 .. Len(delivered) : delivered[i] = n}) <= 1 + forgets

(* A payload is reported with TX_SUCCESS, and taken from the TX FIFO, only *)
(* if it is the one that was sent and the PRX has put it into its RX FIFO. *)
SuccessMeansDelivered ==
    last_acked # <<0, 0>> =>
        /\ last_acked[1] = last_acked[2]
        /\ \E i \in 1 .. Len(delivered) : delivered[i] = last_acked[1]

(* Payloads attached to acknowledgments reach the PTX at most once and, on *)
(* a single pipe, in the order in which the PRX application queued them,   *)
(* although on_radio_disabled_tx_wait_for_ack has no duplicate test.       *)
AckPayloadsOnceInOrder ==
    \A i, j \in 1 .. Len(ptx_got) : i < j => ptx_got[i] < ptx_got[j]

(* The PRX reports TX_SUCCESS for an attached payload only when the PTX's  *)
(* radio has taken it in: the assumption of the user guide, "it is assumed *)
(* that it reaches the other device", is right up to the PTX's RX FIFO,    *)
(* which drops the payload when it is full.                                *)
AckDoneWasReceived ==
    \A a \in ack_done : \E i \in 1 .. Len(ptx_got) : ptx_got[i] = a

(* The link implements the reliable link it documents.                     *)
Reliable == INSTANCE EsbReliableLink WITH succeeded <- last_acked[1]

ImplementsReliableLink == Reliable!Spec

(* Every packet the application queues is delivered and reported, however  *)
(* often its transaction fails, as long as the air is not dead for ever.   *)
EverythingSucceeds ==
    \A n \in 1 .. MaxWrites : (written >= n) ~> (last_acked[1] >= n)
=============================================================================
