------------------------------- MODULE EsbPrx -------------------------------
(***************************************************************************)
(* The primary receiver (ESB_MODE_PRX) of subsys/esb/esb.c.                *)
(*                                                                         *)
(* The contexts are those of EsbPtx.  The payload_wrap entries in use,     *)
(* linked from ack_pl_wrap_pipe[pipe], are the sequence ack_pl[pipe] of    *)
(* payload identities; an entry is free when it is on no list.  tx_fifo is *)
(* used on this side for its `count` only.                                 *)
(***************************************************************************)
EXTENDS EsbBase, FiniteSets

CONSTANTS
    AckSize,          \* CONFIG_ESB_TX_FIFO_SIZE
    PrxRxSize,        \* CONFIG_ESB_RX_FIFO_SIZE
    PrxCalls,         \* the <<context, call>> pairs the application makes
    MaxPrxWrites,     \* bound: payloads given to esb_write_payload
    MaxForgets        \* bound: calls that clear rx_pipe_info

ASSUME PrxAssumption ==
    /\ AckSize \in Nat \ {0} /\ PrxRxSize \in Nat \ {0}
    /\ AckSize + 2 < UintMod /\ PrxRxSize + 2 < UintMod
    /\ MaxPrxWrites \in Nat /\ MaxForgets \in Nat

VARIABLES
    prx_state,     \* esb_state
    prx_rx_fifo,   \* rx_fifo, holding the identities of received payloads
    pipe_info,     \* rx_pipe_info[pipe]
    ack_pl,        \* the list ack_pl_wrap_pipe[pipe]
    ack_count,     \* tx_fifo.count
    ack_pdu,       \* tx_payload_buffer: the acknowledgment being sent
    prx_flags,     \* interrupt_flags
    prx_pending,   \* the event interrupt is pending
    prx_evt,       \* progress of esb_evt_irq_handler: "idle" or "run"
    prx_call,      \* per context, the rest of the API call under way
    \* History, read by the properties only.
    delivered,     \* packets put into the RX FIFO, in order
    ack_written,   \* number of ack payloads handed to esb_write_payload
    ack_done,      \* those of them reported with TX_SUCCESS
    forgets        \* number of times rx_pipe_info was cleared

prxQueues == <<prx_rx_fifo, ack_pl, ack_count>>
prxRadio == <<prx_state, pipe_info, ack_pdu>>
prxEvents == <<prx_flags, prx_pending, prx_evt>>
prxLogs == <<delivered, ack_written, ack_done, forgets>>
prxVars == <<prxQueues, prxRadio, prxEvents, prxLogs, prx_call>>

PrxContexts == {"thread", "evt"}
NoPrxCall == [step |-> "none"]
PrxCallType == {NoPrxCall} \cup [step : {"enqueue"}, pipe : Pipes] \cup [step : {"read", "pop"}]

BlankPipeInfo == [pid |-> 0, crc |-> 0, ack_payload |-> FALSE]

PrxInit ==
    /\ prx_state = "IDLE"
    /\ prx_rx_fifo = EmptyFifo(PrxRxSize, 0)
    /\ pipe_info = [p \in Pipes |-> BlankPipeInfo]
    /\ ack_pl = [p \in Pipes |-> <<>>]
    /\ ack_count = 0
    /\ ack_pdu = BlankAck
    /\ prx_flags = {}
    /\ prx_pending = FALSE
    /\ prx_evt = "idle"
    /\ prx_call = [c \in PrxContexts |-> NoPrxCall]
    /\ delivered = <<>>
    /\ ack_written = 0
    /\ ack_done = {}
    /\ forgets = 0

-----------------------------------------------------------------------------
(* The radio interrupt.                                                    *)

\* A plausible error: no packet is taken for a repetition.
IsRepeatNever(pdu) == FALSE

(* The test of on_radio_disabled_rx for a repetition of the last packet.   *)
IsRepeat(pdu) ==
    Crc(pdu) = pipe_info[pdu.pipe].crc /\ RxPid(pdu) = pipe_info[pdu.pipe].pid

\* Plausible errors: the last payload of the list is never retired, and a
\* payload is retired on a repetition too.
RetiresButLast(pdu) ==
    /\ ack_count > 0 /\ Len(ack_pl[pdu.pipe]) > 1
    /\ pipe_info[pdu.pipe].ack_payload /\ ~IsRepeat(pdu)

RetiresOnRepeat(pdu) ==
    ack_count > 0 /\ ack_pl[pdu.pipe] # <<>> /\ pipe_info[pdu.pipe].ack_payload

(* on_radio_disabled_rx_dpl: is the payload attached last counted as       *)
(* received, because a new packet came in on its pipe?                     *)
Retires(pdu) ==
    /\ ack_count > 0 /\ ack_pl[pdu.pipe] # <<>>
    /\ pipe_info[pdu.pipe].ack_payload /\ ~IsRepeat(pdu)

(* The pipe's list and tx_fifo.count once that has been done.              *)
ListAfter(pdu) == IF Retires(pdu) THEN Tail(ack_pl[pdu.pipe]) ELSE ack_pl[pdu.pipe]

\* A plausible error: the count is not decremented with the list.
CountAfterKept(pdu) == ack_count

CountAfter(pdu) == IF Retires(pdu) THEN ack_count - 1 ELSE ack_count

(* The payload attached to the acknowledgment: none or one.                *)
Attached(pdu) ==
    IF CountAfter(pdu) > 0 /\ ListAfter(pdu) # <<>> THEN {Head(ListAfter(pdu))} ELSE {}

(* What rx_pipe_info keeps of a packet.                                    *)
PipeInfo(pdu, b) == [pid |-> RxPid(pdu), crc |-> Crc(pdu), ack_payload |-> b]

(* on_radio_disabled_rx_dpl, and the acknowledgment it prepares.           *)
PrepareDplAck(pdu) ==
    /\ RxSendsAck(pdu) /\ Protocol = "ESB_DPL"
    /\ ack_pl' = [ack_pl EXCEPT ![pdu.pipe] = ListAfter(pdu)]
    /\ ack_count' = CountAfter(pdu)
    /\ ack_pdu' = [pipe |-> pdu.pipe, pid |-> pdu.pid, pl |-> Attached(pdu)]
    /\ ack_done' = ack_done \cup (IF Retires(pdu) THEN {Head(ack_pl[pdu.pipe])} ELSE {})
    /\ pipe_info' = [pipe_info EXCEPT ![pdu.pipe] = PipeInfo(pdu, Attached(pdu) # {})]

PrepareFixedAck(pdu) ==
    /\ RxSendsAck(pdu) /\ Protocol = "ESB"
    /\ ack_pdu' = [pipe |-> pdu.pipe, pid |-> pdu.pid, pl |-> {}]
    /\ pipe_info' = [pipe_info EXCEPT ![pdu.pipe] = PipeInfo(pdu, @.ack_payload)]
    /\ UNCHANGED <<ack_pl, ack_count, ack_done>>

NoAck(pdu) ==
    /\ ~RxSendsAck(pdu)
    /\ pipe_info' = [pipe_info EXCEPT ![pdu.pipe] = PipeInfo(pdu, @.ack_payload)]
    /\ UNCHANGED <<ack_pdu, ack_pl, ack_count, ack_done>>

(* on_radio_disabled_rx on a packet with a good CRC and with room in the   *)
(* RX FIFO (rx_fifo_push_rfbuf then succeeds).                             *)
PacketReceived(pdu) ==
    /\ prx_state = "PRX"
    /\ prx_rx_fifo.count < PrxRxSize
    /\ PrepareDplAck(pdu) \/ PrepareFixedAck(pdu) \/ NoAck(pdu)
    /\ prx_state' = IF RxSendsAck(pdu) THEN "PRX_SEND_ACK" ELSE "PRX"
    /\ IF IsRepeat(pdu)
       THEN UNCHANGED <<prx_rx_fifo, prx_flags, prx_pending, delivered>>
       ELSE /\ prx_rx_fifo' = FifoPush(prx_rx_fifo, PrxRxSize, pdu.id)
            /\ delivered' = Append(delivered, pdu.id)
            /\ prx_flags' = prx_flags \cup {"RX_RECEIVED"} \cup
                 (IF Protocol = "ESB_DPL" /\ RxSendsAck(pdu) /\ Retires(pdu)
                  THEN {"TX_SUCCESS"} ELSE {})
            /\ prx_pending' = TRUE
    /\ UNCHANGED <<prx_evt, prx_call, ack_written, forgets>>

(* The early returns of on_radio_disabled_rx: no room, and the reception   *)
(* is restarted (clear_events_restart_rx).  A bad CRC does the same.       *)
PacketRefused ==
    /\ prx_state = "PRX"
    /\ prx_rx_fifo.count >= PrxRxSize
    /\ UNCHANGED prxVars

(* The acknowledgment has been sent; back to reception.                    *)
on_radio_disabled_rx_ack ==
    /\ prx_state = "PRX_SEND_ACK"
    /\ prx_state' = "PRX"
    /\ UNCHANGED <<prxQueues, pipe_info, ack_pdu, prxEvents, prxLogs, prx_call>>

-----------------------------------------------------------------------------
(* esb_evt_irq_handler.  Nothing on this side depends on tx_attempts, so   *)
(* entering and fetching the flags is one step.                            *)
PrxEvtEnter ==
    /\ prx_pending /\ prx_evt = "idle"
    /\ prx_pending' = FALSE
    /\ prx_evt' = "run"
    /\ prx_flags' = {}
    /\ UNCHANGED <<prxQueues, prxRadio, prxLogs, prx_call>>

(* An application that makes the call "drain" follows the user guide: "The *)
(* event handler should make sure to completely empty the RX FIFO".        *)
PrxEvtReturn ==
    /\ prx_evt = "run" /\ prx_call["evt"] = NoPrxCall
    /\ <<"evt", "drain">> \in PrxCalls => prx_rx_fifo.count = 0
    /\ prx_evt' = "idle"
    /\ UNCHANGED <<prxQueues, prxRadio, prxLogs, prx_flags, prx_pending, prx_call>>

-----------------------------------------------------------------------------
(* The API.                                                                *)

PrxRuns(c) == IF c = "evt" THEN prx_evt = "run" ELSE prx_evt = "idle" /\ ~prx_pending

PrxCalling(c, op) == <<c, op>> \in PrxCalls /\ PrxRuns(c) /\ prx_call[c] = NoPrxCall

PrxResumes(c, step) == PrxRuns(c) /\ prx_call[c].step = step

(* esb_write_payload: the checks, before irq_lock().                       *)
PrxWriteCheck(c) ==
    /\ PrxCalling(c, "write")
    /\ ack_written < MaxPrxWrites
    /\ ack_count < AckSize
    /\ \E p \in Pipes : prx_call' = [prx_call EXCEPT ![c] = [step |-> "enqueue", pipe |-> p]]
    /\ UNCHANGED <<prxQueues, prxRadio, prxEvents, prxLogs>>

(* The payload_wrap entries that find_free_payload_cont finds in use.      *)
InUse == {e \in Pipes \X (1 .. AckSize) : e[2] <= Len(ack_pl[e[1]])}

(* The locked part of it.  Without a free entry nothing is queued, and the *)
(* call returns 0 all the same.                                            *)
PrxWriteEnqueue(c) ==
    /\ PrxResumes(c, "enqueue")
    /\ LET id == ack_written + 1
           pipe == prx_call[c].pipe
       IN  IF Cardinality(InUse) < AckSize
           THEN /\ ack_pl' = [ack_pl EXCEPT ![pipe] = Append(@, id)]
                /\ ack_count' = (ack_count + 1) % UintMod
           ELSE UNCHANGED <<ack_pl, ack_count>>
    /\ ack_written' = ack_written + 1
    /\ prx_call' = [prx_call EXCEPT ![c] = NoPrxCall]
    /\ UNCHANGED <<prx_rx_fifo, prxRadio, prxEvents, delivered, ack_done, forgets>>

(* esb_read_rx_payload: the test before the lock, then the locked part.    *)
PrxReadCheck(c) ==
    /\ PrxCalling(c, "read")
    /\ prx_rx_fifo.count # 0
    /\ prx_call' = [prx_call EXCEPT ![c] = [step |-> "read"]]
    /\ UNCHANGED <<prxQueues, prxRadio, prxEvents, prxLogs>>

PrxReadLocked(c) ==
    /\ PrxResumes(c, "read")
    /\ prx_rx_fifo' = FifoDrop(prx_rx_fifo, PrxRxSize)
    /\ prx_call' = [prx_call EXCEPT ![c] = NoPrxCall]
    /\ UNCHANGED <<ack_pl, ack_count, prxRadio, prxEvents, prxLogs>>

(* esb_flush_tx: the lists are dropped; pipe_info keeps ack_payload.       *)
PrxFlushTx(c) ==
    /\ PrxCalling(c, "flush_tx")
    /\ ack_pl' = [p \in Pipes |-> <<>>]
    /\ ack_count' = 0
    /\ UNCHANGED <<prx_rx_fifo, prxRadio, prxEvents, prxLogs, prx_call>>

(* esb_flush_rx also forgets the last packet of every pipe.                *)
PrxFlushRx(c) ==
    /\ PrxCalling(c, "flush_rx")
    /\ forgets < MaxForgets
    /\ prx_rx_fifo' = FifoReset(prx_rx_fifo)
    /\ pipe_info' = [p \in Pipes |-> BlankPipeInfo]
    /\ forgets' = forgets + 1
    /\ UNCHANGED <<ack_pl, ack_count, prx_state, ack_pdu, prxEvents, prx_call,
                   delivered, ack_written, ack_done>>

(* esb_pop_tx: here only the count is decremented, the lists are not.      *)
PrxPopCheck(c) ==
    /\ PrxCalling(c, "pop_tx")
    /\ ack_count # 0
    /\ prx_call' = [prx_call EXCEPT ![c] = [step |-> "pop"]]
    /\ UNCHANGED <<prxQueues, prxRadio, prxEvents, prxLogs>>

PrxPopLocked(c) ==
    /\ PrxResumes(c, "pop")
    /\ ack_count' = (ack_count - 1) % UintMod
    /\ prx_call' = [prx_call EXCEPT ![c] = NoPrxCall]
    /\ UNCHANGED <<prx_rx_fifo, ack_pl, prxRadio, prxEvents, prxLogs>>

esb_start_rx(c) ==
    /\ PrxCalling(c, "start_rx")
    /\ prx_state = "IDLE"
    /\ prx_state' = "PRX"
    /\ UNCHANGED <<prxQueues, pipe_info, ack_pdu, prxEvents, prxLogs, prx_call>>

esb_stop_rx(c) ==
    /\ PrxCalling(c, "stop_rx")
    /\ prx_state \in {"PRX", "PRX_SEND_ACK"}
    /\ prx_state' = "IDLE"
    /\ UNCHANGED <<prxQueues, pipe_info, ack_pdu, prxEvents, prxLogs, prx_call>>

(* esb_init on an initialised module, as in EsbPtx.                        *)
PrxReinit ==
    /\ PrxCalling("thread", "init")
    /\ forgets < MaxForgets
    /\ prx_state = "IDLE"
    /\ prx_flags' = {}
    /\ prx_rx_fifo' = FifoReset(prx_rx_fifo)
    /\ ack_pl' = [p \in Pipes |-> <<>>]
    /\ ack_count' = 0
    /\ pipe_info' = [p \in Pipes |-> BlankPipeInfo]
    /\ forgets' = forgets + 1
    /\ UNCHANGED <<prx_state, ack_pdu, prx_pending, prx_evt, prx_call,
                   delivered, ack_written, ack_done>>

PrxApi(c) ==
    \/ PrxWriteCheck(c) \/ PrxWriteEnqueue(c)
    \/ PrxReadCheck(c) \/ PrxReadLocked(c)
    \/ PrxFlushTx(c) \/ PrxFlushRx(c)
    \/ PrxPopCheck(c) \/ PrxPopLocked(c)
    \/ esb_start_rx(c) \/ esb_stop_rx(c)

(* Everything that does not touch the air.                                 *)
PrxLocal ==
    \/ \E c \in PrxContexts : PrxApi(c)
    \/ PrxReinit
    \/ PrxEvtEnter \/ PrxEvtReturn

-----------------------------------------------------------------------------
(* The driver's variables stay within their C types and index ranges.      *)
PrxTypeOK ==
    /\ prx_state \in {"IDLE", "PRX", "PRX_SEND_ACK"}
    /\ prx_rx_fifo \in FifoType(PrxRxSize, Nat)
    /\ pipe_info \in [Pipes -> [pid : Pids, crc : Nat, ack_payload : BOOLEAN]]
    /\ ack_pl \in [Pipes -> Seq(Nat)]
    /\ ack_count \in 0 .. UintMod - 1
    /\ ack_pdu \in AckPdu
    /\ prx_flags \in SUBSET {"TX_SUCCESS", "RX_RECEIVED"}
    /\ prx_pending \in BOOLEAN
    /\ prx_evt \in {"idle", "run"}
    /\ prx_call \in [PrxContexts -> PrxCallType]
    /\ delivered \in Seq(Nat)
    /\ ack_written \in Nat
    /\ ack_done \subseteq Nat
    /\ forgets \in Nat

(* The variables have their types, the RX ring buffer stays consistent,    *)
(* whatever the interrupts do between the unlocked test of an API call and *)
(* its locked part, and tx_fifo.count is the number of payload_wrap        *)
(* entries in use, so that the test of esb_write_payload is about the      *)
(* right thing.                                                            *)
PrxQueuesConsistent ==
    /\ PrxTypeOK
    /\ FifoConsistent(prx_rx_fifo, PrxRxSize)
    /\ ack_count = Cardinality(InUse)
=============================================================================
