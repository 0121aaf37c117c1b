------------------------------- MODULE EsbPtx -------------------------------
(***************************************************************************)
(* The primary transmitter (ESB_MODE_PTX) of subsys/esb/esb.c.             *)
(*                                                                         *)
(* Three execution contexts share the driver's state, in falling priority: *)
(*   - the radio interrupt (radio_irq_handler and the on_radio_disabled_*  *)
(*     callbacks), each run of which is one action;                        *)
(*   - the event interrupt ("evt": esb_evt_irq_handler and the             *)
(*     application's event handler, which may call the API);               *)
(*   - the application's thread ("thread").                                *)
(* The API functions check before they take irq_lock() and act under it,   *)
(* so such a call is several actions: `ptx_call[c]` is what context c has  *)
(* still to do.  A lower context runs only while no higher one is ready.   *)
(***************************************************************************)
EXTENDS EsbBase

CONSTANTS
    TxSize,           \* CONFIG_ESB_TX_FIFO_SIZE
    PtxRxSize,        \* CONFIG_ESB_RX_FIFO_SIZE
    TxMode,           \* esb_cfg.tx_mode
    NeverDisableTx,   \* CONFIG_ESB_NEVER_DISABLE_TX
    RetransmitCounts, \* the values the application configures
    NoackChoices,     \* the values it gives esb_payload.noack
    PtxCalls,         \* the <<context, call>> pairs the application makes
    MaxWrites,        \* bound: payloads accepted by esb_write_payload
    MaxAckWrites      \* bound: payloads that come with acknowledgments

ASSUME PtxAssumption ==
    /\ TxSize \in Nat \ {0} /\ PtxRxSize \in Nat \ {0}
    /\ TxSize + 2 < UintMod /\ PtxRxSize + 2 < UintMod
    /\ TxMode \in {"AUTO", "MANUAL", "MANUAL_START"}
    /\ NeverDisableTx \in BOOLEAN
    /\ RetransmitCounts \subseteq 0 .. UintMod - 1 /\ RetransmitCounts # {}
    /\ NoackChoices \subseteq BOOLEAN
    /\ MaxWrites \in Nat /\ MaxAckWrites \in Nat

Contexts == {"thread", "evt"}
PtxStates == {"IDLE", "PTX_TX", "PTX_TX_ACK", "PTX_RX_ACK", "PTX_TXIDLE"}
AtRest == {"IDLE", "PTX_TXIDLE"}
Flags == {"TX_SUCCESS", "TX_FAILED", "RX_RECEIVED"}

VARIABLES
    ptx_state,              \* esb_state
    tx_fifo,                \* tx_fifo
    ptx_rx_fifo,            \* rx_fifo: payloads that came with acknowledgments
    pids,                   \* pids[pipe]
    tx_pdu,                 \* tx_payload_buffer: the PDU on the air or repeated
    retransmit_count,       \* esb_cfg.retransmit_count
    retransmits_remaining,
    last_tx_attempts,
    ptx_flags,              \* interrupt_flags
    ptx_pending,            \* the event interrupt is pending
    ptx_evt,                \* progress of esb_evt_irq_handler; `rests` is history:
                            \* no transaction was under way when it began
    ptx_call,               \* per context, the rest of the API call under way
    \* History, read by the properties only.
    written,                \* number of payloads queued so far
    sends,                  \* transmissions of the packet of this transaction
    tries,                  \* transmissions of the transaction that ended last
    gave_up,                \* the last transaction ended in TX_FAILED
    last_acked,             \* last <<payload removed, packet acknowledged>>
    ptx_got                 \* the ack payloads received, in order

ptxQueues == <<tx_fifo, ptx_rx_fifo, pids>>
ptxRadio == <<ptx_state, tx_pdu, retransmits_remaining, last_tx_attempts, sends, gave_up>>
ptxEvents == <<ptx_flags, ptx_pending, ptx_evt>>
ptxLogs == <<written, tries, last_acked, ptx_got>>
ptxVars == <<ptxQueues, ptxRadio, ptxEvents, ptxLogs, retransmit_count, ptx_call>>

NoCall == [step |-> "none"]
WriteCall == [step : {"enqueue"}, pipe : Pipes, noack : BOOLEAN]
PtxCallType == {NoCall} \cup WriteCall \cup [step : {"start", "pop", "read"}]

EvtIdle == [pc |-> "idle", attempts |-> 0, events |-> {}, rests |-> TRUE]

PtxInit ==
    /\ ptx_state = "IDLE"
    /\ tx_fifo = EmptyFifo(TxSize, BlankPayload)
    /\ ptx_rx_fifo = EmptyFifo(PtxRxSize, 0)
    /\ pids = [p \in Pipes |-> 0]
    /\ tx_pdu = BlankPayload
    /\ retransmit_count \in RetransmitCounts
    /\ retransmits_remaining = 0
    /\ last_tx_attempts = 0
    /\ ptx_flags = {}
    /\ ptx_pending = FALSE
    /\ ptx_evt = EvtIdle
    /\ ptx_call = [c \in Contexts |-> NoCall]
    /\ written = 0
    /\ sends = 0
    /\ tries = 0
    /\ gave_up = FALSE
    /\ last_acked = <<0, 0>>
    /\ ptx_got = <<>>

-----------------------------------------------------------------------------
(* start_tx_transaction on the FIFO f, from the thread or the radio ISR.   *)
\* A plausible error: the retransmission counter is not reloaded.
StartTxNoReload(f) ==
    /\ last_tx_attempts' = 1
    /\ tx_pdu' = f.payload[f.front]
    /\ ptx_state' = IF TxNeedsAck(f.payload[f.front]) THEN "PTX_TX_ACK" ELSE "PTX_TX"
    /\ sends' = 1
    /\ gave_up' = FALSE
    /\ UNCHANGED retransmits_remaining

StartTx(f) ==
    LET p == f.payload[f.front]
        ack == TxNeedsAck(p)
    IN  /\ last_tx_attempts' = 1
        /\ tx_pdu' = p
        /\ retransmits_remaining' = IF ack THEN retransmit_count ELSE retransmits_remaining
        /\ ptx_state' = IF ack THEN "PTX_TX_ACK" ELSE "PTX_TX"
        /\ sends' = 1
        /\ gave_up' = FALSE

(* tx_fifo_remove_last *)
RemoveLast == IF tx_fifo.count = 0 THEN tx_fifo ELSE FifoDrop(tx_fifo, TxSize)

(* The tail the two no-acknowledgment completions share: report success,   *)
(* give up the front payload, go on with the next one or to state `rest`.  *)
FinishNoack(rest) ==
    /\ ptx_flags' = ptx_flags \cup {"TX_SUCCESS"}
    /\ ptx_pending' = TRUE
    /\ tx_fifo' = RemoveLast
    /\ tries' = sends
    /\ IF RemoveLast.count = 0
       THEN /\ ptx_state' = rest
            /\ UNCHANGED <<tx_pdu, retransmits_remaining, last_tx_attempts, sends, gave_up>>
       ELSE StartTx(RemoveLast)
    /\ UNCHANGED <<ptx_rx_fifo, pids, ptx_evt, ptx_call, written, last_acked, ptx_got,
                   retransmit_count>>

(* The end of a packet that asks for no acknowledgment.  With              *)
(* CONFIG_ESB_NEVER_DISABLE_TX this is on_radio_end_tx_noack, in the timer *)
(* interrupt, which has the event interrupt's priority.                    *)
on_radio_disabled_tx_noack ==
    /\ ptx_state = "PTX_TX"
    /\ NeverDisableTx => ptx_evt.pc = "idle"
    /\ FinishNoack(IF NeverDisableTx THEN "PTX_TXIDLE" ELSE "IDLE")

(* The packet has been sent; the radio turns to reception.                 *)
on_radio_disabled_tx ==
    /\ ptx_state = "PTX_TX_ACK"
    /\ ptx_state' = "PTX_RX_ACK"
    /\ UNCHANGED <<ptxQueues, ptxEvents, ptxLogs, retransmit_count, ptx_call,
                   tx_pdu, retransmits_remaining, last_tx_attempts, sends, gave_up>>

(* rx_fifo_push_rfbuf for the payload, if any, of an ack.                  *)
PtxReceive(pl) ==
    LET room == ptx_rx_fifo.count < PtxRxSize IN
    IF pl = {} \/ Protocol = "ESB"
    THEN /\ ptx_flags' = ptx_flags \cup {"TX_SUCCESS"}
         /\ UNCHANGED <<ptx_rx_fifo, ptx_got>>
    ELSE \E a \in pl :
         /\ ptx_flags' = ptx_flags \cup {"TX_SUCCESS"} \cup (IF room THEN {"RX_RECEIVED"} ELSE {})
         /\ ptx_rx_fifo' = IF room THEN FifoPush(ptx_rx_fifo, PtxRxSize, a) ELSE ptx_rx_fifo
         /\ ptx_got' = Append(ptx_got, a)

(* on_radio_disabled_tx_wait_for_ack, an ack with a good CRC came in.      *)
AckReceived(ack) ==
    /\ ptx_state = "PTX_RX_ACK"
    /\ ptx_pending' = TRUE
    /\ tx_fifo' = RemoveLast
    /\ last_acked' = <<IF tx_fifo.count = 0 THEN 0 ELSE tx_fifo.payload[tx_fifo.front].id, tx_pdu.id>>
    /\ tries' = sends
    /\ PtxReceive(ack.pl)
    /\ IF RemoveLast.count = 0 \/ TxMode = "MANUAL"
       THEN /\ ptx_state' = "IDLE"
            /\ last_tx_attempts' = retransmit_count - retransmits_remaining + 1
            /\ UNCHANGED <<tx_pdu, retransmits_remaining, sends, gave_up>>
       ELSE StartTx(RemoveLast)
    /\ UNCHANGED <<pids, ptx_evt, ptx_call, written, retransmit_count>>

(* The same callback when the window closed without a good ack.            *)
\* A plausible error: the failure is flagged, the event interrupt not pended.
AckMissedSilent ==
    /\ ptx_state = "PTX_RX_ACK"
    /\ retransmits_remaining' = (retransmits_remaining - 1) % UintMod
    /\ ptx_state' = IF retransmits_remaining = 0 THEN "IDLE" ELSE "PTX_TX_ACK"
    /\ ptx_flags' = ptx_flags \cup (IF retransmits_remaining = 0 THEN {"TX_FAILED"} ELSE {})
    /\ UNCHANGED <<ptxQueues, ptx_evt, ptxLogs, retransmit_count, ptx_call, tx_pdu,
                   sends, last_tx_attempts, ptx_pending, gave_up>>

AckMissed ==
    /\ ptx_state = "PTX_RX_ACK"
    /\ retransmits_remaining' = (retransmits_remaining - 1) % UintMod
    /\ IF retransmits_remaining = 0
       THEN /\ ptx_state' = "IDLE"
            /\ last_tx_attempts' = retransmit_count + 1
            /\ ptx_flags' = ptx_flags \cup {"TX_FAILED"}
            /\ ptx_pending' = TRUE
            /\ gave_up' = TRUE
            /\ tries' = sends
            /\ UNCHANGED sends
       ELSE /\ ptx_state' = "PTX_TX_ACK"
            /\ sends' = sends + 1
            /\ UNCHANGED <<last_tx_attempts, ptx_flags, ptx_pending, gave_up, tries>>
    /\ UNCHANGED <<ptxQueues, ptx_evt, written, last_acked, ptx_got, retransmit_count,
                   ptx_call, tx_pdu>>

-----------------------------------------------------------------------------
(* esb_evt_irq_handler: it reads last_tx_attempts, then fetches and clears *)
(* the flags under a lock, then calls the application's handler.           *)
PtxEvtEnter ==
    /\ ptx_pending /\ ptx_evt.pc = "idle"
    /\ ptx_pending' = FALSE
    /\ ptx_evt' = [pc |-> "read", attempts |-> last_tx_attempts, events |-> {},
                   rests |-> ptx_state \in AtRest]
    /\ UNCHANGED <<ptxQueues, ptxRadio, ptxLogs, ptx_flags, retransmit_count, ptx_call>>

PtxEvtFetch ==
    /\ ptx_evt.pc = "read"
    /\ ptx_evt' = [ptx_evt EXCEPT !.pc = "run", !.events = ptx_flags]
    /\ ptx_flags' = {}
    /\ UNCHANGED <<ptxQueues, ptxRadio, ptxLogs, ptx_pending, retransmit_count, ptx_call>>

\* A plausible error: the interrupt is acknowledged when the handler returns.
PtxEvtReturnClears ==
    /\ ptx_evt.pc = "run" /\ ptx_call["evt"] = NoCall
    /\ ptx_evt' = EvtIdle
    /\ ptx_pending' = FALSE
    /\ UNCHANGED <<ptxQueues, ptxRadio, ptxLogs, ptx_flags, retransmit_count, ptx_call>>

PtxEvtReturn ==
    /\ ptx_evt.pc = "run" /\ ptx_call["evt"] = NoCall
    /\ ptx_evt' = EvtIdle
    /\ UNCHANGED <<ptxQueues, ptxRadio, ptxLogs, ptx_flags, ptx_pending, retransmit_count, ptx_call>>

-----------------------------------------------------------------------------
(* The API.                                                                *)

PtxRuns(c) ==
    IF c = "evt" THEN ptx_evt.pc = "run" ELSE ptx_evt.pc = "idle" /\ ~ptx_pending

PtxCalling(c, op) ==
    <<c, op>> \in PtxCalls /\ PtxRuns(c) /\ ptx_call[c] = NoCall

PtxResumes(c, step) == PtxRuns(c) /\ ptx_call[c].step = step

\* A plausible error: the FIFO is not tested for being full.
PtxWriteCheckUnbounded(c) ==
    /\ PtxCalling(c, "write") /\ written < MaxWrites
    /\ \E p \in Pipes, n \in NoackChoices :
         ptx_call' = [ptx_call EXCEPT ![c] = [step |-> "enqueue", pipe |-> p, noack |-> n]]
    /\ UNCHANGED <<ptxQueues, ptxRadio, ptxEvents, ptxLogs, retransmit_count>>

(* esb_write_payload: the checks, before irq_lock().  An application that  *)
(* makes the call "write_idle" tests esb_is_idle() first, as               *)
(* samples/esb/esb_ptx does by waiting for the event of the last packet.   *)
PtxWriteCheck(c) ==
    /\ PtxCalling(c, "write") \/ (PtxCalling(c, "write_idle") /\ ptx_state = "IDLE")
    /\ written < MaxWrites
    /\ tx_fifo.count < TxSize
    /\ \E p \in Pipes, n \in NoackChoices :
         ptx_call' = [ptx_call EXCEPT ![c] = [step |-> "enqueue", pipe |-> p, noack |-> n]]
    /\ UNCHANGED <<ptxQueues, ptxRadio, ptxEvents, ptxLogs, retransmit_count>>

\* A plausible error: the packet ID does not advance.
NextPidStuck(pipe) == pids[pipe]

NextPid(pipe) == (pids[pipe] + 1) % (PID_MAX + 1)

(* The locked part of it.                                                  *)
PtxWriteEnqueue(c) ==
    /\ PtxResumes(c, "enqueue")
    /\ LET w == ptx_call[c]
           p == [id |-> written + 1, pipe |-> w.pipe, noack |-> w.noack, pid |-> NextPid(w.pipe)]
       IN  /\ tx_fifo' = FifoPush(tx_fifo, TxSize, p)
           /\ pids' = [pids EXCEPT ![w.pipe] = NextPid(w.pipe)]
    /\ written' = written + 1
    /\ ptx_call' = [ptx_call EXCEPT ![c] = [step |-> "start"]]
    /\ UNCHANGED <<ptx_rx_fifo, ptxRadio, ptxEvents, tries, last_acked, ptx_got, retransmit_count>>

\* A plausible error: the transmission is not started.
PtxWriteStartNot(c) ==
    /\ PtxResumes(c, "start")
    /\ ptx_call' = [ptx_call EXCEPT ![c] = NoCall]
    /\ UNCHANGED <<ptxQueues, ptxRadio, ptxEvents, ptxLogs, retransmit_count>>

(* The automatic start after irq_unlock().  No interrupt can come between  *)
(* the test and the start: in the states tested the radio is at rest.      *)
PtxWriteStart(c) ==
    /\ PtxResumes(c, "start")
    /\ ptx_call' = [ptx_call EXCEPT ![c] = NoCall]
    /\ IF TxMode = "AUTO" /\ (ptx_state = "IDLE" \/ (NeverDisableTx /\ ptx_state = "PTX_TXIDLE"))
       THEN StartTx(tx_fifo)
       ELSE UNCHANGED ptxRadio
    /\ UNCHANGED <<ptxQueues, ptxEvents, ptxLogs, retransmit_count>>

\* A plausible error: an empty FIFO is not refused.
esb_start_tx_unchecked(c) ==
    /\ PtxCalling(c, "start_tx")
    /\ ptx_state = "IDLE"
    /\ StartTx(tx_fifo)
    /\ UNCHANGED <<ptxQueues, ptxEvents, ptxLogs, retransmit_count, ptx_call>>

esb_start_tx(c) ==
    /\ PtxCalling(c, "start_tx")
    /\ ptx_state = "IDLE"
    /\ tx_fifo.count # 0
    /\ StartTx(tx_fifo)
    /\ UNCHANGED <<ptxQueues, ptxEvents, ptxLogs, retransmit_count, ptx_call>>

(* esb_read_rx_payload: the test before the lock, then the locked part.    *)
PtxReadCheck(c) ==
    /\ PtxCalling(c, "read")
    /\ ptx_rx_fifo.count # 0
    /\ ptx_call' = [ptx_call EXCEPT ![c] = [step |-> "read"]]
    /\ UNCHANGED <<ptxQueues, ptxRadio, ptxEvents, ptxLogs, retransmit_count>>

PtxReadLocked(c) ==
    /\ PtxResumes(c, "read")
    /\ ptx_rx_fifo' = FifoDrop(ptx_rx_fifo, PtxRxSize)
    /\ ptx_call' = [ptx_call EXCEPT ![c] = NoCall]
    /\ UNCHANGED <<tx_fifo, pids, ptxRadio, ptxEvents, ptxLogs, retransmit_count>>

(* esb_flush_tx: the transaction under way goes on.                        *)
PtxFlushTx(c) ==
    /\ PtxCalling(c, "flush_tx")
    /\ tx_fifo' = FifoReset(tx_fifo)
    /\ UNCHANGED <<ptx_rx_fifo, pids, ptxRadio, ptxEvents, ptxLogs, retransmit_count, ptx_call>>

PtxFlushRx(c) ==
    /\ PtxCalling(c, "flush_rx")
    /\ ptx_rx_fifo' = FifoReset(ptx_rx_fifo)
    /\ UNCHANGED <<tx_fifo, pids, ptxRadio, ptxEvents, ptxLogs, retransmit_count, ptx_call>>

(* esb_pop_tx: the test before the lock, then the locked part, which moves *)
(* `back`, not `front`.                                                    *)
PtxPopCheck(c) ==
    /\ PtxCalling(c, "pop_tx")
    /\ tx_fifo.count # 0
    /\ ptx_call' = [ptx_call EXCEPT ![c] = [step |-> "pop"]]
    /\ UNCHANGED <<ptxQueues, ptxRadio, ptxEvents, ptxLogs, retransmit_count>>

PtxPopLocked(c) ==
    /\ PtxResumes(c, "pop")
    /\ tx_fifo' = FifoPopBack(tx_fifo, TxSize)
    /\ ptx_call' = [ptx_call EXCEPT ![c] = NoCall]
    /\ UNCHANGED <<ptx_rx_fifo, pids, ptxRadio, ptxEvents, ptxLogs, retransmit_count>>

esb_reuse_pid(c) ==
    /\ PtxCalling(c, "reuse_pid")
    /\ ptx_state = "IDLE"
    /\ \E p \in Pipes : pids' = [pids EXCEPT ![p] = (@ + PID_MAX) % (PID_MAX + 1)]
    /\ UNCHANGED <<tx_fifo, ptx_rx_fifo, ptxRadio, ptxEvents, ptxLogs, retransmit_count, ptx_call>>

esb_set_retransmit_count(c) ==
    /\ PtxCalling(c, "set_count")
    /\ ptx_state = "IDLE"
    /\ retransmit_count' \in RetransmitCounts
    /\ UNCHANGED <<ptxQueues, ptxRadio, ptxEvents, ptxLogs, ptx_call>>

(* esb_init on an initialised module, which calls esb_disable first.  The  *)
(* application does so from its thread when esb_is_idle().                 *)
PtxReinit ==
    /\ PtxCalling("thread", "init")
    /\ ptx_state = "IDLE"
    /\ retransmit_count' \in RetransmitCounts
    /\ ptx_flags' = {}
    /\ pids' = [p \in Pipes |-> 0]
    /\ tx_fifo' = FifoReset(tx_fifo)
    /\ ptx_rx_fifo' = FifoReset(ptx_rx_fifo)
    /\ UNCHANGED <<ptxRadio, ptx_pending, ptx_evt, ptxLogs, ptx_call>>

PtxApi(c) ==
    \/ PtxWriteCheck(c) \/ PtxWriteEnqueue(c) \/ PtxWriteStart(c)
    \/ esb_start_tx(c)
    \/ PtxReadCheck(c) \/ PtxReadLocked(c)
    \/ PtxFlushTx(c) \/ PtxFlushRx(c)
    \/ PtxPopCheck(c) \/ PtxPopLocked(c)
    \/ esb_reuse_pid(c) \/ esb_set_retransmit_count(c)

(* Everything that does not touch the air.                                 *)
PtxLocal ==
    \/ \E c \in Contexts : PtxApi(c)
    \/ PtxReinit
    \/ PtxEvtEnter \/ PtxEvtFetch \/ PtxEvtReturn

(***************************************************************************)
(* The node by itself: the air may answer any transmission or none, with   *)
(* or without an attached payload.                                         *)
(***************************************************************************)
AnyAck ==
    \E n \in 0 .. MaxAckWrites :
        /\ n = 0 \/ n = Len(ptx_got) + 1
        /\ AckReceived([pipe |-> tx_pdu.pipe, pid |-> tx_pdu.pid,
                        pl |-> IF n = 0 THEN {} ELSE {n}])

PtxRadioStep ==
    \/ on_radio_disabled_tx_noack \/ on_radio_disabled_tx
    \/ AnyAck \/ AckMissed

PtxNext == PtxLocal \/ PtxRadioStep

PtxSpec == PtxInit /\ [][PtxNext]_ptxVars

(* Interrupts are served, and an API call that has started goes on: the    *)
(* radio and its timer always raise the next interrupt.                    *)
PtxFairness ==
    /\ WF_ptxVars(PtxRadioStep)
    /\ WF_ptxVars(PtxEvtEnter) /\ WF_ptxVars(PtxEvtFetch) /\ WF_ptxVars(PtxEvtReturn)
    /\ \A c \in Contexts :
         WF_ptxVars(PtxWriteEnqueue(c) \/ PtxWriteStart(c) \/ PtxReadLocked(c) \/ PtxPopLocked(c))

PtxFairSpec == PtxSpec /\ PtxFairness

-----------------------------------------------------------------------------
(* The driver's variables stay within their C types and index ranges.      *)
PtxTypeOK ==
    /\ ptx_state \in PtxStates
    /\ tx_fifo \in FifoType(TxSize, Payload)
    /\ ptx_rx_fifo \in FifoType(PtxRxSize, Nat)
    /\ pids \in [Pipes -> Pids]
    /\ tx_pdu \in Payload
    /\ retransmit_count \in RetransmitCounts
    /\ retransmits_remaining \in 0 .. UintMod - 1
    /\ last_tx_attempts \in Int
    /\ ptx_flags \in SUBSET Flags
    /\ ptx_pending \in BOOLEAN
    /\ ptx_evt \in [pc : {"idle", "read", "run"}, attempts : Int, events : SUBSET Flags,
                   rests : BOOLEAN]
    /\ ptx_call \in [Contexts -> PtxCallType]
    /\ written \in Nat
    /\ sends \in Nat
    /\ tries \in Nat
    /\ gave_up \in BOOLEAN
    /\ last_acked \in Nat \X Nat
    /\ ptx_got \in Seq(Nat)

(* Both ring buffers stay consistent, whatever the interrupts do between   *)
(* the unlocked test of an API call and its locked part.                   *)
PtxFifosConsistent ==
    /\ FifoConsistent(tx_fifo, TxSize)
    /\ FifoConsistent(ptx_rx_fifo, PtxRxSize)

(* No event is lost: a flag that is set has the event interrupt pending,   *)
(* or the handler is about to fetch it.                                    *)
PtxFlagsNotLost == ptx_flags # {} => ptx_pending \/ ptx_evt.pc = "read"

(* The tx_attempts of an event: if the radio is at rest when the handler   *)
(* reads last_tx_attempts, it is the number of transmissions of the        *)
(* transaction that ended last, however many there were and whatever       *)
(* esb_set_retransmit_count did in between; if the radio has gone on to    *)
(* another transaction, it is the 1 that start_tx_transaction put there.   *)
AttemptsExact ==
    ptx_evt.pc = "read" => ptx_evt.attempts = IF ptx_evt.rests THEN tries ELSE 1

(* In automatic mode a queued payload is not left behind: if the node is   *)
(* at rest with payloads queued, the writer is about to start it or the    *)
(* last transaction failed ("TX operation is suspended").                  *)
AutoModeDrains ==
    (TxMode = "AUTO" /\ ptx_state \in {"IDLE", "PTX_TXIDLE"} /\ tx_fifo.count > 0) =>
        gave_up \/ \E c \in Contexts : ptx_call[c].step = "start"

(* The radio sends what is queued: in a transaction the PDU on the air is  *)
(* the one at the front of the TX FIFO ("When the TX FIFO contains packets *)
(* and the radio is idle, packets are sent automatically").                *)
SendsQueuedPayload ==
    ptx_state \in {"PTX_TX", "PTX_TX_ACK", "PTX_RX_ACK"} =>
        tx_fifo.count > 0 /\ tx_pdu = tx_fifo.payload[tx_fifo.front]

(* Every transaction that waits for an acknowledgment ends, and its end    *)
(* reaches the application's event handler.                                *)
TransactionsReported ==
    (ptx_state \in {"PTX_TX_ACK", "PTX_RX_ACK"}) ~>
        (ptx_evt.pc = "run" /\ ptx_evt.events \cap {"TX_SUCCESS", "TX_FAILED"} # {})
=============================================================================
