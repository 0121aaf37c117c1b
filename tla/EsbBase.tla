------------------------------ MODULE EsbBase ------------------------------
(***************************************************************************)
(* Configuration, packets and FIFOs shared by the two roles of the         *)
(* Enhanced ShockBurst driver (subsys/esb/esb.c).                          *)
(*                                                                         *)
(* A payload's bytes are abstracted to an identity `id`: the n-th payload  *)
(* that an application queues on a node has identity n, and 0 is the       *)
(* content of a FIFO slot that was never written (static storage).         *)
(* Crc stands for the radio's hardware CRC over header and payload; it is  *)
(* an arbitrary function, so distinct packets may collide.                 *)
(***************************************************************************)
EXTENDS Integers, Sequences

CONSTANTS
    PipeCount,        \* CONFIG_ESB_PIPE_COUNT
    Protocol,         \* esb_cfg.protocol: "ESB_DPL" or "ESB" (fixed length)
    SelectiveAutoAck, \* esb_cfg.selective_auto_ack
    UintMod,          \* 2^32: the FIFO counters are uint32_t
    Crc(_)            \* external: the CRC the radio computes over a PDU

PID_MAX == 3

ASSUME BaseAssumption ==
    /\ PipeCount \in Nat \ {0}
    /\ Protocol \in {"ESB_DPL", "ESB"}
    /\ SelectiveAutoAck \in BOOLEAN
    /\ UintMod \in Nat \ {0}

Pipes == 0 .. PipeCount - 1
Pids == 0 .. PID_MAX

(* struct esb_payload on the PTX, and the PDU built from it. *)
Payload == [id : Nat, pipe : Pipes, noack : BOOLEAN, pid : Pids]

BlankPayload == [id |-> 0, pipe |-> 0, noack |-> FALSE, pid |-> 0]

(* An acknowledgment PDU: `pl` holds the attached payload's identity, or   *)
(* is empty for a PDU of length 0.                                         *)
AckPdu == [pipe : Pipes, pid : Pids, pl : SUBSET Nat]

BlankAck == [pipe |-> 0, pid |-> 0, pl |-> {}]

(* What the fields of struct esb_radio_dpl_pdu read as on reception.  In   *)
(* the fixed-length protocol the sender fills esb_radio_fixed_pdu, whose   *)
(* other bits are zero, and the receiver still reads the DPL view.         *)
\* A plausible error: the DPL field is read as in the fixed-length protocol.
RxPidZero(pdu) == 0

RxPid(pdu) == IF Protocol = "ESB_DPL" THEN pdu.pid ELSE 0

RxAckBit(pdu) == Protocol = "ESB_DPL" /\ ~pdu.noack

(* start_tx_transaction: does the PTX wait for an acknowledgment?          *)
TxNeedsAck(p) == Protocol = "ESB" \/ ~p.noack \/ ~SelectiveAutoAck

(* on_radio_disabled_rx: does the PRX send one?                            *)
\* A plausible error: selective_auto_ack is not looked at.
RxSendsAckByBit(pdu) == RxAckBit(pdu)

RxSendsAck(pdu) == ~SelectiveAutoAck \/ RxAckBit(pdu)

-----------------------------------------------------------------------------
(* struct payload_tx_fifo and payload_rx_fifo: ring buffers of N slots.    *)

EmptyFifo(N, blank) ==
    [payload |-> [i \in 0 .. N - 1 |-> blank], front |-> 0, back |-> 0, count |-> 0]

\* A plausible error: the index is not wrapped.
AdvanceUnwrapped(i, N) == i + 1

Advance(i, N) == IF i + 1 >= N THEN 0 ELSE i + 1

FifoPush(f, N, p) ==
    [payload |-> [f.payload EXCEPT ![f.back] = p],
     front |-> f.front, back |-> Advance(f.back, N), count |-> (f.count + 1) % UintMod]

(* The slot at `front` is given up; an unchecked decrement wraps.          *)
FifoDrop(f, N) ==
    [payload |-> f.payload,
     front |-> Advance(f.front, N), back |-> f.back, count |-> (f.count - 1) % UintMod]

FifoReset(f) == [payload |-> f.payload, front |-> 0, back |-> 0, count |-> 0]

(* esb_pop_tx: `back` is moved on, as if a payload had been added.         *)
FifoPopBack(f, N) ==
    [payload |-> f.payload,
     front |-> f.front, back |-> Advance(f.back, N), count |-> (f.count - 1) % UintMod]

(* The slot of the i-th payload in the queue, and that payload.            *)
FifoSlot(f, N, i) == IF f.front + i < N THEN f.front + i ELSE f.front + i - N

FifoAt(f, N, i) == f.payload[FifoSlot(f, N, i)]

FifoType(N, S) ==
    [payload : [0 .. N - 1 -> S], front : 0 .. N - 1, back : 0 .. N - 1, count : 0 .. UintMod - 1]

(* The ring is consistent: `back` is `count` slots past `front`.           *)
FifoConsistent(f, N) ==
    /\ f.count <= N
    /\ f.back = FifoSlot(f, N, f.count)
=============================================================================
