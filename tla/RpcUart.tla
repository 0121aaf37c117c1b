------------------------------ MODULE RpcUart ------------------------------
(***************************************************************************)
(* The nRF RPC transport over UART with CONFIG_NRF_RPC_UART_RELIABLE:      *)
(* subsys/nrf_rpc/nrf_rpc_uart.c on two nodes joined by a line.  On each   *)
(* node a thread that sends and a work queue that decodes what the UART    *)
(* interrupt has put into a ring buffer run concurrently; both write to    *)
(* the line.                                                               *)
(*                                                                         *)
(* What goes over the line are delimiters, packets (a packet is its number *)
(* in the order of sending) and checksum fields, the escaped bytes of each *)
(* as one token.  Any token may be damaged, or lost on the line or before  *)
(* a full ring buffer.  Two packets may well have the same checksum, and a *)
(* damaged field may be another packet's: the sequence bit, which the      *)
(* comparison leaves out, and acknowledgments have no checksum of their    *)
(* own.  All other damage is told by the checksum.                         *)
(* A frame is written in two parts, so that another could get between.     *)
(***************************************************************************)
EXTENDS Naturals, Sequences, FiniteSets

CONSTANTS
    Nodes,          \* the two ends of the line
    Crc(_, _),      \* the low 15 bits of the checksum of a node's packet
    TxAttempts,     \* CONFIG_NRF_RPC_UART_TX_ATTEMPTS
    MaxSends,       \* bound: packets sent by each node
    MaxLost,        \* bound: tokens lost or damaged on the line
    MaxLate,        \* bound: waits of CONFIG_NRF_RPC_UART_ACK_WAITING_TIME that
                    \* end while an acknowledgment may still be under way
    MaxRestarts     \* bound: restarts of nodes

ASSUME RpcUartAssumption ==
    /\ \E a, b \in Nodes : a # b /\ Nodes = {a, b}
    /\ \A n \in Nodes : \A p \in 1 .. MaxSends[n] : Crc(n, p) \in Nat
    /\ TxAttempts \in Nat \ {0}
    /\ MaxSends \in [Nodes -> Nat] /\ MaxLost \in Nat
    /\ MaxLate \in Nat /\ MaxRestarts \in Nat

VARIABLES
    send,           \* the call of send() in progress: where it is, attempts
    tx_flip,        \* flips.tx_flip
    ack_payload, ack_sem,
    ack_tx_lock,    \* who holds it: "none", "send", "work"
    work,           \* where work_handler is
    ring,           \* what came over the line and is not decoded: rx_ringbuf,
                    \* and rx_packet as far as it is not a whole frame
    rx_packet,      \* the frame that is being handled
    last_rx_crc, rx_flip_any,
    \* History.
    fields,         \* per node and packet sent: its checksum field
    results,        \* per node: how each send() ended
    delivered,      \* per node: its packets that reached the other node's core
    lost,           \* tokens lost or damaged,
    altered,        \* and of these checksum fields that became others
    late, restarts

sendVars == <<send, tx_flip, ack_payload>>
rxVars == <<rx_packet, last_rx_crc, rx_flip_any>>
rpcVars == <<sendVars, ack_sem, ack_tx_lock, work, ring, rxVars, fields, results,
             delivered, lost, altered, late, restarts>>

Peer(n) == CHOOSE m \in Nodes : m # n

-----------------------------------------------------------------------------
(* Tokens of the line.                                                     *)
Token(kind, val) == [kind |-> kind, val |-> val]
Delimiter == Token("DELIMITER", 0)
Packet(p) == Token("PACKET", p)
Checksum(f) == Token("CHECKSUM", f)
Damaged == Token("DAMAGED", 0)

\* A checksum field: 15 bits of the checksum and the sequence bit.
Field(crc, flip) == 2 * crc + flip
CrcOf(field) == field \div 2
AnyField ==
    UNION {{Field(Crc(n, p), flip) : p \in 1 .. MaxSends[n], flip \in {0, 1}} : n \in Nodes}

\* A plausible error: a repeated packet is not acknowledged.
FrameNew(n, frame) ==
    /\ Len(frame) = 2
    /\ frame[1].kind = "PACKET" /\ frame[2].kind = "CHECKSUM"
    /\ CrcOf(frame[2].val) = Crc(Peer(n), frame[1].val)
    /\ rx_flip_any[n] \/ last_rx_crc[n] # frame[2].val
\* crc_compare.
FrameValid(n, frame) ==
    /\ Len(frame) = 2
    /\ frame[1].kind = "PACKET" /\ frame[2].kind = "CHECKSUM"
    /\ CrcOf(frame[2].val) = Crc(Peer(n), frame[1].val)

RpcInit ==
    /\ send = [n \in Nodes |-> [pc |-> "idle", attempts |-> 0]]
    /\ tx_flip = [n \in Nodes |-> 0]
    /\ ack_payload = [n \in Nodes |-> 0]
    /\ ack_sem = [n \in Nodes |-> 0]
    /\ ack_tx_lock = [n \in Nodes |-> "none"]
    /\ work = [n \in Nodes |-> "decode"]
    /\ ring = [n \in Nodes |-> <<>>]
    /\ rx_packet = [n \in Nodes |-> <<>>]
    /\ last_rx_crc = [n \in Nodes |-> 0]
    /\ rx_flip_any = [n \in Nodes |-> TRUE]
    /\ fields = [n \in Nodes |-> <<>>]
    /\ results = [n \in Nodes |-> <<>>]
    /\ delivered = [n \in Nodes |-> <<>>]
    /\ lost = 0 /\ altered = 0 /\ late = 0
    /\ restarts = [n \in Nodes |-> 0]

-----------------------------------------------------------------------------
\* uart_poll_out of some tokens, and serial_cb on the other node.
Without(ts, i) == SubSeq(ts, 1, i - 1) \o SubSeq(ts, i + 1, Len(ts))
Emit(n, ts) ==
    \/ /\ ring' = [ring EXCEPT ![Peer(n)] = @ \o ts]
       /\ UNCHANGED <<lost, altered>>
    \/ /\ lost < MaxLost
       /\ lost' = lost + 1
       /\ \E i \in DOMAIN ts : \E us \in {Without(ts, i), [ts EXCEPT ![i] = Damaged]} :
            ring' = [ring EXCEPT ![Peer(n)] = @ \o us]
       /\ UNCHANGED altered
    \/ /\ lost < MaxLost
       /\ lost' = lost + 1
       /\ \E i \in DOMAIN ts : \E f \in AnyField :
            /\ ts[i].kind = "CHECKSUM" /\ ts[i].val # f
            /\ ring' = [ring EXCEPT ![Peer(n)] = @ \o [ts EXCEPT ![i] = Checksum(f)]]
       /\ altered' = altered + 1

-----------------------------------------------------------------------------
(* send(), under tx_lock: one packet at a time.                            *)
SendAt(n, pc) == send[n].pc = pc
SendGoto(n, pc) == send' = [send EXCEPT ![n].pc = pc]

\* tx_flip(): the sequence bit of the packet, and that of the next one.
TxFlip(n) == tx_flip' = [tx_flip EXCEPT ![n] = 1 - @]

SendBegins(n) ==
    /\ SendAt(n, "idle") /\ Len(fields[n]) < MaxSends[n]
    /\ LET crc_val == Field(Crc(n, Len(fields[n]) + 1), tx_flip[n])
       IN  /\ ack_payload' = [ack_payload EXCEPT ![n] = crc_val]
           /\ fields' = [fields EXCEPT ![n] = Append(@, crc_val)]
    /\ TxFlip(n)
    /\ send' = [send EXCEPT ![n] = [pc |-> "attempt", attempts |-> 0]]
    /\ UNCHANGED <<ack_sem, ack_tx_lock, work, ring, rxVars, results, delivered,
                   lost, altered, late, restarts>>

\* An attempt: under ack_tx_lock the semaphore is reset and the frame sent.
SendAttempt(n) ==
    /\ SendAt(n, "attempt") /\ ack_tx_lock[n] = "none"
    /\ ack_tx_lock' = [ack_tx_lock EXCEPT ![n] = "send"]
    /\ send' = [send EXCEPT ![n] = [pc |-> "close", attempts |-> @.attempts + 1]]
    /\ ack_sem' = [ack_sem EXCEPT ![n] = 0]
    /\ Emit(n, <<Delimiter, Packet(Len(fields[n]))>>)
    /\ UNCHANGED <<tx_flip, ack_payload, work, rxVars, fields, results, delivered,
                   late, restarts>>

SendClose(n) ==
    /\ SendAt(n, "close")
    /\ SendGoto(n, "wait")
    /\ ack_tx_lock' = [ack_tx_lock EXCEPT ![n] = "none"]
    /\ Emit(n, <<Checksum(ack_payload[n]), Delimiter>>)
    /\ UNCHANGED <<tx_flip, ack_payload, ack_sem, work, rxVars, fields, results,
                   delivered, late, restarts>>

\* send() returns, 0 or -EPROTO.
SendReturns(n, result) ==
    /\ send' = [send EXCEPT ![n] = [pc |-> "idle", attempts |-> 0]]
    /\ results' = [results EXCEPT ![n] = Append(@, result)]

SendAcked(n) ==
    /\ SendAt(n, "wait") /\ ack_sem[n] = 1
    /\ ack_sem' = [ack_sem EXCEPT ![n] = 0]
    /\ SendReturns(n, "acked")
    /\ UNCHANGED <<tx_flip, ack_payload, ack_tx_lock, work, ring, rxVars, fields,
                   delivered, lost, altered, late, restarts>>

\* Nothing is under way that could still become the acknowledgment.
Quiet ==
    \A m \in Nodes :
        /\ \A i \in DOMAIN ring[m] : ring[m][i] # Delimiter
        /\ work[m] = "decode"
        /\ ack_tx_lock[m] = "none"

\* A plausible error: the last attempt is awaited for ever.
SendTimesOutUnlessLast(n) ==
    /\ SendAt(n, "wait") /\ ack_sem[n] = 0 /\ Quiet
    /\ send[n].attempts < TxAttempts
    /\ SendGoto(n, "attempt")
    /\ UNCHANGED <<tx_flip, ack_payload, ack_sem, ack_tx_lock, work, ring, rxVars,
                   fields, results, delivered, lost, altered, late, restarts>>
SendTimesOut(n) ==
    /\ SendAt(n, "wait") /\ ack_sem[n] = 0
    /\ \/ Quiet /\ UNCHANGED late
       \/ ~Quiet /\ late < MaxLate /\ late' = late + 1
    /\ IF send[n].attempts < TxAttempts
       THEN SendGoto(n, "attempt") /\ UNCHANGED results
       ELSE SendReturns(n, "failed")
    /\ UNCHANGED <<tx_flip, ack_payload, ack_sem, ack_tx_lock, work, ring, rxVars,
                   fields, delivered, lost, altered, restarts>>

-----------------------------------------------------------------------------
(* work_handler.                                                           *)
WorkAt(n, pc) == work[n] = pc
WorkGoto(n, pc) == work' = [work EXCEPT ![n] = pc]

\* hdlc_decode_byte up to the next delimiter: nothing, an acknowledgment that
\* is awaited or not (ack_rx), a packet, or what no checksum accepts.
\* (A plausible error: any acknowledgment will do.)
IsAnyAck(n, frame) == Len(frame) = 1 /\ frame[1].kind = "CHECKSUM"
IsAck(n, frame) == frame = <<Checksum(ack_payload[n])>>

Decode(n) ==
    /\ WorkAt(n, "decode")
    /\ \E k \in DOMAIN ring[n] :
        LET frame == SubSeq(ring[n], 1, k - 1)
        IN  /\ ring[n][k] = Delimiter
            /\ \A i \in DOMAIN frame : frame[i] # Delimiter
            /\ ring' = [ring EXCEPT ![n] = SubSeq(@, k + 1, Len(@))]
            /\ ack_sem' = [ack_sem EXCEPT ![n] = IF IsAck(n, frame) THEN 1 ELSE @]
            /\ IF FrameValid(n, frame)
               THEN /\ WorkGoto(n, "ack")
                    /\ rx_packet' = [rx_packet EXCEPT ![n] = frame]
               ELSE UNCHANGED <<work, rx_packet>>
    /\ UNCHANGED <<sendVars, ack_tx_lock, last_rx_crc, rx_flip_any, fields, results,
                   delivered, lost, altered, late, restarts>>

\* ack_tx: the checksum field goes back in a frame of its own.
AckOpen(n) ==
    /\ WorkAt(n, "ack") /\ ack_tx_lock[n] = "none"
    /\ ack_tx_lock' = [ack_tx_lock EXCEPT ![n] = "work"]
    /\ WorkGoto(n, "ack_close")
    /\ Emit(n, <<Delimiter, rx_packet[n][2]>>)
    /\ UNCHANGED <<sendVars, ack_sem, rxVars, fields, results, delivered, late,
                   restarts>>

AckClose(n) ==
    /\ WorkAt(n, "ack_close")
    /\ WorkGoto(n, "deliver")
    /\ ack_tx_lock' = [ack_tx_lock EXCEPT ![n] = "none"]
    /\ Emit(n, <<Delimiter>>)
    /\ UNCHANGED <<sendVars, ack_sem, rxVars, fields, results, delivered, late,
                   restarts>>

\* rx_flip_check.
\* (A plausible error: no packet is taken for a duplicate.)
NeverDuplicate(n, field) == FALSE
IsDuplicate(n, field) == ~rx_flip_any[n] /\ last_rx_crc[n] = field

Deliver(n) ==
    LET field == rx_packet[n][2].val
    IN  /\ WorkAt(n, "deliver")
        /\ WorkGoto(n, "decode")
        /\ last_rx_crc' = [last_rx_crc EXCEPT ![n] = field]
        /\ rx_flip_any' = [rx_flip_any EXCEPT ![n] = FALSE]
        /\ delivered' = IF IsDuplicate(n, field) THEN delivered
                        ELSE [delivered EXCEPT ![Peer(n)] = Append(@, rx_packet[n][1].val)]
        /\ rx_packet' = [rx_packet EXCEPT ![n] = <<>>]
        /\ UNCHANGED <<sendVars, ack_sem, ack_tx_lock, ring, fields, results,
                       lost, altered, late, restarts>>

-----------------------------------------------------------------------------
\* A node is reset, and init() called; a packet being sent is cut off.
Restart(n) ==
    /\ restarts[n] + restarts[Peer(n)] < MaxRestarts
    /\ restarts' = [restarts EXCEPT ![n] = @ + 1]
    /\ send' = [send EXCEPT ![n] = [pc |-> "idle", attempts |-> 0]]
    /\ results' = IF SendAt(n, "idle") THEN results
                  ELSE [results EXCEPT ![n] = Append(@, "cut")]
    /\ tx_flip' = [tx_flip EXCEPT ![n] = 0]
    /\ ack_payload' = [ack_payload EXCEPT ![n] = 0]
    /\ ack_sem' = [ack_sem EXCEPT ![n] = 0]
    /\ ack_tx_lock' = [ack_tx_lock EXCEPT ![n] = "none"]
    /\ work' = [work EXCEPT ![n] = "decode"]
    /\ ring' = [ring EXCEPT ![n] = <<>>]
    /\ rx_packet' = [rx_packet EXCEPT ![n] = <<>>]
    /\ last_rx_crc' = [last_rx_crc EXCEPT ![n] = 0]
    /\ rx_flip_any' = [rx_flip_any EXCEPT ![n] = TRUE]
    /\ UNCHANGED <<fields, delivered, lost, altered, late>>

SendStep(n) ==
    SendAttempt(n) \/ SendClose(n) \/ SendAcked(n) \/ SendTimesOut(n)
WorkStep(n) == Decode(n) \/ AckOpen(n) \/ AckClose(n) \/ Deliver(n)

RpcNext ==
    \E n \in Nodes : SendBegins(n) \/ SendStep(n) \/ WorkStep(n) \/ Restart(n)

RpcSpec == RpcInit /\ [][RpcNext]_rpcVars

-----------------------------------------------------------------------------
\* The variables have their types; each side of a node that writes a frame
\* holds ack_tx_lock, so that no two frames are mixed on the line.
RpcTypeOK ==
    /\ \A n \in Nodes :
        /\ send[n].pc \in {"idle", "attempt", "close", "wait"}
        /\ send[n].attempts \in 0 .. TxAttempts
        /\ tx_flip[n] \in {0, 1} /\ ack_sem[n] \in {0, 1}
        /\ work[n] \in {"decode", "ack", "ack_close", "deliver"}
        /\ send[n].pc = "close" <=> ack_tx_lock[n] = "send"
        /\ work[n] = "ack_close" <=> ack_tx_lock[n] = "work"

\* Packets reach the other core in the order of sending, whatever is damaged,
\* and a packet reaches it again only if that node was restarted in between,
\* once for each time ("rejected as a duplicate": rx_flip_check against the
\* retransmissions), or if its sequence bit was damaged, which makes it differ
\* from the one before and the one after.
DeliveredInOrder ==
    \A n \in Nodes :
        LET d == delivered[n]
        IN  /\ \A i, j \in DOMAIN d : i < j => d[i] <= d[j]
            /\ \A p \in DOMAIN fields[n] :
                Cardinality({i \in DOMAIN d : d[i] = p})
                    <= 1 + restarts[Peer(n)] + 2 * altered

\* The packet has reached the other core, or its frame is being handled.
Arrived(n, p) ==
    \/ \E i \in DOMAIN delivered[n] : delivered[n][i] = p
    \/ work[Peer(n)] # "decode" /\ rx_packet[Peer(n)][1] = Packet(p)

\* A packet whose send() returned 0 has reached the other node, unless that
\* was restarted (it acknowledges a packet before it hands it over).  Two
\* exceptions: a checksum field was damaged into another one, which nothing
\* tells in an acknowledgment, nor the sequence bit in a packet; and an earlier
\* packet with the same checksum field has arrived, and the sequence bit does
\* not tell the two apart, because the sender was restarted or a send() before
\* this one was not acknowledged.  Late acknowledgments, retransmissions that
\* cross, losses and all other damage do no harm.
AckedMeansDelivered ==
    \A n \in Nodes : \A p \in DOMAIN results[n] :
        results[n][p] = "acked" =>
            \/ Arrived(n, p)
            \/ restarts[Peer(n)] > 0 \/ altered > 0
            \/ \E q \in 1 .. p - 1 :
                /\ Arrived(n, q)
                /\ fields[n][q] = fields[n][p]
                /\ \/ restarts[n] > 0
                   \/ q < p - 1 /\ \E r \in 1 .. p - 1 : results[n][r] # "acked"

\* The attempts are worth something: send() fails only after as many losses,
\* damages, waits that were too short and restarts in the run so far as it makes
\* attempts.
RetriesSuffice ==
    \A n \in Nodes : \A p \in DOMAIN results[n] :
        results[n][p] = "failed" =>
            lost + late + restarts[n] + restarts[Peer(n)] >= TxAttempts

\* What the steps of send() and of the work queue ask of the state.
SendReady(n) ==
    \/ SendAt(n, "attempt") /\ ack_tx_lock[n] = "none"
    \/ SendAt(n, "close")
    \/ SendAt(n, "wait") /\ (ack_sem[n] = 1 \/ Quiet \/ late < MaxLate)
WorkReady(n) ==
    \/ WorkAt(n, "decode") /\ \E k \in DOMAIN ring[n] : ring[n][k] = Delimiter
    \/ WorkAt(n, "ack") /\ ack_tx_lock[n] = "none"
    \/ WorkAt(n, "ack_close") \/ WorkAt(n, "deliver")

\* While a send() is in progress some thread or work queue can go on: no one
\* waits for ever for an acknowledgment, the work queue or the lock.
SendGoesOn ==
    \A n \in Nodes : send[n].pc # "idle" => \E m \in Nodes : SendReady(m) \/ WorkReady(m)

\* Locking is right: whoever writes a frame holds the lock, and a send() in
\* progress goes on, for what is ready can be done.
LockingSound ==
    /\ RpcTypeOK
    /\ SendGoesOn
    /\ \A n \in Nodes : /\ SendReady(n) => ENABLED SendStep(n)
                        /\ WorkReady(n) => ENABLED WorkStep(n)
=============================================================================
