----------------------------- MODULE MCEsbLink -----------------------------
(* Instances of EsbLink. *)
EXTENDS EsbLink

\* The worst CRC: every packet collides with every other one.
MCCrc(pdu) == 0
MCCounts == {1}

\* The applications of samples/esb: the transmitter queues from its thread
\* and restarts after a failure, both read in the event handler, the
\* receiver queues ack payloads from its thread.
MCPtxCalls == {<<"thread", "write">>, <<"thread", "start_tx">>, <<"evt", "read">>}
MCPrxCalls == {<<"thread", "write">>, <<"evt", "read">>, <<"thread", "start_rx">>,
               <<"thread", "stop_rx">>}
MCAckOnly == {FALSE}

\* A CRC that tells the four PIDs apart, all the receiver of the fixed-length
\* protocol has to go by: it compares a PID field that is always zero.
MCCrcPid(pdu) == pdu.pid + 1

\* Disciplined applications, for liveness: the transmitter queues while idle
\* and starts again after a failure, the receiver drains its RX FIFO.
MCPtxLive == {<<"thread", "write_idle">>, <<"thread", "start_tx">>}
MCPrxLive == {<<"thread", "start_rx">>, <<"evt", "read">>, <<"evt", "drain">>}

\* Every call of the receiver's API.
MCPrxAll == {"thread"} \X {"start_rx", "stop_rx", "write", "flush_tx", "flush_rx",
                           "pop_tx", "init"}
            \cup {<<"evt", "read">>, <<"evt", "write">>}
MCPtxFew == {<<"thread", "write_idle">>, <<"thread", "start_tx">>}
MCBoth == BOOLEAN
=============================================================================
