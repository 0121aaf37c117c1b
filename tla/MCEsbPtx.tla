------------------------------ MODULE MCEsbPtx ------------------------------
(* Instances of EsbPtx: its calls, and the radio that answers as it likes. *)
EXTENDS EsbPtx

MCCrc(pdu) == 0
MCCounts == {0, 1}
MCNoack == BOOLEAN

\* Every call of the API: the thread sends, the event handler receives.
MCAllCalls == {"thread"} \X {"write", "start_tx", "flush_tx", "pop_tx", "set_count",
                             "init"}
              \cup {"evt"} \X {"read", "flush_rx", "reuse_pid"}

\* An application that queues from its thread, and nothing else.
MCWriteCalls == {<<"thread", "write">>}
=============================================================================
