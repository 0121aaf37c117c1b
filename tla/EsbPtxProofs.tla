---------------------------- MODULE EsbPtxProofs ----------------------------
(***************************************************************************)
(* Theorems about the transmitter (EsbPtx), for every value of its         *)
(* constants: FIFO sizes, retransmission counts, modes, applications.      *)
(***************************************************************************)
EXTENDS EsbPtx, TLAPS

(* Unsigned arithmetic stays in range, and is exact away from the ends.    *)
LEMMA ModRange ==
    ASSUME NEW a \in Int
    PROVE  a % UintMod \in 0 .. UintMod - 1
BY BaseAssumption, SMT

\* A value of the type is its own remainder.
LEMMA ModExact ==
    ASSUME NEW a \in 0 .. UintMod - 1
    PROVE  a % UintMod = a
BY BaseAssumption, SMT

\* A packet ID computed modulo PID_MAX + 1 fits its two bits.
LEMMA PidRange ==
    ASSUME NEW a \in Int
    PROVE  a % (PID_MAX + 1) \in Pids
<1>1. PID_MAX + 1 = 4 /\ Pids = 0 .. 3
  BY DEF PID_MAX, Pids
<1>2. a % 4 \in 0 .. 3
  BY SMT
<1> QED BY <1>1, <1>2

(* Pushing and dropping keep the ring buffer's fields in range.            *)
LEMMA PushType ==
    ASSUME NEW N \in Nat \ {0}, NEW S, NEW f \in FifoType(N, S), NEW p \in S
    PROVE  FifoPush(f, N, p) \in FifoType(N, S)
<1>0. f.count + 1 \in Int
  BY BaseAssumption DEF FifoType
<1>1. (f.count + 1) % UintMod \in 0 .. UintMod - 1
  BY <1>0, ModRange
<1>2. Advance(f.back, N) \in 0 .. N - 1
  BY DEF Advance, FifoType
<1>3. [f.payload EXCEPT ![f.back] = p] \in [0 .. N - 1 -> S]
  BY DEF FifoType
<1> QED BY <1>1, <1>2, <1>3 DEF FifoPush, FifoType

\* Giving up the front slot keeps the fields in range.
LEMMA DropType ==
    ASSUME NEW N \in Nat \ {0}, NEW S, NEW f \in FifoType(N, S)
    PROVE  FifoDrop(f, N) \in FifoType(N, S)
<1>0. f.count - 1 \in Int
  BY BaseAssumption DEF FifoType
<1>1. (f.count - 1) % UintMod \in 0 .. UintMod - 1
  BY <1>0, ModRange
<1>2. Advance(f.front, N) \in 0 .. N - 1
  BY DEF Advance, FifoType
<1> QED BY <1>1, <1>2 DEF FifoDrop, FifoType

\* So does what esb_pop_tx does.
LEMMA PopBackType ==
    ASSUME NEW N \in Nat \ {0}, NEW S, NEW f \in FifoType(N, S)
    PROVE  FifoPopBack(f, N) \in FifoType(N, S)
<1>0. f.count - 1 \in Int
  BY BaseAssumption DEF FifoType
<1>1. (f.count - 1) % UintMod \in 0 .. UintMod - 1
  BY <1>0, ModRange
<1>2. Advance(f.back, N) \in 0 .. N - 1
  BY DEF Advance, FifoType
<1> QED BY <1>1, <1>2 DEF FifoPopBack, FifoType

\* So does a flush.
LEMMA ResetType ==
    ASSUME NEW N \in Nat \ {0}, NEW S, NEW f \in FifoType(N, S)
    PROVE  FifoReset(f) \in FifoType(N, S)
BY BaseAssumption DEF FifoReset, FifoType

\* The FIFOs start in range.
LEMMA EmptyType ==
    ASSUME NEW N \in Nat \ {0}, NEW S, NEW b \in S
    PROVE  EmptyFifo(N, b) \in FifoType(N, S)
BY BaseAssumption DEF EmptyFifo, FifoType

-----------------------------------------------------------------------------
(* What start_tx_transaction leaves in the radio variables.                *)
RadioStarted ==
    /\ ptx_state' \in {"PTX_TX", "PTX_TX_ACK"}
    /\ tx_pdu' \in Payload
    /\ retransmits_remaining' \in 0 .. UintMod - 1
    /\ last_tx_attempts' = 1
    /\ sends' = 1
    /\ gave_up' \in BOOLEAN

\* The front slot holds a payload.
LEMMA FrontType ==
    ASSUME NEW f \in FifoType(TxSize, Payload)
    PROVE  f.payload[f.front] \in Payload
BY DEF FifoType

\* tx_fifo_remove_last keeps the TX FIFO in range.
LEMMA RemoveLastType ==
    ASSUME PtxTypeOK
    PROVE  RemoveLast \in FifoType(TxSize, Payload)
BY DropType, PtxAssumption DEF RemoveLast, PtxTypeOK

\* start_tx_transaction on the present FIFO leaves the radio variables typed.
LEMMA StartTxType ==
    ASSUME PtxTypeOK, StartTx(tx_fifo)
    PROVE  RadioStarted
<1>1. tx_fifo.payload[tx_fifo.front] \in Payload
  BY FrontType DEF PtxTypeOK
<1> QED BY <1>1, PtxAssumption DEF StartTx, PtxTypeOK, RadioStarted

\* The same, once the front payload has been given up.
LEMMA StartNextType ==
    ASSUME PtxTypeOK, StartTx(RemoveLast)
    PROVE  RadioStarted
<1>1. RemoveLast.payload[RemoveLast.front] \in Payload
  BY RemoveLastType, FrontType
<1> QED BY <1>1, PtxAssumption DEF StartTx, PtxTypeOK, RadioStarted

\* The type invariant holds at start up.
LEMMA InitType == PtxInit => PtxTypeOK
<1> SUFFICES ASSUME PtxInit PROVE PtxTypeOK OBVIOUS
<1>1. BlankPayload \in Payload
  BY BaseAssumption DEF BlankPayload, Payload, Pipes, Pids, PID_MAX
<1>2. tx_fifo \in FifoType(TxSize, Payload)
  BY <1>1, EmptyType, PtxAssumption DEF PtxInit
<1>3. ptx_rx_fifo \in FifoType(PtxRxSize, Nat)
  BY EmptyType, PtxAssumption DEF PtxInit
<1>4. ptx_call \in [Contexts -> PtxCallType]
  BY DEF PtxInit, PtxCallType
<1>5. ptx_evt \in [pc : {"idle", "read", "run"}, attempts : Int, events : SUBSET Flags,
                    rests : BOOLEAN]
  BY DEF PtxInit, EvtIdle
<1>6. pids \in [Pipes -> Pids]
  BY DEF PtxInit, Pids, PID_MAX
<1>7. ptx_got \in Seq(Nat) /\ last_acked \in Nat \X Nat
  BY DEF PtxInit
<1>8. retransmit_count \in RetransmitCounts /\ retransmits_remaining \in 0 .. UintMod - 1
  BY BaseAssumption DEF PtxInit
<1>9. ptx_flags \in SUBSET Flags
  BY DEF PtxInit
<1>10. ptx_pending \in BOOLEAN /\ gave_up \in BOOLEAN
  BY Zenon DEF PtxInit
<1> QED BY <1>1, <1>2, <1>3, <1>4, <1>5, <1>6, <1>7, <1>8, <1>9, <1>10 DEF PtxInit, PtxTypeOK, PtxStates

(* A completed transaction without acknowledgment keeps the types.         *)
LEMMA FinishNoackType ==
    ASSUME PtxTypeOK, NEW rest \in PtxStates, FinishNoack(rest)
    PROVE  PtxTypeOK'
<1>1. RemoveLast \in FifoType(TxSize, Payload)
  BY RemoveLastType
<1>2. CASE RemoveLast.count = 0
  BY <1>1, <1>2 DEF FinishNoack, PtxTypeOK, Flags, ptxLogs
<1>3. CASE RemoveLast.count # 0
  <2>1. StartTx(RemoveLast)
    BY <1>3 DEF FinishNoack
  <2>2. RadioStarted
    BY <2>1, StartNextType
  <2> QED BY <1>1, <2>2 DEF FinishNoack, PtxTypeOK, Flags, ptxLogs, PtxStates, RadioStarted
<1> QED BY <1>2, <1>3

\* The acknowledged end of a transaction preserves the type invariant.
LEMMA AckReceivedType ==
    ASSUME PtxTypeOK, NEW ack, ack.pl \subseteq Nat, AckReceived(ack)
    PROVE  PtxTypeOK'
<1>1. RemoveLast \in FifoType(TxSize, Payload)
  BY RemoveLastType
<1>2. /\ ptx_rx_fifo' \in FifoType(PtxRxSize, Nat)
      /\ ptx_flags' \in SUBSET Flags
      /\ ptx_got' \in Seq(Nat)
  <2>1. CASE ack.pl = {} \/ Protocol = "ESB"
    BY <2>1 DEF AckReceived, PtxReceive, PtxTypeOK, Flags
  <2>2. CASE ~(ack.pl = {} \/ Protocol = "ESB")
    <3>1. PICK a \in ack.pl :
            /\ ptx_flags' \subseteq ptx_flags \cup {"TX_SUCCESS", "RX_RECEIVED"}
            /\ ptx_rx_fifo' \in {FifoPush(ptx_rx_fifo, PtxRxSize, a), ptx_rx_fifo}
            /\ ptx_got' = Append(ptx_got, a)
      BY <2>2 DEF AckReceived, PtxReceive
    <3>2. FifoPush(ptx_rx_fifo, PtxRxSize, a) \in FifoType(PtxRxSize, Nat)
      BY PushType, PtxAssumption DEF PtxTypeOK
    <3> QED BY <3>1, <3>2 DEF PtxTypeOK, Flags
  <2> QED BY <2>1, <2>2
<1>3. last_acked' \in Nat \X Nat
  <2>1. tx_fifo.payload[tx_fifo.front] \in Payload /\ tx_pdu \in Payload
    BY DEF PtxTypeOK, FifoType
  <2>2. tx_fifo.payload[tx_fifo.front].id \in Nat /\ tx_pdu.id \in Nat
    BY <2>1 DEF Payload
  <2> QED BY <2>2 DEF AckReceived
<1>4. /\ ptx_state' \in PtxStates /\ tx_pdu' \in Payload
      /\ retransmits_remaining' \in 0 .. UintMod - 1 /\ last_tx_attempts' \in Int
      /\ sends' \in Nat /\ gave_up' \in BOOLEAN
  <2>1. CASE StartTx(RemoveLast)
    <3>1. RadioStarted
      BY <2>1, StartNextType
    <3> QED BY <3>1 DEF PtxStates, RadioStarted
  <2>2. CASE ~StartTx(RemoveLast)
    BY <2>2, PtxAssumption DEF AckReceived, PtxTypeOK, PtxStates
  <2> QED BY <2>1, <2>2
<1> QED BY <1>1, <1>2, <1>3, <1>4 DEF AckReceived, PtxTypeOK

\* A missed acknowledgment preserves the type invariant.
LEMMA AckMissedType == PtxTypeOK /\ AckMissed => PtxTypeOK'
<1> SUFFICES ASSUME PtxTypeOK, AckMissed PROVE PtxTypeOK' OBVIOUS
<1>0. retransmits_remaining - 1 \in Int
  BY BaseAssumption DEF PtxTypeOK
<1>1. retransmits_remaining' \in 0 .. UintMod - 1
  BY <1>0, ModRange DEF AckMissed
<1>2. gave_up' \in BOOLEAN /\ ptx_pending' \in BOOLEAN
  BY Zenon DEF AckMissed, PtxTypeOK
<1>3. /\ ptx_state' \in PtxStates /\ ptx_flags' \in SUBSET Flags
      /\ last_tx_attempts' \in Int /\ sends' \in Nat
  <2>1. retransmit_count \in Nat
    BY PtxAssumption, BaseAssumption DEF PtxTypeOK
  <2>2. CASE retransmits_remaining = 0
    <3>1. /\ ptx_state' = "IDLE" /\ last_tx_attempts' = retransmit_count + 1
          /\ ptx_flags' = ptx_flags \cup {"TX_FAILED"} /\ sends' = sends
      BY <2>2, Zenon DEF AckMissed
    <3> QED BY <2>1, <3>1 DEF PtxTypeOK, PtxStates, Flags
  <2>3. CASE retransmits_remaining # 0
    <3>1. /\ ptx_state' = "PTX_TX_ACK" /\ sends' = sends + 1
          /\ UNCHANGED <<last_tx_attempts, ptx_flags>>
      BY <2>3, Zenon DEF AckMissed
    <3> QED BY <2>1, <3>1 DEF PtxTypeOK, PtxStates, Flags
  <2> QED BY <2>2, <2>3
<1> QED BY <1>1, <1>2, <1>3 DEF AckMissed, PtxTypeOK, ptxQueues, ptxLogs

(* What an API call has still to do is one of the known steps.             *)
LEMMA CallType ==
    ASSUME PtxTypeOK, NEW c \in Contexts, NEW x \in PtxCallType
    PROVE  [ptx_call EXCEPT ![c] = x] \in [Contexts -> PtxCallType]
BY DEF PtxTypeOK

(* Every step of an API call in either context keeps the types.            *)
LEMMA ApiType ==
    ASSUME PtxTypeOK, NEW c \in Contexts, PtxApi(c)
    PROVE  PtxTypeOK'
<1> USE DEF ptxQueues, ptxRadio, ptxEvents, ptxLogs
<1>1. NoCall \in PtxCallType /\ \A s \in {"start", "pop", "read"} : [step |-> s] \in PtxCallType
  BY DEF NoCall, PtxCallType
<1>2. CASE PtxWriteCheck(c)
  <2>1. PICK p \in Pipes, n \in NoackChoices :
          ptx_call' = [ptx_call EXCEPT ![c] = [step |-> "enqueue", pipe |-> p, noack |-> n]]
    BY <1>2 DEF PtxWriteCheck
  <2>2. [step |-> "enqueue", pipe |-> p, noack |-> n] \in PtxCallType
    BY PtxAssumption DEF PtxCallType, WriteCall
  <2>3. ptx_call' \in [Contexts -> PtxCallType]
    BY <2>1, <2>2, CallType
  <2> QED BY <1>2, <2>3 DEF PtxWriteCheck, PtxTypeOK
<1>3. CASE PtxWriteEnqueue(c)
  <2>0. ptx_call[c] \in PtxCallType /\ ptx_call[c].step = "enqueue"
    BY <1>3, Zenon DEF PtxWriteEnqueue, PtxResumes, PtxTypeOK
  <2>1. ptx_call[c] \in WriteCall
    BY <2>0 DEF PtxCallType, NoCall
  <2>2. ptx_call[c].pipe \in Pipes /\ ptx_call[c].noack \in BOOLEAN
    BY <2>1 DEF WriteCall
  <2>3. NextPid(ptx_call[c].pipe) \in Pids
    <3>1. pids[ptx_call[c].pipe] + 1 \in Int
      BY <2>2 DEF PtxTypeOK, Pids, PID_MAX
    <3> QED BY <3>1, PidRange DEF NextPid
  <2> DEFINE p == [id |-> written + 1, pipe |-> ptx_call[c].pipe,
                   noack |-> ptx_call[c].noack, pid |-> NextPid(ptx_call[c].pipe)]
  <2>4. p \in Payload
    BY <2>2, <2>3 DEF Payload, PtxTypeOK
  <2>5. FifoPush(tx_fifo, TxSize, p) \in FifoType(TxSize, Payload)
    BY <2>4, PushType, PtxAssumption DEF PtxTypeOK
  <2>6. tx_fifo' \in FifoType(TxSize, Payload)
    BY <1>3, <2>5 DEF PtxWriteEnqueue
  <2>7. pids' \in [Pipes -> Pids]
    BY <1>3, <2>2, <2>3 DEF PtxWriteEnqueue, PtxTypeOK
  <2>8. ptx_call' \in [Contexts -> PtxCallType]
    BY <1>1, <1>3, CallType DEF PtxWriteEnqueue
  <2> QED BY <1>3, <2>6, <2>7, <2>8 DEF PtxWriteEnqueue, PtxTypeOK
<1>4. CASE PtxWriteStart(c)
  <2>1. ptx_call' \in [Contexts -> PtxCallType]
    BY <1>1, <1>4, CallType DEF PtxWriteStart
  <2>2. CASE StartTx(tx_fifo)
    <3>1. RadioStarted
      BY <2>2, StartTxType
    <3> QED BY <1>4, <2>1, <3>1 DEF PtxWriteStart, PtxTypeOK, RadioStarted, PtxStates
  <2>3. CASE UNCHANGED ptxRadio
    BY <1>4, <2>1, <2>3 DEF PtxWriteStart, PtxTypeOK
  <2> QED BY <1>4, <2>2, <2>3 DEF PtxWriteStart
<1>5. CASE esb_start_tx(c)
  <2>1. RadioStarted
    BY <1>5, StartTxType DEF esb_start_tx
  <2> QED BY <1>5, <2>1 DEF esb_start_tx, PtxTypeOK, RadioStarted, PtxStates
<1>6. CASE PtxReadCheck(c)
  <2>1. ptx_call' \in [Contexts -> PtxCallType]
    BY <1>1, <1>6, CallType DEF PtxReadCheck
  <2> QED BY <1>6, <2>1 DEF PtxReadCheck, PtxTypeOK
<1>7. CASE PtxReadLocked(c)
  <2>1. ptx_call' \in [Contexts -> PtxCallType]
    BY <1>1, <1>7, CallType DEF PtxReadLocked
  <2>2. ptx_rx_fifo' \in FifoType(PtxRxSize, Nat)
    BY <1>7, DropType, PtxAssumption DEF PtxReadLocked, PtxTypeOK
  <2> QED BY <1>7, <2>1, <2>2 DEF PtxReadLocked, PtxTypeOK
<1>8. CASE PtxFlushTx(c)
  <2>1. tx_fifo' \in FifoType(TxSize, Payload)
    BY <1>8, ResetType, PtxAssumption DEF PtxFlushTx, PtxTypeOK
  <2> QED BY <1>8, <2>1 DEF PtxFlushTx, PtxTypeOK
<1>9. CASE PtxFlushRx(c)
  <2>1. ptx_rx_fifo' \in FifoType(PtxRxSize, Nat)
    BY <1>9, ResetType, PtxAssumption DEF PtxFlushRx, PtxTypeOK
  <2> QED BY <1>9, <2>1 DEF PtxFlushRx, PtxTypeOK
<1>10. CASE PtxPopCheck(c)
  <2>1. ptx_call' \in [Contexts -> PtxCallType]
    BY <1>1, <1>10, CallType DEF PtxPopCheck
  <2> QED BY <1>10, <2>1 DEF PtxPopCheck, PtxTypeOK
<1>11. CASE PtxPopLocked(c)
  <2>1. ptx_call' \in [Contexts -> PtxCallType]
    BY <1>1, <1>11, CallType DEF PtxPopLocked
  <2>2. tx_fifo' \in FifoType(TxSize, Payload)
    BY <1>11, PopBackType, PtxAssumption DEF PtxPopLocked, PtxTypeOK
  <2> QED BY <1>11, <2>1, <2>2 DEF PtxPopLocked, PtxTypeOK
<1>12. CASE esb_reuse_pid(c)
  <2>1. pids' \in [Pipes -> Pids]
    <3>1. PICK p \in Pipes : pids' = [pids EXCEPT ![p] = (@ + PID_MAX) % (PID_MAX + 1)]
      BY <1>12 DEF esb_reuse_pid
    <3>2. pids[p] + PID_MAX \in Int
      BY DEF PtxTypeOK, Pids, PID_MAX
    <3>3. (pids[p] + PID_MAX) % (PID_MAX + 1) \in Pids
      BY <3>2, PidRange
    <3> QED BY <3>1, <3>3 DEF PtxTypeOK
  <2> QED BY <1>12, <2>1 DEF esb_reuse_pid, PtxTypeOK
<1>13. CASE esb_set_retransmit_count(c)
  BY <1>13 DEF esb_set_retransmit_count, PtxTypeOK
<1> QED BY <1>2, <1>3, <1>4, <1>5, <1>6, <1>7, <1>8, <1>9, <1>10, <1>11, <1>12, <1>13 DEF PtxApi

\* The API calls and the event interrupt preserve the type invariant.
LEMMA LocalType == PtxTypeOK /\ PtxLocal => PtxTypeOK'
<1> SUFFICES ASSUME PtxTypeOK, PtxLocal PROVE PtxTypeOK' OBVIOUS
<1> USE DEF ptxQueues, ptxRadio, ptxLogs
<1>1. CASE \E c \in Contexts : PtxApi(c)
  BY <1>1, ApiType
<1>2. CASE PtxReinit
  <2>1. /\ tx_fifo' \in FifoType(TxSize, Payload)
        /\ ptx_rx_fifo' \in FifoType(PtxRxSize, Nat)
    BY <1>2, ResetType, PtxAssumption DEF PtxReinit, PtxTypeOK
  <2>2. pids' \in [Pipes -> Pids]
    BY <1>2 DEF PtxReinit, Pids, PID_MAX
  <2> QED BY <1>2, <2>1, <2>2 DEF PtxReinit, PtxTypeOK
<1>3. CASE PtxEvtEnter
  <2>1. (ptx_state \in AtRest) \in BOOLEAN
    OBVIOUS
  <2>2. PICK r \in BOOLEAN : r = (ptx_state \in AtRest)
    BY <2>1
  <2>3. ptx_evt' = [pc |-> "read", attempts |-> last_tx_attempts, events |-> {}, rests |-> r]
    BY <1>3, <2>2, Zenon DEF PtxEvtEnter
  <2>4. last_tx_attempts \in Int /\ {} \in SUBSET Flags
    BY DEF PtxTypeOK
  <2>5. ptx_evt' \in [pc : {"idle", "read", "run"}, attempts : Int, events : SUBSET Flags,
                     rests : BOOLEAN]
    BY <2>2, <2>3, <2>4
  <2>6. ptx_pending' \in BOOLEAN
    BY <1>3, Zenon DEF PtxEvtEnter
  <2> QED BY <1>3, <2>5, <2>6, Zenon DEF PtxEvtEnter, PtxTypeOK
<1>4. CASE PtxEvtFetch
  <2>1. ptx_evt' = [ptx_evt EXCEPT !.pc = "run", !.events = ptx_flags]
    BY <1>4, Zenon DEF PtxEvtFetch
  <2>2. /\ ptx_evt' \in [pc : {"idle", "read", "run"}, attempts : Int, events : SUBSET Flags,
                        rests : BOOLEAN]
        /\ {} \in SUBSET Flags
    BY <2>1 DEF PtxTypeOK
  <2> QED BY <1>4, <2>2 DEF PtxEvtFetch, PtxTypeOK
<1>5. CASE PtxEvtReturn
  BY <1>5 DEF PtxEvtReturn, PtxTypeOK, EvtIdle
<1> QED BY <1>1, <1>2, <1>3, <1>4, <1>5 DEF PtxLocal

\* The radio and timer interrupts preserve the type invariant.
LEMMA RadioType == PtxTypeOK /\ PtxRadioStep => PtxTypeOK'
<1> SUFFICES ASSUME PtxTypeOK, PtxRadioStep PROVE PtxTypeOK' OBVIOUS
<1>1. CASE on_radio_disabled_tx_noack
  BY <1>1, FinishNoackType DEF on_radio_disabled_tx_noack, PtxStates
<1>2. CASE on_radio_disabled_tx
  BY <1>2 DEF on_radio_disabled_tx, PtxTypeOK, PtxStates, ptxQueues, ptxEvents, ptxLogs
<1>3. CASE AnyAck
  <2>1. PICK n \in 0 .. MaxAckWrites :
          AckReceived([pipe |-> tx_pdu.pipe, pid |-> tx_pdu.pid, pl |-> IF n = 0 THEN {} ELSE {n}])
    BY <1>3 DEF AnyAck
  <2> DEFINE ack == [pipe |-> tx_pdu.pipe, pid |-> tx_pdu.pid, pl |-> IF n = 0 THEN {} ELSE {n}]
  <2>2. ack.pl \subseteq Nat
    BY PtxAssumption
  <2>3. AckReceived(ack)
    BY <2>1
  <2> HIDE DEF ack
  <2> QED BY <2>2, <2>3, AckReceivedType
<1>4. CASE AckMissed
  BY <1>4, AckMissedType
<1> QED BY <1>1, <1>2, <1>3, <1>4 DEF PtxRadioStep

(* The transmitter's FIFO indices and counters stay in range, whatever the *)
(* application calls and however its calls and the interrupts interleave.  *)
THEOREM PtxTypeCorrect == PtxSpec => []PtxTypeOK
<1>1. PtxInit => PtxTypeOK
  BY InitType
<1>2. PtxTypeOK /\ [PtxNext]_ptxVars => PtxTypeOK'
  <2>1. CASE PtxLocal
    BY <2>1, LocalType
  <2>2. CASE PtxRadioStep
    BY <2>2, RadioType
  <2>3. CASE UNCHANGED ptxVars
    BY <2>3 DEF ptxVars, PtxTypeOK, ptxQueues, ptxRadio, ptxEvents, ptxLogs
  <2> QED BY <2>1, <2>2, <2>3 DEF PtxNext
<1> QED BY <1>1, <1>2, PTL DEF PtxSpec

-----------------------------------------------------------------------------
(* No event of the transmitter is lost between the radio interrupt, which  *)
(* sets a flag and pends the event interrupt, and the event interrupt,     *)
(* which fetches and clears the flags after it has been entered.           *)
THEOREM PtxEventsKept == PtxSpec => []PtxFlagsNotLost
<1>1. PtxInit => PtxFlagsNotLost
  BY DEF PtxInit, PtxFlagsNotLost
<1>2. PtxFlagsNotLost /\ [PtxNext]_ptxVars => PtxFlagsNotLost'
  <2> SUFFICES ASSUME PtxFlagsNotLost, [PtxNext]_ptxVars PROVE PtxFlagsNotLost'
    OBVIOUS
  <2> USE DEF ptxEvents, PtxFlagsNotLost
  <2>1. ASSUME NEW c \in Contexts, PtxApi(c) PROVE UNCHANGED ptxEvents
    BY <2>1, Zenon DEF PtxApi, PtxWriteCheck, PtxWriteEnqueue, PtxWriteStart, esb_start_tx,
       PtxReadCheck, PtxReadLocked, PtxFlushTx, PtxFlushRx, PtxPopCheck, PtxPopLocked,
       esb_reuse_pid, esb_set_retransmit_count
  <2>2. CASE \E c \in Contexts : PtxApi(c)
    BY <2>1, <2>2
  <2>3. CASE PtxReinit
    BY <2>3 DEF PtxReinit
  <2>4. CASE PtxEvtEnter
    BY <2>4 DEF PtxEvtEnter
  <2>5. CASE PtxEvtFetch
    BY <2>5 DEF PtxEvtFetch
  <2>6. CASE PtxEvtReturn
    BY <2>6 DEF PtxEvtReturn
  <2>7. CASE on_radio_disabled_tx_noack
    BY <2>7, Zenon DEF on_radio_disabled_tx_noack, FinishNoack
  <2>8. CASE on_radio_disabled_tx
    BY <2>8 DEF on_radio_disabled_tx
  <2>9. CASE AnyAck
    BY <2>9, Zenon DEF AnyAck, AckReceived
  <2>10. CASE AckMissed
    BY <2>10, Zenon DEF AckMissed
  <2>11. CASE UNCHANGED ptxVars
    BY <2>11 DEF ptxVars
  <2> QED BY <2>2, <2>3, <2>4, <2>5, <2>6, <2>7, <2>8, <2>9, <2>10, <2>11
       DEF PtxNext, PtxLocal, PtxRadioStep
<1> QED BY <1>1, <1>2, PTL DEF PtxSpec

(* What makes the attempts right: a transaction's transmissions and the    *)
(* retransmissions it has left add up, last_tx_attempts is the count of    *)
(* the last transaction as soon as the radio rests, and the radio cannot   *)
(* leave its rest between the handler's read and its fetch.                *)
Counted ==
    /\ ptx_state \in {"PTX_TX_ACK", "PTX_RX_ACK"} =>
           sends + retransmits_remaining = retransmit_count + 1
    /\ ptx_state = "PTX_TX" => sends = 1
    /\ last_tx_attempts = IF ptx_state \in AtRest THEN tries ELSE 1

Latched ==
    ptx_evt.pc = "read" =>
        IF ptx_evt.rests THEN ptx_state \in AtRest /\ ptx_evt.attempts = tries
        ELSE ptx_evt.attempts = 1

(* A new transaction starts with a full retransmission counter.            *)
LEMMA StartExact ==
    ASSUME PtxTypeOK, NEW f, StartTx(f), UNCHANGED retransmit_count
    PROVE  Counted'
<1>1. retransmit_count \in Nat
  BY PtxAssumption, BaseAssumption DEF PtxTypeOK
<1>2. PICK ack \in BOOLEAN : ack = TxNeedsAck(f.payload[f.front])
  BY Zenon DEF TxNeedsAck
<1>3. /\ last_tx_attempts' = 1 /\ sends' = 1
      /\ ptx_state' = (IF ack THEN "PTX_TX_ACK" ELSE "PTX_TX")
      /\ ack => retransmits_remaining' = retransmit_count
  BY <1>2, Zenon DEF StartTx
<1>4. CASE ack
  BY <1>1, <1>3, <1>4 DEF Counted, AtRest
<1>5. CASE ~ack
  BY <1>3, <1>5 DEF Counted, AtRest
<1> QED BY <1>4, <1>5

\* A step of the radio leaves what the handler has read alone: if it read
\* it at rest, the radio has nothing to do.
LEMMA LatchedBusy ==
    ASSUME Latched, UNCHANGED ptx_evt, ptx_state \notin AtRest
    PROVE  Latched'
BY DEF Latched

(* Every API call and every interrupt preserves both.                      *)
LEMMA CountedStep ==
    ASSUME PtxTypeOK, Counted, Latched, [PtxNext]_ptxVars
    PROVE  Counted' /\ Latched'
<1> USE DEF ptxRadio, ptxLogs, ptxEvents
<1> DEFINE Same == UNCHANGED <<ptx_state, sends, retransmits_remaining, last_tx_attempts, tries>>
<1>1. Same /\ UNCHANGED retransmit_count => Counted'
  BY DEF Counted
<1>2. Same /\ UNCHANGED ptx_evt => Latched'
  BY DEF Latched
<1>3. ASSUME NEW c \in Contexts, PtxWriteStart(c) \/ esb_start_tx(c) PROVE Counted' /\ Latched'
  <2>1. ptx_evt.pc # "read" /\ UNCHANGED <<ptx_evt, retransmit_count, tries>>
    BY <1>3, Zenon DEF PtxWriteStart, esb_start_tx, PtxResumes, PtxCalling, PtxRuns
  <2>2. CASE StartTx(tx_fifo)
    BY <2>1, <2>2, StartExact DEF Latched
  <2>3. CASE UNCHANGED ptxRadio
    BY <1>1, <1>2, <2>1, <2>3, Zenon
  <2> QED BY <1>3, <2>2, <2>3, Zenon DEF PtxWriteStart, esb_start_tx
<1>4. ASSUME NEW c \in Contexts,
             \/ PtxWriteCheck(c) \/ PtxWriteEnqueue(c) \/ PtxReadCheck(c) \/ PtxReadLocked(c)
             \/ PtxFlushTx(c) \/ PtxFlushRx(c) \/ PtxPopCheck(c) \/ PtxPopLocked(c)
             \/ esb_reuse_pid(c)
      PROVE  Same /\ UNCHANGED <<ptx_evt, retransmit_count>>
  BY <1>4, Zenon DEF PtxWriteCheck, PtxWriteEnqueue, PtxReadCheck, PtxReadLocked,
     PtxFlushTx, PtxFlushRx, PtxPopCheck, PtxPopLocked, esb_reuse_pid
<1>5. ASSUME NEW c \in Contexts, esb_set_retransmit_count(c) \/ PtxReinit
      PROVE  Counted' /\ Latched'
  <2>1. Same /\ ptx_state = "IDLE" /\ UNCHANGED ptx_evt
    BY <1>5, Zenon DEF esb_set_retransmit_count, PtxReinit
  <2> QED BY <1>2, <2>1 DEF Counted, AtRest
<1>6. CASE \E c \in Contexts : PtxApi(c)
  BY <1>1, <1>2, <1>3, <1>4, <1>5, <1>6, Zenon DEF PtxApi
<1>7. CASE PtxReinit
  BY <1>5, <1>7, Zenon DEF Contexts
<1>8. CASE PtxEvtEnter
  <2>1. Same /\ UNCHANGED retransmit_count
    BY <1>8, Zenon DEF PtxEvtEnter
  <2>2. /\ ptx_evt'.attempts = last_tx_attempts
        /\ ptx_evt'.rests = (ptx_state \in AtRest)
    BY <1>8 DEF PtxEvtEnter
  <2> QED BY <1>1, <2>1, <2>2 DEF Counted, Latched
<1>9. CASE PtxEvtFetch \/ PtxEvtReturn
  <2>1. Same /\ UNCHANGED retransmit_count
    BY <1>9, Zenon DEF PtxEvtFetch, PtxEvtReturn
  <2>2. ptx_evt'.pc # "read"
    <3>1. CASE PtxEvtReturn
      BY <3>1 DEF PtxEvtReturn, EvtIdle
    <3>2. CASE PtxEvtFetch
      <4>1. ptx_evt' = [ptx_evt EXCEPT !.pc = "run", !.events = ptx_flags]
        BY <3>2, Zenon DEF PtxEvtFetch
      <4> QED BY <4>1 DEF PtxTypeOK
    <3> QED BY <1>9, <3>1, <3>2
  <2> QED BY <1>1, <2>1, <2>2 DEF Latched
<1>10. CASE on_radio_disabled_tx_noack
  <2>1. PICK rest \in AtRest : FinishNoack(rest)
    BY <1>10, Zenon DEF on_radio_disabled_tx_noack, AtRest
  <2>2. /\ ptx_state = "PTX_TX" /\ tries' = sends /\ UNCHANGED <<ptx_evt, retransmit_count>>
    BY <1>10, <2>1, Zenon DEF on_radio_disabled_tx_noack, FinishNoack
  <2>3. Latched'
    BY <2>2, LatchedBusy DEF AtRest
  <2>4. CASE RemoveLast.count = 0
    <3>1. ptx_state' = rest /\ UNCHANGED last_tx_attempts
      BY <2>1, <2>4, Zenon DEF FinishNoack
    <3> QED BY <2>2, <2>3, <3>1 DEF Counted, AtRest
  <2>5. CASE RemoveLast.count # 0
    <3>1. StartTx(RemoveLast)
      BY <2>1, <2>5, Zenon DEF FinishNoack
    <3> QED BY <2>2, <2>3, <3>1, StartExact
  <2> QED BY <2>4, <2>5
<1>11. CASE on_radio_disabled_tx
  <2>1. /\ ptx_state = "PTX_TX_ACK" /\ ptx_state' = "PTX_RX_ACK"
        /\ UNCHANGED <<sends, retransmits_remaining, retransmit_count, last_tx_attempts, tries, ptx_evt>>
    BY <1>11, Zenon DEF on_radio_disabled_tx
  <2> QED BY <2>1, LatchedBusy DEF Counted, AtRest
<1>12. CASE AnyAck
  <2>1. PICK ack : AckReceived(ack)
    BY <1>12, Zenon DEF AnyAck
  <2>2. /\ ptx_state = "PTX_RX_ACK" /\ tries' = sends /\ UNCHANGED <<ptx_evt, retransmit_count>>
    BY <2>1, Zenon DEF AckReceived
  <2>3. Latched'
    BY <2>2, LatchedBusy DEF AtRest
  <2>4. CASE StartTx(RemoveLast)
    BY <2>2, <2>3, <2>4, StartExact
  <2>5. CASE ~StartTx(RemoveLast)
    <3>1. /\ ptx_state' = "IDLE"
          /\ last_tx_attempts' = retransmit_count - retransmits_remaining + 1
      BY <2>1, <2>5, Zenon DEF AckReceived
    <3>2. retransmit_count \in Nat /\ retransmits_remaining \in Nat /\ sends \in Nat
      BY PtxAssumption, BaseAssumption DEF PtxTypeOK
    <3>3. sends = retransmit_count - retransmits_remaining + 1
      BY <2>2, <3>2 DEF Counted
    <3> QED BY <2>2, <2>3, <3>1, <3>3 DEF Counted, AtRest
  <2> QED BY <2>4, <2>5
<1>13. CASE AckMissed
  <2>1. ptx_state = "PTX_RX_ACK" /\ UNCHANGED <<ptx_evt, retransmit_count>>
    BY <1>13, Zenon DEF AckMissed
  <2>2. Latched'
    BY <2>1, LatchedBusy DEF AtRest
  <2>3. /\ retransmit_count \in Nat /\ retransmits_remaining \in 0 .. UintMod - 1 /\ sends \in Nat
        /\ sends + retransmits_remaining = retransmit_count + 1
    BY <2>1, PtxAssumption, BaseAssumption DEF PtxTypeOK, Counted
  <2>4. CASE retransmits_remaining = 0
    <3>1. ptx_state' = "IDLE" /\ last_tx_attempts' = retransmit_count + 1 /\ tries' = sends
      BY <1>13, <2>4, Zenon DEF AckMissed
    <3> QED BY <2>2, <2>3, <2>4, <3>1 DEF Counted, AtRest
  <2>5. CASE retransmits_remaining # 0
    <3>1. ptx_state' = "PTX_TX_ACK" /\ sends' = sends + 1 /\ UNCHANGED <<last_tx_attempts, tries>>
      BY <1>13, <2>5, Zenon DEF AckMissed
    <3>2. retransmits_remaining - 1 \in 0 .. UintMod - 1
      BY <2>3, <2>5, BaseAssumption
    <3>3. retransmits_remaining' = retransmits_remaining - 1
      BY <1>13, <3>2, ModExact DEF AckMissed
    <3> QED BY <2>1, <2>2, <2>3, <3>1, <3>3, BaseAssumption DEF Counted, AtRest
  <2> QED BY <2>4, <2>5
<1>14. CASE UNCHANGED ptxVars
  BY <1>1, <1>2, <1>14 DEF ptxVars
<1> QED BY <1>6, <1>7, <1>8, <1>9, <1>10, <1>11, <1>12, <1>13, <1>14 DEF PtxNext, PtxLocal, PtxRadioStep

(* The attempts reported with an event are the transmissions of the        *)
(* transaction that ended last, whatever the application calls in the      *)
(* meantime, unless the radio was in another transaction by then; those    *)
(* are reported with the 1 of start_tx_transaction.                        *)
THEOREM PtxAttemptsCounted == PtxSpec => []AttemptsExact
<1>1. PtxInit => Counted /\ Latched
  BY DEF PtxInit, Counted, Latched, EvtIdle, AtRest
<1>2. PtxTypeOK /\ Counted /\ Latched /\ [PtxNext]_ptxVars => Counted' /\ Latched'
  BY CountedStep
<1>3. Latched => AttemptsExact
  BY DEF Latched, AttemptsExact
<1> QED BY <1>1, <1>2, <1>3, PtxTypeCorrect, PTL DEF PtxSpec

-----------------------------------------------------------------------------
(* Pushing onto a ring with room queues the payload at the end.            *)
LEMMA PushQueues ==
    ASSUME NEW N \in Nat \ {0}, N + 2 < UintMod, NEW S, NEW f \in FifoType(N, S),
           NEW p, FifoConsistent(f, N), f.count < N
    PROVE  /\ FifoConsistent(FifoPush(f, N, p), N)
           /\ FifoPush(f, N, p).count = f.count + 1
           /\ FifoAt(FifoPush(f, N, p), N, f.count) = p
           /\ \A i \in 0 .. f.count - 1 : FifoAt(FifoPush(f, N, p), N, i) = FifoAt(f, N, i)
<1>1. f.front \in 0 .. N - 1 /\ f.back \in 0 .. N - 1 /\ f.count \in Nat
  BY BaseAssumption DEF FifoType
<1>2. f.back = FifoSlot(f, N, f.count)
  BY DEF FifoConsistent
<1>3. PICK g : g = FifoPush(f, N, p)
  OBVIOUS
<1>4. (f.count + 1) % UintMod = f.count + 1
  BY <1>1, ModExact, BaseAssumption
<1>5. /\ g.front = f.front /\ g.count = f.count + 1 /\ g.back = Advance(f.back, N)
      /\ g.payload = [f.payload EXCEPT ![f.back] = p]
  BY <1>3, <1>4 DEF FifoPush
<1>6. FifoConsistent(g, N)
  BY <1>1, <1>2, <1>5 DEF FifoConsistent, FifoSlot, Advance
<1>7. FifoSlot(g, N, f.count) = f.back
  BY <1>2, <1>5 DEF FifoSlot
<1>8. FifoAt(g, N, f.count) = p
  BY <1>1, <1>5, <1>7 DEF FifoAt, FifoType
<1>9. ASSUME NEW i \in 0 .. f.count - 1 PROVE FifoAt(g, N, i) = FifoAt(f, N, i)
  <2>1. FifoSlot(g, N, i) = FifoSlot(f, N, i)
    BY <1>5 DEF FifoSlot
  <2>2. FifoSlot(f, N, i) \in 0 .. N - 1 /\ FifoSlot(f, N, i) # f.back
    BY <1>1, <1>2 DEF FifoSlot
  <2> QED BY <1>5, <2>1, <2>2 DEF FifoAt, FifoType
<1> QED BY <1>3, <1>5, <1>6, <1>8, <1>9

\* Dropping from a ring that holds something gives up the first payload.
LEMMA DropDequeues ==
    ASSUME NEW N \in Nat \ {0}, N + 2 < UintMod, NEW S, NEW f \in FifoType(N, S),
           FifoConsistent(f, N), f.count > 0
    PROVE  /\ FifoConsistent(FifoDrop(f, N), N)
           /\ FifoDrop(f, N).count = f.count - 1
           /\ \A i \in 0 .. f.count - 2 : FifoAt(FifoDrop(f, N), N, i) = FifoAt(f, N, i + 1)
<1>1. f.front \in 0 .. N - 1 /\ f.back \in 0 .. N - 1 /\ f.count \in Nat /\ f.count <= N
  BY BaseAssumption DEF FifoType, FifoConsistent
<1>2. f.back = FifoSlot(f, N, f.count)
  BY DEF FifoConsistent
<1>3. PICK g : g = FifoDrop(f, N)
  OBVIOUS
<1>4. (f.count - 1) % UintMod = f.count - 1
  BY <1>1, ModExact, BaseAssumption
<1>5. /\ g.front = Advance(f.front, N) /\ g.count = f.count - 1 /\ g.back = f.back
      /\ g.payload = f.payload
  BY <1>3, <1>4 DEF FifoDrop
<1>6. FifoConsistent(g, N)
  BY <1>1, <1>2, <1>5 DEF FifoConsistent, FifoSlot, Advance
<1>7. ASSUME NEW i \in 0 .. f.count - 2 PROVE FifoAt(g, N, i) = FifoAt(f, N, i + 1)
  <2>1. FifoSlot(g, N, i) = FifoSlot(f, N, i + 1)
    BY <1>1, <1>5 DEF FifoSlot, Advance
  <2> QED BY <1>5, <2>1 DEF FifoAt
<1> QED BY <1>3, <1>5, <1>6, <1>7

\* A ring that was emptied is consistent.
LEMMA ResetConsistent ==
    ASSUME NEW N \in Nat \ {0}, NEW f
    PROVE  FifoConsistent(FifoReset(f), N) /\ FifoReset(f).count = 0
BY DEF FifoConsistent, FifoReset, FifoSlot

\* So is one that was never used.
LEMMA EmptyConsistent ==
    ASSUME NEW N \in Nat \ {0}, NEW b
    PROVE  FifoConsistent(EmptyFifo(N, b), N) /\ EmptyFifo(N, b).count = 0
BY DEF FifoConsistent, EmptyFifo, FifoSlot

\* What a step of an API call does to the calls under way.
LEMMA CallChanges ==
    ASSUME PtxTypeOK, NEW c \in Contexts, NEW x, ptx_call' = [ptx_call EXCEPT ![c] = x]
    PROVE  ptx_call'[c] = x /\ \A d \in Contexts : d # c => ptx_call'[d] = ptx_call[d]
BY DEF PtxTypeOK

(* An application whose calls leave the ring buffers alone between the     *)
(* test of another of its calls and the locked part: only one context      *)
(* writes, a thread that reads is the only one that takes from the RX      *)
(* FIFO, and esb_pop_tx, which makes a gap, is not called.                 *)
NoPop == \A c \in Contexts : <<c, "pop_tx">> \notin PtxCalls
Writes(c) == <<c, "write">> \in PtxCalls \/ <<c, "write_idle">> \in PtxCalls
PtxQueueUse ==
    /\ ~(Writes("thread") /\ Writes("evt"))
    /\ <<"thread", "read">> \in PtxCalls =>
         <<"evt", "read">> \notin PtxCalls /\ <<"evt", "flush_rx">> \notin PtxCalls
    /\ NoPop

(* The rings are consistent, and what an API call tested before the lock   *)
(* still holds: there is room for its payload, there is one to read.       *)
RingInv ==
    /\ FifoConsistent(tx_fifo, TxSize)
    /\ FifoConsistent(ptx_rx_fifo, PtxRxSize)
    /\ ptx_evt.pc # "run" => ptx_call["evt"] = NoCall
    /\ \A c \in Contexts :
         /\ ptx_call[c].step = "enqueue" => Writes(c) /\ tx_fifo.count < TxSize
         /\ ptx_call[c].step = "read" => <<c, "read">> \in PtxCalls /\ ptx_rx_fifo.count > 0
         /\ ptx_call[c].step # "pop"

\* The rings are consistent at start up.
LEMMA RingInit == PtxInit => RingInv
<1> SUFFICES ASSUME PtxInit PROVE RingInv OBVIOUS
<1>1. FifoConsistent(tx_fifo, TxSize) /\ FifoConsistent(ptx_rx_fifo, PtxRxSize)
  BY EmptyConsistent, PtxAssumption DEF PtxInit
<1>2. \A c \in Contexts : ptx_call[c] = NoCall
  BY DEF PtxInit
<1> QED BY <1>1, <1>2 DEF RingInv, NoCall, Contexts

\* An API call in one context leaves the rings, and what a call of the other
\* context relies on, as they must be.
LEMMA RingApi ==
    ASSUME PtxQueueUse, PtxTypeOK, RingInv, NEW c \in Contexts, PtxApi(c)
    PROVE  RingInv'
<1> USE DEF ptxQueues, ptxRadio, ptxEvents, ptxLogs
<1>0. \A d \in Contexts : d # c => (PtxRuns(c) => ~PtxRuns(d))
  BY DEF PtxRuns, Contexts
<1>1. ptx_evt' = ptx_evt
  BY Zenon DEF PtxApi, PtxWriteCheck, PtxWriteEnqueue, PtxWriteStart, esb_start_tx,
     PtxReadCheck, PtxReadLocked, PtxFlushTx, PtxFlushRx, PtxPopCheck, PtxPopLocked,
     esb_reuse_pid, esb_set_retransmit_count
<1>2. PtxRuns(c)
  BY Zenon DEF PtxApi, PtxWriteCheck, PtxWriteEnqueue, PtxWriteStart, esb_start_tx,
     PtxReadCheck, PtxReadLocked, PtxFlushTx, PtxFlushRx, PtxPopCheck, PtxPopLocked,
     esb_reuse_pid, esb_set_retransmit_count, PtxCalling, PtxResumes
<1>3. c = "thread" => ptx_call["evt"] = NoCall
  BY <1>2 DEF PtxRuns, RingInv
<1>4. c = "evt" => ptx_evt.pc = "run"
  BY <1>2 DEF PtxRuns
<1>5. TxSize \in Nat \ {0} /\ TxSize + 2 < UintMod /\ PtxRxSize \in Nat \ {0} /\ PtxRxSize + 2 < UintMod
  BY PtxAssumption
<1>6. tx_fifo.count \in Nat /\ ptx_rx_fifo.count \in Nat
  BY BaseAssumption DEF PtxTypeOK, FifoType
<1>7. CASE PtxWriteCheck(c)
  <2>1. PICK p \in Pipes, n \in NoackChoices :
          ptx_call' = [ptx_call EXCEPT ![c] = [step |-> "enqueue", pipe |-> p, noack |-> n]]
    BY <1>7 DEF PtxWriteCheck
  <2>2. /\ ptx_call'[c].step = "enqueue"
        /\ \A d \in Contexts : d # c => ptx_call'[d] = ptx_call[d]
    <3>1. PICK w : w = [step |-> "enqueue", pipe |-> p, noack |-> n]
      OBVIOUS
    <3>2. ptx_call'[c] = w /\ \A d \in Contexts : d # c => ptx_call'[d] = ptx_call[d]
      BY <2>1, <3>1, CallChanges
    <3> QED BY <3>1, <3>2
  <2>3. Writes(c) /\ tx_fifo.count < TxSize /\ tx_fifo' = tx_fifo /\ ptx_rx_fifo' = ptx_rx_fifo
    BY <1>7 DEF PtxWriteCheck, PtxCalling, Writes
  <2> QED BY <1>1, <1>3, <1>4, <2>2, <2>3 DEF RingInv, Contexts
<1>8. CASE PtxWriteEnqueue(c)
  <2>1. PICK p : tx_fifo' = FifoPush(tx_fifo, TxSize, p)
    BY <1>8 DEF PtxWriteEnqueue
  <2>2. ptx_call[c].step = "enqueue" /\ ptx_rx_fifo' = ptx_rx_fifo
    BY <1>8 DEF PtxWriteEnqueue, PtxResumes
  <2>3. FifoConsistent(tx_fifo', TxSize)
    BY <1>5, <2>1, <2>2, PushQueues DEF RingInv, PtxTypeOK
  <2>4. ptx_call' = [ptx_call EXCEPT ![c] = [step |-> "start"]]
    BY <1>8 DEF PtxWriteEnqueue
  <2>5. /\ ptx_call'[c] = [step |-> "start"]
        /\ \A d \in Contexts : d # c => ptx_call'[d] = ptx_call[d]
    BY <2>4, CallChanges
  <2>6. \A d \in Contexts : d # c => ptx_call[d].step # "enqueue"
    BY <2>2 DEF RingInv, PtxQueueUse, Contexts
  <2> QED BY <1>1, <1>3, <1>4, <2>2, <2>3, <2>5, <2>6 DEF RingInv, Contexts
<1>9. CASE PtxWriteStart(c)
  <2>1. ptx_call' = [ptx_call EXCEPT ![c] = NoCall] /\ tx_fifo' = tx_fifo /\ ptx_rx_fifo' = ptx_rx_fifo
    BY <1>9 DEF PtxWriteStart
  <2>2. ptx_call'[c] = NoCall /\ \A d \in Contexts : d # c => ptx_call'[d] = ptx_call[d]
    BY <2>1, CallChanges
  <2> QED BY <1>1, <1>3, <1>4, <2>1, <2>2 DEF RingInv, Contexts, NoCall
<1>10. CASE PtxReadCheck(c)
  <2>1. /\ ptx_call' = [ptx_call EXCEPT ![c] = [step |-> "read"]]
        /\ tx_fifo' = tx_fifo /\ ptx_rx_fifo' = ptx_rx_fifo
        /\ <<c, "read">> \in PtxCalls /\ ptx_rx_fifo.count # 0
    BY <1>10 DEF PtxReadCheck, PtxCalling
  <2>2. /\ ptx_call'[c] = [step |-> "read"]
        /\ \A d \in Contexts : d # c => ptx_call'[d] = ptx_call[d]
    BY <2>1, CallChanges
  <2> QED BY <1>1, <1>3, <1>4, <1>6, <2>1, <2>2 DEF RingInv, Contexts
<1>11. CASE PtxReadLocked(c)
  <2>1. /\ ptx_call' = [ptx_call EXCEPT ![c] = NoCall] /\ tx_fifo' = tx_fifo
        /\ ptx_rx_fifo' = FifoDrop(ptx_rx_fifo, PtxRxSize) /\ ptx_call[c].step = "read"
    BY <1>11 DEF PtxReadLocked, PtxResumes
  <2>2. ptx_call'[c] = NoCall /\ \A d \in Contexts : d # c => ptx_call'[d] = ptx_call[d]
    BY <2>1, CallChanges
  <2>3. FifoConsistent(ptx_rx_fifo', PtxRxSize)
    BY <1>5, <2>1, DropDequeues DEF RingInv, PtxTypeOK
  <2>4. \A d \in Contexts : d # c => ptx_call[d].step # "read"
    BY <2>1 DEF RingInv, PtxQueueUse, Contexts
  <2> QED BY <1>1, <1>3, <1>4, <2>1, <2>2, <2>3, <2>4 DEF RingInv, Contexts, NoCall
<1>12. CASE PtxFlushTx(c)
  <2>1. tx_fifo' = FifoReset(tx_fifo) /\ ptx_rx_fifo' = ptx_rx_fifo /\ ptx_call' = ptx_call
    BY <1>12 DEF PtxFlushTx
  <2>2. FifoConsistent(tx_fifo', TxSize) /\ tx_fifo'.count = 0
    BY <1>5, <2>1, ResetConsistent
  <2> QED BY <1>1, <1>5, <2>1, <2>2 DEF RingInv
<1>13. CASE PtxFlushRx(c)
  <2>1. /\ ptx_rx_fifo' = FifoReset(ptx_rx_fifo) /\ tx_fifo' = tx_fifo /\ ptx_call' = ptx_call
        /\ <<c, "flush_rx">> \in PtxCalls /\ ptx_call[c] = NoCall
    BY <1>13 DEF PtxFlushRx, PtxCalling
  <2>2. FifoConsistent(ptx_rx_fifo', PtxRxSize)
    BY <1>5, <2>1, ResetConsistent
  <2>3. \A d \in Contexts : ptx_call[d].step # "read"
    BY <1>3, <2>1 DEF RingInv, PtxQueueUse, Contexts, NoCall
  <2> QED BY <1>1, <2>1, <2>2, <2>3 DEF RingInv
<1>14. CASE PtxPopCheck(c)
  BY <1>14 DEF PtxPopCheck, PtxCalling, PtxQueueUse, NoPop
<1>15. CASE PtxPopLocked(c)
  BY <1>15 DEF PtxPopLocked, PtxResumes, RingInv
<1>16. CASE esb_start_tx(c) \/ esb_reuse_pid(c) \/ esb_set_retransmit_count(c)
  <2>1. tx_fifo' = tx_fifo /\ ptx_rx_fifo' = ptx_rx_fifo /\ ptx_call' = ptx_call
    BY <1>16, Zenon DEF esb_start_tx, esb_reuse_pid, esb_set_retransmit_count
  <2> QED BY <1>1, <2>1 DEF RingInv
<1> QED BY <1>7, <1>8, <1>9, <1>10, <1>11, <1>12, <1>13, <1>14, <1>15, <1>16 DEF PtxApi

\* The same for every step that does not touch the air.
LEMMA RingLocal ==
    ASSUME PtxQueueUse, PtxTypeOK, RingInv, PtxLocal
    PROVE  RingInv'
<1> USE DEF ptxQueues, ptxRadio, ptxLogs
<1>1. CASE \E c \in Contexts : PtxApi(c)
  BY <1>1, RingApi
<1>2. CASE PtxReinit
  <2>1. /\ ptx_rx_fifo' = FifoReset(ptx_rx_fifo) /\ tx_fifo' = FifoReset(tx_fifo)
        /\ ptx_call' = ptx_call /\ ptx_evt' = ptx_evt
        /\ ptx_call["thread"] = NoCall /\ ptx_evt.pc = "idle"
    BY <1>2 DEF PtxReinit, PtxCalling, PtxRuns
  <2>2. FifoConsistent(tx_fifo', TxSize) /\ FifoConsistent(ptx_rx_fifo', PtxRxSize)
    BY <2>1, ResetConsistent, PtxAssumption
  <2>3. \A c \in Contexts : ptx_call[c] = NoCall
    BY <2>1 DEF RingInv, Contexts
  <2> QED BY <2>1, <2>2, <2>3 DEF RingInv, NoCall
<1>3. CASE PtxEvtEnter \/ PtxEvtFetch \/ PtxEvtReturn
  <2>1. UNCHANGED <<tx_fifo, ptx_rx_fifo, ptx_call>>
    BY <1>3, Zenon DEF PtxEvtEnter, PtxEvtFetch, PtxEvtReturn
  <2>2. ptx_evt'.pc # "run" => ptx_call["evt"] = NoCall
    BY <1>3 DEF PtxEvtEnter, PtxEvtFetch, PtxEvtReturn, RingInv
  <2> QED BY <2>1, <2>2 DEF RingInv
<1> QED BY <1>1, <1>2, <1>3 DEF PtxLocal

\* tx_fifo_remove_last never makes the count wrap.
LEMMA RemoveLastQueue ==
    ASSUME PtxTypeOK, FifoConsistent(tx_fifo, TxSize)
    PROVE  /\ FifoConsistent(RemoveLast, TxSize)
           /\ RemoveLast.count = IF tx_fifo.count = 0 THEN 0 ELSE tx_fifo.count - 1
           /\ RemoveLast.count <= tx_fifo.count
           /\ \A i \in 0 .. tx_fifo.count - 2 :
                FifoAt(RemoveLast, TxSize, i) = FifoAt(tx_fifo, TxSize, i + 1)
<1>1. tx_fifo \in FifoType(TxSize, Payload) /\ tx_fifo.count \in Nat
  BY BaseAssumption DEF PtxTypeOK, FifoType
<1>2. CASE tx_fifo.count = 0
  BY <1>1, <1>2 DEF RemoveLast
<1>3. CASE tx_fifo.count # 0
  BY <1>1, <1>3, DropDequeues, PtxAssumption DEF RemoveLast
<1> QED BY <1>2, <1>3

\* The radio's steps keep the rings consistent, whatever calls are under way.
LEMMA RingRadio ==
    ASSUME PtxTypeOK, RingInv, NEW ack, ack.pl \subseteq Nat,
           \/ on_radio_disabled_tx_noack \/ on_radio_disabled_tx
           \/ AckReceived(ack) \/ AckMissed
    PROVE  RingInv'
<1> USE DEF ptxQueues, ptxEvents, ptxLogs
<1>1. UNCHANGED <<ptx_call, ptx_evt>>
  BY Zenon DEF on_radio_disabled_tx_noack, FinishNoack, on_radio_disabled_tx, AckReceived, AckMissed
<1>2. tx_fifo' \in {tx_fifo, RemoveLast}
  BY Zenon DEF on_radio_disabled_tx_noack, FinishNoack, on_radio_disabled_tx, AckReceived, AckMissed
<1>3. tx_fifo.count \in Nat /\ ptx_rx_fifo.count \in Nat
  BY BaseAssumption DEF PtxTypeOK, FifoType
<1>4. FifoConsistent(tx_fifo', TxSize) /\ tx_fifo'.count <= tx_fifo.count
  BY <1>2, <1>3, RemoveLastQueue DEF RingInv
<1>5. \/ ptx_rx_fifo' = ptx_rx_fifo
      \/ /\ ptx_rx_fifo.count < PtxRxSize
         /\ \E a : ptx_rx_fifo' = FifoPush(ptx_rx_fifo, PtxRxSize, a)
  <2>1. CASE ~AckReceived(ack)
    BY <2>1, Zenon DEF on_radio_disabled_tx_noack, FinishNoack, on_radio_disabled_tx, AckMissed
  <2>2. CASE AckReceived(ack)
    BY <2>2, Zenon DEF AckReceived, PtxReceive
  <2> QED BY <2>1, <2>2
<1>6. FifoConsistent(ptx_rx_fifo', PtxRxSize) /\ ptx_rx_fifo'.count >= ptx_rx_fifo.count
  BY <1>3, <1>5, PushQueues, PtxAssumption DEF RingInv, PtxTypeOK
<1>7. RemoveLast.count \in Nat
  BY RemoveLastType, BaseAssumption DEF FifoType
<1>8. ASSUME NEW c \in Contexts, ptx_call[c].step = "enqueue" PROVE tx_fifo'.count < TxSize
  <2>1. tx_fifo.count < TxSize
    BY <1>8 DEF RingInv
  <2> QED BY <1>2, <1>3, <1>4, <1>7, <2>1, PtxAssumption
<1>9. ASSUME NEW c \in Contexts, ptx_call[c].step = "read" PROVE ptx_rx_fifo'.count > 0
  <2>1. ptx_rx_fifo'.count = ptx_rx_fifo.count \/ ptx_rx_fifo'.count = ptx_rx_fifo.count + 1
    BY <1>5, PushQueues, PtxAssumption DEF RingInv, PtxTypeOK
  <2>2. ptx_rx_fifo.count > 0
    BY <1>9 DEF RingInv
  <2> QED BY <1>3, <2>1, <2>2
<1> QED BY <1>1, <1>4, <1>6, <1>8, <1>9 DEF RingInv

\* An answer of the air that AnyAck allows.
LEMMA AnyAckIsAck ==
    ASSUME AnyAck
    PROVE  \E ack : ack.pl \subseteq Nat /\ AckReceived(ack)
<1>1. PICK n \in 0 .. MaxAckWrites :
        AckReceived([pipe |-> tx_pdu.pipe, pid |-> tx_pdu.pid, pl |-> IF n = 0 THEN {} ELSE {n}])
  BY DEF AnyAck
<1> DEFINE ack == [pipe |-> tx_pdu.pipe, pid |-> tx_pdu.pid, pl |-> IF n = 0 THEN {} ELSE {n}]
<1>2. ack.pl \subseteq Nat
  BY PtxAssumption
<1>3. AckReceived(ack)
  BY <1>1
<1> HIDE DEF ack
<1> QED BY <1>2, <1>3

(* Both ring buffers of the transmitter stay consistent for every size, if *)
(* the application's calls do not take from a ring, or add to it, between  *)
(* the unlocked test and the locked part of another call.                  *)
THEOREM PtxRingsConsistent ==
    ASSUME PtxQueueUse
    PROVE  PtxSpec => []PtxFifosConsistent
<1>1. PtxInit => RingInv
  BY RingInit
<1>2. PtxTypeOK /\ RingInv /\ [PtxNext]_ptxVars => RingInv'
  <2> SUFFICES ASSUME PtxTypeOK, RingInv, [PtxNext]_ptxVars PROVE RingInv'
    OBVIOUS
  <2>1. CASE PtxLocal
    BY <2>1, RingLocal
  <2>2. CASE on_radio_disabled_tx_noack \/ on_radio_disabled_tx \/ AckMissed
    <3>1. PICK ack : ack = [pl |-> {}]
      OBVIOUS
    <3>2. ack.pl \subseteq Nat
      BY <3>1
    <3> QED BY <2>2, <3>2, RingRadio
  <2>3. CASE AnyAck
    BY <2>3, AnyAckIsAck, RingRadio
  <2>4. CASE UNCHANGED ptxVars
    BY <2>4 DEF ptxVars, ptxQueues, ptxEvents, RingInv
  <2> QED BY <2>1, <2>2, <2>3, <2>4 DEF PtxNext, PtxRadioStep
<1>3. RingInv => PtxFifosConsistent
  BY DEF RingInv, PtxFifosConsistent
<1> QED BY <1>1, <1>2, <1>3, PtxTypeCorrect, PTL DEF PtxSpec

-----------------------------------------------------------------------------
(* For AutoModeDrains: the radio rests in PTX_TXIDLE only in the           *)
(* configuration in which esb_write_payload starts it from there, and no   *)
(* esb_pop_tx is under way whose decrement could wrap an empty count.      *)
DrainInv ==
    /\ AutoModeDrains
    /\ ptx_state = "PTX_TXIDLE" => NeverDisableTx
    /\ \A c \in Contexts : ptx_call[c].step # "pop"

\* A transaction that was started is not at rest.
LEMMA StartDrains ==
    ASSUME NEW f, StartTx(f), \A c \in Contexts : ptx_call'[c].step # "pop"
    PROVE  DrainInv'
<1>1. ptx_state' \in {"PTX_TX", "PTX_TX_ACK"}
  BY Zenon DEF StartTx
<1> QED BY <1>1 DEF DrainInv, AutoModeDrains

\* An API call leaves no payload behind.
LEMMA DrainApi ==
    ASSUME NoPop, PtxTypeOK, DrainInv, NEW c \in Contexts, PtxApi(c)
    PROVE  DrainInv'
<1> USE DEF ptxQueues, ptxRadio, ptxEvents, ptxLogs
<1>1. CASE PtxWriteCheck(c)
  <2>1. PICK p \in Pipes, n \in NoackChoices :
          ptx_call' = [ptx_call EXCEPT ![c] = [step |-> "enqueue", pipe |-> p, noack |-> n]]
    BY <1>1 DEF PtxWriteCheck
  <2>2. PICK w : w = [step |-> "enqueue", pipe |-> p, noack |-> n]
    OBVIOUS
  <2>3. ptx_call'[c] = w /\ \A d \in Contexts : d # c => ptx_call'[d] = ptx_call[d]
    BY <2>1, <2>2, CallChanges
  <2>4. ptx_call[c] = NoCall /\ UNCHANGED <<ptx_state, tx_fifo, gave_up>>
    BY <1>1 DEF PtxWriteCheck, PtxCalling
  <2>5. ptx_call[c].step = "none" /\ ptx_call'[c].step = "enqueue"
    BY <2>2, <2>3, <2>4 DEF NoCall
  <2> QED BY <2>3, <2>4, <2>5 DEF DrainInv, AutoModeDrains
<1>2. CASE PtxWriteEnqueue(c)
  <2>1. ptx_call' = [ptx_call EXCEPT ![c] = [step |-> "start"]] /\ ptx_state' = ptx_state
    BY <1>2 DEF PtxWriteEnqueue
  <2>2. /\ ptx_call'[c] = [step |-> "start"]
        /\ \A d \in Contexts : d # c => ptx_call'[d] = ptx_call[d]
    BY <2>1, CallChanges
  <2>3. ptx_call'[c].step = "start"
    BY <2>2
  <2> QED BY <2>1, <2>2, <2>3 DEF DrainInv, AutoModeDrains
<1>3. CASE PtxWriteStart(c)
  <2>1. ptx_call' = [ptx_call EXCEPT ![c] = NoCall] /\ UNCHANGED tx_fifo
    BY <1>3 DEF PtxWriteStart
  <2>2. ptx_call'[c] = NoCall /\ \A d \in Contexts : d # c => ptx_call'[d] = ptx_call[d]
    BY <2>1, CallChanges
  <2>3. \A d \in Contexts : ptx_call'[d].step # "pop"
    BY <2>2 DEF DrainInv, NoCall
  <2>4. CASE StartTx(tx_fifo)
    BY <2>3, <2>4, StartDrains
  <2>5. CASE ~StartTx(tx_fifo)
    <3>1. /\ ~(TxMode = "AUTO" /\ (ptx_state = "IDLE" \/ (NeverDisableTx /\ ptx_state = "PTX_TXIDLE")))
          /\ UNCHANGED ptxRadio
      BY <1>3, <2>5 DEF PtxWriteStart
    <3> QED BY <2>3, <3>1 DEF DrainInv, AutoModeDrains
  <2> QED BY <2>4, <2>5
<1>4. CASE esb_start_tx(c)
  <2>1. StartTx(tx_fifo) /\ ptx_call' = ptx_call
    BY <1>4 DEF esb_start_tx
  <2> QED BY <2>1, StartDrains DEF DrainInv
<1>5. CASE PtxReadCheck(c) \/ PtxReadLocked(c)
  <2>1. PICK x \in {NoCall, [step |-> "read"]} : ptx_call' = [ptx_call EXCEPT ![c] = x]
    BY <1>5 DEF PtxReadCheck, PtxReadLocked
  <2>2. ptx_call'[c] = x /\ \A d \in Contexts : d # c => ptx_call'[d] = ptx_call[d]
    BY <2>1, CallChanges
  <2>3. UNCHANGED <<ptx_state, tx_fifo, gave_up>>
    BY <1>5, Zenon DEF PtxReadCheck, PtxReadLocked
  <2>4. ptx_call[c].step # "start" /\ ptx_call'[c].step \in {"none", "read"}
    BY <1>5, <2>2 DEF PtxReadCheck, PtxReadLocked, PtxCalling, PtxResumes, NoCall
  <2> QED BY <2>2, <2>3, <2>4 DEF DrainInv, AutoModeDrains
<1>6. CASE PtxFlushTx(c)
  <2>1. tx_fifo'.count = 0 /\ UNCHANGED <<ptx_state, ptx_call>>
    BY <1>6 DEF PtxFlushTx, FifoReset
  <2> QED BY <2>1 DEF DrainInv, AutoModeDrains
<1>7. CASE PtxFlushRx(c) \/ esb_reuse_pid(c) \/ esb_set_retransmit_count(c)
  <2>1. UNCHANGED <<ptx_state, ptx_call, tx_fifo, gave_up>>
    BY <1>7, Zenon DEF PtxFlushRx, esb_reuse_pid, esb_set_retransmit_count
  <2> QED BY <2>1 DEF DrainInv, AutoModeDrains
<1>8. CASE PtxPopCheck(c) \/ PtxPopLocked(c)
  BY <1>8 DEF PtxPopCheck, PtxPopLocked, PtxCalling, PtxResumes, NoPop, DrainInv
<1> QED BY <1>1, <1>2, <1>3, <1>4, <1>5, <1>6, <1>7, <1>8 DEF PtxApi

\* Nor does any other step that does not touch the air.
LEMMA DrainLocal ==
    ASSUME NoPop, PtxTypeOK, DrainInv, PtxLocal
    PROVE  DrainInv'
<1> USE DEF ptxQueues, ptxRadio, ptxLogs
<1>1. CASE \E c \in Contexts : PtxApi(c)
  BY <1>1, DrainApi
<1>2. CASE PtxReinit
  <2>1. tx_fifo'.count = 0 /\ UNCHANGED <<ptx_state, ptx_call>>
    BY <1>2 DEF PtxReinit, FifoReset
  <2> QED BY <2>1 DEF DrainInv, AutoModeDrains
<1>3. CASE PtxEvtEnter \/ PtxEvtFetch \/ PtxEvtReturn
  <2>1. UNCHANGED <<ptx_state, ptx_call, tx_fifo, gave_up>>
    BY <1>3, Zenon DEF PtxEvtEnter, PtxEvtFetch, PtxEvtReturn
  <2> QED BY <2>1 DEF DrainInv, AutoModeDrains
<1> QED BY <1>1, <1>2, <1>3 DEF PtxLocal

\* The radio goes on with the next payload, or was given up.
LEMMA DrainRadio ==
    ASSUME DrainInv, NEW ack,
           \/ on_radio_disabled_tx_noack \/ on_radio_disabled_tx
           \/ AckReceived(ack) \/ AckMissed
    PROVE  DrainInv'
<1> USE DEF ptxQueues, ptxEvents, ptxLogs
<1>1. UNCHANGED ptx_call
  BY Zenon DEF on_radio_disabled_tx_noack, FinishNoack, on_radio_disabled_tx, AckReceived, AckMissed
<1>2. \A c \in Contexts : ptx_call'[c].step # "pop"
  BY <1>1 DEF DrainInv
<1>3. CASE StartTx(RemoveLast)
  BY <1>2, <1>3, StartDrains
<1>4. CASE on_radio_disabled_tx_noack /\ ~StartTx(RemoveLast)
  <2>1. tx_fifo' = RemoveLast /\ RemoveLast.count = 0
        /\ ptx_state' = (IF NeverDisableTx THEN "PTX_TXIDLE" ELSE "IDLE")
    BY <1>4, Zenon DEF on_radio_disabled_tx_noack, FinishNoack
  <2> QED BY <1>2, <2>1 DEF DrainInv, AutoModeDrains
<1>5. CASE on_radio_disabled_tx
  <2>1. ptx_state' = "PTX_RX_ACK"
    BY <1>5 DEF on_radio_disabled_tx
  <2> QED BY <1>2, <2>1 DEF DrainInv, AutoModeDrains
<1>6. CASE AckReceived(ack) /\ ~StartTx(RemoveLast)
  <2>1. /\ tx_fifo' = RemoveLast /\ (RemoveLast.count = 0 \/ TxMode = "MANUAL")
        /\ ptx_state' = "IDLE"
    BY <1>6, Zenon DEF AckReceived
  <2> QED BY <1>2, <2>1 DEF DrainInv, AutoModeDrains
<1>7. CASE AckMissed
  <2>1. \/ ptx_state' = "IDLE" /\ gave_up'
        \/ ptx_state' = "PTX_TX_ACK"
    BY <1>7, Zenon DEF AckMissed
  <2> QED BY <1>2, <2>1 DEF DrainInv, AutoModeDrains
<1> QED BY <1>3, <1>4, <1>5, <1>6, <1>7

(* In automatic mode no queued payload is left behind, for any FIFO size   *)
(* and whatever the application calls, except esb_pop_tx, whose decrement  *)
(* outside the test may wrap the count of an empty FIFO: the interleavings *)
(* of esb_write_payload's unlocked start with the radio interrupt included.*)
THEOREM PtxAutoModeDrains ==
    ASSUME NoPop
    PROVE  PtxSpec => []AutoModeDrains
<1>1. PtxInit => DrainInv
  <2> SUFFICES ASSUME PtxInit PROVE DrainInv
    OBVIOUS
  <2>1. \A c \in Contexts : ptx_call[c] = NoCall
    BY DEF PtxInit
  <2>2. tx_fifo.count = 0 /\ ptx_state = "IDLE"
    BY DEF PtxInit, EmptyFifo
  <2> QED BY <2>1, <2>2 DEF DrainInv, AutoModeDrains, NoCall
<1>2. PtxTypeOK /\ DrainInv /\ [PtxNext]_ptxVars => DrainInv'
  <2> SUFFICES ASSUME PtxTypeOK, DrainInv, [PtxNext]_ptxVars PROVE DrainInv'
    OBVIOUS
  <2>1. CASE PtxLocal
    BY <2>1, DrainLocal
  <2>2. CASE on_radio_disabled_tx_noack \/ on_radio_disabled_tx \/ AckMissed
    BY <2>2, DrainRadio
  <2>3. CASE AnyAck
    BY <2>3, AnyAckIsAck, DrainRadio
  <2>4. CASE UNCHANGED ptxVars
    BY <2>4 DEF ptxVars, ptxQueues, ptxRadio, DrainInv, AutoModeDrains
  <2> QED BY <2>1, <2>2, <2>3, <2>4 DEF PtxNext, PtxRadioStep
<1>3. DrainInv => AutoModeDrains
  BY DEF DrainInv
<1> QED BY <1>1, <1>2, <1>3, PtxTypeCorrect, PTL DEF PtxSpec

-----------------------------------------------------------------------------
(* An application that, in automatic mode, writes when esb_is_idle(), and  *)
(* one that also leaves the TX FIFO to the driver.                         *)
PtxIdleUse == TxMode = "AUTO" => \A c \in Contexts : <<c, "write">> \notin PtxCalls
PtxSendUse == PtxIdleUse /\ \A c \in Contexts : <<c, "flush_tx">> \notin PtxCalls

(* In automatic mode nothing happens between the parts of                  *)
(* esb_write_payload, so it starts what it has queued.                     *)
AutoInv ==
    TxMode = "AUTO" => \A c \in Contexts :
         /\ ptx_call[c].step \in {"enqueue", "start"} => ptx_state = "IDLE" /\ PtxRuns(c)
         /\ ptx_call[c].step = "start" => tx_fifo.count > 0

SendInv == SendsQueuedPayload /\ AutoInv

\* The first payload in the queue is the one at `front`.
LEMMA FrontIsFirst ==
    ASSUME NEW N \in Nat \ {0}, NEW S, NEW f \in FifoType(N, S)
    PROVE  FifoAt(f, N, 0) = f.payload[f.front]
BY DEF FifoType, FifoAt, FifoSlot

\* A transaction that is started on a FIFO that holds something sends its front.
LEMMA StartSends ==
    ASSUME StartTx(tx_fifo'), tx_fifo'.count > 0
    PROVE  SendsQueuedPayload'
<1>1. tx_pdu' = tx_fifo'.payload[tx_fifo'.front]
  BY DEF StartTx
<1> QED BY <1>1 DEF SendsQueuedPayload

\* What esb_write_payload queues goes behind what is queued already.
LEMMA WriteQueues ==
    ASSUME PtxTypeOK, RingInv, NEW c \in Contexts, PtxWriteEnqueue(c)
    PROVE  /\ tx_fifo.count \in Nat /\ tx_fifo'.count = tx_fifo.count + 1
           /\ tx_fifo'.front = tx_fifo.front
           /\ tx_fifo.count > 0 => tx_fifo'.payload[tx_fifo'.front] = tx_fifo.payload[tx_fifo.front]
<1>1. /\ tx_fifo \in FifoType(TxSize, Payload) /\ tx_fifo.count \in Nat
      /\ TxSize \in Nat \ {0} /\ TxSize + 2 < UintMod
  BY BaseAssumption, PtxAssumption DEF PtxTypeOK, FifoType
<1>2. PICK p : tx_fifo' = FifoPush(tx_fifo, TxSize, p)
  BY DEF PtxWriteEnqueue
<1>3. tx_fifo.count < TxSize /\ FifoConsistent(tx_fifo, TxSize)
  BY DEF RingInv, PtxWriteEnqueue, PtxResumes
<1>4. /\ tx_fifo'.count = tx_fifo.count + 1 /\ tx_fifo'.front = tx_fifo.front
      /\ \A i \in 0 .. tx_fifo.count - 1 : FifoAt(tx_fifo', TxSize, i) = FifoAt(tx_fifo, TxSize, i)
  <2>1. tx_fifo'.front = tx_fifo.front
    BY <1>2 DEF FifoPush
  <2>2. /\ tx_fifo'.count = tx_fifo.count + 1
        /\ \A i \in 0 .. tx_fifo.count - 1 : FifoAt(tx_fifo', TxSize, i) = FifoAt(tx_fifo, TxSize, i)
    BY <1>1, <1>2, <1>3, PushQueues
  <2> QED BY <2>1, <2>2
<1>5. tx_fifo.front \in 0 .. TxSize - 1
  BY <1>1 DEF FifoType
<1>6. FifoAt(tx_fifo', TxSize, 0) = tx_fifo'.payload[tx_fifo'.front]
  BY <1>1, <1>4, <1>5 DEF FifoAt, FifoSlot
<1>7. FifoAt(tx_fifo, TxSize, 0) = tx_fifo.payload[tx_fifo.front]
  BY <1>1, FrontIsFirst
<1> QED BY <1>1, <1>4, <1>6, <1>7

\* No call comes between the parts of an automatic esb_write_payload.
LEMMA AutoApi ==
    ASSUME PtxIdleUse, NoPop, PtxTypeOK, RingInv, AutoInv, NEW c \in Contexts, PtxApi(c)
    PROVE  AutoInv'
<1> USE DEF ptxQueues, ptxRadio, ptxEvents, ptxLogs
<1> SUFFICES ASSUME TxMode = "AUTO" PROVE AutoInv'
  BY DEF AutoInv
<1>1. UNCHANGED <<ptx_evt, ptx_pending>>
  BY Zenon DEF PtxApi, PtxWriteCheck, PtxWriteEnqueue, PtxWriteStart, esb_start_tx,
     PtxReadCheck, PtxReadLocked, PtxFlushTx, PtxFlushRx, PtxPopCheck, PtxPopLocked,
     esb_reuse_pid, esb_set_retransmit_count
<1>2. PtxRuns(c)
  BY Zenon DEF PtxApi, PtxWriteCheck, PtxWriteEnqueue, PtxWriteStart, esb_start_tx,
     PtxReadCheck, PtxReadLocked, PtxFlushTx, PtxFlushRx, PtxPopCheck, PtxPopLocked,
     esb_reuse_pid, esb_set_retransmit_count, PtxCalling, PtxResumes
<1>3. PtxRuns(c)'
  BY <1>1, <1>2 DEF PtxRuns
<1>4. ASSUME NEW d \in Contexts, d # c PROVE ptx_call[d].step \notin {"enqueue", "start"}
  <2>1. ~PtxRuns(d)
    BY <1>2, <1>4 DEF PtxRuns, Contexts
  <2> QED BY <2>1 DEF AutoInv
<1>5. ASSUME NEW x, ptx_call' = [ptx_call EXCEPT ![c] = x],
             x.step \in {"enqueue", "start"} => ptx_state' = "IDLE",
             x.step = "start" => tx_fifo'.count > 0
      PROVE  AutoInv'
  <2>1. ptx_call'[c] = x /\ \A d \in Contexts : d # c => ptx_call'[d] = ptx_call[d]
    BY <1>5, CallChanges
  <2> QED BY <1>3, <1>4, <1>5, <2>1 DEF AutoInv
<1>6. CASE PtxWriteCheck(c)
  <2>1. PICK p \in Pipes, n \in NoackChoices :
          ptx_call' = [ptx_call EXCEPT ![c] = [step |-> "enqueue", pipe |-> p, noack |-> n]]
    BY <1>6 DEF PtxWriteCheck
  <2>2. PICK w : w = [step |-> "enqueue", pipe |-> p, noack |-> n]
    OBVIOUS
  <2>3. w.step = "enqueue" /\ ptx_state' = "IDLE"
    BY <1>6, <2>2 DEF PtxWriteCheck, PtxCalling, PtxIdleUse
  <2> QED BY <1>5, <2>1, <2>2, <2>3
<1>7. CASE PtxWriteEnqueue(c)
  <2>1. PICK w : w = [step |-> "start"]
    OBVIOUS
  <2>2. ptx_call' = [ptx_call EXCEPT ![c] = w] /\ UNCHANGED ptx_state /\ ptx_call[c].step = "enqueue"
    BY <1>7, <2>1 DEF PtxWriteEnqueue, PtxResumes
  <2>3. ptx_state' = "IDLE" /\ tx_fifo'.count > 0
    BY <1>7, <2>2, WriteQueues DEF AutoInv
  <2> QED BY <1>5, <2>2, <2>3
<1>8. CASE PtxWriteStart(c) \/ PtxReadLocked(c)
  <2>1. ptx_call' = [ptx_call EXCEPT ![c] = NoCall]
    BY <1>8 DEF PtxWriteStart, PtxReadLocked
  <2> QED BY <1>5, <2>1 DEF NoCall
<1>9. CASE PtxReadCheck(c)
  <2>1. PICK w : w = [step |-> "read"]
    OBVIOUS
  <2>2. ptx_call' = [ptx_call EXCEPT ![c] = w] /\ w.step = "read"
    BY <1>9, <2>1 DEF PtxReadCheck
  <2> QED BY <1>5, <2>2
<1>10. CASE PtxPopCheck(c) \/ PtxPopLocked(c)
  BY <1>10 DEF PtxPopCheck, PtxPopLocked, PtxCalling, PtxResumes, NoPop, RingInv
<1>11. CASE \/ esb_start_tx(c) \/ PtxFlushTx(c) \/ PtxFlushRx(c) \/ esb_reuse_pid(c)
            \/ esb_set_retransmit_count(c)
  <2>1. UNCHANGED ptx_call /\ ptx_call[c] = NoCall
    BY <1>11, Zenon DEF esb_start_tx, PtxFlushTx, PtxFlushRx, esb_reuse_pid,
       esb_set_retransmit_count, PtxCalling
  <2> QED BY <1>4, <2>1 DEF AutoInv, NoCall
<1> QED BY <1>6, <1>7, <1>8, <1>9, <1>10, <1>11 DEF PtxApi

\* Nor does an interrupt.
LEMMA AutoLocal ==
    ASSUME PtxIdleUse, NoPop, PtxTypeOK, RingInv, AutoInv, PtxLocal
    PROVE  AutoInv'
<1> USE DEF ptxQueues, ptxRadio, ptxLogs
<1>1. CASE \E c \in Contexts : PtxApi(c)
  BY <1>1, AutoApi
<1>2. CASE PtxReinit
  <2>1. UNCHANGED ptx_call /\ ptx_call["thread"] = NoCall /\ ptx_evt.pc = "idle"
    BY <1>2 DEF PtxReinit, PtxCalling, PtxRuns
  <2>2. \A c \in Contexts : ptx_call'[c] = NoCall
    BY <2>1 DEF RingInv, Contexts
  <2> QED BY <2>2 DEF AutoInv, NoCall
<1>3. CASE PtxEvtEnter \/ PtxEvtFetch \/ PtxEvtReturn
  <2>1. UNCHANGED ptx_call
    BY <1>3, Zenon DEF PtxEvtEnter, PtxEvtFetch, PtxEvtReturn
  <2>2. ASSUME TxMode = "AUTO", NEW c \in Contexts PROVE ptx_call[c].step \notin {"enqueue", "start"}
    <3>1. CASE PtxRuns(c)
      <4>1. c = "evt" /\ ptx_call[c] = NoCall
        BY <1>3, <3>1 DEF PtxEvtEnter, PtxEvtFetch, PtxEvtReturn, PtxRuns, Contexts
      <4> QED BY <4>1 DEF NoCall
    <3>2. CASE ~PtxRuns(c)
      BY <2>2, <3>2 DEF AutoInv
    <3> QED BY <3>1, <3>2
  <2> QED BY <2>1, <2>2 DEF AutoInv
<1> QED BY <1>1, <1>2, <1>3 DEF PtxLocal

\* While the radio is at work no esb_write_payload is under way.
LEMMA AutoRadio ==
    ASSUME AutoInv, NEW ack,
           \/ on_radio_disabled_tx_noack \/ on_radio_disabled_tx
           \/ AckReceived(ack) \/ AckMissed
    PROVE  AutoInv'
<1> USE DEF ptxQueues, ptxEvents, ptxLogs
<1>1. ptx_state # "IDLE"
  BY DEF on_radio_disabled_tx_noack, on_radio_disabled_tx, AckReceived, AckMissed
<1>2. UNCHANGED ptx_call
  BY Zenon DEF on_radio_disabled_tx_noack, FinishNoack, on_radio_disabled_tx, AckReceived, AckMissed
<1> QED BY <1>1, <1>2 DEF AutoInv

\* A transaction is started only on a FIFO that holds something.
LEMMA StartsQueued ==
    ASSUME PtxTypeOK, AutoInv, NEW c \in Contexts, PtxWriteStart(c) \/ esb_start_tx(c)
    PROVE  /\ UNCHANGED tx_fifo
           /\ (StartTx(tx_fifo) /\ tx_fifo.count > 0 /\ ptx_state \in {"IDLE", "PTX_TXIDLE"})
                \/ UNCHANGED ptxRadio
<1> USE DEF ptxQueues
<1>1. CASE esb_start_tx(c)
  <2>1. tx_fifo.count \in Nat
    BY BaseAssumption DEF PtxTypeOK, FifoType
  <2> QED BY <1>1, <2>1 DEF esb_start_tx
<1>2. CASE PtxWriteStart(c)
  <2>1. ptx_call[c].step = "start" /\ UNCHANGED tx_fifo
    BY <1>2 DEF PtxWriteStart, PtxResumes
  <2>2. TxMode = "AUTO" => ptx_state = "IDLE" /\ tx_fifo.count > 0
    BY <2>1 DEF AutoInv
  <2>3. CASE TxMode = "AUTO"
    BY <1>2, <2>1, <2>2, <2>3 DEF PtxWriteStart
  <2>4. CASE TxMode # "AUTO"
    BY <1>2, <2>1, <2>4 DEF PtxWriteStart
  <2> QED BY <2>3, <2>4
<1> QED BY <1>1, <1>2

\* The radio goes on with the payload behind the one it has sent.
LEMMA RadioGoesOn ==
    ASSUME PtxTypeOK, NEW ack, on_radio_disabled_tx_noack \/ AckReceived(ack)
    PROVE  /\ tx_fifo' = RemoveLast /\ RemoveLast.count \in Nat /\ UNCHANGED written
           /\ \/ RemoveLast.count > 0 /\ StartTx(RemoveLast)
              \/ UNCHANGED tx_pdu /\ ptx_state' \in {"IDLE", "PTX_TXIDLE"}
<1>1. /\ tx_fifo' = RemoveLast /\ UNCHANGED written
      /\ \/ RemoveLast.count # 0 /\ StartTx(RemoveLast)
         \/ UNCHANGED tx_pdu /\ ptx_state' \in {"IDLE", "PTX_TXIDLE"}
  BY Zenon DEF on_radio_disabled_tx_noack, FinishNoack, AckReceived, ptxLogs
<1>2. RemoveLast.count \in Nat
  BY RemoveLastType, BaseAssumption DEF FifoType
<1> QED BY <1>1, <1>2

\* An API call leaves the payload that is being sent at the front.
LEMMA SendApi ==
    ASSUME PtxSendUse, NoPop, PtxTypeOK, RingInv, SendInv, NEW c \in Contexts, PtxApi(c)
    PROVE  SendInv'
<1> USE DEF ptxQueues, ptxRadio
<1>1. AutoInv'
  BY AutoApi DEF PtxSendUse, SendInv
<1>2. CASE PtxWriteEnqueue(c)
  <2>1. UNCHANGED <<ptx_state, tx_pdu>>
    BY <1>2 DEF PtxWriteEnqueue
  <2>2. SendsQueuedPayload'
    BY <1>2, <2>1, WriteQueues DEF SendInv, SendsQueuedPayload
  <2> QED BY <1>1, <2>2 DEF SendInv
<1>3. CASE PtxWriteStart(c) \/ esb_start_tx(c)
  <2>1. /\ UNCHANGED tx_fifo
        /\ (StartTx(tx_fifo) /\ tx_fifo.count > 0) \/ UNCHANGED <<ptx_state, tx_pdu>>
    BY <1>3, StartsQueued DEF SendInv
  <2>2. SendsQueuedPayload'
    BY <2>1, StartSends DEF SendInv, SendsQueuedPayload
  <2> QED BY <1>1, <2>2 DEF SendInv
<1>4. CASE PtxFlushTx(c) \/ PtxPopCheck(c) \/ PtxPopLocked(c)
  BY <1>4 DEF PtxFlushTx, PtxPopCheck, PtxPopLocked, PtxCalling, PtxResumes, NoPop, PtxSendUse, RingInv
<1>5. CASE \/ PtxWriteCheck(c) \/ PtxReadCheck(c) \/ PtxReadLocked(c) \/ PtxFlushRx(c)
           \/ esb_reuse_pid(c) \/ esb_set_retransmit_count(c)
  <2>1. UNCHANGED <<ptx_state, tx_fifo, tx_pdu>>
    BY <1>5, Zenon DEF PtxWriteCheck, PtxReadCheck, PtxReadLocked, PtxFlushRx, esb_reuse_pid,
       esb_set_retransmit_count
  <2> QED BY <1>1, <2>1 DEF SendInv, SendsQueuedPayload
<1> QED BY <1>2, <1>3, <1>4, <1>5 DEF PtxApi

\* So does every step that does not touch the air.
LEMMA SendLocal ==
    ASSUME PtxSendUse, NoPop, PtxTypeOK, RingInv, SendInv, PtxLocal
    PROVE  SendInv'
<1> USE DEF ptxQueues, ptxRadio
<1>1. CASE \E c \in Contexts : PtxApi(c)
  BY <1>1, SendApi
<1>2. AutoInv'
  BY AutoLocal DEF PtxSendUse, SendInv
<1>3. CASE PtxReinit
  BY <1>2, <1>3 DEF PtxReinit, SendInv, SendsQueuedPayload
<1>4. CASE PtxEvtEnter \/ PtxEvtFetch \/ PtxEvtReturn
  <2>1. UNCHANGED <<ptx_state, tx_fifo, tx_pdu>>
    BY <1>4, Zenon DEF PtxEvtEnter, PtxEvtFetch, PtxEvtReturn
  <2> QED BY <1>2, <2>1 DEF SendInv, SendsQueuedPayload
<1> QED BY <1>1, <1>3, <1>4 DEF PtxLocal

\* The radio goes on with the next payload of the queue.
LEMMA SendRadio ==
    ASSUME PtxTypeOK, RingInv, SendInv, NEW ack,
           \/ on_radio_disabled_tx_noack \/ on_radio_disabled_tx
           \/ AckReceived(ack) \/ AckMissed
    PROVE  SendInv'
<1> USE DEF ptxQueues
<1>1. AutoInv'
  BY AutoRadio DEF SendInv
<1>2. CASE on_radio_disabled_tx \/ AckMissed
  <2>1. UNCHANGED <<tx_fifo, tx_pdu>> /\ ptx_state \in {"PTX_TX_ACK", "PTX_RX_ACK"}
    BY <1>2, Zenon DEF on_radio_disabled_tx, AckMissed
  <2> QED BY <1>1, <2>1 DEF SendInv, SendsQueuedPayload
<1>3. CASE on_radio_disabled_tx_noack \/ AckReceived(ack)
  <2>1. SendsQueuedPayload'
    BY <1>3, RadioGoesOn, StartSends DEF SendsQueuedPayload
  <2> QED BY <1>1, <2>1 DEF SendInv
<1> QED BY <1>2, <1>3

\* At start up nothing is sent and no call is under way.
LEMMA SendInit == PtxInit => SendInv
<1> SUFFICES ASSUME PtxInit PROVE SendInv OBVIOUS
<1>1. ptx_state = "IDLE" /\ \A c \in Contexts : ptx_call[c] = NoCall
  BY DEF PtxInit
<1> QED BY <1>1 DEF SendInv, AutoInv, SendsQueuedPayload, NoCall

(* What the radio sends is the payload at the front of the TX FIFO, for    *)
(* every FIFO size and transmit mode, if the application does not take     *)
(* payloads out of the TX FIFO and, in automatic mode, writes only when    *)
(* esb_is_idle().                                                          *)
THEOREM PtxSendsQueued ==
    ASSUME PtxQueueUse, PtxSendUse
    PROVE  PtxSpec => []SendsQueuedPayload
<1>1. PtxInit => RingInv /\ SendInv
  BY RingInit, SendInit
<1>2. PtxTypeOK /\ RingInv /\ SendInv /\ [PtxNext]_ptxVars => RingInv' /\ SendInv'
  <2> SUFFICES ASSUME PtxTypeOK, RingInv, SendInv, [PtxNext]_ptxVars PROVE RingInv' /\ SendInv'
    OBVIOUS
  <2>1. CASE PtxLocal
    BY <2>1, RingLocal, SendLocal DEF PtxQueueUse
  <2>2. CASE on_radio_disabled_tx_noack \/ on_radio_disabled_tx \/ AckMissed
    <3>1. PICK ack : ack = [pl |-> {}]
      OBVIOUS
    <3>2. ack.pl \subseteq Nat
      BY <3>1
    <3> QED BY <2>2, <3>2, RingRadio, SendRadio
  <2>3. CASE AnyAck
    BY <2>3, AnyAckIsAck, RingRadio, SendRadio
  <2>4. CASE UNCHANGED ptxVars
    BY <2>4 DEF ptxVars, ptxQueues, ptxRadio, ptxEvents, RingInv, SendInv, AutoInv, SendsQueuedPayload, PtxRuns
  <2> QED BY <2>1, <2>2, <2>3, <2>4 DEF PtxNext, PtxRadioStep
<1>3. SendInv => SendsQueuedPayload
  BY DEF SendInv
<1> QED BY <1>1, <1>2, <1>3, PtxTypeCorrect, PTL DEF PtxSpec
=============================================================================
