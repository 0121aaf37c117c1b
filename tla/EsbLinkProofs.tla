--------------------------- MODULE EsbLinkProofs ---------------------------
(***************************************************************************)
(* Theorems about the link (EsbLink): a transmitter and a receiver, and an *)
(* air that loses any packet, for every FIFO size, number of pipes, bound  *)
(* and CRC.                                                                *)
(***************************************************************************)
EXTENDS EsbLink, EsbPtxProofs, FiniteSetTheorems, SequenceTheorems

(* The CRC is a number.                                                    *)
CrcIsNumber == \A pdu \in Payload : Crc(pdu) \in Nat

(* What is on the air is a packet or an acknowledgment.                    *)
AirTypeOK ==
    air \subseteq [dir : {"data"}, pdu : Payload] \cup [dir : {"ack"}, pdu : AckPdu]
LinkTypeOK == PtxTypeOK /\ PrxTypeOK /\ AirTypeOK

\* What the receiver reads as the packet ID is one.
LEMMA RxPidType ==
    ASSUME NEW pdu \in Payload
    PROVE  RxPid(pdu) \in Pids
BY DEF RxPid, Payload, Pids, PID_MAX

\* An ack payload on a list is a number, and so are the rest.
LEMMA ListType ==
    ASSUME PrxTypeOK, NEW pdu \in Payload
    PROVE  /\ ListAfter(pdu) \in Seq(Nat)
           /\ Attached(pdu) \subseteq Nat
           /\ Retires(pdu) => Head(ack_pl[pdu.pipe]) \in Nat
           /\ CountAfter(pdu) \in 0 .. UintMod - 1
<1>1. ack_pl[pdu.pipe] \in Seq(Nat) /\ ack_count \in Nat /\ ack_count < UintMod
  BY BaseAssumption DEF PrxTypeOK, Payload
<1>2. ListAfter(pdu) \in Seq(Nat)
  BY <1>1 DEF ListAfter, Retires
<1>3. Attached(pdu) \subseteq Nat
  BY <1>2 DEF Attached
<1>4. Retires(pdu) => Head(ack_pl[pdu.pipe]) \in Nat
  BY <1>1 DEF Retires
<1>5. CountAfter(pdu) \in 0 .. UintMod - 1
  BY <1>1, BaseAssumption DEF CountAfter, Retires
<1> QED BY <1>2, <1>3, <1>4, <1>5

\* The reception of a packet keeps the receiver's variables in their types.
LEMMA PacketType ==
    ASSUME CrcIsNumber, PrxTypeOK, NEW pdu \in Payload, PacketReceived(pdu)
    PROVE  PrxTypeOK'
<1>1. pdu.pipe \in Pipes /\ pdu.pid \in Pids /\ pdu.id \in Nat /\ Crc(pdu) \in Nat /\ RxPid(pdu) \in Pids
  BY RxPidType DEF Payload, CrcIsNumber
<1>2. \A b \in BOOLEAN : PipeInfo(pdu, b) \in [pid : Pids, crc : Nat, ack_payload : BOOLEAN]
  BY <1>1 DEF PipeInfo
<1>3. /\ pipe_info' \in [Pipes -> [pid : Pids, crc : Nat, ack_payload : BOOLEAN]]
      /\ ack_pl' \in [Pipes -> Seq(Nat)] /\ ack_count' \in 0 .. UintMod - 1
      /\ ack_pdu' \in AckPdu /\ ack_done' \subseteq Nat
  <2>1. CASE PrepareDplAck(pdu)
    <3>1. PICK b \in BOOLEAN : b = (Attached(pdu) # {})
      OBVIOUS
    <3>2. pipe_info' = [pipe_info EXCEPT ![pdu.pipe] = PipeInfo(pdu, b)]
      BY <2>1, <3>1 DEF PrepareDplAck
    <3>3. pipe_info' \in [Pipes -> [pid : Pids, crc : Nat, ack_payload : BOOLEAN]]
      BY <1>1, <1>2, <3>2 DEF PrxTypeOK
    <3>4. ack_pl' \in [Pipes -> Seq(Nat)] /\ ack_count' \in 0 .. UintMod - 1
      BY <1>1, <2>1, ListType DEF PrepareDplAck, PrxTypeOK
    <3>5. ack_pdu' \in AckPdu
      BY <1>1, <2>1, ListType DEF PrepareDplAck, AckPdu
    <3>6. ack_done' \subseteq Nat
      BY <2>1, ListType DEF PrepareDplAck, PrxTypeOK
    <3> QED BY <3>3, <3>4, <3>5, <3>6
  <2>2. CASE PrepareFixedAck(pdu) \/ NoAck(pdu)
    <3>1. pipe_info[pdu.pipe].ack_payload \in BOOLEAN
      BY <1>1 DEF PrxTypeOK
    <3>2. pipe_info' = [pipe_info EXCEPT ![pdu.pipe] = PipeInfo(pdu, pipe_info[pdu.pipe].ack_payload)]
      BY <2>2 DEF PrepareFixedAck, NoAck, PrxTypeOK
    <3>3. pipe_info' \in [Pipes -> [pid : Pids, crc : Nat, ack_payload : BOOLEAN]]
      BY <1>1, <1>2, <3>1, <3>2 DEF PrxTypeOK
    <3>4. UNCHANGED <<ack_pl, ack_count, ack_done>>
      BY <2>2, Zenon DEF PrepareFixedAck, NoAck
    <3>5. ack_pdu' \in AckPdu
      BY <1>1, <2>2 DEF PrepareFixedAck, NoAck, PrxTypeOK, AckPdu
    <3> QED BY <3>3, <3>4, <3>5 DEF PrxTypeOK
  <2> QED BY <2>1, <2>2 DEF PacketReceived
<1>4. FifoPush(prx_rx_fifo, PrxRxSize, pdu.id) \in FifoType(PrxRxSize, Nat)
  BY <1>1, PushType, PrxAssumption DEF PrxTypeOK
<1>5. /\ prx_rx_fifo' \in FifoType(PrxRxSize, Nat) /\ delivered' \in Seq(Nat)
      /\ prx_flags' \subseteq {"TX_SUCCESS", "RX_RECEIVED"} /\ prx_pending' \in BOOLEAN
  <2>1. CASE IsRepeat(pdu)
    <3>1. UNCHANGED <<prx_rx_fifo, prx_flags, prx_pending, delivered>>
      BY <2>1, Zenon DEF PacketReceived
    <3> QED BY <3>1 DEF PrxTypeOK
  <2>2. CASE ~IsRepeat(pdu)
    <3>1. /\ prx_rx_fifo' = FifoPush(prx_rx_fifo, PrxRxSize, pdu.id)
          /\ delivered' = Append(delivered, pdu.id)
          /\ prx_flags' \subseteq prx_flags \cup {"TX_SUCCESS", "RX_RECEIVED"}
      BY <2>2 DEF PacketReceived
    <3>2. prx_pending' \in BOOLEAN
      BY <2>2, Zenon DEF PacketReceived
    <3> QED BY <1>1, <1>4, <3>1, <3>2 DEF PrxTypeOK
  <2> QED BY <2>1, <2>2
<1>6. prx_state' \in {"IDLE", "PRX", "PRX_SEND_ACK"}
  BY DEF PacketReceived
<1> QED BY <1>3, <1>5, <1>6 DEF PacketReceived, PrxTypeOK

\* What an API call of the receiver has still to do is a known step.
LEMMA PrxCallChanges ==
    ASSUME PrxTypeOK, NEW c \in PrxContexts, NEW x \in PrxCallType,
           prx_call' = [prx_call EXCEPT ![c] = x]
    PROVE  /\ prx_call' \in [PrxContexts -> PrxCallType]
           /\ prx_call'[c] = x
           /\ \A d \in PrxContexts : d # c => prx_call'[d] = prx_call[d]
BY DEF PrxTypeOK

\* The known steps.
LEMMA PrxSteps ==
    /\ NoPrxCall \in PrxCallType /\ [step |-> "read"] \in PrxCallType
    /\ [step |-> "pop"] \in PrxCallType
    /\ \A p \in Pipes : [step |-> "enqueue", pipe |-> p] \in PrxCallType
BY DEF NoPrxCall, PrxCallType

\* The receiver's API calls and its event interrupt keep the types.
LEMMA PrxLocalType ==
    ASSUME PrxTypeOK, PrxLocal
    PROVE  PrxTypeOK'
<1> USE DEF prxQueues, prxRadio, prxEvents, prxLogs
<1>0. PrxRxSize \in Nat \ {0} /\ UintMod \in Nat \ {0}
  BY PrxAssumption, BaseAssumption
<1>1. ASSUME NEW c \in PrxContexts, PrxWriteCheck(c) PROVE PrxTypeOK'
  <2>1. PICK p \in Pipes : prx_call' = [prx_call EXCEPT ![c] = [step |-> "enqueue", pipe |-> p]]
    BY <1>1 DEF PrxWriteCheck
  <2>2. prx_call' \in [PrxContexts -> PrxCallType]
    BY <2>1, PrxCallChanges, PrxSteps
  <2> QED BY <1>1, <2>2 DEF PrxWriteCheck, PrxTypeOK
<1>2. ASSUME NEW c \in PrxContexts, PrxWriteEnqueue(c) PROVE PrxTypeOK'
  <2>1. prx_call[c] \in [step : {"enqueue"}, pipe : Pipes]
    <3>1. prx_call[c] \in PrxCallType /\ prx_call[c].step = "enqueue"
      BY <1>2 DEF PrxWriteEnqueue, PrxResumes, PrxTypeOK
    <3>2. prx_call[c] # NoPrxCall /\ prx_call[c] \notin [step : {"read", "pop"}]
      BY <3>1 DEF NoPrxCall
    <3> QED BY <3>1, <3>2, Zenon DEF PrxCallType
  <2>2. prx_call[c].pipe \in Pipes /\ ack_written + 1 \in Nat
    BY <2>1 DEF PrxTypeOK
  <2>3. ack_count + 1 \in Int
    BY <1>0 DEF PrxTypeOK
  <2>4. ack_pl' \in [Pipes -> Seq(Nat)] /\ ack_count' \in 0 .. UintMod - 1
    <3>1. CASE UNCHANGED <<ack_pl, ack_count>>
      BY <3>1 DEF PrxTypeOK
    <3>2. CASE ~UNCHANGED <<ack_pl, ack_count>>
      <4>1. /\ ack_pl' = [ack_pl EXCEPT ![prx_call[c].pipe] = Append(@, ack_written + 1)]
            /\ ack_count' = (ack_count + 1) % UintMod
        BY <1>2, <3>2 DEF PrxWriteEnqueue
      <4>2. Append(ack_pl[prx_call[c].pipe], ack_written + 1) \in Seq(Nat)
        BY <2>2 DEF PrxTypeOK
      <4>3. ack_pl' \in [Pipes -> Seq(Nat)]
        BY <2>2, <4>1, <4>2 DEF PrxTypeOK
      <4> QED BY <2>3, <4>1, <4>3, ModRange
    <3> QED BY <3>1, <3>2
  <2>5. prx_call' \in [PrxContexts -> PrxCallType]
    BY <1>2, PrxCallChanges, PrxSteps DEF PrxWriteEnqueue
  <2> QED BY <1>2, <2>2, <2>4, <2>5 DEF PrxWriteEnqueue, PrxTypeOK
<1>3. ASSUME NEW c \in PrxContexts, PrxReadCheck(c) \/ PrxPopCheck(c) PROVE PrxTypeOK'
  <2>1. prx_call' \in [PrxContexts -> PrxCallType]
    BY <1>3, PrxCallChanges, PrxSteps DEF PrxReadCheck, PrxPopCheck
  <2> QED BY <1>3, <2>1 DEF PrxReadCheck, PrxPopCheck, PrxTypeOK
<1>4. ASSUME NEW c \in PrxContexts, PrxReadLocked(c) PROVE PrxTypeOK'
  <2>1. prx_call' \in [PrxContexts -> PrxCallType]
    BY <1>4, PrxCallChanges, PrxSteps DEF PrxReadLocked
  <2>2. prx_rx_fifo' \in FifoType(PrxRxSize, Nat)
    BY <1>0, <1>4, DropType DEF PrxReadLocked, PrxTypeOK
  <2> QED BY <1>4, <2>1, <2>2 DEF PrxReadLocked, PrxTypeOK
<1>5. ASSUME NEW c \in PrxContexts, PrxPopLocked(c) PROVE PrxTypeOK'
  <2>1. prx_call' \in [PrxContexts -> PrxCallType]
    BY <1>5, PrxCallChanges, PrxSteps DEF PrxPopLocked
  <2>2. ack_count - 1 \in Int
    BY <1>0 DEF PrxTypeOK
  <2>3. ack_count' \in 0 .. UintMod - 1
    BY <1>5, <2>2, ModRange DEF PrxPopLocked
  <2> QED BY <1>5, <2>1, <2>3 DEF PrxPopLocked, PrxTypeOK
<1>6. ASSUME NEW c \in PrxContexts, PrxFlushTx(c) PROVE PrxTypeOK'
  BY <1>0, <1>6 DEF PrxFlushTx, PrxTypeOK
<1>7. [p \in Pipes |-> BlankPipeInfo] \in [Pipes -> [pid : Pids, crc : Nat, ack_payload : BOOLEAN]]
  BY DEF BlankPipeInfo, Pids, PID_MAX
<1>8. FifoReset(prx_rx_fifo) \in FifoType(PrxRxSize, Nat)
  BY <1>0, ResetType DEF PrxTypeOK
<1>9. ASSUME NEW c \in PrxContexts, PrxFlushRx(c) PROVE PrxTypeOK'
  BY <1>7, <1>8, <1>9 DEF PrxFlushRx, PrxTypeOK
<1>10. ASSUME NEW c \in PrxContexts, esb_start_rx(c) \/ esb_stop_rx(c) PROVE PrxTypeOK'
  BY <1>10 DEF esb_start_rx, esb_stop_rx, PrxTypeOK
<1>11. CASE \E c \in PrxContexts : PrxApi(c)
  BY <1>1, <1>2, <1>3, <1>4, <1>5, <1>6, <1>9, <1>10, <1>11, Zenon DEF PrxApi
<1>12. CASE PrxReinit
  BY <1>0, <1>7, <1>8, <1>12 DEF PrxReinit, PrxTypeOK
<1>13. CASE PrxEvtEnter
  BY <1>13 DEF PrxEvtEnter, PrxTypeOK
<1>14. CASE PrxEvtReturn
  BY <1>14 DEF PrxEvtReturn, PrxTypeOK
<1> QED BY <1>11, <1>12, <1>13, <1>14 DEF PrxLocal

\* The receiver starts with its variables in their types.
LEMMA PrxInitType == PrxInit => PrxTypeOK
<1> SUFFICES ASSUME PrxInit PROVE PrxTypeOK
  OBVIOUS
<1>1. prx_rx_fifo \in FifoType(PrxRxSize, Nat)
  BY EmptyType, PrxAssumption DEF PrxInit
<1>2. pipe_info \in [Pipes -> [pid : Pids, crc : Nat, ack_payload : BOOLEAN]]
  BY DEF PrxInit, BlankPipeInfo, Pids, PID_MAX
<1>3. ack_pdu \in AckPdu
  BY BaseAssumption DEF PrxInit, BlankAck, AckPdu, Pipes, Pids, PID_MAX
<1>4. prx_call \in [PrxContexts -> PrxCallType]
  BY PrxSteps DEF PrxInit
<1>5. ack_pl \in [Pipes -> Seq(Nat)] /\ ack_count \in 0 .. UintMod - 1 /\ delivered \in Seq(Nat)
  BY BaseAssumption DEF PrxInit
<1>6. prx_pending \in BOOLEAN
  BY Zenon DEF PrxInit
<1> QED BY <1>1, <1>2, <1>3, <1>4, <1>5, <1>6 DEF PrxInit, PrxTypeOK

\* Every step of the link keeps the types.
LEMMA LinkTypeStep ==
    ASSUME CrcIsNumber, LinkTypeOK, [LinkNext]_linkVars
    PROVE  LinkTypeOK'
<1> USE DEF LinkTypeOK
<1>1. CASE PtxLocal /\ UNCHANGED <<prxVars, air>>
  BY <1>1, LocalType DEF prxVars, prxQueues, prxRadio, prxEvents, prxLogs, PrxTypeOK, AirTypeOK
<1>2. CASE PrxLocal /\ UNCHANGED <<ptxVars, air>>
  BY <1>2, PrxLocalType DEF ptxVars, ptxQueues, ptxRadio, ptxEvents, ptxLogs, PtxTypeOK, AirTypeOK
<1>3. CASE PtxSends
  <2>1. PtxTypeOK'
    BY <1>3, RadioType DEF PtxSends, PtxRadioStep
  <2>2. air' = {[dir |-> "data", pdu |-> tx_pdu]} /\ tx_pdu \in Payload /\ UNCHANGED prxVars
    BY <1>3 DEF PtxSends, Data, PtxTypeOK
  <2> QED BY <2>1, <2>2 DEF prxVars, prxQueues, prxRadio, prxEvents, prxLogs, PrxTypeOK, AirTypeOK
<1>4. CASE PrxSends
  <2>1. air' = {[dir |-> "ack", pdu |-> ack_pdu]} /\ ack_pdu \in AckPdu /\ UNCHANGED ptxVars
    BY <1>4 DEF PrxSends, Ack, PrxTypeOK
  <2>2. PrxTypeOK'
    BY <1>4 DEF PrxSends, on_radio_disabled_rx_ack, prxQueues, prxEvents, prxLogs, PrxTypeOK
  <2> QED BY <2>1, <2>2 DEF ptxVars, ptxQueues, ptxRadio, ptxEvents, ptxLogs, PtxTypeOK, AirTypeOK
<1>5. CASE PrxReceives
  <2>1. PICK f \in air : f.dir = "data" /\ (PacketReceived(f.pdu) \/ PacketRefused)
    BY <1>5 DEF PrxReceives
  <2>2. f.pdu \in Payload
    BY <2>1 DEF AirTypeOK
  <2>3. PrxTypeOK'
    BY <2>1, <2>2, PacketType DEF PacketRefused, prxVars, prxQueues, prxRadio, prxEvents, prxLogs, PrxTypeOK
  <2>4. air' = {} /\ UNCHANGED ptxVars
    BY <1>5 DEF PrxReceives
  <2> QED BY <2>3, <2>4 DEF ptxVars, ptxQueues, ptxRadio, ptxEvents, ptxLogs, PtxTypeOK, AirTypeOK
<1>6. CASE PtxReceives
  <2>1. PICK f \in air : f.dir = "ack" /\ AckReceived(f.pdu)
    BY <1>6 DEF PtxReceives
  <2>2. f.pdu.pl \subseteq Nat
    BY <2>1 DEF AirTypeOK, AckPdu
  <2>3. PtxTypeOK'
    BY <2>1, <2>2, AckReceivedType
  <2>4. air' = {} /\ UNCHANGED prxVars
    BY <1>6 DEF PtxReceives
  <2> QED BY <2>3, <2>4 DEF prxVars, prxQueues, prxRadio, prxEvents, prxLogs, PrxTypeOK, AirTypeOK
<1>7. CASE PtxTimeout
  BY <1>7, AckMissedType DEF PtxTimeout, prxVars, prxQueues, prxRadio, prxEvents, prxLogs,
     PrxTypeOK, AirTypeOK
<1>8. CASE Lose
  BY <1>8 DEF Lose, prxVars, prxQueues, prxRadio, prxEvents, prxLogs, PrxTypeOK, AirTypeOK,
     ptxVars, ptxQueues, ptxRadio, ptxEvents, ptxLogs, PtxTypeOK
<1>9. CASE UNCHANGED linkVars
  BY <1>9 DEF linkVars, prxVars, prxQueues, prxRadio, prxEvents, prxLogs, PrxTypeOK, AirTypeOK,
     ptxVars, ptxQueues, ptxRadio, ptxEvents, ptxLogs, PtxTypeOK
<1> QED BY <1>1, <1>2, <1>3, <1>4, <1>5, <1>6, <1>7, <1>8, <1>9 DEF LinkNext

(* The variables of both drivers stay in their C types and array ranges,   *)
(* whatever the two applications call and the air loses.                   *)
THEOREM LinkTypeCorrect ==
    ASSUME CrcIsNumber
    PROVE  LinkSpec => []LinkTypeOK
<1>1. LinkInit => LinkTypeOK
  BY InitType, PrxInitType DEF LinkInit, LinkTypeOK, AirTypeOK
<1>2. LinkTypeOK /\ [LinkNext]_linkVars => LinkTypeOK'
  BY LinkTypeStep
<1> QED BY <1>1, <1>2, PTL DEF LinkSpec

-----------------------------------------------------------------------------
(* The payload_wrap entries in use when the lists are pl.                  *)
InUseOf(pl) == {e \in Pipes \X (1 .. AckSize) : e[2] <= Len(pl[e[1]])}

\* There are finitely many, and one at least when a list is not empty.
LEMMA InUseFinite ==
    ASSUME NEW pl \in [Pipes -> Seq(Nat)]
    PROVE  /\ IsFiniteSet(InUseOf(pl)) /\ Cardinality(InUseOf(pl)) \in Nat
           /\ \A p \in Pipes : pl[p] # <<>> => Cardinality(InUseOf(pl)) > 0
<1>1. IsFiniteSet(Pipes) /\ IsFiniteSet(1 .. AckSize)
  BY FS_Interval, BaseAssumption, PrxAssumption DEF Pipes
<1>2. IsFiniteSet(Pipes \X (1 .. AckSize))
  BY <1>1, FS_Product
<1>3. InUseOf(pl) \in SUBSET (Pipes \X (1 .. AckSize))
  BY DEF InUseOf
<1>4. IsFiniteSet(InUseOf(pl)) /\ Cardinality(InUseOf(pl)) \in Nat
  BY <1>2, <1>3, FS_Subset, FS_CardinalityType
<1>5. ASSUME NEW p \in Pipes, pl[p] # <<>> PROVE Cardinality(InUseOf(pl)) > 0
  <2>1. Len(pl[p]) \in Nat /\ Len(pl[p]) >= 1
    BY <1>5
  <2>2. <<p, 1>> \in InUseOf(pl)
    BY <2>1, PrxAssumption DEF InUseOf
  <2> QED BY <1>4, <2>2, FS_EmptySet
<1> QED BY <1>4, <1>5

\* If an entry is free every list has room for it, and using it counts one more.
LEMMA InUseAppend ==
    ASSUME NEW pl \in [Pipes -> Seq(Nat)], NEW p \in Pipes, NEW x \in Nat,
           \A q \in Pipes : Len(pl[q]) <= AckSize,
           Cardinality(InUseOf(pl)) < AckSize
    PROVE  /\ Len(pl[p]) < AckSize
           /\ Cardinality(InUseOf([pl EXCEPT ![p] = Append(@, x)])) = Cardinality(InUseOf(pl)) + 1
<1> DEFINE U == InUseOf(pl)
           n == Len(pl[p]) + 1
           new == [pl EXCEPT ![p] = Append(@, x)]
<1>1. IsFiniteSet(U) /\ Cardinality(U) \in Nat /\ AckSize \in Nat /\ Len(pl[p]) \in Nat
  BY InUseFinite, PrxAssumption
<1>2. Len(pl[p]) < AckSize
  <2> SUFFICES ASSUME Len(pl[p]) >= AckSize PROVE FALSE
    BY <1>1
  <2> DEFINE f == [i \in 1 .. AckSize |-> <<p, i>>]
  <2>1. \A i \in 1 .. AckSize : <<p, i>> \in U
    BY <1>1 DEF InUseOf
  <2>2. f \in [1 .. AckSize -> U]
    BY <2>1
  <2>3. \A i, j \in 1 .. AckSize : f[i] = f[j] => i = j
    OBVIOUS
  <2>4. f \in Injection(1 .. AckSize, U)
    BY <2>2, <2>3 DEF Injection, IsInjective
  <2>5. Cardinality(1 .. AckSize) <= Cardinality(U)
    BY <1>1, <2>4, FS_Injection
  <2>6. Cardinality(1 .. AckSize) = AckSize
    BY <1>1, FS_Interval, PrxAssumption
  <2> QED BY <1>1, <2>5, <2>6
<1>3. <<p, n>> \notin U
  BY <1>1 DEF InUseOf
<1>4. /\ \A q \in Pipes : q # p => new[q] = pl[q]
      /\ Len(new[p]) = n
  OBVIOUS
<1>5. InUseOf(new) = U \cup {<<p, n>>}
  <2>1. <<p, n>> \in Pipes \X (1 .. AckSize)
    BY <1>1, <1>2
  <2>2. ASSUME NEW e \in Pipes \X (1 .. AckSize)
        PROVE  e[2] <= Len(new[e[1]]) <=> (e[2] <= Len(pl[e[1]]) \/ e = <<p, n>>)
    <3>1. e[1] \in Pipes /\ e[2] \in Nat /\ e = <<e[1], e[2]>>
      BY <1>1
    <3>2. CASE e[1] = p
      BY <1>1, <1>4, <3>1, <3>2
    <3>3. CASE e[1] # p
      BY <1>1, <1>4, <3>1, <3>3
    <3> QED BY <3>2, <3>3
  <2> QED BY <2>1, <2>2 DEF InUseOf
<1>6. Cardinality(U \cup {<<p, n>>}) = Cardinality(U) + 1
  BY <1>1, <1>3, FS_AddElement
<1> QED BY <1>2, <1>5, <1>6

\* Taking the first payload off a list frees one entry.
LEMMA InUseTail ==
    ASSUME NEW pl \in [Pipes -> Seq(Nat)], NEW p \in Pipes,
           \A q \in Pipes : Len(pl[q]) <= AckSize, pl[p] # <<>>
    PROVE  /\ Cardinality(InUseOf([pl EXCEPT ![p] = Tail(@)])) = Cardinality(InUseOf(pl)) - 1
           /\ Len(Tail(pl[p])) = Len(pl[p]) - 1
<1> DEFINE U == InUseOf(pl)
           n == Len(pl[p])
           new == [pl EXCEPT ![p] = Tail(@)]
<1>1. IsFiniteSet(U) /\ AckSize \in Nat /\ n \in Nat /\ n >= 1 /\ n <= AckSize
  BY InUseFinite, PrxAssumption
<1>2. Len(Tail(pl[p])) = n - 1
  BY <1>1
<1>3. <<p, n>> \in U
  BY <1>1 DEF InUseOf
<1>4. /\ \A q \in Pipes : q # p => new[q] = pl[q]
      /\ Len(new[p]) = n - 1
  BY <1>2
<1>5. InUseOf(new) = U \ {<<p, n>>}
  <2>1. ASSUME NEW e \in Pipes \X (1 .. AckSize)
        PROVE  e[2] <= Len(new[e[1]]) <=> (e[2] <= Len(pl[e[1]]) /\ e # <<p, n>>)
    <3>1. e[1] \in Pipes /\ e[2] \in Nat /\ e = <<e[1], e[2]>>
      BY <1>1
    <3>2. CASE e[1] = p
      BY <1>1, <1>4, <3>1, <3>2
    <3>3. CASE e[1] # p
      BY <1>1, <1>4, <3>1, <3>3
    <3> QED BY <3>2, <3>3
  <2> QED BY <2>1 DEF InUseOf
<1>6. Cardinality(U \ {<<p, n>>}) = Cardinality(U) - 1
  BY <1>1, <1>3, FS_RemoveElement
<1> QED BY <1>2, <1>5, <1>6

(* A receiving application that does not call esb_pop_tx, and whose thread *)
(* is the only one that takes from the RX FIFO if it reads at all.         *)
PrxQueueUse ==
    /\ <<"thread", "read">> \in PrxCalls =>
         <<"evt", "read">> \notin PrxCalls /\ <<"evt", "flush_rx">> \notin PrxCalls
    /\ \A c \in PrxContexts : <<c, "pop_tx">> \notin PrxCalls

(* The queues of the receiver are consistent, and what esb_read_rx_payload *)
(* tested before the lock still holds.                                     *)
PrxRingInv ==
    /\ FifoConsistent(prx_rx_fifo, PrxRxSize)
    /\ ack_count = Cardinality(InUseOf(ack_pl))
    /\ \A p \in Pipes : Len(ack_pl[p]) <= AckSize
    /\ prx_evt # "run" => prx_call["evt"] = NoPrxCall
    /\ \A c \in PrxContexts :
         /\ prx_call[c].step = "read" => <<c, "read">> \in PrxCalls /\ prx_rx_fifo.count > 0
         /\ prx_call[c].step # "pop"

\* No entry is in use when every list is empty.
LEMMA NoneInUse ==
    ASSUME NEW pl, pl = [p \in Pipes |-> <<>>]
    PROVE  Cardinality(InUseOf(pl)) = 0 /\ \A p \in Pipes : Len(pl[p]) <= AckSize
<1>1. \A p \in Pipes : Len(pl[p]) = 0
  OBVIOUS
<1>2. InUseOf(pl) = {}
  BY <1>1 DEF InUseOf
<1> QED BY <1>1, <1>2, FS_EmptySet, PrxAssumption

\* The queues of the receiver are consistent at start up.
LEMMA PrxRingInit == PrxInit => PrxRingInv
<1> SUFFICES ASSUME PrxInit PROVE PrxRingInv
  OBVIOUS
<1>1. FifoConsistent(prx_rx_fifo, PrxRxSize)
  BY EmptyConsistent, PrxAssumption DEF PrxInit
<1>2. ack_count = Cardinality(InUseOf(ack_pl)) /\ \A p \in Pipes : Len(ack_pl[p]) <= AckSize
  BY NoneInUse DEF PrxInit
<1>3. \A c \in PrxContexts : prx_call[c] = NoPrxCall
  BY DEF PrxInit
<1> QED BY <1>1, <1>2, <1>3 DEF PrxRingInv, NoPrxCall, PrxContexts

\* esb_write_payload uses the entry it counts.
LEMMA AckEnqueues ==
    ASSUME PrxTypeOK, PrxRingInv, NEW c \in PrxContexts, PrxWriteEnqueue(c)
    PROVE  /\ ack_count' = Cardinality(InUseOf(ack_pl'))
           /\ \A p \in Pipes : Len(ack_pl'[p]) <= AckSize
<1>1. CASE Cardinality(InUse) < AckSize
  <2>1. PICK p \in Pipes, x \in Nat : ack_pl' = [ack_pl EXCEPT ![p] = Append(@, x)]
    <3>1. prx_call[c].pipe \in Pipes
      <4>1. prx_call[c] \in PrxCallType /\ prx_call[c].step = "enqueue"
        BY DEF PrxWriteEnqueue, PrxResumes, PrxTypeOK
      <4>2. prx_call[c] # NoPrxCall /\ prx_call[c] \notin [step : {"read", "pop"}]
        BY <4>1 DEF NoPrxCall
      <4>3. prx_call[c] \in [step : {"enqueue"}, pipe : Pipes]
        BY <4>1, <4>2, Zenon DEF PrxCallType
      <4> QED BY <4>3
    <3>2. ack_pl' = [ack_pl EXCEPT ![prx_call[c].pipe] = Append(@, ack_written + 1)]
      BY <1>1 DEF PrxWriteEnqueue
    <3>3. ack_written + 1 \in Nat
      BY DEF PrxTypeOK
    <3> QED BY <3>1, <3>2, <3>3
  <2>2. ack_pl \in [Pipes -> Seq(Nat)] /\ \A q \in Pipes : Len(ack_pl[q]) <= AckSize
    BY DEF PrxTypeOK, PrxRingInv
  <2>3. Cardinality(InUseOf(ack_pl)) < AckSize /\ ack_count = Cardinality(InUseOf(ack_pl))
    BY <1>1 DEF InUse, InUseOf, PrxRingInv
  <2>4. /\ Len(ack_pl[p]) < AckSize
        /\ Cardinality(InUseOf(ack_pl')) = Cardinality(InUseOf(ack_pl)) + 1
    BY <2>1, <2>2, <2>3, InUseAppend
  <2>5. ack_count' = (ack_count + 1) % UintMod
    BY <1>1 DEF PrxWriteEnqueue
  <2>6. (ack_count + 1) % UintMod = ack_count + 1
    <3>1. ack_count + 1 \in 0 .. UintMod - 1
      BY <2>3, PrxAssumption, BaseAssumption DEF PrxTypeOK
    <3> QED BY <3>1, ModExact
  <2>7. ASSUME NEW q \in Pipes PROVE Len(ack_pl'[q]) <= AckSize
    <3>1. CASE q = p
      <4>1. ack_pl'[q] = Append(ack_pl[p], x) /\ ack_pl[p] \in Seq(Nat)
        BY <2>1, <2>2, <3>1
      <4> QED BY <2>4, <4>1, PrxAssumption
    <3>2. CASE q # p
      BY <2>1, <2>2, <3>2
    <3> QED BY <3>1, <3>2
  <2> QED BY <2>3, <2>4, <2>5, <2>6, <2>7
<1>2. CASE ~(Cardinality(InUse) < AckSize)
  <2>1. UNCHANGED <<ack_pl, ack_count>>
    BY <1>2 DEF PrxWriteEnqueue
  <2> QED BY <2>1 DEF PrxRingInv
<1> QED BY <1>1, <1>2

\* An API call of the receiver keeps its queues consistent.
LEMMA PrxRingApi ==
    ASSUME PrxQueueUse, PrxTypeOK, PrxRingInv, NEW c \in PrxContexts, PrxApi(c)
    PROVE  PrxRingInv'
<1> USE DEF prxQueues, prxRadio, prxEvents, prxLogs
<1>1. prx_evt' = prx_evt
  BY Zenon DEF PrxApi, PrxWriteCheck, PrxWriteEnqueue, PrxReadCheck, PrxReadLocked, PrxFlushTx,
     PrxFlushRx, PrxPopCheck, PrxPopLocked, esb_start_rx, esb_stop_rx
<1>2. PrxRuns(c)
  BY Zenon DEF PrxApi, PrxWriteCheck, PrxWriteEnqueue, PrxReadCheck, PrxReadLocked, PrxFlushTx,
     PrxFlushRx, PrxPopCheck, PrxPopLocked, esb_start_rx, esb_stop_rx, PrxCalling, PrxResumes
<1>3. (c = "thread" => prx_call["evt"] = NoPrxCall) /\ (c = "evt" => prx_evt = "run")
  BY <1>2 DEF PrxRuns, PrxRingInv
<1>4. prx_rx_fifo.count \in Nat
  BY BaseAssumption DEF PrxTypeOK, FifoType
<1>5. CASE PrxWriteCheck(c)
  <2>1. PICK p \in Pipes : prx_call' = [prx_call EXCEPT ![c] = [step |-> "enqueue", pipe |-> p]]
    BY <1>5 DEF PrxWriteCheck
  <2>2. PICK w \in PrxCallType : w = [step |-> "enqueue", pipe |-> p]
    BY PrxSteps
  <2>3. prx_call'[c] = w /\ \A d \in PrxContexts : d # c => prx_call'[d] = prx_call[d]
    BY <2>1, <2>2, PrxCallChanges
  <2>4. prx_call'[c].step = "enqueue" /\ UNCHANGED <<prx_rx_fifo, ack_pl, ack_count>>
    BY <1>5, <2>2, <2>3 DEF PrxWriteCheck
  <2> QED BY <1>1, <1>3, <2>3, <2>4 DEF PrxRingInv, PrxContexts
<1>6. CASE PrxWriteEnqueue(c)
  <2>1. prx_call' = [prx_call EXCEPT ![c] = NoPrxCall] /\ UNCHANGED prx_rx_fifo
    BY <1>6 DEF PrxWriteEnqueue
  <2>2. prx_call'[c] = NoPrxCall /\ \A d \in PrxContexts : d # c => prx_call'[d] = prx_call[d]
    BY <2>1, PrxCallChanges, PrxSteps
  <2>3. /\ ack_count' = Cardinality(InUseOf(ack_pl'))
        /\ \A p \in Pipes : Len(ack_pl'[p]) <= AckSize
    BY <1>6, AckEnqueues
  <2> QED BY <1>1, <1>3, <2>1, <2>2, <2>3 DEF PrxRingInv, PrxContexts, NoPrxCall
<1>7. CASE PrxReadCheck(c)
  <2>1. /\ prx_call' = [prx_call EXCEPT ![c] = [step |-> "read"]]
        /\ UNCHANGED <<prx_rx_fifo, ack_pl, ack_count>>
        /\ <<c, "read">> \in PrxCalls /\ prx_rx_fifo.count # 0
    BY <1>7 DEF PrxReadCheck, PrxCalling
  <2>2. /\ prx_call'[c] = [step |-> "read"]
        /\ \A d \in PrxContexts : d # c => prx_call'[d] = prx_call[d]
    BY <2>1, PrxCallChanges, PrxSteps
  <2> QED BY <1>1, <1>3, <1>4, <2>1, <2>2 DEF PrxRingInv, PrxContexts
<1>8. CASE PrxReadLocked(c)
  <2>1. /\ prx_call' = [prx_call EXCEPT ![c] = NoPrxCall] /\ UNCHANGED <<ack_pl, ack_count>>
        /\ prx_rx_fifo' = FifoDrop(prx_rx_fifo, PrxRxSize) /\ prx_call[c].step = "read"
    BY <1>8 DEF PrxReadLocked, PrxResumes
  <2>2. prx_call'[c] = NoPrxCall /\ \A d \in PrxContexts : d # c => prx_call'[d] = prx_call[d]
    BY <2>1, PrxCallChanges, PrxSteps
  <2>3. FifoConsistent(prx_rx_fifo', PrxRxSize)
    BY <2>1, DropDequeues, PrxAssumption DEF PrxRingInv, PrxTypeOK
  <2>4. \A d \in PrxContexts : d # c => prx_call[d].step # "read"
    BY <2>1 DEF PrxRingInv, PrxQueueUse, PrxContexts
  <2> QED BY <1>1, <1>3, <2>1, <2>2, <2>3, <2>4 DEF PrxRingInv, PrxContexts, NoPrxCall
<1>9. CASE PrxFlushTx(c)
  <2>1. ack_pl' = [p \in Pipes |-> <<>>] /\ ack_count' = 0 /\ UNCHANGED <<prx_rx_fifo, prx_call>>
    BY <1>9 DEF PrxFlushTx
  <2>2. /\ ack_count' = Cardinality(InUseOf(ack_pl'))
        /\ \A p \in Pipes : Len(ack_pl'[p]) <= AckSize
    BY <2>1, NoneInUse
  <2> QED BY <1>1, <2>1, <2>2 DEF PrxRingInv
<1>10. CASE PrxFlushRx(c)
  <2>1. /\ prx_rx_fifo' = FifoReset(prx_rx_fifo) /\ UNCHANGED <<ack_pl, ack_count, prx_call>>
        /\ <<c, "flush_rx">> \in PrxCalls /\ prx_call[c] = NoPrxCall
    BY <1>10 DEF PrxFlushRx, PrxCalling
  <2>2. FifoConsistent(prx_rx_fifo', PrxRxSize)
    BY <2>1, ResetConsistent, PrxAssumption
  <2>3. \A d \in PrxContexts : prx_call[d].step # "read"
    BY <1>3, <2>1 DEF PrxRingInv, PrxQueueUse, PrxContexts, NoPrxCall
  <2> QED BY <1>1, <2>1, <2>2, <2>3 DEF PrxRingInv
<1>11. CASE PrxPopCheck(c) \/ PrxPopLocked(c)
  BY <1>11 DEF PrxPopCheck, PrxPopLocked, PrxCalling, PrxResumes, PrxQueueUse, PrxRingInv
<1>12. CASE esb_start_rx(c) \/ esb_stop_rx(c)
  <2>1. UNCHANGED <<prx_rx_fifo, ack_pl, ack_count, prx_call>>
    BY <1>12, Zenon DEF esb_start_rx, esb_stop_rx
  <2> QED BY <1>1, <2>1 DEF PrxRingInv
<1> QED BY <1>5, <1>6, <1>7, <1>8, <1>9, <1>10, <1>11, <1>12 DEF PrxApi

\* So does every step of the receiver that does not touch the air.
LEMMA PrxRingLocal ==
    ASSUME PrxQueueUse, PrxTypeOK, PrxRingInv, PrxLocal
    PROVE  PrxRingInv'
<1> USE DEF prxQueues, prxRadio, prxLogs
<1>1. CASE \E c \in PrxContexts : PrxApi(c)
  BY <1>1, PrxRingApi
<1>2. CASE PrxReinit
  <2>1. /\ prx_rx_fifo' = FifoReset(prx_rx_fifo) /\ UNCHANGED <<prx_evt, prx_call>>
        /\ ack_pl' = [p \in Pipes |-> <<>>] /\ ack_count' = 0
        /\ prx_call["thread"] = NoPrxCall /\ prx_evt = "idle"
    BY <1>2 DEF PrxReinit, PrxCalling, PrxRuns
  <2>2. FifoConsistent(prx_rx_fifo', PrxRxSize)
    BY <2>1, ResetConsistent, PrxAssumption
  <2>3. /\ ack_count' = Cardinality(InUseOf(ack_pl'))
        /\ \A p \in Pipes : Len(ack_pl'[p]) <= AckSize
    BY <2>1, NoneInUse
  <2>4. \A c \in PrxContexts : prx_call[c] = NoPrxCall
    BY <2>1 DEF PrxRingInv, PrxContexts
  <2> QED BY <2>1, <2>2, <2>3, <2>4 DEF PrxRingInv, NoPrxCall
<1>3. CASE PrxEvtEnter \/ PrxEvtReturn
  <2>1. UNCHANGED <<prx_rx_fifo, ack_pl, ack_count, prx_call>>
    BY <1>3, Zenon DEF PrxEvtEnter, PrxEvtReturn
  <2>2. prx_evt' # "run" => prx_call["evt"] = NoPrxCall
    BY <1>3 DEF PrxEvtEnter, PrxEvtReturn, PrxRingInv
  <2> QED BY <2>1, <2>2 DEF PrxRingInv
<1> QED BY <1>1, <1>2, <1>3 DEF PrxLocal

\* The lists and the count once a packet has come in.
LEMMA RetireCounts ==
    ASSUME PrxTypeOK, PrxRingInv, NEW pdu \in Payload, PacketReceived(pdu)
    PROVE  /\ ack_count' = Cardinality(InUseOf(ack_pl'))
           /\ \A p \in Pipes : Len(ack_pl'[p]) <= AckSize
<1>1. pdu.pipe \in Pipes /\ ack_pl \in [Pipes -> Seq(Nat)]
  BY DEF Payload, PrxTypeOK
<1>2. CASE UNCHANGED <<ack_pl, ack_count>>
  BY <1>2 DEF PrxRingInv
<1>3. CASE ~UNCHANGED <<ack_pl, ack_count>>
  <2>1. ack_pl' = [ack_pl EXCEPT ![pdu.pipe] = ListAfter(pdu)] /\ ack_count' = CountAfter(pdu)
    BY <1>3 DEF PacketReceived, PrepareDplAck, PrepareFixedAck, NoAck
  <2>2. CASE Retires(pdu)
    <3>1. ack_pl' = [ack_pl EXCEPT ![pdu.pipe] = Tail(@)] /\ ack_count' = ack_count - 1
      BY <1>1, <2>1, <2>2 DEF ListAfter, CountAfter
    <3>2. ack_pl[pdu.pipe] # <<>> /\ \A q \in Pipes : Len(ack_pl[q]) <= AckSize
      BY <2>2 DEF Retires, PrxRingInv
    <3>3. /\ Cardinality(InUseOf(ack_pl')) = Cardinality(InUseOf(ack_pl)) - 1
          /\ Len(Tail(ack_pl[pdu.pipe])) = Len(ack_pl[pdu.pipe]) - 1
      BY <1>1, <3>1, <3>2, InUseTail
    <3>4. ASSUME NEW q \in Pipes PROVE Len(ack_pl'[q]) <= AckSize
      <4>1. Len(ack_pl[q]) \in Nat /\ AckSize \in Nat
        BY <1>1, PrxAssumption
      <4>2. CASE q = pdu.pipe
        BY <1>1, <3>1, <3>2, <3>3, <4>1, <4>2
      <4>3. CASE q # pdu.pipe
        BY <1>1, <3>1, <3>2, <4>3
      <4> QED BY <4>2, <4>3
    <3> QED BY <3>1, <3>3, <3>4 DEF PrxRingInv
  <2>3. CASE ~Retires(pdu)
    <3>1. ack_pl' = ack_pl /\ ack_count' = ack_count
      BY <1>1, <2>1, <2>3 DEF ListAfter, CountAfter
    <3> QED BY <3>1 DEF PrxRingInv
  <2> QED BY <2>2, <2>3
<1> QED BY <1>2, <1>3

\* The reception of a packet keeps the queues consistent.
LEMMA PrxRingPacket ==
    ASSUME PrxTypeOK, PrxRingInv, NEW pdu \in Payload, PacketReceived(pdu)
    PROVE  PrxRingInv'
<1>1. UNCHANGED <<prx_evt, prx_call>>
  BY DEF PacketReceived
<1>2. prx_rx_fifo.count \in Nat /\ prx_rx_fifo.count < PrxRxSize
  BY BaseAssumption DEF PrxTypeOK, FifoType, PacketReceived
<1>3. prx_rx_fifo' = prx_rx_fifo \/ prx_rx_fifo' = FifoPush(prx_rx_fifo, PrxRxSize, pdu.id)
  BY Zenon DEF PacketReceived
<1>4. /\ FifoConsistent(prx_rx_fifo', PrxRxSize)
      /\ prx_rx_fifo'.count = prx_rx_fifo.count \/ prx_rx_fifo'.count = prx_rx_fifo.count + 1
  BY <1>2, <1>3, PushQueues, PrxAssumption DEF PrxRingInv, PrxTypeOK
<1>5. ASSUME NEW c \in PrxContexts, prx_call[c].step = "read" PROVE prx_rx_fifo'.count > 0
  <2>1. prx_rx_fifo.count > 0
    BY <1>5 DEF PrxRingInv
  <2> QED BY <1>2, <1>4, <2>1
<1>6. /\ ack_count' = Cardinality(InUseOf(ack_pl'))
      /\ \A p \in Pipes : Len(ack_pl'[p]) <= AckSize
  BY RetireCounts
<1> QED BY <1>1, <1>4, <1>5, <1>6 DEF PrxRingInv

\* Every step of the link keeps the queues of the receiver consistent.
LEMMA PrxRingStep ==
    ASSUME PrxQueueUse, LinkTypeOK, PrxRingInv, [LinkNext]_linkVars
    PROVE  PrxRingInv'
<1>1. CASE UNCHANGED prxVars
  BY <1>1 DEF prxVars, prxQueues, prxEvents, PrxRingInv
<1>2. CASE PrxLocal
  BY <1>2, PrxRingLocal DEF LinkTypeOK
<1>3. CASE PrxSends
  BY <1>3 DEF PrxSends, on_radio_disabled_rx_ack, prxQueues, prxEvents, PrxRingInv
<1>4. CASE PrxReceives
  <2>1. PICK f \in air : f.dir = "data" /\ (PacketReceived(f.pdu) \/ PacketRefused)
    BY <1>4 DEF PrxReceives
  <2>2. f.pdu \in Payload
    BY <2>1 DEF LinkTypeOK, AirTypeOK
  <2> QED BY <1>1, <2>1, <2>2, PrxRingPacket DEF LinkTypeOK, PacketRefused
<1> QED BY <1>1, <1>2, <1>3, <1>4
     DEF LinkNext, linkVars, PtxSends, PtxReceives, PtxTimeout, Lose

(* The receiver's RX ring buffer stays consistent, and tx_fifo.count is    *)
(* the number of payload_wrap entries in use, for every size and number of *)
(* pipes, whatever the interrupts do between the unlocked test of an API   *)
(* call and its locked part, if the calls do not undo each other's tests.  *)
THEOREM LinkPrxQueues ==
    ASSUME CrcIsNumber, PrxQueueUse
    PROVE  LinkSpec => []PrxQueuesConsistent
<1>1. LinkInit => PrxRingInv
  BY PrxRingInit DEF LinkInit
<1>2. LinkTypeOK /\ PrxRingInv /\ [LinkNext]_linkVars => PrxRingInv'
  BY PrxRingStep
<1>3. LinkTypeOK /\ PrxRingInv => PrxQueuesConsistent
  BY DEF LinkTypeOK, PrxRingInv, PrxQueuesConsistent, InUse, InUseOf
<1> QED BY <1>1, <1>2, <1>3, LinkTypeCorrect, PTL DEF LinkSpec

-----------------------------------------------------------------------------
(* Packet IDs.  The i-th payload queued on a pipe carries the packet ID    *)
(* that follows the one before it; the receiver keeps the last ID of the   *)
(* pipe, the transmitter the last one it gave.                             *)
Follows(a, b) == a = (b + 1) % (PID_MAX + 1)

(* q[0 .. n - 1] are the queued payloads, `last` the transmitter's packet  *)
(* IDs, `info` the receiver's; `got` says that the receiver has q[0].      *)
Chained(n, q, last, info, got) ==
    /\ \A i, j \in 0 .. n - 1 :
         (i < j /\ q[i].pipe = q[j].pipe /\ \A k \in 0 .. n - 1 : i < k /\ k < j => q[k].pipe # q[i].pipe)
           => Follows(q[j].pid, q[i].pid)
    /\ \A i \in 0 .. n - 1 :
         (\A k \in 0 .. n - 1 : k < i => q[k].pipe # q[i].pipe) =>
           \/ got /\ i = 0 /\ info[q[i].pipe] = q[i].pid
           \/ ~(got /\ i = 0) /\ Follows(q[i].pid, info[q[i].pipe])
    /\ \A i \in 0 .. n - 1 :
         (\A k \in 0 .. n - 1 : i < k => q[k].pipe # q[i].pipe) => last[q[i].pipe] = q[i].pid
    /\ \A p \in Pipes : (\A k \in 0 .. n - 1 : q[k].pipe # p) => last[p] = info[p]

\* A packet ID differs from the one it follows.
LEMMA FollowsDiffers ==
    ASSUME NEW b \in Pids
    PROVE  (b + 1) % (PID_MAX + 1) # b
<1>1. b \in 0 .. 3
  BY DEF Pids, PID_MAX
<1>2. b + 1 \in 0 .. 4
  BY <1>1
<1>3. b # 3 => (b + 1) % 4 = b + 1
  BY <1>1
<1>4. 4 % 4 = 0
  OBVIOUS
<1> QED BY <1>1, <1>3, <1>4 DEF PID_MAX

\* Queueing a payload with the next packet ID of its pipe keeps the chain.
LEMMA ChainPush ==
    ASSUME NEW n \in Nat, NEW q, NEW r, NEW last \in [Pipes -> Pids], NEW info, NEW got \in BOOLEAN,
           Chained(n, q, last, info, got), got => n > 0,
           \A i \in 0 .. n - 1 : r[i] = q[i],
           r[n].pipe \in Pipes, Follows(r[n].pid, last[r[n].pipe])
    PROVE  Chained(n + 1, r, [last EXCEPT ![r[n].pipe] = r[n].pid], info, got)
<1> DEFINE x == r[n]
           new == [last EXCEPT ![x.pipe] = x.pid]
<1>1. 0 .. (n + 1) - 1 = (0 .. n - 1) \cup {n} /\ \A i \in 0 .. n - 1 : i < n /\ i # n
  OBVIOUS
<1>2. new[x.pipe] = x.pid /\ \A p \in Pipes : p # x.pipe => new[p] = last[p]
  OBVIOUS
<1>3. ASSUME NEW i \in 0 .. (n + 1) - 1, NEW j \in 0 .. (n + 1) - 1, i < j, r[i].pipe = r[j].pipe,
             \A k \in 0 .. (n + 1) - 1 : i < k /\ k < j => r[k].pipe # r[i].pipe
      PROVE  Follows(r[j].pid, r[i].pid)
  <2>1. i \in 0 .. n - 1 /\ r[i] = q[i] /\ \A k \in 0 .. n - 1 : i < k /\ k < j => q[k].pipe # q[i].pipe
    BY <1>3
  <2>2. CASE j = n
    <3>1. \A k \in 0 .. n - 1 : i < k => q[k].pipe # q[i].pipe
      BY <2>1, <2>2
    <3>2. last[q[i].pipe] = q[i].pid
      BY <2>1, <3>1 DEF Chained
    <3> QED BY <1>3, <2>1, <2>2, <3>2
  <2>3. CASE j # n
    <3>1. j \in 0 .. n - 1 /\ r[j] = q[j]
      BY <2>3
    <3>2. Follows(q[j].pid, q[i].pid)
      BY <1>3, <2>1, <3>1 DEF Chained
    <3> QED BY <2>1, <3>1, <3>2
  <2> QED BY <2>2, <2>3
<1>4. ASSUME NEW i \in 0 .. (n + 1) - 1, \A k \in 0 .. (n + 1) - 1 : k < i => r[k].pipe # r[i].pipe
      PROVE  \/ got /\ i = 0 /\ info[r[i].pipe] = r[i].pid
             \/ ~(got /\ i = 0) /\ Follows(r[i].pid, info[r[i].pipe])
  <2>1. CASE i = n
    <3>1. \A k \in 0 .. n - 1 : q[k].pipe # x.pipe
      BY <1>4, <2>1
    <3>2. last[x.pipe] = info[x.pipe]
      BY <3>1 DEF Chained
    <3>3. ~(got /\ i = 0)
      BY <2>1
    <3> QED BY <2>1, <3>2, <3>3
  <2>2. CASE i # n
    <3>1. i \in 0 .. n - 1 /\ r[i] = q[i] /\ \A k \in 0 .. n - 1 : k < i => q[k].pipe # q[i].pipe
      BY <1>4, <2>2
    <3> QED BY <3>1 DEF Chained
  <2> QED BY <2>1, <2>2
<1>5. ASSUME NEW i \in 0 .. (n + 1) - 1, \A k \in 0 .. (n + 1) - 1 : i < k => r[k].pipe # r[i].pipe
      PROVE  new[r[i].pipe] = r[i].pid
  <2>1. CASE i = n
    BY <1>2, <2>1
  <2>2. CASE i # n
    <3>1. /\ i \in 0 .. n - 1 /\ r[i] = q[i] /\ r[n].pipe # r[i].pipe
          /\ \A k \in 0 .. n - 1 : i < k => q[k].pipe # q[i].pipe
      BY <1>1, <1>5, <2>2
    <3>2. last[q[i].pipe] = q[i].pid
      BY <3>1 DEF Chained
    <3> QED BY <3>1, <3>2
  <2> QED BY <2>1, <2>2
<1>6. ASSUME NEW p \in Pipes, \A k \in 0 .. (n + 1) - 1 : r[k].pipe # p
      PROVE  new[p] = info[p]
  <2>1. p # x.pipe /\ \A k \in 0 .. n - 1 : q[k].pipe # p
    BY <1>1, <1>6
  <2>2. last[p] = info[p]
    BY <2>1 DEF Chained
  <2> QED BY <1>2, <2>1, <2>2
<1> HIDE DEF new
<1>7. Chained(n + 1, r, new, info, got)
  BY <1>3, <1>4, <1>5, <1>6 DEF Chained
<1> QED BY <1>7 DEF new

\* Giving up the first payload, once the receiver has it, keeps the chain.
LEMMA ChainDrop ==
    ASSUME NEW n \in Nat, n > 0, NEW q, NEW r, NEW last, NEW info,
           Chained(n, q, last, info, TRUE),
           \A i \in 0 .. n - 2 : r[i] = q[i + 1]
    PROVE  Chained(n - 1, r, last, info, FALSE)
<1>1. /\ 0 \in 0 .. n - 1 /\ \A i \in 0 .. (n - 1) - 1 : i \in 0 .. n - 2 /\ i + 1 \in 0 .. n - 1 /\ i + 1 # 0
      /\ \A k \in 0 .. n - 1 : k # 0 => k - 1 \in 0 .. (n - 1) - 1 /\ q[k] = r[k - 1]
  OBVIOUS
<1>2. info[q[0].pipe] = q[0].pid
  <2>1. \A k \in 0 .. n - 1 : k < 0 => q[k].pipe # q[0].pipe
    OBVIOUS
  <2> QED BY <1>1, <2>1 DEF Chained
<1>3. ASSUME NEW i \in 0 .. (n - 1) - 1, NEW j \in 0 .. (n - 1) - 1, i < j, r[i].pipe = r[j].pipe,
             \A k \in 0 .. (n - 1) - 1 : i < k /\ k < j => r[k].pipe # r[i].pipe
      PROVE  Follows(r[j].pid, r[i].pid)
  <2>1. \A k \in 0 .. n - 1 : i + 1 < k /\ k < j + 1 => q[k].pipe # q[i + 1].pipe
    <3> SUFFICES ASSUME NEW k \in 0 .. n - 1, i + 1 < k, k < j + 1 PROVE q[k].pipe # q[i + 1].pipe
      OBVIOUS
    <3>1. k - 1 \in 0 .. (n - 1) - 1 /\ i < k - 1 /\ k - 1 < j /\ q[k] = r[k - 1]
      BY <1>1
    <3> QED BY <1>3, <3>1
  <2>2. q[i + 1].pipe = q[j + 1].pipe /\ i + 1 < j + 1 /\ i + 1 \in 0 .. n - 1 /\ j + 1 \in 0 .. n - 1
    BY <1>1, <1>3
  <2>3. Follows(q[j + 1].pid, q[i + 1].pid)
    BY <2>1, <2>2 DEF Chained
  <2> QED BY <1>1, <2>3
<1>4. ASSUME NEW i \in 0 .. (n - 1) - 1, \A k \in 0 .. (n - 1) - 1 : k < i => r[k].pipe # r[i].pipe
      PROVE  Follows(r[i].pid, info[r[i].pipe])
  <2>1. \A k \in 0 .. n - 1 : 0 < k /\ k < i + 1 => q[k].pipe # q[i + 1].pipe
    <3> SUFFICES ASSUME NEW k \in 0 .. n - 1, 0 < k, k < i + 1 PROVE q[k].pipe # q[i + 1].pipe
      OBVIOUS
    <3>1. k - 1 \in 0 .. (n - 1) - 1 /\ k - 1 < i /\ q[k] = r[k - 1]
      BY <1>1
    <3> QED BY <1>4, <3>1
  <2>2. CASE q[0].pipe = q[i + 1].pipe
    <3>1. Follows(q[i + 1].pid, q[0].pid)
      BY <1>1, <2>1, <2>2 DEF Chained
    <3> QED BY <1>1, <1>2, <2>2, <3>1
  <2>3. CASE q[0].pipe # q[i + 1].pipe
    <3>1. \A k \in 0 .. n - 1 : k < i + 1 => q[k].pipe # q[i + 1].pipe
      BY <2>1, <2>3
    <3>2. Follows(q[i + 1].pid, info[q[i + 1].pipe])
      BY <1>1, <3>1 DEF Chained
    <3> QED BY <3>2
  <2> QED BY <2>2, <2>3
<1>5. ASSUME NEW i \in 0 .. (n - 1) - 1, \A k \in 0 .. (n - 1) - 1 : i < k => r[k].pipe # r[i].pipe
      PROVE  last[r[i].pipe] = r[i].pid
  <2>1. \A k \in 0 .. n - 1 : i + 1 < k => q[k].pipe # q[i + 1].pipe
    <3> SUFFICES ASSUME NEW k \in 0 .. n - 1, i + 1 < k PROVE q[k].pipe # q[i + 1].pipe
      OBVIOUS
    <3>1. k - 1 \in 0 .. (n - 1) - 1 /\ i < k - 1 /\ q[k] = r[k - 1]
      BY <1>1
    <3> QED BY <1>5, <3>1
  <2>2. last[q[i + 1].pipe] = q[i + 1].pid
    BY <1>1, <2>1 DEF Chained
  <2> QED BY <2>2
<1>6. ASSUME NEW p \in Pipes, \A k \in 0 .. (n - 1) - 1 : r[k].pipe # p
      PROVE  last[p] = info[p]
  <2>1. \A k \in 0 .. n - 1 : k # 0 => q[k].pipe # p
    BY <1>1, <1>6
  <2>2. CASE q[0].pipe = p
    <3>1. last[q[0].pipe] = q[0].pid
      BY <1>1, <2>1, <2>2 DEF Chained
    <3> QED BY <1>2, <2>2, <3>1
  <2>3. CASE q[0].pipe # p
    BY <2>1, <2>3 DEF Chained
  <2> QED BY <2>2, <2>3
<1> QED BY <1>3, <1>4, <1>5, <1>6 DEF Chained

\* The receiver's taking the first payload keeps the chain.
LEMMA ChainDeliver ==
    ASSUME NEW n \in Nat, n > 0, NEW q, NEW last, NEW info, NEW new,
           Chained(n, q, last, info, FALSE),
           new[q[0].pipe] = q[0].pid,
           \A p \in Pipes : p # q[0].pipe => new[p] = info[p],
           \A i \in 0 .. n - 1 : q[i].pipe \in Pipes
    PROVE  Chained(n, q, last, new, TRUE)
<1>1. 0 \in 0 .. n - 1 /\ \A i \in 0 .. n - 1 : i # 0 => 0 < i
  OBVIOUS
<1>2. ASSUME NEW i \in 0 .. n - 1, \A k \in 0 .. n - 1 : k < i => q[k].pipe # q[i].pipe
      PROVE  \/ i = 0 /\ new[q[i].pipe] = q[i].pid
             \/ i # 0 /\ Follows(q[i].pid, new[q[i].pipe])
  <2>1. CASE i # 0
    <3>1. q[i].pipe # q[0].pipe
      BY <1>1, <1>2, <2>1
    <3>2. Follows(q[i].pid, info[q[i].pipe])
      BY <1>2 DEF Chained
    <3> QED BY <2>1, <3>1, <3>2
  <2> QED BY <2>1
<1>3. ASSUME NEW p \in Pipes, \A k \in 0 .. n - 1 : q[k].pipe # p
      PROVE  last[p] = new[p]
  <2>1. p # q[0].pipe /\ last[p] = info[p]
    BY <1>1, <1>3 DEF Chained
  <2> QED BY <2>1
<1> QED BY <1>2, <1>3 DEF Chained

-----------------------------------------------------------------------------
(* A link used for acknowledged packets: dynamic payload length, every     *)
(* packet asks for an acknowledgment, the transmitting application leaves  *)
(* the queue and the packet IDs to the driver, and the receiving one does  *)
(* not make the driver forget the last packet of a pipe.                   *)
LinkUse ==
    /\ PtxQueueUse /\ PtxSendUse
    /\ Protocol = "ESB_DPL"
    /\ ~SelectiveAutoAck \/ NoackChoices \subseteq {FALSE}
    /\ \A c \in Contexts : <<c, "reuse_pid">> \notin PtxCalls /\ <<c, "init">> \notin PtxCalls
    /\ \A c \in PrxContexts : <<c, "flush_rx">> \notin PrxCalls /\ <<c, "init">> \notin PrxCalls

(* Both sides agree that the packet is to be acknowledged.                 *)
Asks(p) == ~SelectiveAutoAck \/ ~p.noack

AskInv ==
    /\ ptx_state \in {"IDLE", "PTX_TX_ACK", "PTX_RX_ACK"}
    /\ \A i \in 0 .. TxSize - 1 : Asks(tx_fifo.payload[i])
    /\ \A c \in Contexts : ptx_call[c].step = "enqueue" => Asks(ptx_call[c])

(* What a step of the transmitter that does not touch the air does to the  *)
(* state the receiver depends on: nothing, start a transaction, or queue a *)
(* payload.                                                                *)
PtxRests == UNCHANGED <<tx_fifo, pids, written, last_acked, ptx_got, ptx_state, tx_pdu>>
PtxStarts ==
    /\ ptx_state = "IDLE" /\ ptx_state' = "PTX_TX_ACK"
    /\ UNCHANGED <<tx_fifo, pids, written, last_acked, ptx_got>>
PtxQueues(x) ==
    /\ Asks(x) /\ x.id = written + 1 /\ Follows(x.pid, pids[x.pipe])
    /\ tx_fifo.count < TxSize /\ tx_fifo' = FifoPush(tx_fifo, TxSize, x)
    /\ pids' = [pids EXCEPT ![x.pipe] = x.pid]
    /\ written' = written + 1
    /\ UNCHANGED <<last_acked, ptx_got, ptx_state, tx_pdu>>

\* A packet whose slot asks for it is sent for acknowledgment.
LEMMA StartAsks ==
    ASSUME LinkUse, NEW f \in FifoType(TxSize, Payload), StartTx(f),
           \A i \in 0 .. TxSize - 1 : Asks(f.payload[i])
    PROVE  ptx_state' = "PTX_TX_ACK"
<1>1. Asks(f.payload[f.front])
  BY PtxAssumption DEF FifoType
<1>2. TxNeedsAck(f.payload[f.front])
  BY <1>1 DEF TxNeedsAck, Asks
<1> QED BY <1>2, Zenon DEF StartTx

\* An esb_write_payload that has passed its tests has a pipe and a noack field.
LEMMA WriteCallType ==
    ASSUME PtxTypeOK, NEW c \in Contexts, ptx_call[c].step = "enqueue"
    PROVE  ptx_call[c].pipe \in Pipes /\ ptx_call[c].noack \in BOOLEAN
<1>1. ptx_call[c] \in PtxCallType
  BY DEF PtxTypeOK
<1>2. ptx_call[c] # NoCall /\ ptx_call[c] \notin [step : {"start", "pop", "read"}]
  BY DEF NoCall
<1>3. ptx_call[c] \in WriteCall
  BY <1>1, <1>2, Zenon DEF PtxCallType
<1> QED BY <1>3 DEF WriteCall

\* The transmitter rests, starts or queues.
LEMMA LocalCases ==
    ASSUME LinkUse, PtxTypeOK, RingInv, SendInv, AskInv, PtxLocal
    PROVE  PtxRests \/ PtxStarts \/ \E x \in Payload : PtxQueues(x)
<1> USE DEF ptxQueues, ptxRadio, ptxEvents, ptxLogs
<1>1. CASE PtxEvtEnter \/ PtxEvtFetch \/ PtxEvtReturn
  BY <1>1, Zenon DEF PtxEvtEnter, PtxEvtFetch, PtxEvtReturn, PtxRests
<1>2. CASE PtxReinit
  BY <1>2 DEF PtxReinit, PtxCalling, LinkUse, Contexts
<1>3. ASSUME NEW c \in Contexts,
             PtxWriteCheck(c) \/ PtxReadCheck(c) \/ PtxReadLocked(c) \/ PtxFlushRx(c)
               \/ esb_set_retransmit_count(c)
      PROVE  PtxRests
  BY <1>3, Zenon DEF PtxWriteCheck, PtxReadCheck, PtxReadLocked, PtxFlushRx,
     esb_set_retransmit_count, PtxRests
<1>4. ASSUME NEW c \in Contexts,
             PtxFlushTx(c) \/ PtxPopCheck(c) \/ PtxPopLocked(c) \/ esb_reuse_pid(c)
      PROVE  FALSE
  BY <1>4 DEF PtxFlushTx, PtxPopCheck, PtxPopLocked, esb_reuse_pid, PtxCalling, PtxResumes,
     LinkUse, PtxSendUse, PtxQueueUse, NoPop, RingInv
<1>5. tx_fifo \in FifoType(TxSize, Payload) /\ \A i \in 0 .. TxSize - 1 : Asks(tx_fifo.payload[i])
  BY DEF PtxTypeOK, AskInv
<1>6. ASSUME NEW c \in Contexts, PtxWriteStart(c) \/ esb_start_tx(c) PROVE PtxRests \/ PtxStarts
  <2>1. UNCHANGED <<tx_fifo, pids, written, last_acked, ptx_got>>
    BY <1>6, Zenon DEF PtxWriteStart, esb_start_tx
  <2>2. CASE StartTx(tx_fifo)
    <3>1. ptx_state = "IDLE" \/ ptx_state = "PTX_TXIDLE" \/ UNCHANGED ptxRadio
      BY <1>6, Zenon DEF PtxWriteStart, esb_start_tx
    <3>2. ptx_state' = "PTX_TX_ACK"
      BY <1>5, <2>2, StartAsks
    <3> QED BY <2>1, <3>1, <3>2 DEF PtxRests, PtxStarts, AskInv
  <2>3. CASE UNCHANGED ptxRadio
    BY <2>1, <2>3 DEF PtxRests
  <2> QED BY <1>6, <2>2, <2>3, Zenon DEF PtxWriteStart, esb_start_tx
<1>7. ASSUME NEW c \in Contexts, PtxWriteEnqueue(c) PROVE \E x \in Payload : PtxQueues(x)
  <2>1. PICK w : w = ptx_call[c]
    OBVIOUS
  <2>2. w.step = "enqueue" /\ w.pipe \in Pipes /\ w.noack \in BOOLEAN /\ Asks(w) /\ tx_fifo.count < TxSize
    BY <1>7, <2>1, WriteCallType DEF PtxWriteEnqueue, PtxResumes, AskInv, RingInv
  <2>3. PICK x : x = [id |-> written + 1, pipe |-> w.pipe, noack |-> w.noack, pid |-> NextPid(w.pipe)]
    OBVIOUS
  <2>4. x.id = written + 1 /\ x.pipe = w.pipe /\ x.noack = w.noack /\ x.pid = NextPid(w.pipe)
    BY <2>3
  <2>5. NextPid(w.pipe) \in Pids /\ written + 1 \in Nat
    <3>1. pids[w.pipe] \in Pids
      BY <2>2 DEF PtxTypeOK
    <3>2. pids[w.pipe] + 1 \in Int
      BY <3>1 DEF Pids
    <3> QED BY <3>2, PidRange DEF NextPid, PtxTypeOK
  <2>6. x \in Payload
    BY <2>2, <2>3, <2>5 DEF Payload
  <2>7. /\ tx_fifo' = FifoPush(tx_fifo, TxSize, x) /\ pids' = [pids EXCEPT ![x.pipe] = x.pid]
        /\ written' = written + 1 /\ UNCHANGED <<last_acked, ptx_got, ptx_state, tx_pdu>>
    BY <1>7, <2>1, <2>3, <2>4 DEF PtxWriteEnqueue
  <2> QED BY <2>2, <2>4, <2>6, <2>7 DEF PtxQueues, Asks, Follows, NextPid
<1>8. CASE \E c \in Contexts : PtxApi(c)
  BY <1>3, <1>4, <1>6, <1>7, <1>8, Zenon DEF PtxApi
<1> QED BY <1>1, <1>2, <1>8 DEF PtxLocal

\* What the application asks for when it queues a packet.
LEMMA AskCalls ==
    ASSUME LinkUse, PtxTypeOK, AskInv, PtxLocal
    PROVE  \A c \in Contexts : ptx_call'[c].step = "enqueue" => Asks(ptx_call'[c])
<1> USE DEF ptxQueues, ptxRadio, ptxEvents, ptxLogs
<1>1. CASE UNCHANGED ptx_call
  BY <1>1 DEF AskInv
<1>2. ASSUME NEW c \in Contexts, PtxWriteCheck(c)
      PROVE  \A d \in Contexts : ptx_call'[d].step = "enqueue" => Asks(ptx_call'[d])
  <2>1. PICK p \in Pipes, n \in NoackChoices :
          ptx_call' = [ptx_call EXCEPT ![c] = [step |-> "enqueue", pipe |-> p, noack |-> n]]
    BY <1>2 DEF PtxWriteCheck
  <2>2. PICK w : w = [step |-> "enqueue", pipe |-> p, noack |-> n]
    OBVIOUS
  <2>3. ptx_call'[c] = w /\ \A d \in Contexts : d # c => ptx_call'[d] = ptx_call[d]
    BY <2>1, <2>2, CallChanges
  <2>4. w.noack = n /\ (~SelectiveAutoAck \/ n = FALSE)
    BY <2>2 DEF LinkUse
  <2>5. Asks(w)
    BY <2>4 DEF Asks
  <2> QED BY <2>3, <2>5 DEF AskInv
<1>3. ASSUME NEW c \in Contexts, NEW x, x.step # "enqueue", ptx_call' = [ptx_call EXCEPT ![c] = x]
      PROVE  \A d \in Contexts : ptx_call'[d].step = "enqueue" => Asks(ptx_call'[d])
  <2>1. ptx_call'[c] = x /\ \A d \in Contexts : d # c => ptx_call'[d] = ptx_call[d]
    BY <1>3, CallChanges
  <2> QED BY <1>3, <2>1 DEF AskInv
<1>4. /\ NoCall.step # "enqueue" /\ [step |-> "read"].step # "enqueue"
      /\ [step |-> "pop"].step # "enqueue" /\ [step |-> "start"].step # "enqueue"
  BY DEF NoCall
<1>5. ASSUME NEW c \in Contexts, PtxApi(c)
      PROVE  \/ UNCHANGED ptx_call \/ PtxWriteCheck(c)
             \/ ptx_call' = [ptx_call EXCEPT ![c] = NoCall]
             \/ ptx_call' = [ptx_call EXCEPT ![c] = [step |-> "read"]]
             \/ ptx_call' = [ptx_call EXCEPT ![c] = [step |-> "pop"]]
             \/ ptx_call' = [ptx_call EXCEPT ![c] = [step |-> "start"]]
  BY <1>5, Zenon DEF PtxApi, PtxWriteEnqueue, PtxWriteStart, esb_start_tx,
     PtxReadCheck, PtxReadLocked, PtxFlushTx, PtxFlushRx, PtxPopCheck, PtxPopLocked,
     esb_reuse_pid, esb_set_retransmit_count
<1>6. CASE \E c \in Contexts : PtxApi(c)
  BY <1>1, <1>2, <1>3, <1>4, <1>5, <1>6
<1>7. CASE PtxReinit \/ PtxEvtEnter \/ PtxEvtFetch \/ PtxEvtReturn
  <2>1. UNCHANGED ptx_call
    BY <1>7, Zenon DEF PtxReinit, PtxEvtEnter, PtxEvtFetch, PtxEvtReturn
  <2> QED BY <1>1, <2>1
<1> QED BY <1>6, <1>7 DEF PtxLocal

\* A step that touches the air.
LinkRadio(ack) == on_radio_disabled_tx_noack \/ on_radio_disabled_tx \/ AckReceived(ack) \/ AckMissed

\* What a step of the link is on the side of the transmitter.
LEMMA PtxSide ==
    ASSUME LinkTypeOK, [LinkNext]_linkVars
    PROVE  PtxLocal \/ UNCHANGED ptxVars \/ \E ack : ack.pl \subseteq Nat /\ LinkRadio(ack)
<1>1. CASE PtxSends \/ PtxTimeout
  <2>1. PICK ack : ack = [pl |-> {}]
    OBVIOUS
  <2>2. ack.pl \subseteq Nat
    BY <2>1
  <2> QED BY <1>1, <2>2 DEF PtxSends, PtxTimeout, LinkRadio
<1>2. CASE PtxReceives
  <2>1. PICK f \in air : f.dir = "ack" /\ AckReceived(f.pdu)
    BY <1>2 DEF PtxReceives
  <2>2. f.pdu.pl \subseteq Nat
    BY <2>1 DEF LinkTypeOK, AirTypeOK, AckPdu
  <2> QED BY <2>1, <2>2 DEF LinkRadio
<1> QED BY <1>1, <1>2, Zenon DEF LinkNext, linkVars, PrxSends, PrxReceives, Lose

\* The transmitter's rings stay consistent and its front payload is sent on
\* the link as it is with any answers.
LEMMA PtxInvStep ==
    ASSUME LinkUse, LinkTypeOK, RingInv, SendInv, [LinkNext]_linkVars
    PROVE  RingInv' /\ SendInv'
<1>1. CASE PtxLocal
  BY <1>1, RingLocal, SendLocal DEF LinkUse, PtxQueueUse, LinkTypeOK
<1>2. CASE UNCHANGED ptxVars
  BY <1>2 DEF ptxVars, ptxQueues, ptxRadio, ptxEvents, RingInv, SendInv, AutoInv, SendsQueuedPayload, PtxRuns
<1>3. CASE \E ack : ack.pl \subseteq Nat /\ LinkRadio(ack)
  BY <1>3, RingRadio, SendRadio DEF LinkRadio, LinkTypeOK
<1> QED BY <1>1, <1>2, <1>3, PtxSide

\* Every packet goes on to ask for its acknowledgment.
LEMMA AskStep ==
    ASSUME LinkUse, LinkTypeOK, RingInv, SendInv, AskInv, [LinkNext]_linkVars
    PROVE  AskInv'
<1>0. tx_fifo \in FifoType(TxSize, Payload) /\ RemoveLast \in FifoType(TxSize, Payload)
  BY RemoveLastType DEF LinkTypeOK, PtxTypeOK
<1>1. CASE PtxLocal
  <2>1. \A c \in Contexts : ptx_call'[c].step = "enqueue" => Asks(ptx_call'[c])
    BY <1>1, AskCalls DEF LinkTypeOK
  <2>2. CASE PtxRests \/ PtxStarts
    BY <2>1, <2>2 DEF PtxRests, PtxStarts, AskInv
  <2>3. ASSUME NEW x \in Payload, PtxQueues(x) PROVE AskInv'
    <3>1. tx_fifo'.payload = [tx_fifo.payload EXCEPT ![tx_fifo.back] = x] /\ ptx_state' = ptx_state
      BY <2>3 DEF PtxQueues, FifoPush
    <3>2. \A i \in 0 .. TxSize - 1 : tx_fifo'.payload[i] = x \/ tx_fifo'.payload[i] = tx_fifo.payload[i]
      BY <1>0, <3>1 DEF FifoType
    <3> QED BY <2>1, <2>3, <3>1, <3>2 DEF AskInv, PtxQueues
  <2> QED BY <1>1, <2>2, <2>3, LocalCases DEF LinkTypeOK
<1>2. CASE UNCHANGED ptxVars
  BY <1>2 DEF ptxVars, ptxQueues, ptxRadio, AskInv
<1>3. ASSUME NEW ack, LinkRadio(ack) PROVE AskInv'
  <2> USE DEF ptxQueues, ptxEvents, ptxLogs
  <2>1. UNCHANGED ptx_call
    BY <1>3, Zenon DEF LinkRadio, on_radio_disabled_tx_noack, FinishNoack, on_radio_disabled_tx,
       AckReceived, AckMissed
  <2>2. RemoveLast.payload = tx_fifo.payload
    BY DEF RemoveLast, FifoDrop
  <2>3. tx_fifo' \in {tx_fifo, RemoveLast}
    BY <1>3, Zenon DEF LinkRadio, on_radio_disabled_tx_noack, FinishNoack, on_radio_disabled_tx,
       AckReceived, AckMissed
  <2>4. \A i \in 0 .. TxSize - 1 : Asks(RemoveLast.payload[i])
    BY <2>2 DEF AskInv
  <2>5. ~on_radio_disabled_tx_noack
    BY DEF on_radio_disabled_tx_noack, AskInv
  <2>6. ptx_state' \in {"IDLE", "PTX_TX_ACK", "PTX_RX_ACK"}
    <3>1. CASE StartTx(RemoveLast)
      BY <1>0, <2>4, <3>1, StartAsks
    <3>2. CASE ~StartTx(RemoveLast)
      BY <1>3, <2>5, <3>2 DEF LinkRadio, on_radio_disabled_tx, AckReceived, AckMissed
    <3> QED BY <3>1, <3>2
  <2> QED BY <2>1, <2>2, <2>3, <2>6 DEF AskInv
<1> QED BY <1>1, <1>2, <1>3, PtxSide

-----------------------------------------------------------------------------
(* The delivery invariant.  Packets are numbered as they are written:      *)
(* those up to last_acked[1] were acknowledged, the TX FIFO holds the rest *)
(* in order, and the receiver has all the acknowledged ones and perhaps    *)
(* (Got) the one at the front, whose acknowledgment is on its way or lost. *)
Queue == [i \in 0 .. tx_fifo.count - 1 |-> FifoAt(tx_fifo, TxSize, i)]
InfoPids == [p \in Pipes |-> pipe_info[p].pid]
Got == Len(delivered) = last_acked[1] + 1

NumberInv ==
    /\ last_acked[2] = last_acked[1]
    /\ written = last_acked[1] + tx_fifo.count
    /\ \A i \in 0 .. tx_fifo.count - 1 : Queue[i].id = last_acked[1] + 1 + i
    /\ \A i \in 1 .. Len(delivered) : delivered[i] = i
    /\ Len(delivered) = last_acked[1] \/ (Got /\ tx_fifo.count > 0)

(* A repetition of the front packet is recognised, and no other packet is  *)
(* taken for a repetition.                                                 *)
ChainInv ==
    /\ Got => Chained(tx_fifo.count, Queue, pids, InfoPids, TRUE)
    /\ ~Got => Chained(tx_fifo.count, Queue, pids, InfoPids, FALSE)
    /\ Got => pipe_info[Queue[0].pipe].crc = Crc(Queue[0])

(* On the air is the front packet, or an acknowledgment of it.             *)
AirInv ==
    /\ air = {} \/ air = {Data(tx_pdu)} \/ (air = {Ack(ack_pdu)} /\ Got)
    /\ air # {} => ptx_state = "PTX_RX_ACK"
    /\ prx_state = "PRX_SEND_ACK" => ptx_state = "PTX_RX_ACK" /\ air = {} /\ Got

DeliveryInv == NumberInv /\ ChainInv /\ AirInv
DriverInv == LinkTypeOK /\ RingInv /\ SendInv /\ AskInv

\* The types of what the delivery invariant is about.
LEMMA DeliveryTypes ==
    ASSUME LinkTypeOK
    PROVE  /\ tx_fifo.count \in Nat /\ written \in Nat /\ last_acked[1] \in Nat /\ last_acked[2] \in Nat
           /\ delivered \in Seq(Nat) /\ Len(delivered) \in Nat
           /\ tx_fifo \in FifoType(TxSize, Payload) /\ pids \in [Pipes -> Pids]
           /\ pipe_info \in [Pipes -> [pid : Pids, crc : Nat, ack_payload : BOOLEAN]]
           /\ TxSize \in Nat \ {0} /\ TxSize + 2 < UintMod
           /\ \A p \in Pipes : InfoPids[p] = pipe_info[p].pid /\ pipe_info[p].pid \in Pids
<1>1. tx_fifo \in FifoType(TxSize, Payload) /\ pids \in [Pipes -> Pids] /\ written \in Nat
      /\ last_acked \in Nat \X Nat
  BY DEF LinkTypeOK, PtxTypeOK
<1>2. /\ delivered \in Seq(Nat)
      /\ pipe_info \in [Pipes -> [pid : Pids, crc : Nat, ack_payload : BOOLEAN]]
  BY DEF LinkTypeOK, PrxTypeOK
<1>3. tx_fifo.count \in Nat
  BY <1>1, BaseAssumption DEF FifoType
<1>4. \A p \in Pipes : InfoPids[p] = pipe_info[p].pid /\ pipe_info[p].pid \in Pids
  BY <1>2 DEF InfoPids
<1> QED BY <1>1, <1>2, <1>3, <1>4, PtxAssumption

\* What is queued is a payload.
LEMMA QueueTypes ==
    ASSUME LinkTypeOK, RingInv, NEW i \in 0 .. tx_fifo.count - 1
    PROVE  Queue[i] = FifoAt(tx_fifo, TxSize, i) /\ Queue[i] \in Payload
<1>1. /\ tx_fifo \in FifoType(TxSize, Payload) /\ tx_fifo.count \in Nat /\ TxSize \in Nat \ {0}
      /\ tx_fifo.count <= TxSize
  BY DeliveryTypes DEF RingInv, FifoConsistent
<1>2. Queue[i] = FifoAt(tx_fifo, TxSize, i)
  BY DEF Queue
<1>3. FifoSlot(tx_fifo, TxSize, i) \in 0 .. TxSize - 1
  BY <1>1 DEF FifoType, FifoSlot
<1>4. FifoAt(tx_fifo, TxSize, i) \in Payload
  BY <1>1, <1>3 DEF FifoAt, FifoType
<1> QED BY <1>2, <1>4

\* The packet of a transaction is the first in the queue.
LEMMA FrontSent ==
    ASSUME DriverInv, ptx_state # "IDLE"
    PROVE  /\ tx_fifo.count > 0 /\ 0 \in 0 .. tx_fifo.count - 1
           /\ tx_pdu = Queue[0] /\ tx_pdu = tx_fifo.payload[tx_fifo.front] /\ tx_pdu \in Payload
<1>1. tx_fifo.count > 0 /\ tx_pdu = tx_fifo.payload[tx_fifo.front]
  BY DEF DriverInv, AskInv, SendInv, SendsQueuedPayload
<1>2. 0 \in 0 .. tx_fifo.count - 1
  BY <1>1, DeliveryTypes DEF DriverInv
<1>3. Queue[0] = FifoAt(tx_fifo, TxSize, 0) /\ Queue[0] \in Payload
  BY <1>2, QueueTypes DEF DriverInv
<1>4. FifoAt(tx_fifo, TxSize, 0) = tx_fifo.payload[tx_fifo.front]
  BY FrontIsFirst, DeliveryTypes DEF DriverInv
<1> QED BY <1>1, <1>2, <1>3, <1>4

\* A step that moves no packet.
LEMMA NothingMoves ==
    ASSUME LinkTypeOK, NumberInv, ChainInv,
           UNCHANGED <<tx_fifo, pids, written, last_acked, delivered>>,
           \A p \in Pipes : pipe_info'[p].pid = pipe_info[p].pid /\ pipe_info'[p].crc = pipe_info[p].crc,
           \A i \in 0 .. tx_fifo.count - 1 : Queue[i].pipe \in Pipes
    PROVE  NumberInv' /\ ChainInv' /\ (Got' <=> Got) /\ Queue' = Queue
<1>1. Queue' = Queue /\ (Got' <=> Got)
  BY DEF Queue, Got
<1>2. InfoPids' = InfoPids
  BY DEF InfoPids
<1>3. NumberInv'
  BY <1>1 DEF NumberInv
<1>4. Got => tx_fifo.count > 0
  BY DeliveryTypes DEF NumberInv, Got
<1>5. Got' => pipe_info'[Queue'[0].pipe].crc = Crc(Queue'[0])
  <2> SUFFICES ASSUME Got PROVE pipe_info'[Queue[0].pipe].crc = Crc(Queue[0])
    BY <1>1
  <2>1. Queue[0].pipe \in Pipes
    BY <1>4, DeliveryTypes
  <2> QED BY <2>1 DEF ChainInv
<1>6. ChainInv'
  BY <1>1, <1>2, <1>5 DEF ChainInv
<1> QED BY <1>1, <1>3, <1>6

\* A payload is queued.
LEMMA QueueGrows ==
    ASSUME DriverInv, NumberInv, ChainInv, NEW x \in Payload, PtxQueues(x),
           UNCHANGED <<delivered, pipe_info>>
    PROVE  NumberInv' /\ ChainInv' /\ (Got' <=> Got)
<1> DEFINE n == tx_fifo.count
<1>1. /\ n \in Nat /\ written \in Nat /\ last_acked[1] \in Nat /\ Len(delivered) \in Nat
      /\ tx_fifo \in FifoType(TxSize, Payload) /\ TxSize \in Nat \ {0} /\ TxSize + 2 < UintMod
      /\ pids \in [Pipes -> Pids]
  BY DeliveryTypes DEF DriverInv
<1>2. /\ x.id = written + 1 /\ Follows(x.pid, pids[x.pipe]) /\ n < TxSize
      /\ tx_fifo' = FifoPush(tx_fifo, TxSize, x) /\ pids' = [pids EXCEPT ![x.pipe] = x.pid]
      /\ written' = written + 1 /\ last_acked' = last_acked
  BY DEF PtxQueues
<1>3. FifoConsistent(tx_fifo, TxSize)
  BY DEF DriverInv, RingInv
<1>4. /\ tx_fifo'.count = n + 1 /\ FifoAt(tx_fifo', TxSize, n) = x
      /\ \A i \in 0 .. n - 1 : FifoAt(tx_fifo', TxSize, i) = FifoAt(tx_fifo, TxSize, i)
  BY <1>1, <1>2, <1>3, PushQueues
<1>5. 0 .. tx_fifo'.count - 1 = (0 .. n - 1) \cup {n}
  BY <1>1, <1>4
<1>6. Queue'[n] = x /\ \A i \in 0 .. n - 1 : Queue'[i] = Queue[i]
  BY <1>1, <1>4, <1>5 DEF Queue
<1>7. Got' <=> Got
  BY <1>2 DEF Got
<1>8. InfoPids' = InfoPids
  BY DEF InfoPids
<1>9. NumberInv'
  <2>1. ASSUME NEW i \in 0 .. tx_fifo'.count - 1 PROVE Queue'[i].id = last_acked'[1] + 1 + i
    <3>1. PICK a \in Nat : a = last_acked[1] /\ a = last_acked'[1]
      BY <1>1, <1>2
    <3>2. written = a + n /\ \A j \in 0 .. n - 1 : Queue[j].id = a + 1 + j
      BY <3>1 DEF NumberInv
    <3>3. CASE i = n
      <4>1. Queue'[i].id = (a + n) + 1
        BY <1>2, <1>6, <3>2, <3>3
      <4> QED BY <1>1, <3>1, <3>3, <4>1
    <3>4. CASE i # n
      <4>1. i \in 0 .. n - 1
        BY <1>5, <3>4
      <4> QED BY <1>6, <3>1, <3>2, <4>1
    <3> QED BY <3>3, <3>4
  <2>2. written' = last_acked'[1] + tx_fifo'.count
    BY <1>1, <1>2, <1>4, SMTT(60) DEF NumberInv
  <2>3. last_acked'[2] = last_acked'[1] /\ \A i \in 1 .. Len(delivered') : delivered'[i] = i
    BY <1>2 DEF NumberInv
  <2>4. Len(delivered') = last_acked'[1] \/ (Got' /\ tx_fifo'.count > 0)
    BY <1>1, <1>2, <1>4, <1>7 DEF NumberInv
  <2> QED BY <2>1, <2>2, <2>3, <2>4 DEF NumberInv
<1>10. Got => n > 0
  BY <1>1 DEF NumberInv, Got
<1>11. x.pipe \in Pipes
  BY DEF Payload
<1>12. ASSUME NEW g \in BOOLEAN, g => n > 0, Chained(n, Queue, pids, InfoPids, g)
       PROVE  Chained(tx_fifo'.count, Queue', pids', InfoPids', g)
  <2>1. PICK r : r = Queue'
    OBVIOUS
  <2>2. r[n] = x /\ \A i \in 0 .. n - 1 : r[i] = Queue[i]
    BY <1>6, <2>1
  <2>3. Chained(n + 1, r, [pids EXCEPT ![r[n].pipe] = r[n].pid], InfoPids, g)
    BY <1>1, <1>2, <1>11, <1>12, <2>2, ChainPush, ZenonT(60)
  <2> QED BY <1>2, <1>4, <1>8, <2>1, <2>2, <2>3
<1>13. Got => Queue'[0] = Queue[0]
  BY <1>1, <1>6, <1>10
<1>14. ChainInv'
  BY <1>7, <1>10, <1>12, <1>13 DEF ChainInv
<1> QED BY <1>7, <1>9, <1>14

\* The front payload was acknowledged and is given up.
LEMMA QueueShrinks ==
    ASSUME DriverInv, NumberInv, ChainInv, Got, ptx_state # "IDLE", tx_fifo' = RemoveLast,
           last_acked' = <<IF tx_fifo.count = 0 THEN 0 ELSE tx_fifo.payload[tx_fifo.front].id, tx_pdu.id>>,
           UNCHANGED <<pids, written, delivered, pipe_info>>
    PROVE  NumberInv' /\ ChainInv' /\ ~Got' /\ last_acked'[1] = last_acked[1] + 1
<1> DEFINE n == tx_fifo.count
<1>1. /\ n \in Nat /\ written \in Nat /\ last_acked[1] \in Nat /\ Len(delivered) \in Nat
      /\ tx_fifo \in FifoType(TxSize, Payload) /\ TxSize \in Nat \ {0} /\ TxSize + 2 < UintMod
  BY DeliveryTypes DEF DriverInv
<1>2. /\ n > 0 /\ 0 \in 0 .. n - 1
      /\ tx_pdu = Queue[0] /\ tx_pdu = tx_fifo.payload[tx_fifo.front]
  BY FrontSent
<1>3. tx_pdu.id = last_acked[1] + 1
  <2>1. PICK a \in Nat : a = last_acked[1]
    BY <1>1
  <2>2. \A j \in 0 .. n - 1 : Queue[j].id = a + 1 + j
    BY <2>1 DEF NumberInv
  <2>3. Queue[0].id = a + 1 + 0
    BY <1>2, <2>2
  <2> QED BY <1>2, <2>1, <2>3
<1>4. last_acked'[1] = last_acked[1] + 1 /\ last_acked'[2] = last_acked[1] + 1
  BY <1>1, <1>2, <1>3
<1>5. FifoConsistent(tx_fifo, TxSize) /\ PtxTypeOK
  BY DEF DriverInv, RingInv, LinkTypeOK
<1>6. /\ tx_fifo'.count = n - 1
      /\ \A i \in 0 .. n - 2 : FifoAt(tx_fifo', TxSize, i) = FifoAt(tx_fifo, TxSize, i + 1)
  BY <1>1, <1>2, <1>5, RemoveLastQueue
<1>7. ASSUME NEW i \in 0 .. n - 2 PROVE Queue'[i] = Queue[i + 1]
  <2>1. i \in 0 .. tx_fifo'.count - 1 /\ i + 1 \in 0 .. n - 1
    BY <1>1, <1>6
  <2> QED BY <1>6, <2>1 DEF Queue
<1>8. Len(delivered) = last_acked[1] + 1 /\ ~Got'
  BY <1>1, <1>4 DEF Got
<1>9. NumberInv'
  <2>0. PICK a \in Nat, b \in Nat : a = last_acked[1] /\ b = last_acked'[1] /\ b = a + 1
    BY <1>1, <1>4
  <2>1. ASSUME NEW i \in 0 .. tx_fifo'.count - 1 PROVE Queue'[i].id = last_acked'[1] + 1 + i
    <3>1. i \in 0 .. n - 2 /\ i + 1 \in 0 .. n - 1
      BY <1>1, <1>6
    <3>2. Queue[i + 1].id = a + 1 + (i + 1)
      BY <2>0, <3>1 DEF NumberInv
    <3>3. Queue'[i].id = b + 1 + i
      BY <1>7, <2>0, <3>1, <3>2
    <3> QED BY <2>0, <3>3
  <2>2. written' = last_acked'[1] + tx_fifo'.count
    <3>1. written = a + n
      BY <2>0 DEF NumberInv
    <3>2. PICK m \in Nat : m = n /\ tx_fifo'.count = m - 1
      BY <1>1, <1>6
    <3>3. b + (m - 1) = a + m
      BY <2>0
    <3> QED BY <2>0, <3>1, <3>2, <3>3
  <2>3. \A i \in 1 .. Len(delivered') : delivered'[i] = i
    BY DEF NumberInv
  <2> QED BY <1>4, <1>8, <2>1, <2>2, <2>3 DEF NumberInv
<1>10. Chained(n, Queue, pids, InfoPids, TRUE)
  BY DEF ChainInv
<1>11. PICK r : r = Queue'
  OBVIOUS
<1>12. \A i \in 0 .. n - 2 : r[i] = Queue[i + 1]
  BY <1>7, <1>11
<1>13. Chained(n - 1, r, pids, InfoPids, FALSE)
  BY <1>1, <1>2, <1>10, <1>12, ChainDrop
<1>14. InfoPids' = InfoPids
  BY DEF InfoPids
<1>15. ChainInv'
  BY <1>6, <1>8, <1>11, <1>13, <1>14 DEF ChainInv
<1> QED BY <1>4, <1>8, <1>9, <1>15

\* What the receiver compares the front packet with.
LEMMA FrontKnown ==
    ASSUME LinkUse, DriverInv, NumberInv, ChainInv, ptx_state # "IDLE"
    PROVE  /\ RxPid(tx_pdu) = tx_pdu.pid /\ RxSendsAck(tx_pdu)
           /\ IsRepeat(tx_pdu) <=> Got
           /\ tx_pdu.id = last_acked[1] + 1
<1>1. /\ tx_fifo.count > 0 /\ 0 \in 0 .. tx_fifo.count - 1 /\ tx_fifo.count \in Nat
      /\ tx_pdu = Queue[0] /\ tx_pdu = tx_fifo.payload[tx_fifo.front] /\ tx_pdu \in Payload
  BY FrontSent, DeliveryTypes DEF DriverInv
<1>2. RxPid(tx_pdu) = tx_pdu.pid
  BY DEF RxPid, LinkUse
<1>3. RxSendsAck(tx_pdu)
  <2>1. Asks(tx_pdu)
    BY <1>1, DeliveryTypes DEF DriverInv, AskInv, FifoType
  <2> QED BY <2>1 DEF Asks, RxSendsAck, RxAckBit, LinkUse
<1>4. tx_pdu.pipe \in Pipes /\ tx_pdu.pid \in Pids
  BY <1>1 DEF Payload
<1>5. InfoPids[tx_pdu.pipe] = pipe_info[tx_pdu.pipe].pid /\ pipe_info[tx_pdu.pipe].pid \in Pids
  BY <1>4, DeliveryTypes DEF DriverInv
<1>6. \A k \in 0 .. tx_fifo.count - 1 : k < 0 => Queue[k].pipe # Queue[0].pipe
  OBVIOUS
<1>7. ASSUME Got PROVE IsRepeat(tx_pdu)
  <2>1. InfoPids[tx_pdu.pipe] = tx_pdu.pid /\ pipe_info[tx_pdu.pipe].crc = Crc(tx_pdu)
    BY <1>1, <1>6, <1>7 DEF ChainInv, Chained
  <2> QED BY <1>2, <1>5, <2>1 DEF IsRepeat
<1>8. ASSUME ~Got PROVE ~IsRepeat(tx_pdu)
  <2>1. Follows(tx_pdu.pid, InfoPids[tx_pdu.pipe])
    BY <1>1, <1>6, <1>8 DEF ChainInv, Chained
  <2>2. tx_pdu.pid # pipe_info[tx_pdu.pipe].pid
    BY <1>5, <2>1, FollowsDiffers DEF Follows
  <2> QED BY <1>2, <2>2 DEF IsRepeat
<1>9. tx_pdu.id = last_acked[1] + 1
  <2>1. PICK a \in Nat : a = last_acked[1]
    BY DeliveryTypes DEF DriverInv
  <2>2. \A j \in 0 .. tx_fifo.count - 1 : Queue[j].id = a + 1 + j
    BY <2>1 DEF NumberInv
  <2>3. Queue[0].id = a + 1 + 0
    BY <1>1, <2>2
  <2> QED BY <1>1, <2>1, <2>3
<1>10. IsRepeat(tx_pdu) <=> Got
  BY <1>7, <1>8
<1> QED BY <1>2, <1>3, <1>9, <1>10

\* The receiver puts the front packet into its RX FIFO once.
LEMMA PacketDelivers ==
    ASSUME LinkUse, DriverInv, NumberInv, ChainInv, ptx_state # "IDLE", PacketReceived(tx_pdu),
           UNCHANGED <<tx_fifo, pids, written, last_acked>>
    PROVE  /\ NumberInv' /\ ChainInv' /\ Got' /\ prx_state' = "PRX_SEND_ACK"
           /\ \/ Got /\ UNCHANGED delivered
              \/ ~Got /\ delivered' = Append(delivered, last_acked[1] + 1)
<1> DEFINE n == tx_fifo.count
           pipe == tx_pdu.pipe
<1>1. /\ n > 0 /\ 0 \in 0 .. n - 1 /\ n \in Nat /\ tx_pdu = Queue[0] /\ tx_pdu \in Payload
      /\ pipe_info \in [Pipes -> [pid : Pids, crc : Nat, ack_payload : BOOLEAN]]
      /\ delivered \in Seq(Nat) /\ last_acked[1] \in Nat
  BY FrontSent, DeliveryTypes DEF DriverInv
<1>2. /\ RxPid(tx_pdu) = tx_pdu.pid /\ RxSendsAck(tx_pdu) /\ (IsRepeat(tx_pdu) <=> Got)
      /\ tx_pdu.id = last_acked[1] + 1
  BY FrontKnown
<1>3. pipe \in Pipes
  BY <1>1 DEF Payload
<1>4. PICK b : pipe_info' = [pipe_info EXCEPT ![pipe] = PipeInfo(tx_pdu, b)]
  BY <1>1, <1>2 DEF PacketReceived, PrepareDplAck, PrepareFixedAck, NoAck, LinkUse
<1>5. /\ pipe_info'[pipe].pid = tx_pdu.pid /\ pipe_info'[pipe].crc = Crc(tx_pdu)
      /\ \A p \in Pipes : p # pipe => pipe_info'[p] = pipe_info[p]
  BY <1>1, <1>2, <1>3, <1>4 DEF PipeInfo
<1>6. prx_state' = "PRX_SEND_ACK"
  BY <1>2 DEF PacketReceived
<1>7. \A i \in 0 .. n - 1 : Queue[i].pipe \in Pipes
  BY QueueTypes DEF DriverInv, Payload
<1>8. CASE Got
  <2>1. UNCHANGED delivered
    BY <1>2, <1>8 DEF PacketReceived
  <2>2. pipe_info[pipe].pid = tx_pdu.pid /\ pipe_info[pipe].crc = Crc(tx_pdu)
    BY <1>2, <1>8 DEF IsRepeat
  <2>3. \A p \in Pipes : pipe_info'[p].pid = pipe_info[p].pid /\ pipe_info'[p].crc = pipe_info[p].crc
    BY <1>5, <2>2
  <2>4. NumberInv' /\ ChainInv' /\ (Got' <=> Got)
    BY <1>7, <2>1, <2>3, NothingMoves DEF DriverInv
  <2> QED BY <1>6, <1>8, <2>1, <2>4
<1>9. CASE ~Got
  <2>1. PICK a \in Nat : a = last_acked[1] /\ a = last_acked'[1]
    BY <1>1
  <2>2. Len(delivered) = a /\ \A i \in 1 .. Len(delivered) : delivered[i] = i
    BY <1>9, <2>1 DEF NumberInv
  <2>3. delivered' = Append(delivered, a + 1)
    BY <1>2, <1>9, <2>1 DEF PacketReceived
  <2>4. Len(delivered') = a + 1 /\ \A i \in 1 .. Len(delivered') : delivered'[i] = i
    BY <1>1, <2>2, <2>3
  <2>5. Got' /\ Queue' = Queue
    BY <2>1, <2>4 DEF Got, Queue
  <2>6. NumberInv'
    BY <1>1, <2>4, <2>5 DEF NumberInv
  <2>7. PICK new : new = InfoPids'
    OBVIOUS
  <2>8. new[pipe] = tx_pdu.pid /\ \A p \in Pipes : p # pipe => new[p] = InfoPids[p]
    BY <1>3, <1>5, <2>7 DEF InfoPids
  <2>9. Chained(n, Queue, pids, InfoPids, FALSE)
    BY <1>9 DEF ChainInv
  <2>10. Chained(n, Queue, pids, new, TRUE)
    BY <1>1, <1>7, <2>8, <2>9, ChainDeliver
  <2>11. ChainInv'
    BY <1>1, <1>5, <2>5, <2>7, <2>10 DEF ChainInv
  <2> QED BY <1>6, <1>9, <2>1, <2>3, <2>5, <2>6, <2>11
<1> QED BY <1>8, <1>9

\* What the receiver's own steps leave alone.
LEMMA PrxLocalKeeps ==
    ASSUME LinkUse, PrxLocal
    PROVE  /\ UNCHANGED <<delivered, pipe_info, ack_pdu>>
           /\ prx_state' = "PRX_SEND_ACK" => prx_state = "PRX_SEND_ACK"
<1> USE DEF prxQueues, prxRadio, prxEvents, prxLogs
<1>1. ASSUME NEW c \in PrxContexts, PrxApi(c)
      PROVE  UNCHANGED <<delivered, pipe_info, ack_pdu>> \/ PrxFlushRx(c)
  BY <1>1, Zenon DEF PrxApi, PrxWriteCheck, PrxWriteEnqueue, PrxReadCheck, PrxReadLocked, PrxFlushTx,
     PrxPopCheck, PrxPopLocked, esb_start_rx, esb_stop_rx
<1>2. ASSUME NEW c \in PrxContexts PROVE ~PrxFlushRx(c)
  BY DEF PrxFlushRx, PrxCalling, LinkUse
<1>3. ~PrxReinit
  BY DEF PrxReinit, PrxCalling, LinkUse, PrxContexts
<1>4. UNCHANGED <<delivered, pipe_info, ack_pdu>>
  BY <1>1, <1>2, <1>3, Zenon DEF PrxLocal, PrxEvtEnter, PrxEvtReturn
<1>5. ASSUME NEW c \in PrxContexts, PrxApi(c)
      PROVE  UNCHANGED prx_state \/ prx_state' = "PRX" \/ prx_state' = "IDLE"
  BY <1>5, Zenon DEF PrxApi, PrxWriteCheck, PrxWriteEnqueue, PrxReadCheck, PrxReadLocked, PrxFlushTx,
     PrxFlushRx, PrxPopCheck, PrxPopLocked, esb_start_rx, esb_stop_rx
<1>6. UNCHANGED prx_state \/ prx_state' = "PRX" \/ prx_state' = "IDLE"
  BY <1>3, <1>5, Zenon DEF PrxLocal, PrxEvtEnter, PrxEvtReturn
<1> QED BY <1>4, <1>6

(* What a step of the link is in the eyes of the two applications.         *)
Visible ==
    \/ UNCHANGED <<written, delivered, last_acked>>
    \/ written' = written + 1 /\ UNCHANGED <<delivered, last_acked>>
    \/ /\ ~Got /\ tx_fifo.count > 0 /\ delivered' = Append(delivered, last_acked[1] + 1)
       /\ UNCHANGED <<written, last_acked>>
    \/ Got /\ last_acked'[1] = last_acked[1] + 1 /\ UNCHANGED <<written, delivered>>

\* The pipes of the queued payloads.
LEMMA QueuePipes ==
    ASSUME DriverInv
    PROVE  \A i \in 0 .. tx_fifo.count - 1 : Queue[i].pipe \in Pipes
BY QueueTypes DEF DriverInv, Payload

\* A step of the transmitter that does not touch the air.
LEMMA DeliveryPtxLocal ==
    ASSUME LinkUse, DriverInv, DeliveryInv, PtxLocal, UNCHANGED <<prxVars, air>>
    PROVE  DeliveryInv' /\ Visible
<1>1. UNCHANGED <<delivered, pipe_info, prx_state, ack_pdu, air>>
  BY DEF prxVars, prxRadio, prxLogs
<1>2. CASE PtxRests
  <2>1. UNCHANGED <<tx_fifo, pids, written, last_acked, ptx_state, tx_pdu>>
    BY <1>2 DEF PtxRests
  <2>2. NumberInv' /\ ChainInv' /\ (Got' <=> Got)
    BY <1>1, <2>1, QueuePipes, NothingMoves DEF DriverInv, DeliveryInv
  <2>3. AirInv'
    BY <1>1, <2>1, <2>2 DEF DeliveryInv, AirInv, Data, Ack
  <2> QED BY <1>1, <2>1, <2>2, <2>3 DEF DeliveryInv, Visible
<1>3. CASE PtxStarts
  <2>1. UNCHANGED <<tx_fifo, pids, written, last_acked>> /\ ptx_state = "IDLE"
    BY <1>3 DEF PtxStarts
  <2>2. NumberInv' /\ ChainInv' /\ (Got' <=> Got)
    BY <1>1, <2>1, QueuePipes, NothingMoves DEF DriverInv, DeliveryInv
  <2>3. AirInv'
    BY <1>1, <2>1 DEF DeliveryInv, AirInv
  <2> QED BY <1>1, <2>1, <2>2, <2>3 DEF DeliveryInv, Visible
<1>4. ASSUME NEW x \in Payload, PtxQueues(x) PROVE DeliveryInv' /\ Visible
  <2>1. NumberInv' /\ ChainInv' /\ (Got' <=> Got)
    BY <1>1, <1>4, QueueGrows DEF DeliveryInv
  <2>2. UNCHANGED <<last_acked, ptx_state, tx_pdu>> /\ written' = written + 1
    BY <1>4 DEF PtxQueues
  <2>3. AirInv'
    BY <1>1, <2>1, <2>2 DEF DeliveryInv, AirInv, Data, Ack
  <2> QED BY <1>1, <2>1, <2>2, <2>3 DEF DeliveryInv, Visible
<1> QED BY <1>2, <1>3, <1>4, LocalCases DEF DriverInv, LinkTypeOK

\* A step of the receiver, or of the air, that moves no packet.
LEMMA DeliveryKept ==
    ASSUME DriverInv, DeliveryInv, UNCHANGED <<tx_fifo, pids, written, last_acked, delivered, pipe_info>>,
           AirInv' \/ (UNCHANGED <<air, ptx_state, tx_pdu, ack_pdu>>
                        /\ (prx_state' = "PRX_SEND_ACK" => prx_state = "PRX_SEND_ACK"))
    PROVE  DeliveryInv' /\ Visible
<1>1. NumberInv' /\ ChainInv' /\ (Got' <=> Got)
  BY QueuePipes, NothingMoves DEF DriverInv, DeliveryInv
<1>2. AirInv'
  BY <1>1 DEF DeliveryInv, AirInv, Data, Ack
<1> QED BY <1>1, <1>2 DEF DeliveryInv, Visible

\* Every step of the link keeps the delivery invariant.
LEMMA DeliveryStep ==
    ASSUME LinkUse, DriverInv, DeliveryInv, [LinkNext]_linkVars
    PROVE  DeliveryInv' /\ Visible
<1> USE DEF ptxVars, ptxQueues, ptxRadio, ptxEvents, ptxLogs, prxVars, prxRadio, prxEvents, prxLogs
<1>1. CASE PtxLocal /\ UNCHANGED <<prxVars, air>>
  BY <1>1, DeliveryPtxLocal
<1>2. CASE PrxLocal /\ UNCHANGED <<ptxVars, air>>
  <2>1. /\ UNCHANGED <<delivered, pipe_info, ack_pdu>>
        /\ prx_state' = "PRX_SEND_ACK" => prx_state = "PRX_SEND_ACK"
    BY <1>2, PrxLocalKeeps
  <2> QED BY <1>2, <2>1, DeliveryKept
<1>3. CASE PtxSends
  <2>1. ~on_radio_disabled_tx_noack
    BY DEF on_radio_disabled_tx_noack, DriverInv, AskInv
  <2>2. /\ ptx_state = "PTX_TX_ACK" /\ ptx_state' = "PTX_RX_ACK" /\ air' = {Data(tx_pdu)}
        /\ UNCHANGED <<tx_fifo, pids, written, last_acked, tx_pdu, delivered, pipe_info, prx_state>>
    BY <1>3, <2>1 DEF PtxSends, on_radio_disabled_tx
  <2>3. AirInv'
    BY <2>2 DEF DeliveryInv, AirInv, Data
  <2> QED BY <2>2, <2>3, DeliveryKept
<1>4. CASE PrxSends
  <2>1. /\ prx_state = "PRX_SEND_ACK" /\ prx_state' = "PRX" /\ air' = {Ack(ack_pdu)}
        /\ UNCHANGED <<tx_fifo, pids, written, last_acked, delivered, pipe_info, ack_pdu, ptx_state>>
    BY <1>4 DEF PrxSends, on_radio_disabled_rx_ack
  <2>2. Got /\ ptx_state = "PTX_RX_ACK"
    BY <2>1 DEF DeliveryInv, AirInv
  <2>3. Got'
    BY <2>1, <2>2 DEF Got
  <2>4. AirInv'
    BY <2>1, <2>2, <2>3 DEF AirInv, Ack
  <2> QED BY <2>1, <2>4, DeliveryKept
<1>5. CASE PrxReceives
  <2>1. PICK f \in air : f.dir = "data" /\ (PacketReceived(f.pdu) \/ PacketRefused)
    BY <1>5 DEF PrxReceives
  <2>2. air' = {} /\ UNCHANGED <<tx_fifo, pids, written, last_acked, ptx_state, tx_pdu>>
    BY <1>5 DEF PrxReceives
  <2>3. f.pdu = tx_pdu /\ ptx_state = "PTX_RX_ACK"
    BY <2>1 DEF DeliveryInv, AirInv, Data, Ack
  <2>4. CASE PacketRefused
    <3>1. UNCHANGED <<delivered, pipe_info, prx_state>> /\ prx_state = "PRX"
      BY <2>4 DEF PacketRefused
    <3>2. AirInv'
      BY <2>2, <3>1 DEF AirInv
    <3> QED BY <2>2, <3>1, <3>2, DeliveryKept
  <2>5. CASE PacketReceived(tx_pdu)
    <3>1. /\ NumberInv' /\ ChainInv' /\ Got' /\ prx_state' = "PRX_SEND_ACK"
          /\ \/ Got /\ UNCHANGED delivered
             \/ ~Got /\ delivered' = Append(delivered, last_acked[1] + 1)
      BY <2>2, <2>3, <2>5, PacketDelivers DEF DeliveryInv
    <3>2. AirInv'
      BY <2>2, <2>3, <3>1 DEF AirInv
    <3>3. tx_fifo.count > 0
      BY <2>3, FrontSent
    <3> QED BY <2>2, <3>1, <3>2, <3>3 DEF DeliveryInv, Visible
  <2> QED BY <2>1, <2>3, <2>4, <2>5
<1>6. CASE PtxReceives
  <2>1. PICK f \in air : f.dir = "ack" /\ AckReceived(f.pdu)
    BY <1>6 DEF PtxReceives
  <2>2. air' = {} /\ UNCHANGED <<delivered, pipe_info, prx_state>>
    BY <1>6 DEF PtxReceives
  <2>3. Got /\ ptx_state = "PTX_RX_ACK" /\ prx_state # "PRX_SEND_ACK"
    BY <2>1 DEF DeliveryInv, AirInv, Data
  <2>4. /\ tx_fifo' = RemoveLast /\ UNCHANGED <<pids, written>>
        /\ last_acked' = <<IF tx_fifo.count = 0 THEN 0 ELSE tx_fifo.payload[tx_fifo.front].id, tx_pdu.id>>
    BY <2>1 DEF AckReceived
  <2>5. NumberInv' /\ ChainInv' /\ last_acked'[1] = last_acked[1] + 1
    BY <2>2, <2>3, <2>4, QueueShrinks DEF DeliveryInv
  <2>6. AirInv'
    BY <2>2, <2>3 DEF AirInv
  <2> QED BY <2>2, <2>3, <2>4, <2>5, <2>6 DEF DeliveryInv, Visible
<1>7. CASE PtxTimeout
  <2>1. /\ air' = {} /\ prx_state' # "PRX_SEND_ACK"
        /\ UNCHANGED <<tx_fifo, pids, written, last_acked, delivered, pipe_info>>
    BY <1>7 DEF PtxTimeout, AckMissed
  <2>2. AirInv'
    BY <2>1 DEF AirInv
  <2> QED BY <2>1, <2>2, DeliveryKept
<1>8. CASE Lose
  <2>1. /\ air # {} /\ air' = {}
        /\ UNCHANGED <<tx_fifo, pids, written, last_acked, delivered, pipe_info, prx_state>>
    BY <1>8 DEF Lose
  <2>2. AirInv'
    BY <2>1 DEF DeliveryInv, AirInv
  <2> QED BY <2>1, <2>2, DeliveryKept
<1>9. CASE UNCHANGED linkVars
  BY <1>9, DeliveryKept DEF linkVars
<1> QED BY <1>1, <1>2, <1>3, <1>4, <1>5, <1>6, <1>7, <1>8, <1>9 DEF LinkNext

\* The link starts with nothing written and nothing delivered.
LEMMA DeliveryInit ==
    ASSUME LinkUse, LinkInit
    PROVE  RingInv /\ SendInv /\ AskInv /\ DeliveryInv
<1>1. RingInv /\ SendInv
  BY RingInit, SendInit DEF LinkInit
<1>2. \A c \in Contexts : ptx_call[c] = NoCall
  BY DEF LinkInit, PtxInit
<1>3. \A i \in 0 .. TxSize - 1 : Asks(tx_fifo.payload[i])
  BY DEF LinkInit, PtxInit, EmptyFifo, BlankPayload, Asks
<1>4. AskInv
  BY <1>2, <1>3 DEF LinkInit, PtxInit, AskInv, NoCall
<1>5. /\ tx_fifo.count = 0 /\ last_acked = <<0, 0>> /\ written = 0 /\ delivered = <<>> /\ air = {}
      /\ prx_state = "IDLE" /\ pids = [p \in Pipes |-> 0] /\ pipe_info = [p \in Pipes |-> BlankPipeInfo]
  BY DEF LinkInit, PtxInit, PrxInit, EmptyFifo
<1>6. ~Got
  BY <1>5 DEF Got
<1>7. NumberInv
  BY <1>5 DEF NumberInv
<1>8. \A p \in Pipes : pids[p] = InfoPids[p]
  BY <1>5 DEF InfoPids, BlankPipeInfo
<1>9. Chained(tx_fifo.count, Queue, pids, InfoPids, FALSE)
  BY <1>5, <1>8 DEF Chained
<1>10. ChainInv
  BY <1>6, <1>9 DEF ChainInv
<1>11. AirInv
  BY <1>5 DEF AirInv
<1> QED BY <1>1, <1>4, <1>7, <1>10, <1>11 DEF DeliveryInv

\* The invariants of the link, together.
LEMMA LinkDelivers ==
    ASSUME CrcIsNumber, LinkUse
    PROVE  LinkSpec => [](DriverInv /\ DeliveryInv)
<1>1. LinkInit => RingInv /\ SendInv /\ AskInv /\ DeliveryInv
  BY DeliveryInit
<1>2. LinkTypeOK /\ RingInv /\ SendInv /\ AskInv /\ DeliveryInv /\ [LinkNext]_linkVars
        => RingInv' /\ SendInv' /\ AskInv' /\ DeliveryInv'
  BY PtxInvStep, AskStep, DeliveryStep DEF DriverInv
<1>3. LinkTypeOK /\ RingInv /\ SendInv /\ AskInv => DriverInv
  BY DEF DriverInv
<1> QED BY <1>1, <1>2, <1>3, LinkTypeCorrect, PTL DEF LinkSpec

(* A payload that the transmitter reports with TX_SUCCESS is the one that  *)
(* was sent, and the receiver has put it into its RX FIFO: for every       *)
(* number of pipes, FIFO size, CRC (colliding ones included) and pattern   *)
(* of losses, on a link used for acknowledged packets.                     *)
THEOREM LinkSuccess ==
    ASSUME CrcIsNumber, LinkUse
    PROVE  LinkSpec => []SuccessMeansDelivered
<1>1. DriverInv /\ DeliveryInv => SuccessMeansDelivered
  <2> SUFFICES ASSUME DriverInv, DeliveryInv, last_acked # <<0, 0>>
               PROVE  /\ last_acked[1] = last_acked[2]
                      /\ \E i \in 1 .. Len(delivered) : delivered[i] = last_acked[1]
    BY DEF SuccessMeansDelivered
  <2>1. last_acked \in Nat \X Nat /\ Len(delivered) \in Nat
    BY DeliveryTypes DEF DriverInv, LinkTypeOK, PtxTypeOK
  <2>2. last_acked[1] = last_acked[2] /\ Len(delivered) >= last_acked[1]
    BY <2>1 DEF DeliveryInv, NumberInv, Got
  <2>3. last_acked[1] # 0
    BY <2>1, <2>2
  <2>4. last_acked[1] \in 1 .. Len(delivered)
    BY <2>1, <2>2, <2>3
  <2> QED BY <2>2, <2>4 DEF DeliveryInv, NumberInv
<1> QED BY <1>1, LinkDelivers, PTL

(* The link implements the reliable link of EsbReliableLink: packets are   *)
(* delivered one at a time, in order and exactly once, and success is      *)
(* reported for a packet only after its delivery.                          *)
THEOREM LinkRefinesReliable ==
    ASSUME CrcIsNumber, LinkUse
    PROVE  LinkSpec => ImplementsReliableLink
<1>1. LinkInit => Reliable!Init
  BY DEF LinkInit, PtxInit, PrxInit, Reliable!Init
<1>2. DriverInv /\ DeliveryInv /\ [LinkNext]_linkVars
        => [Reliable!Next]_<<written, delivered, last_acked[1]>>
  <2> SUFFICES ASSUME DriverInv, DeliveryInv, Visible
               PROVE  Reliable!Next \/ UNCHANGED <<written, delivered, last_acked[1]>>
    BY DeliveryStep
  <2>1. PICK a \in Nat, n \in Nat, d \in Nat :
          a = last_acked[1] /\ n = tx_fifo.count /\ d = Len(delivered)
    BY DeliveryTypes DEF DriverInv
  <2>2. written = a + n /\ (d = a \/ d = a + 1) /\ (Got <=> d = a + 1)
    BY <2>1 DEF DeliveryInv, NumberInv, Got
  <2>3. CASE UNCHANGED <<written, delivered, last_acked>>
    BY <2>3
  <2>4. CASE written' = written + 1 /\ UNCHANGED <<delivered, last_acked>>
    BY <2>4 DEF Reliable!Next, Reliable!Write
  <2>5. CASE /\ ~Got /\ tx_fifo.count > 0 /\ delivered' = Append(delivered, last_acked[1] + 1)
             /\ UNCHANGED <<written, last_acked>>
    <3>1. d = a /\ a < written
      BY <2>1, <2>2, <2>5
    <3> QED BY <2>1, <2>5, <3>1 DEF Reliable!Next, Reliable!Deliver
  <2>6. CASE Got /\ last_acked'[1] = last_acked[1] + 1 /\ UNCHANGED <<written, delivered>>
    <3>1. a < d
      BY <2>2, <2>6
    <3> QED BY <2>1, <2>6, <3>1 DEF Reliable!Next, Reliable!Succeed
  <2> QED BY <2>3, <2>4, <2>5, <2>6 DEF Visible
<1> QED BY <1>1, <1>2, LinkDelivers, PTL DEF LinkSpec, ImplementsReliableLink, Reliable!Spec

-----------------------------------------------------------------------------
(* Payloads attached to acknowledgments.  The receiving application also   *)
(* leaves the queue of these payloads to the driver.                       *)
AckUse ==
    /\ LinkUse /\ PrxQueueUse
    /\ \A c \in PrxContexts : <<c, "flush_tx">> \notin PrxCalls

(* The transmitter has the payload attached last on pipe p, or will have   *)
(* it before the receiver sees a new packet on the pipe.                   *)
Taken(p) == pipe_info[p].ack_payload /\ ~(Got /\ p = Queue[0].pipe)
Came(a) == \E i \in 1 .. Len(ptx_got) : ptx_got[i] = a

AckInv ==
    /\ \A p \in Pipes : pipe_info[p].ack_payload => ack_pl[p] # <<>>
    /\ \A p \in Pipes : Taken(p) => Came(Head(ack_pl[p]))
    /\ prx_state = "PRX_SEND_ACK" \/ air = {Ack(ack_pdu)} =>
         ack_pdu.pl = IF pipe_info[Queue[0].pipe].ack_payload THEN {Head(ack_pl[Queue[0].pipe])} ELSE {}
    /\ \A a \in ack_done : Came(a)

(* On a single pipe: the payloads waiting on the list are newer than those *)
(* the transmitter has, but for the one it has just been sent.             *)
OrderInv ==
    /\ \A i, j \in 1 .. Len(ack_pl[0]) : i < j => ack_pl[0][i] < ack_pl[0][j]
    /\ \A i \in 1 .. Len(ack_pl[0]) : ack_pl[0][i] <= ack_written
    /\ \A i \in 1 .. Len(ptx_got) : ptx_got[i] <= ack_written
    /\ \A i, j \in 1 .. Len(ptx_got) : i < j => ptx_got[i] < ptx_got[j]
    /\ \A i \in 1 .. Len(ptx_got), j \in 1 .. Len(ack_pl[0]) :
         ptx_got[i] < ack_pl[0][j] \/ (Taken(0) /\ j = 1 /\ ptx_got[i] = ack_pl[0][1])

\* The receiver's own steps queue ack payloads at the end, and retire none.
LEMMA PrxLocalAcks ==
    ASSUME AckUse, PrxTypeOK, PrxLocal
    PROVE  /\ UNCHANGED ack_done
           /\ \/ UNCHANGED ack_pl /\ (ack_written' = ack_written \/ ack_written' = ack_written + 1)
              \/ \E p \in Pipes : /\ ack_pl' = [ack_pl EXCEPT ![p] = Append(@, ack_written + 1)]
                                   /\ ack_written' = ack_written + 1
<1> USE DEF prxQueues, prxRadio, prxEvents, prxLogs
<1>1. ASSUME NEW c \in PrxContexts, PrxFlushTx(c) \/ PrxFlushRx(c) \/ PrxReinit PROVE FALSE
  BY <1>1 DEF PrxFlushTx, PrxFlushRx, PrxReinit, PrxCalling, AckUse, LinkUse, PrxContexts
<1>2. CASE PrxEvtEnter \/ PrxEvtReturn
  <2>1. UNCHANGED <<ack_done, ack_pl, ack_written>>
    BY <1>2, Zenon DEF PrxEvtEnter, PrxEvtReturn
  <2> QED BY <2>1
<1>3. ASSUME NEW c \in PrxContexts, PrxApi(c), ~PrxWriteEnqueue(c)
      PROVE  UNCHANGED <<ack_done, ack_pl, ack_written>>
  BY <1>1, <1>3, Zenon DEF PrxApi, PrxWriteCheck, PrxReadCheck, PrxReadLocked,
     PrxPopCheck, PrxPopLocked, esb_start_rx, esb_stop_rx
<1>4. ASSUME NEW c \in PrxContexts, PrxWriteEnqueue(c)
      PROVE  /\ UNCHANGED ack_done /\ ack_written' = ack_written + 1
             /\ \/ UNCHANGED ack_pl
                \/ \E p \in Pipes : ack_pl' = [ack_pl EXCEPT ![p] = Append(@, ack_written + 1)]
  <2>1. prx_call[c].pipe \in Pipes
    <3>1. prx_call[c] \in PrxCallType /\ prx_call[c].step = "enqueue"
      BY <1>4 DEF PrxWriteEnqueue, PrxResumes, PrxTypeOK
    <3>2. prx_call[c] # NoPrxCall /\ prx_call[c] \notin [step : {"read", "pop"}]
      BY <3>1 DEF NoPrxCall
    <3>3. prx_call[c] \in [step : {"enqueue"}, pipe : Pipes]
      BY <3>1, <3>2, Zenon DEF PrxCallType
    <3> QED BY <3>3
  <2> QED BY <1>4, <2>1 DEF PrxWriteEnqueue
<1>5. CASE \E c \in PrxContexts : PrxApi(c)
  <2>1. PICK c \in PrxContexts : PrxApi(c)
    BY <1>5
  <2>2. CASE PrxWriteEnqueue(c)
    BY <1>4, <2>2
  <2>3. CASE ~PrxWriteEnqueue(c)
    BY <1>3, <2>1, <2>3
  <2> QED BY <2>2, <2>3
<1> QED BY <1>1, <1>2, <1>5 DEF PrxLocal, PrxContexts

\* What the reception of a packet does to the ack payloads of its pipe.
LEMMA PacketAcks ==
    ASSUME Protocol = "ESB_DPL", PrxTypeOK, PrxRingInv, NEW pdu \in Payload, PacketReceived(pdu),
           RxSendsAck(pdu),
           pipe_info[pdu.pipe].ack_payload => ack_pl[pdu.pipe] # <<>>
    PROVE  /\ \A p \in Pipes : p # pdu.pipe => ack_pl'[p] = ack_pl[p] /\ pipe_info'[p] = pipe_info[p]
           /\ pipe_info[pdu.pipe].ack_payload /\ ~IsRepeat(pdu)
                => /\ ack_pl'[pdu.pipe] = Tail(ack_pl[pdu.pipe])
                   /\ ack_done' = ack_done \cup {Head(ack_pl[pdu.pipe])}
           /\ ~(pipe_info[pdu.pipe].ack_payload /\ ~IsRepeat(pdu))
                => ack_pl'[pdu.pipe] = ack_pl[pdu.pipe] /\ ack_done' = ack_done
           /\ pipe_info'[pdu.pipe].ack_payload <=> ack_pl'[pdu.pipe] # <<>>
           /\ ack_pdu'.pl = IF ack_pl'[pdu.pipe] # <<>> THEN {Head(ack_pl'[pdu.pipe])} ELSE {}
           /\ UNCHANGED ack_written
<1> DEFINE pipe == pdu.pipe
<1>1. /\ pipe \in Pipes /\ ack_pl \in [Pipes -> Seq(Nat)] /\ ack_count \in Nat
      /\ pipe_info \in [Pipes -> [pid : Pids, crc : Nat, ack_payload : BOOLEAN]]
  BY BaseAssumption DEF Payload, PrxTypeOK
<1>2. PrepareDplAck(pdu)
  BY DEF PacketReceived, PrepareFixedAck, NoAck
<1>3. /\ ack_pl' = [ack_pl EXCEPT ![pipe] = ListAfter(pdu)] /\ ack_count' = CountAfter(pdu)
      /\ ack_pdu'.pl = Attached(pdu)
      /\ ack_done' = ack_done \cup (IF Retires(pdu) THEN {Head(ack_pl[pipe])} ELSE {})
      /\ pipe_info' = [pipe_info EXCEPT ![pipe] = PipeInfo(pdu, Attached(pdu) # {})]
  BY <1>2 DEF PrepareDplAck
<1>4. ack_pl'[pipe] = ListAfter(pdu) /\ \A p \in Pipes : p # pipe => ack_pl'[p] = ack_pl[p] /\ pipe_info'[p] = pipe_info[p]
  BY <1>1, <1>3
<1>5. pipe_info'[pipe].ack_payload <=> Attached(pdu) # {}
  <2>1. PICK b \in BOOLEAN : b = (Attached(pdu) # {})
    OBVIOUS
  <2>2. pipe_info'[pipe] = PipeInfo(pdu, b)
    BY <1>1, <1>3, <2>1
  <2>3. PipeInfo(pdu, b).ack_payload = b
    BY DEF PipeInfo
  <2> QED BY <2>1, <2>2, <2>3
<1>6. ack_pl' \in [Pipes -> Seq(Nat)] /\ ListAfter(pdu) \in Seq(Nat)
  BY <1>1, <1>3, ListType
<1>7. ack_count' = Cardinality(InUseOf(ack_pl')) /\ ack_count = Cardinality(InUseOf(ack_pl))
  BY RetireCounts DEF PrxRingInv
<1>8. ListAfter(pdu) # <<>> => CountAfter(pdu) > 0
  <2>1. PICK pl \in [Pipes -> Seq(Nat)] : pl = ack_pl'
    BY <1>6
  <2>2. pl[pipe] # <<>> => Cardinality(InUseOf(pl)) > 0
    BY <1>1, InUseFinite
  <2> QED BY <1>3, <1>4, <1>7, <2>1, <2>2
<1>9. Attached(pdu) = IF ListAfter(pdu) # <<>> THEN {Head(ListAfter(pdu))} ELSE {}
  BY <1>8 DEF Attached
<1>10. ack_pl[pipe] # <<>> => ack_count > 0
  BY <1>1, <1>7, InUseFinite
<1>11. Retires(pdu) <=> pipe_info[pipe].ack_payload /\ ~IsRepeat(pdu)
  BY <1>10 DEF Retires
<1>12. UNCHANGED ack_written
  BY DEF PacketReceived
<1>13. Attached(pdu) # {} <=> ListAfter(pdu) # <<>>
  BY <1>9
<1>14. pipe_info[pipe].ack_payload /\ ~IsRepeat(pdu)
         => ack_pl'[pipe] = Tail(ack_pl[pipe]) /\ ack_done' = ack_done \cup {Head(ack_pl[pipe])}
  BY <1>3, <1>4, <1>11 DEF ListAfter
<1>15. ~(pipe_info[pipe].ack_payload /\ ~IsRepeat(pdu))
         => ack_pl'[pipe] = ack_pl[pipe] /\ ack_done' = ack_done
  BY <1>3, <1>4, <1>11 DEF ListAfter
<1>16. ack_pdu'.pl = IF ack_pl'[pipe] # <<>> THEN {Head(ack_pl'[pipe])} ELSE {}
  BY <1>3, <1>4, <1>9
<1> QED BY <1>4, <1>5, <1>12, <1>13, <1>14, <1>15, <1>16

\* What the transmitter does with the payload of an acknowledgment.
LEMMA AckTakes ==
    ASSUME LinkUse, PtxTypeOK, NEW pl, pl \subseteq Nat, PtxReceive(pl)
    PROVE  /\ pl = {} => ptx_got' = ptx_got
           /\ \A a : pl = {a} => ptx_got' = Append(ptx_got, a)
<1>1. pl = {} => ptx_got' = ptx_got
  BY DEF PtxReceive
<1>2. ASSUME NEW a, pl = {a} PROVE ptx_got' = Append(ptx_got, a)
  <2>1. pl # {} /\ Protocol # "ESB"
    BY <1>2 DEF LinkUse
  <2>2. \E b \in pl : ptx_got' = Append(ptx_got, b)
    BY <2>1, Zenon DEF PtxReceive
  <2> QED BY <1>2, <2>2
<1> QED BY <1>1, <1>2

\* A payload that came stays.
LEMMA CameStays ==
    ASSUME ptx_got \in Seq(Nat), NEW x \in Nat, ptx_got' = ptx_got \/ ptx_got' = Append(ptx_got, x)
    PROVE  /\ \A a : Came(a) => Came(a)'
           /\ ptx_got' = Append(ptx_got, x) => Came(x)'
<1>1. CASE ptx_got' = ptx_got
  <2>1. \A a : Came(a) => Came(a)'
    BY <1>1 DEF Came
  <2>2. Append(ptx_got, x) # ptx_got
    <3>1. Len(Append(ptx_got, x)) = Len(ptx_got) + 1 /\ Len(ptx_got) \in Nat
      OBVIOUS
    <3> QED BY <3>1
  <2> QED BY <1>1, <2>1, <2>2
<1>2. CASE ptx_got' = Append(ptx_got, x)
  <2>1. /\ Len(ptx_got') = Len(ptx_got) + 1 /\ Len(ptx_got) \in Nat
        /\ ptx_got'[Len(ptx_got) + 1] = x
        /\ \A i \in 1 .. Len(ptx_got) : ptx_got'[i] = ptx_got[i]
    BY <1>2
  <2>2. ASSUME NEW a, Came(a) PROVE Came(a)'
    <3>1. PICK i \in 1 .. Len(ptx_got) : ptx_got[i] = a
      BY <2>2 DEF Came
    <3>2. i \in 1 .. Len(ptx_got') /\ ptx_got'[i] = a
      BY <2>1, <3>1
    <3> QED BY <3>2 DEF Came
  <2>3. Len(ptx_got) + 1 \in 1 .. Len(ptx_got')
    BY <2>1
  <2>4. Came(x)'
    BY <2>1, <2>3 DEF Came
  <2> QED BY <2>2, <2>4
<1> QED BY <1>1, <1>2

\* The transmitter's own steps leave the front packet where it is.
LEMMA FrontStays ==
    ASSUME LinkUse, DriverInv, DeliveryInv, PtxLocal, UNCHANGED delivered
    PROVE  (Got' <=> Got) /\ (Got => Queue'[0] = Queue[0]) /\ UNCHANGED <<ptx_got, last_acked>>
<1>1. CASE PtxRests \/ PtxStarts
  <2>1. UNCHANGED <<tx_fifo, last_acked, ptx_got>>
    BY <1>1 DEF PtxRests, PtxStarts
  <2> QED BY <2>1 DEF Got, Queue
<1>2. ASSUME NEW x \in Payload, PtxQueues(x)
      PROVE  (Got' <=> Got) /\ (Got => Queue'[0] = Queue[0]) /\ UNCHANGED <<ptx_got, last_acked>>
  <2>1. /\ UNCHANGED <<last_acked, ptx_got>> /\ tx_fifo' = FifoPush(tx_fifo, TxSize, x)
        /\ tx_fifo.count < TxSize
    BY <1>2 DEF PtxQueues
  <2>2. /\ tx_fifo.count \in Nat /\ FifoConsistent(tx_fifo, TxSize) /\ last_acked[1] \in Nat
        /\ tx_fifo \in FifoType(TxSize, Payload) /\ TxSize \in Nat \ {0} /\ TxSize + 2 < UintMod
    BY DeliveryTypes DEF DriverInv, RingInv
  <2>3. /\ tx_fifo'.count = tx_fifo.count + 1
        /\ \A i \in 0 .. tx_fifo.count - 1 : FifoAt(tx_fifo', TxSize, i) = FifoAt(tx_fifo, TxSize, i)
    BY <2>1, <2>2, PushQueues
  <2>4. Got => tx_fifo.count > 0
    BY <2>2 DEF DeliveryInv, NumberInv, Got
  <2>5. tx_fifo.count > 0 => 0 \in 0 .. tx_fifo.count - 1 /\ 0 \in 0 .. tx_fifo'.count - 1
    BY <2>2, <2>3
  <2>6. Got => Queue'[0] = Queue[0]
    BY <2>3, <2>4, <2>5 DEF Queue
  <2>7. Got' <=> Got
    BY <2>1 DEF Got
  <2> QED BY <2>1, <2>6, <2>7
<1> QED BY <1>1, <1>2, LocalCases DEF DriverInv, LinkTypeOK

\* The front packet's pipe, when it is known to be there.
LEMMA FrontPipe ==
    ASSUME DriverInv, DeliveryInv, Got
    PROVE  Queue[0].pipe \in Pipes
<1>1. tx_fifo.count \in Nat /\ tx_fifo.count > 0
  BY DeliveryTypes DEF DriverInv, DeliveryInv, NumberInv, Got
<1>2. 0 \in 0 .. tx_fifo.count - 1
  BY <1>1
<1> QED BY <1>2, QueuePipes

(* An acknowledgment is being sent or on the air.                          *)
Acking == prx_state = "PRX_SEND_ACK" \/ air = {Ack(ack_pdu)}

\* An acknowledgment is not a packet.
LEMMA AckIsNotData ==
    ASSUME NEW a, NEW d
    PROVE  {Ack(a)} # {Data(d)} /\ {Ack(a)} # {}
<1>1. Ack(a).dir = "ack" /\ Data(d).dir = "data"
  BY DEF Ack, Data
<1>2. Ack(a) # Data(d)
  BY <1>1
<1> QED BY <1>2

\* The receiver has the packet it acknowledges.
LEMMA AckingGot ==
    ASSUME DeliveryInv, Acking
    PROVE  Got
BY AckIsNotData DEF DeliveryInv, AirInv, Acking

\* A step that touches no ack payload.
LEMMA AckKept ==
    ASSUME DriverInv, DeliveryInv, AckInv,
           UNCHANGED <<pipe_info, ack_pl, ack_done, ptx_got, ack_pdu>>,
           Got' <=> Got, Got => Queue'[0] = Queue[0],
           Acking' => Acking
    PROVE  AckInv' /\ \A p \in Pipes : Taken(p)' <=> Taken(p)
<1>1. \A p \in Pipes : Taken(p)' <=> Taken(p)
  BY DEF Taken
<1>2. \A a : Came(a)' <=> Came(a)
  BY DEF Came
<1>3. Acking => Got
  BY AckingGot
<1>4. Acking' => ack_pdu'.pl =
        IF pipe_info'[Queue'[0].pipe].ack_payload THEN {Head(ack_pl'[Queue'[0].pipe])} ELSE {}
  BY <1>3 DEF AckInv, Acking
<1>5. \A p \in Pipes : Taken(p)' => Came(Head(ack_pl[p]))'
  BY <1>1 DEF AckInv, Came
<1>6. \A a \in ack_done' : Came(a)'
  BY <1>2 DEF AckInv
<1>7. \A p \in Pipes : pipe_info'[p].ack_payload => ack_pl'[p] # <<>>
  BY DEF AckInv
<1> QED BY <1>1, <1>4, <1>5, <1>6, <1>7 DEF AckInv, Acking

\* The receiver's own steps keep the payload that was attached at the head.
LEMMA AckPrxLocal ==
    ASSUME AckUse, DriverInv, DeliveryInv, AckInv, PrxLocal, UNCHANGED <<ptxVars, air>>
    PROVE  AckInv' /\ \A p \in Pipes : Taken(p)' <=> Taken(p)
<1>1. /\ UNCHANGED <<delivered, pipe_info, ack_pdu>>
      /\ prx_state' = "PRX_SEND_ACK" => prx_state = "PRX_SEND_ACK"
  BY PrxLocalKeeps DEF AckUse
<1>2. UNCHANGED <<tx_fifo, last_acked, ptx_got, air>>
  BY DEF ptxVars, ptxQueues, ptxLogs
<1>3. Queue' = Queue /\ (Got' <=> Got) /\ (Acking' => Acking)
  BY <1>1, <1>2 DEF Queue, Got, Acking, Ack
<1>4. /\ UNCHANGED ack_done
      /\ \/ UNCHANGED ack_pl
         \/ \E p \in Pipes : ack_pl' = [ack_pl EXCEPT ![p] = Append(@, ack_written + 1)]
  BY PrxLocalAcks DEF AckUse, DriverInv, LinkTypeOK
<1>5. CASE UNCHANGED ack_pl
  BY <1>1, <1>2, <1>3, <1>4, <1>5, AckKept
<1>6. CASE ~UNCHANGED ack_pl
  <2>1. PICK q \in Pipes : ack_pl' = [ack_pl EXCEPT ![q] = Append(@, ack_written + 1)]
    BY <1>4, <1>6
  <2>2. ack_pl \in [Pipes -> Seq(Nat)] /\ ack_written + 1 \in Nat
    BY DEF DriverInv, LinkTypeOK, PrxTypeOK
  <2>3. ASSUME NEW p \in Pipes, ack_pl[p] # <<>>
        PROVE  ack_pl'[p] # <<>> /\ Head(ack_pl'[p]) = Head(ack_pl[p])
    <3>1. CASE p = q
      <4>1. ack_pl'[p] = Append(ack_pl[p], ack_written + 1) /\ ack_pl[p] \in Seq(Nat)
        BY <2>1, <2>2, <3>1
      <4>2. Len(ack_pl[p]) \in Nat /\ Len(ack_pl[p]) >= 1
        BY <2>3, <4>1
      <4>3. Len(ack_pl'[p]) = Len(ack_pl[p]) + 1 /\ ack_pl'[p][1] = ack_pl[p][1] /\ ack_pl'[p] \in Seq(Nat)
        BY <2>2, <4>1, <4>2
      <4> QED BY <2>3, <4>1, <4>2, <4>3
    <3>2. CASE p # q
      BY <2>1, <2>2, <2>3, <3>2
    <3> QED BY <3>1, <3>2
  <2>4. \A p \in Pipes : Taken(p)' <=> Taken(p)
    BY <1>1, <1>3 DEF Taken
  <2>5. \A a : Came(a)' <=> Came(a)
    BY <1>2 DEF Came
  <2>6. \A p \in Pipes : pipe_info'[p].ack_payload => ack_pl'[p] # <<>>
    BY <1>1, <2>3 DEF AckInv
  <2>7. ASSUME NEW p \in Pipes, Taken(p)' PROVE Came(Head(ack_pl[p]))'
    <3>1. ack_pl[p] # <<>> /\ Came(Head(ack_pl[p]))
      BY <2>4, <2>7 DEF AckInv, Taken
    <3>2. Head(ack_pl'[p]) = Head(ack_pl[p])
      BY <2>3, <3>1
    <3> QED BY <1>2, <3>1, <3>2 DEF Came
  <2>8. \A a \in ack_done' : Came(a)'
    BY <1>4, <2>5 DEF AckInv
  <2>9. Acking => Got
    BY AckingGot
  <2>10. ASSUME Acking'
         PROVE  ack_pdu'.pl = IF pipe_info'[Queue'[0].pipe].ack_payload
                              THEN {Head(ack_pl'[Queue'[0].pipe])} ELSE {}
    <3>1. Queue[0].pipe \in Pipes
      BY <1>3, <2>9, <2>10, FrontPipe
    <3>2. ack_pdu.pl = IF pipe_info[Queue[0].pipe].ack_payload THEN {Head(ack_pl[Queue[0].pipe])} ELSE {}
      BY <1>3, <2>10 DEF AckInv, Acking
    <3>3. pipe_info[Queue[0].pipe].ack_payload => Head(ack_pl'[Queue[0].pipe]) = Head(ack_pl[Queue[0].pipe])
      BY <2>3, <3>1 DEF AckInv
    <3> QED BY <1>1, <1>3, <3>2, <3>3
  <2> QED BY <2>4, <2>6, <2>7, <2>8, <2>10 DEF AckInv, Acking
<1> QED BY <1>5, <1>6

\* The reception of a packet retires only a payload that came.
LEMMA AckPacket ==
    ASSUME AckUse, DriverInv, DeliveryInv, PrxRingInv, AckInv, ptx_state = "PTX_RX_ACK",
           PacketReceived(tx_pdu), UNCHANGED ptxVars
    PROVE  AckInv' /\ Got' /\ ~Taken(tx_pdu.pipe)'
<1> DEFINE pipe == tx_pdu.pipe
<1>1. tx_pdu = Queue[0] /\ tx_pdu \in Payload /\ pipe \in Pipes /\ ptx_state # "IDLE"
  BY FrontSent DEF Payload
<1>2. UNCHANGED <<tx_fifo, pids, written, last_acked, tx_pdu, ptx_got>>
  BY DEF ptxVars, ptxQueues, ptxRadio, ptxLogs
<1>3. RxSendsAck(tx_pdu) /\ (IsRepeat(tx_pdu) <=> Got) /\ Protocol = "ESB_DPL"
  BY <1>1, FrontKnown DEF DeliveryInv, AckUse, LinkUse
<1>4. Got'
  BY <1>1, <1>2, PacketDelivers DEF DeliveryInv, AckUse
<1>5. Queue' = Queue
  BY <1>2 DEF Queue
<1>6. pipe_info[pipe].ack_payload => ack_pl[pipe] # <<>>
  BY <1>1 DEF AckInv
<1>7. /\ \A p \in Pipes : p # pipe => ack_pl'[p] = ack_pl[p] /\ pipe_info'[p] = pipe_info[p]
      /\ pipe_info[pipe].ack_payload /\ ~IsRepeat(tx_pdu)
           => /\ ack_pl'[pipe] = Tail(ack_pl[pipe])
              /\ ack_done' = ack_done \cup {Head(ack_pl[pipe])}
      /\ ~(pipe_info[pipe].ack_payload /\ ~IsRepeat(tx_pdu))
           => ack_pl'[pipe] = ack_pl[pipe] /\ ack_done' = ack_done
      /\ pipe_info'[pipe].ack_payload <=> ack_pl'[pipe] # <<>>
      /\ ack_pdu'.pl = IF ack_pl'[pipe] # <<>> THEN {Head(ack_pl'[pipe])} ELSE {}
  BY <1>1, <1>3, <1>6, PacketAcks DEF DriverInv, LinkTypeOK
<1>8. \A a : Came(a)' <=> Came(a)
  BY <1>2 DEF Came
<1>9. ~Taken(pipe)'
  BY <1>1, <1>2, <1>4, <1>5 DEF Taken
<1>10. \A p \in Pipes : pipe_info'[p].ack_payload => ack_pl'[p] # <<>>
  BY <1>7 DEF AckInv
<1>11. ASSUME NEW p \in Pipes, Taken(p)' PROVE Came(Head(ack_pl[p]))'
  <2>1. p # pipe
    <3>1. CASE p = pipe
      BY <1>1, <1>4, <1>5, <1>11, <3>1 DEF Taken
    <3> QED BY <3>1
  <2>2. Taken(p) /\ Head(ack_pl'[p]) = Head(ack_pl[p])
    BY <1>1, <1>7, <1>11, <2>1 DEF Taken
  <2>3. Came(Head(ack_pl[p]))
    BY <2>2 DEF AckInv
  <2> QED BY <1>2, <2>2, <2>3 DEF Came
<1>12. \A a \in ack_done' : Came(a)'
  <2>1. CASE pipe_info[pipe].ack_payload /\ ~IsRepeat(tx_pdu)
    <3>1. Came(Head(ack_pl[pipe]))
      BY <1>1, <1>3, <2>1 DEF AckInv, Taken
    <3> QED BY <1>7, <1>8, <2>1, <3>1 DEF AckInv
  <2>2. CASE ~(pipe_info[pipe].ack_payload /\ ~IsRepeat(tx_pdu))
    BY <1>7, <1>8, <2>2 DEF AckInv
  <2> QED BY <2>1, <2>2
<1>13. ack_pdu'.pl = IF pipe_info'[Queue'[0].pipe].ack_payload THEN {Head(ack_pl'[Queue'[0].pipe])} ELSE {}
  BY <1>1, <1>5, <1>7
<1> QED BY <1>4, <1>9, <1>10, <1>11, <1>12, <1>13 DEF AckInv

\* The acknowledgment brings the payload that was attached.
LEMMA AckArrives ==
    ASSUME AckUse, DriverInv, DeliveryInv, AckInv, air = {Ack(ack_pdu)}, AckReceived(ack_pdu),
           air' = {}, UNCHANGED prxVars
    PROVE  /\ AckInv'
           /\ Got /\ Queue[0].pipe \in Pipes
           /\ IF pipe_info[Queue[0].pipe].ack_payload
              THEN ptx_got' = Append(ptx_got, Head(ack_pl[Queue[0].pipe]))
              ELSE ptx_got' = ptx_got
           /\ \A p \in Pipes : Taken(p)' <=> pipe_info[p].ack_payload
<1> DEFINE pipe == Queue[0].pipe
<1>1. Got /\ ptx_state = "PTX_RX_ACK" /\ prx_state # "PRX_SEND_ACK"
  BY AckIsNotData DEF DeliveryInv, AirInv
<1>2. pipe \in Pipes
  BY <1>1, FrontPipe
<1>3. UNCHANGED <<pipe_info, ack_pl, ack_done, ack_pdu, delivered, prx_state>>
  BY DEF prxVars, prxQueues, prxRadio, prxLogs
<1>4. /\ PtxReceive(ack_pdu.pl) /\ tx_fifo' = RemoveLast /\ UNCHANGED <<pids, written>>
      /\ last_acked' = <<IF tx_fifo.count = 0 THEN 0 ELSE tx_fifo.payload[tx_fifo.front].id, tx_pdu.id>>
  BY DEF AckReceived
<1>5. ~Got'
  BY <1>1, <1>3, <1>4, QueueShrinks DEF DeliveryInv
<1>6. ack_pdu.pl = IF pipe_info[pipe].ack_payload THEN {Head(ack_pl[pipe])} ELSE {}
  BY DEF AckInv
<1>7. ack_pdu.pl \subseteq Nat /\ ptx_got \in Seq(Nat) /\ ack_pl \in [Pipes -> Seq(Nat)]
  BY DEF DriverInv, LinkTypeOK, PrxTypeOK, PtxTypeOK, AckPdu
<1>8. /\ ack_pdu.pl = {} => ptx_got' = ptx_got
      /\ \A a : ack_pdu.pl = {a} => ptx_got' = Append(ptx_got, a)
  BY <1>4, <1>7, AckTakes DEF AckUse, DriverInv, LinkTypeOK
<1>9. IF pipe_info[pipe].ack_payload THEN ptx_got' = Append(ptx_got, Head(ack_pl[pipe]))
      ELSE ptx_got' = ptx_got
  BY <1>6, <1>8
<1>10. \A p \in Pipes : Taken(p)' <=> pipe_info[p].ack_payload
  BY <1>3, <1>5 DEF Taken
<1>11. \A a : Came(a) => Came(a)'
  <2>1. CASE pipe_info[pipe].ack_payload
    <3>1. Head(ack_pl[pipe]) \in Nat
      BY <1>2, <1>7, <2>1 DEF AckInv
    <3> QED BY <1>7, <1>9, <2>1, <3>1, CameStays
  <2>2. CASE ~pipe_info[pipe].ack_payload
    BY <1>9, <2>2 DEF Came
  <2> QED BY <2>1, <2>2
<1>12. ASSUME NEW p \in Pipes, Taken(p)' PROVE Came(Head(ack_pl[p]))'
  <2>1. pipe_info[p].ack_payload
    BY <1>10, <1>12
  <2>2. CASE p = pipe
    <3>1. PICK x \in Nat : x = Head(ack_pl[pipe])
      BY <1>2, <1>7, <2>1, <2>2 DEF AckInv
    <3>2. Came(x)'
      BY <1>7, <1>9, <2>1, <2>2, <3>1, CameStays
    <3> QED BY <1>3, <2>2, <3>1, <3>2 DEF Came
  <2>3. CASE p # pipe
    <3>1. PICK x : x = Head(ack_pl[p]) /\ x = Head(ack_pl'[p])
      BY <1>3
    <3>2. Came(x)
      BY <2>1, <2>3, <3>1 DEF AckInv, Taken
    <3>3. Came(x)'
      BY <1>11, <3>2
    <3> QED BY <3>1, <3>3 DEF Came
  <2> QED BY <2>2, <2>3
<1>13. \A a \in ack_done' : Came(a)'
  BY <1>3, <1>11 DEF AckInv
<1>14. ~(prx_state' = "PRX_SEND_ACK" \/ air' = {Ack(ack_pdu')})
  BY <1>1, <1>3
<1>15. \A p \in Pipes : pipe_info'[p].ack_payload => ack_pl'[p] # <<>>
  BY <1>3 DEF AckInv
<1>16. AckInv'
  BY <1>12, <1>13, <1>14, <1>15 DEF AckInv
<1> QED BY <1>1, <1>2, <1>9, <1>10, <1>16

(* The pipes whose payload attached last the transmitter has.              *)
TakenPipes == {p \in Pipes : Taken(p)}

(* How a step moves the ack payloads: the application queues one, a new    *)
(* packet retires the one that was attached and came, or an acknowledgment *)
(* brings the one at the head of its pipe.                                 *)
AckMoves ==
    \/ /\ UNCHANGED ptx_got /\ TakenPipes' = TakenPipes
       /\ \/ UNCHANGED ack_pl /\ (ack_written' = ack_written \/ ack_written' = ack_written + 1)
          \/ \E p \in Pipes : /\ ack_pl' = [ack_pl EXCEPT ![p] = Append(@, ack_written + 1)]
                               /\ ack_written' = ack_written + 1
    \/ \E p \in TakenPipes :
         /\ UNCHANGED <<ptx_got, ack_written>> /\ TakenPipes' = TakenPipes \ {p}
         /\ ack_pl[p] # <<>> /\ ack_pl' = [ack_pl EXCEPT ![p] = Tail(@)]
    \/ \E p \in Pipes \ TakenPipes :
         /\ UNCHANGED <<ack_pl, ack_written>> /\ TakenPipes' = TakenPipes \cup {p}
         /\ ack_pl[p] # <<>> /\ ptx_got' = Append(ptx_got, Head(ack_pl[p]))

\* A step that touches no ack payload moves none.
LEMMA AckRests ==
    ASSUME DriverInv, DeliveryInv, AckInv,
           UNCHANGED <<pipe_info, ack_pl, ack_done, ack_written, ptx_got, ack_pdu>>,
           Got' <=> Got, Got => Queue'[0] = Queue[0],
           Acking' => Acking
    PROVE  AckInv' /\ AckMoves
<1>1. AckInv' /\ \A p \in Pipes : Taken(p)' <=> Taken(p)
  BY AckKept
<1>2. TakenPipes' = TakenPipes
  BY <1>1 DEF TakenPipes
<1> QED BY <1>1, <1>2 DEF AckMoves

\* The reception of a packet retires at most the payload attached on its pipe.
LEMMA PacketMoves ==
    ASSUME AckUse, DriverInv, DeliveryInv, PrxRingInv, AckInv, ptx_state = "PTX_RX_ACK",
           PacketReceived(tx_pdu), UNCHANGED ptxVars
    PROVE  AckMoves
<1>1. tx_pdu = Queue[0] /\ tx_pdu \in Payload /\ ptx_state # "IDLE"
  BY FrontSent
<1>2. PICK p \in Pipes : p = tx_pdu.pipe
  BY <1>1 DEF Payload
<1>3. ptx_got' = ptx_got /\ UNCHANGED tx_pdu /\ Queue' = Queue
  BY DEF ptxVars, ptxLogs, ptxRadio, ptxQueues, Queue
<1>4. RxSendsAck(tx_pdu) /\ (IsRepeat(tx_pdu) <=> Got) /\ Protocol = "ESB_DPL"
  BY <1>1, FrontKnown DEF DeliveryInv, AckUse, LinkUse
<1>5. ~Taken(p)'
  <2>1. ~Taken(tx_pdu.pipe)'
    BY AckPacket
  <2> QED BY <1>2, <1>3, <2>1 DEF Taken
<1>6. /\ pipe_info[p].ack_payload /\ ~IsRepeat(tx_pdu) => ack_pl'[p] = Tail(ack_pl[p])
      /\ ~(pipe_info[p].ack_payload /\ ~IsRepeat(tx_pdu)) => ack_pl'[p] = ack_pl[p]
      /\ \A q \in Pipes : q # p => ack_pl'[q] = ack_pl[q] /\ pipe_info'[q] = pipe_info[q]
      /\ UNCHANGED ack_written
  <2>1. pipe_info[p].ack_payload => ack_pl[p] # <<>>
    BY DEF AckInv
  <2>2. PrxTypeOK
    BY DEF DriverInv, LinkTypeOK
  <2> QED BY <1>1, <1>2, <1>4, <2>1, <2>2, PacketAcks
<1>7. Taken(p) <=> pipe_info[p].ack_payload /\ ~IsRepeat(tx_pdu)
  BY <1>1, <1>2, <1>4 DEF Taken
<1>8. \A q \in Pipes : q # p => (Taken(q)' <=> Taken(q))
  <2>1. \A q \in Pipes : q # p => (Taken(q) <=> pipe_info[q].ack_payload)
    BY <1>1, <1>2 DEF Taken
  <2>2. \A q \in Pipes : q # p => (Taken(q)' <=> pipe_info'[q].ack_payload)
    BY <1>1, <1>2, <1>3 DEF Taken
  <2> QED BY <1>6, <2>1, <2>2
<1>9. Taken(p) => ack_pl[p] # <<>>
  BY DEF AckInv, Taken
<1>10. /\ ack_pl \in [Pipes -> Seq(Nat)] /\ ack_pl' \in [Pipes -> Seq(Nat)]
  <2>1. ack_pl \in [Pipes -> Seq(Nat)]
    BY DEF DriverInv, LinkTypeOK, PrxTypeOK
  <2>2. ack_pl' = [ack_pl EXCEPT ![tx_pdu.pipe] = ListAfter(tx_pdu)]
    BY <1>4 DEF PacketReceived, PrepareDplAck, PrepareFixedAck, NoAck
  <2>3. ListAfter(tx_pdu) \in Seq(Nat)
    BY <1>1, ListType DEF DriverInv, LinkTypeOK
  <2> QED BY <2>1, <2>2, <2>3
<1>11. CASE Taken(p)
  <2>1. ack_pl' = [ack_pl EXCEPT ![p] = Tail(@)]
    BY <1>6, <1>7, <1>10, <1>11
  <2>2. p \in TakenPipes /\ TakenPipes' = TakenPipes \ {p}
    BY <1>5, <1>8, <1>11 DEF TakenPipes
  <2> QED BY <1>3, <1>6, <1>9, <1>11, <2>1, <2>2 DEF AckMoves
<1>12. CASE ~Taken(p)
  <2>1. UNCHANGED ack_pl
    BY <1>6, <1>7, <1>10, <1>12
  <2>2. TakenPipes' = TakenPipes
    BY <1>5, <1>8, <1>12 DEF TakenPipes
  <2> QED BY <1>3, <1>6, <2>1, <2>2 DEF AckMoves
<1> QED BY <1>11, <1>12

\* Every step of the link keeps the ack payloads in their place.
LEMMA AckStep ==
    ASSUME AckUse, DriverInv, DeliveryInv, PrxRingInv, AckInv, [LinkNext]_linkVars
    PROVE  AckInv' /\ AckMoves
<1> USE DEF ptxVars, ptxQueues, ptxRadio, ptxEvents, ptxLogs, prxVars, prxQueues, prxRadio, prxEvents, prxLogs
<1>1. CASE PtxLocal /\ UNCHANGED <<prxVars, air>>
  <2>1. UNCHANGED <<pipe_info, ack_pl, ack_done, ack_written, ack_pdu, delivered, prx_state, air>>
    BY <1>1
  <2>2. (Got' <=> Got) /\ (Got => Queue'[0] = Queue[0]) /\ UNCHANGED ptx_got
    BY <1>1, <2>1, FrontStays DEF AckUse
  <2>3. Acking' => Acking
    BY <2>1 DEF Acking, Ack
  <2> QED BY <2>1, <2>2, <2>3, AckRests
<1>2. CASE PrxLocal /\ UNCHANGED <<ptxVars, air>>
  <2>1. AckInv' /\ \A p \in Pipes : Taken(p)' <=> Taken(p)
    BY <1>2, AckPrxLocal
  <2>2. UNCHANGED ptx_got
    BY <1>2
  <2>3. \/ UNCHANGED ack_pl /\ (ack_written' = ack_written \/ ack_written' = ack_written + 1)
        \/ \E p \in Pipes : /\ ack_pl' = [ack_pl EXCEPT ![p] = Append(@, ack_written + 1)]
                             /\ ack_written' = ack_written + 1
    BY <1>2, PrxLocalAcks DEF DriverInv, LinkTypeOK
  <2>4. TakenPipes' = TakenPipes
    BY <2>1 DEF TakenPipes
  <2> QED BY <2>1, <2>2, <2>3, <2>4 DEF AckMoves
<1>3. CASE PtxSends
  <2>1. ~on_radio_disabled_tx_noack
    BY DEF on_radio_disabled_tx_noack, DriverInv, AskInv
  <2>2. /\ air' = {Data(tx_pdu)}
        /\ UNCHANGED <<tx_fifo, last_acked, ptx_got, tx_pdu, delivered, pipe_info, prx_state,
                       ack_pl, ack_done, ack_written, ack_pdu>>
    BY <1>3, <2>1 DEF PtxSends, on_radio_disabled_tx
  <2>3. (Got' <=> Got) /\ Queue' = Queue
    BY <2>2 DEF Got, Queue
  <2>4. Acking' => Acking
    BY <2>2, AckIsNotData DEF Acking
  <2> QED BY <2>2, <2>3, <2>4, AckRests
<1>4. CASE PrxSends
  <2>1. /\ prx_state = "PRX_SEND_ACK"
        /\ UNCHANGED <<tx_fifo, last_acked, ptx_got, delivered, pipe_info,
                       ack_pl, ack_done, ack_written, ack_pdu>>
    BY <1>4 DEF PrxSends, on_radio_disabled_rx_ack
  <2>2. (Got' <=> Got) /\ Queue' = Queue /\ Acking
    BY <2>1 DEF Got, Queue, Acking
  <2> QED BY <2>1, <2>2, AckRests
<1>5. CASE PrxReceives
  <2>1. PICK f \in air : f.dir = "data" /\ (PacketReceived(f.pdu) \/ PacketRefused)
    BY <1>5 DEF PrxReceives
  <2>2. air' = {} /\ UNCHANGED ptxVars
    BY <1>5 DEF PrxReceives
  <2>3. f.pdu = tx_pdu /\ ptx_state = "PTX_RX_ACK"
    BY <2>1 DEF DeliveryInv, AirInv, Data, Ack
  <2>4. CASE PacketRefused
    <3>1. UNCHANGED prxVars /\ prx_state = "PRX"
      BY <2>4 DEF PacketRefused
    <3>2. UNCHANGED <<tx_fifo, last_acked, ptx_got, delivered, pipe_info, prx_state,
                      ack_pl, ack_done, ack_written, ack_pdu>>
      BY <2>2, <3>1
    <3>3. (Got' <=> Got) /\ Queue' = Queue /\ (Acking' => Acking)
      BY <2>2, <3>1, <3>2, AckIsNotData DEF Got, Queue, Acking
    <3> QED BY <3>2, <3>3, AckRests
  <2>5. CASE PacketReceived(tx_pdu)
    BY <2>2, <2>3, <2>5, AckPacket, PacketMoves
  <2> QED BY <2>1, <2>3, <2>4, <2>5
<1>6. CASE PtxReceives
  <2>1. PICK f \in air : f.dir = "ack" /\ AckReceived(f.pdu)
    BY <1>6 DEF PtxReceives
  <2>2. air' = {} /\ UNCHANGED prxVars
    BY <1>6 DEF PtxReceives
  <2>3. f.pdu = ack_pdu /\ air = {Ack(ack_pdu)}
    BY <2>1 DEF DeliveryInv, AirInv, Data, Ack
  <2>4. AckReceived(ack_pdu)
    BY <2>1, <2>3
  <2>5. /\ AckInv'
        /\ Got /\ Queue[0].pipe \in Pipes
        /\ IF pipe_info[Queue[0].pipe].ack_payload
           THEN ptx_got' = Append(ptx_got, Head(ack_pl[Queue[0].pipe]))
           ELSE ptx_got' = ptx_got
        /\ \A p \in Pipes : Taken(p)' <=> pipe_info[p].ack_payload
    BY <2>2, <2>3, <2>4, AckArrives
  <2>6. PICK p \in Pipes : p = Queue[0].pipe
    BY <2>5
  <2>7. UNCHANGED <<ack_pl, ack_written>>
    BY <2>2
  <2>8. ~Taken(p) /\ \A q \in Pipes : q # p => (Taken(q) <=> pipe_info[q].ack_payload)
    BY <2>5, <2>6 DEF Taken
  <2>9. CASE pipe_info[p].ack_payload
    <3>1. p \notin TakenPipes /\ TakenPipes' = TakenPipes \cup {p}
      BY <2>5, <2>8, <2>9 DEF TakenPipes
    <3>2. ack_pl[p] # <<>> /\ ptx_got' = Append(ptx_got, Head(ack_pl[p]))
      BY <2>5, <2>6, <2>9 DEF AckInv
    <3> QED BY <2>5, <2>7, <3>1, <3>2 DEF AckMoves
  <2>10. CASE ~pipe_info[p].ack_payload
    <3>1. TakenPipes' = TakenPipes
      BY <2>5, <2>8, <2>10 DEF TakenPipes
    <3>2. ptx_got' = ptx_got
      BY <2>5, <2>6, <2>10
    <3> QED BY <2>5, <2>7, <3>1, <3>2 DEF AckMoves
  <2> QED BY <2>9, <2>10
<1>7. CASE PtxTimeout
  <2>1. UNCHANGED <<air, tx_fifo, last_acked, ptx_got, delivered, pipe_info, prx_state,
                    ack_pl, ack_done, ack_written, ack_pdu>>
    BY <1>7 DEF PtxTimeout, AckMissed
  <2>2. (Got' <=> Got) /\ Queue' = Queue /\ (Acking' => Acking)
    BY <2>1 DEF Got, Queue, Acking, Ack
  <2> QED BY <2>1, <2>2, AckRests
<1>8. CASE Lose
  <2>1. /\ air' = {}
        /\ UNCHANGED <<tx_fifo, last_acked, ptx_got, delivered, pipe_info, prx_state,
                       ack_pl, ack_done, ack_written, ack_pdu>>
    BY <1>8 DEF Lose
  <2>2. (Got' <=> Got) /\ Queue' = Queue /\ (Acking' => Acking)
    BY <2>1, AckIsNotData DEF Got, Queue, Acking
  <2> QED BY <2>1, <2>2, AckRests
<1>9. CASE UNCHANGED linkVars
  <2>1. UNCHANGED <<air, tx_fifo, last_acked, ptx_got, delivered, pipe_info, prx_state,
                    ack_pl, ack_done, ack_written, ack_pdu>>
    BY <1>9 DEF linkVars
  <2>2. (Got' <=> Got) /\ Queue' = Queue /\ (Acking' => Acking)
    BY <2>1 DEF Got, Queue, Acking, Ack
  <2> QED BY <2>1, <2>2, AckRests
<1> QED BY <1>1, <1>2, <1>3, <1>4, <1>5, <1>6, <1>7, <1>8, <1>9 DEF LinkNext

\* No payload is attached, queued or received at start up.
LEMMA AckInit ==
    ASSUME LinkInit
    PROVE  AckInv /\ OrderInv
<1>1. /\ pipe_info = [p \in Pipes |-> BlankPipeInfo] /\ ack_pl = [p \in Pipes |-> <<>>]
      /\ ack_done = {} /\ ptx_got = <<>> /\ air = {} /\ prx_state = "IDLE" /\ ack_written = 0
  BY DEF LinkInit, PtxInit, PrxInit
<1>2. \A p \in Pipes : ~pipe_info[p].ack_payload
  BY <1>1 DEF BlankPipeInfo
<1>3. 0 \in Pipes
  BY BaseAssumption DEF Pipes
<1>4. Len(ack_pl[0]) = 0 /\ Len(ptx_got) = 0
  BY <1>1, <1>3
<1>5. AckInv
  BY <1>1, <1>2 DEF AckInv, Taken
<1> QED BY <1>1, <1>4, <1>5 DEF OrderInv

\* The invariants of the ack payloads, with those they rest on.
LEMMA LinkAcks ==
    ASSUME CrcIsNumber, AckUse
    PROVE  LinkSpec => [](DriverInv /\ DeliveryInv /\ PrxRingInv /\ AckInv)
<1>1. LinkInit => PrxRingInv /\ AckInv
  BY PrxRingInit, AckInit DEF LinkInit
<1>2. DriverInv /\ DeliveryInv /\ PrxRingInv /\ AckInv /\ [LinkNext]_linkVars => PrxRingInv' /\ AckInv'
  BY AckStep, PrxRingStep DEF AckUse, DriverInv
<1>3. LinkSpec => [](DriverInv /\ DeliveryInv)
  BY LinkDelivers DEF AckUse
<1> QED BY <1>1, <1>2, <1>3, PTL DEF LinkSpec

(* The receiver reports TX_SUCCESS for a payload attached to an            *)
(* acknowledgment only when the transmitter's radio has taken it in, for   *)
(* every number of pipes, list length, CRC and pattern of losses.          *)
THEOREM LinkAckDone ==
    ASSUME CrcIsNumber, AckUse
    PROVE  LinkSpec => []AckDoneWasReceived
<1>1. AckInv => AckDoneWasReceived
  BY DEF AckInv, AckDoneWasReceived, Came
<1> QED BY <1>1, LinkAcks, PTL

\* The order of the ack payloads, on sequences: q is the list of the pipe,
\* got what came, w the number of the newest, t whether the head came.
Ordered(q, got, w, t) ==
    /\ \A i, j \in 1 .. Len(q) : i < j => q[i] < q[j]
    /\ \A i \in 1 .. Len(q) : q[i] <= w
    /\ \A i \in 1 .. Len(got) : got[i] <= w
    /\ \A i, j \in 1 .. Len(got) : i < j => got[i] < got[j]
    /\ \A i \in 1 .. Len(got), j \in 1 .. Len(q) :
         got[i] < q[j] \/ (t /\ j = 1 /\ got[i] = q[1])

\* A payload that is queued is newer than all there are.
LEMMA OrderQueue ==
    ASSUME NEW q \in Seq(Nat), NEW got \in Seq(Nat), NEW w \in Nat, NEW t \in BOOLEAN,
           Ordered(q, got, w, t)
    PROVE  Ordered(q, got, w + 1, t) /\ Ordered(Append(q, w + 1), got, w + 1, t)
<1> DEFINE n == Len(q)
           r == Append(q, w + 1)
<1>1. /\ n \in Nat /\ Len(got) \in Nat /\ \A i \in 1 .. n : q[i] \in Nat
      /\ \A i \in 1 .. Len(got) : got[i] \in Nat
  OBVIOUS
<1>2. Len(r) = n + 1 /\ r[n + 1] = w + 1 /\ \A i \in 1 .. n : r[i] = q[i]
  OBVIOUS
<1> HIDE DEF n, r
<1>3. 1 .. n = 1 .. Len(q)
  BY DEF n
<1>4. Ordered(q, got, w + 1, t)
  BY <1>1, <1>3 DEF Ordered
<1>5. ASSUME NEW i \in 1 .. Len(r), NEW j \in 1 .. Len(r), i < j PROVE r[i] < r[j]
  <2>1. i \in 1 .. n
    BY <1>1, <1>2, <1>5
  <2>2. r[i] = q[i] /\ q[i] <= w /\ q[i] \in Nat
    BY <1>1, <1>2, <1>3, <2>1 DEF Ordered
  <2>3. CASE j = n + 1
    BY <1>2, <2>2, <2>3
  <2>4. CASE j # n + 1
    <3>1. j \in 1 .. n
      BY <1>1, <1>2, <2>4
    <3>2. q[i] < q[j]
      BY <1>3, <1>5, <2>1, <3>1 DEF Ordered
    <3> QED BY <1>2, <2>2, <3>1, <3>2
  <2> QED BY <2>3, <2>4
<1>6. ASSUME NEW i \in 1 .. Len(r) PROVE r[i] <= w + 1
  <2>1. CASE i = n + 1
    BY <1>2, <2>1
  <2>2. CASE i # n + 1
    <3>1. i \in 1 .. n
      BY <1>1, <1>2, <2>2
    <3>2. q[i] <= w /\ q[i] \in Nat /\ r[i] = q[i]
      BY <1>1, <1>2, <1>3, <3>1 DEF Ordered
    <3> QED BY <3>2
  <2> QED BY <2>1, <2>2
<1>7. ASSUME NEW i \in 1 .. Len(got), NEW j \in 1 .. Len(r)
      PROVE  got[i] < r[j] \/ (t /\ j = 1 /\ got[i] = r[1])
  <2>1. CASE j = n + 1
    <3>1. got[i] <= w /\ got[i] \in Nat
      BY <1>1 DEF Ordered
    <3> QED BY <1>2, <2>1, <3>1
  <2>2. CASE j # n + 1
    <3>1. j \in 1 .. n /\ 1 \in 1 .. n
      BY <1>1, <1>2, <2>2
    <3>2. r[j] = q[j] /\ r[1] = q[1]
      BY <1>2, <3>1
    <3>3. got[i] < q[j] \/ (t /\ j = 1 /\ got[i] = q[1])
      BY <1>3, <3>1 DEF Ordered
    <3> QED BY <3>2, <3>3
  <2> QED BY <2>1, <2>2
<1>8. Ordered(r, got, w + 1, t)
  BY <1>4, <1>5, <1>6, <1>7 DEF Ordered
<1> QED BY <1>4, <1>8 DEF r

\* With its head retired, the list is newer than all that came.
LEMMA OrderRetire ==
    ASSUME NEW q \in Seq(Nat), NEW got \in Seq(Nat), NEW w \in Nat,
           q # <<>>, Ordered(q, got, w, TRUE)
    PROVE  Ordered(Tail(q), got, w, FALSE)
<1> DEFINE n == Len(q)
           r == Tail(q)
<1>1. /\ n \in Nat /\ n >= 1 /\ Len(got) \in Nat /\ \A i \in 1 .. n : q[i] \in Nat
      /\ \A i \in 1 .. Len(got) : got[i] \in Nat
  OBVIOUS
<1>2. Len(r) = n - 1 /\ \A i \in 1 .. n - 1 : r[i] = q[i + 1]
  OBVIOUS
<1> HIDE DEF n, r
<1>3. 1 .. n = 1 .. Len(q)
  BY DEF n
<1>4. \A i \in 1 .. Len(r) : i \in Nat /\ i + 1 \in 1 .. n /\ r[i] = q[i + 1] /\ i + 1 # 1
  BY <1>1, <1>2
<1>5. ASSUME NEW i \in 1 .. Len(r), NEW j \in 1 .. Len(r), i < j PROVE r[i] < r[j]
  <2>1. i + 1 < j + 1
    BY <1>4, <1>5
  <2> QED BY <1>3, <1>4, <2>1 DEF Ordered
<1>6. \A i \in 1 .. Len(r) : r[i] <= w
  BY <1>3, <1>4 DEF Ordered
<1>7. \A i \in 1 .. Len(got), j \in 1 .. Len(r) : got[i] < r[j]
  BY <1>3, <1>4 DEF Ordered
<1>8. Ordered(r, got, w, FALSE)
  BY <1>5, <1>6, <1>7 DEF Ordered
<1> QED BY <1>8 DEF r

\* The head is newer than all that came before it.
LEMMA OrderArrive ==
    ASSUME NEW q \in Seq(Nat), NEW got \in Seq(Nat), NEW w \in Nat,
           q # <<>>, Ordered(q, got, w, FALSE)
    PROVE  Ordered(q, Append(got, Head(q)), w, TRUE)
<1> DEFINE n == Len(got)
           g == Append(got, Head(q))
<1>1. /\ n \in Nat /\ Len(q) \in Nat /\ Len(q) >= 1 /\ \A i \in 1 .. Len(q) : q[i] \in Nat
      /\ \A i \in 1 .. n : got[i] \in Nat
  OBVIOUS
<1>2. Len(g) = n + 1 /\ g[n + 1] = q[1] /\ \A i \in 1 .. n : g[i] = got[i]
  OBVIOUS
<1> HIDE DEF n, g
<1>3. 1 .. n = 1 .. Len(got) /\ 1 \in 1 .. Len(q)
  BY <1>1 DEF n
<1>4. ASSUME NEW i \in 1 .. Len(g) PROVE g[i] <= w
  <2>1. CASE i = n + 1
    BY <1>2, <1>3, <2>1 DEF Ordered
  <2>2. CASE i # n + 1
    <3>1. i \in 1 .. n
      BY <1>1, <1>2, <2>2
    <3> QED BY <1>2, <1>3, <3>1 DEF Ordered
  <2> QED BY <2>1, <2>2
<1>5. \A i \in 1 .. n : g[i] < q[1]
  BY <1>2, <1>3 DEF Ordered
<1>6. ASSUME NEW i \in 1 .. Len(g), NEW j \in 1 .. Len(g), i < j PROVE g[i] < g[j]
  <2>1. i \in 1 .. n
    BY <1>1, <1>2, <1>6
  <2>2. CASE j = n + 1
    BY <1>2, <1>5, <2>1, <2>2
  <2>3. CASE j # n + 1
    <3>1. j \in 1 .. n
      BY <1>1, <1>2, <2>3
    <3> QED BY <1>2, <1>3, <1>6, <2>1, <3>1 DEF Ordered
  <2> QED BY <2>2, <2>3
<1>7. ASSUME NEW i \in 1 .. Len(g), NEW j \in 1 .. Len(q)
      PROVE  g[i] < q[j] \/ (j = 1 /\ g[i] = q[1])
  <2>1. CASE i = n + 1
    <3>1. j # 1 => q[1] < q[j]
      BY <1>1, <1>3 DEF Ordered
    <3> QED BY <1>2, <2>1, <3>1
  <2>2. CASE i # n + 1
    <3>1. i \in 1 .. n
      BY <1>1, <1>2, <2>2
    <3> QED BY <1>2, <1>3, <3>1 DEF Ordered
  <2> QED BY <2>1, <2>2
<1>8. Ordered(q, g, w, TRUE)
  BY <1>4, <1>6, <1>7 DEF Ordered
<1> QED BY <1>8 DEF g

(* The moves on a single pipe.                                             *)
AckMove ==
    \/ /\ UNCHANGED ptx_got /\ (Taken(0)' <=> Taken(0))
       /\ \/ UNCHANGED ack_pl /\ (ack_written' = ack_written \/ ack_written' = ack_written + 1)
          \/ ack_pl'[0] = Append(ack_pl[0], ack_written + 1) /\ ack_written' = ack_written + 1
    \/ /\ UNCHANGED <<ptx_got, ack_written>> /\ Taken(0) /\ ~Taken(0)'
       /\ ack_pl[0] # <<>> /\ ack_pl'[0] = Tail(ack_pl[0])
    \/ /\ UNCHANGED <<ack_pl, ack_written>> /\ ~Taken(0) /\ Taken(0)'
       /\ ack_pl[0] # <<>> /\ ptx_got' = Append(ptx_got, Head(ack_pl[0]))

\* With a single pipe, every move is one of that pipe.
LEMMA SinglePipe ==
    ASSUME PipeCount = 1, ack_pl \in [Pipes -> Seq(Nat)], AckMoves
    PROVE  AckMove
<1>1. Pipes = {0} /\ \A p \in Pipes : p = 0
  BY DEF Pipes
<1>2. (0 \in TakenPipes <=> Taken(0)) /\ (0 \in TakenPipes' <=> Taken(0)')
  BY <1>1 DEF TakenPipes
<1>3. \A p \in TakenPipes : p = 0
  BY <1>1 DEF TakenPipes
<1>4. CASE /\ UNCHANGED ptx_got /\ TakenPipes' = TakenPipes
           /\ \/ UNCHANGED ack_pl /\ (ack_written' = ack_written \/ ack_written' = ack_written + 1)
              \/ \E p \in Pipes : /\ ack_pl' = [ack_pl EXCEPT ![p] = Append(@, ack_written + 1)]
                                   /\ ack_written' = ack_written + 1
  BY <1>1, <1>2, <1>4 DEF AckMove
<1>5. ASSUME NEW p \in TakenPipes,
             UNCHANGED <<ptx_got, ack_written>>, TakenPipes' = TakenPipes \ {p},
             ack_pl[p] # <<>>, ack_pl' = [ack_pl EXCEPT ![p] = Tail(@)]
      PROVE  AckMove
  BY <1>1, <1>2, <1>3, <1>5 DEF AckMove
<1>6. ASSUME NEW p \in Pipes \ TakenPipes,
             UNCHANGED <<ack_pl, ack_written>>, TakenPipes' = TakenPipes \cup {p},
             ack_pl[p] # <<>>, ptx_got' = Append(ptx_got, Head(ack_pl[p]))
      PROVE  AckMove
  BY <1>1, <1>2, <1>6 DEF AckMove
<1> QED BY <1>4, <1>5, <1>6 DEF AckMoves

\* The moves of the ack payloads of a single pipe keep their order.
LEMMA OrderStep ==
    ASSUME ack_pl[0] \in Seq(Nat), ptx_got \in Seq(Nat), ack_written \in Nat, OrderInv, AckMove
    PROVE  OrderInv'
<1>1. PICK t \in BOOLEAN : t <=> Taken(0)
  OBVIOUS
<1>2. Ordered(ack_pl[0], ptx_got, ack_written, t)
  BY <1>1 DEF OrderInv, Ordered
<1>3. ASSUME NEW u \in BOOLEAN, u <=> Taken(0)', Ordered(ack_pl'[0], ptx_got', ack_written', u)
      PROVE  OrderInv'
  BY <1>3 DEF OrderInv, Ordered
<1>4. CASE /\ UNCHANGED ptx_got /\ (Taken(0)' <=> Taken(0))
           /\ \/ UNCHANGED ack_pl /\ (ack_written' = ack_written \/ ack_written' = ack_written + 1)
              \/ ack_pl'[0] = Append(ack_pl[0], ack_written + 1) /\ ack_written' = ack_written + 1
  <2>1. Ordered(ack_pl'[0], ptx_got', ack_written', t)
    BY <1>2, <1>4, OrderQueue
  <2> QED BY <1>1, <1>3, <1>4, <2>1
<1>5. CASE /\ UNCHANGED <<ptx_got, ack_written>> /\ Taken(0) /\ ~Taken(0)'
           /\ ack_pl[0] # <<>> /\ ack_pl'[0] = Tail(ack_pl[0])
  <2>1. t = TRUE
    BY <1>1, <1>5
  <2>2. Ordered(ack_pl'[0], ptx_got', ack_written', FALSE)
    BY <1>2, <1>5, <2>1, OrderRetire
  <2> QED BY <1>3, <1>5, <2>2
<1>6. CASE /\ UNCHANGED <<ack_pl, ack_written>> /\ ~Taken(0) /\ Taken(0)'
           /\ ack_pl[0] # <<>> /\ ptx_got' = Append(ptx_got, Head(ack_pl[0]))
  <2>1. t = FALSE
    BY <1>1, <1>6
  <2>2. Ordered(ack_pl'[0], ptx_got', ack_written', TRUE)
    BY <1>2, <1>6, <2>1, OrderArrive
  <2> QED BY <1>3, <1>6, <2>2
<1> QED BY <1>4, <1>5, <1>6 DEF AckMove

(* On a single pipe, the payloads attached to acknowledgments reach the    *)
(* transmitter at most once and in the order in which they were queued,    *)
(* whatever is lost, although the transmitter has no duplicate test.       *)
THEOREM LinkAckOrder ==
    ASSUME CrcIsNumber, AckUse, PipeCount = 1
    PROVE  LinkSpec => []AckPayloadsOnceInOrder
<1>1. LinkInit => OrderInv
  BY AckInit
<1>2. DriverInv => /\ ack_pl[0] \in Seq(Nat) /\ ptx_got \in Seq(Nat) /\ ack_written \in Nat
                   /\ ack_pl \in [Pipes -> Seq(Nat)]
  <2>1. 0 \in Pipes
    BY DEF Pipes
  <2> QED BY <2>1 DEF DriverInv, LinkTypeOK, PrxTypeOK, PtxTypeOK
<1>3. DriverInv /\ DeliveryInv /\ PrxRingInv /\ AckInv /\ OrderInv /\ [LinkNext]_linkVars => OrderInv'
  BY <1>2, AckStep, SinglePipe, OrderStep
<1>4. OrderInv => AckPayloadsOnceInOrder
  BY DEF OrderInv, AckPayloadsOnceInOrder
<1> QED BY <1>1, <1>3, <1>4, LinkAcks, PTL DEF LinkSpec

(* With several pipes: no payload stands twice on the lists, and one the   *)
(* transmitter has stands on a list only as the head that came.  qs holds  *)
(* the lists, ts the pipes whose head came.                                *)
Single(qs, got, w, ts) ==
    /\ \A p, q \in Pipes : \A i \in 1 .. Len(qs[p]), j \in 1 .. Len(qs[q]) :
         qs[p][i] = qs[q][j] => p = q /\ i = j
    /\ \A p \in Pipes : \A i \in 1 .. Len(qs[p]) : qs[p][i] <= w
    /\ \A k \in 1 .. Len(got) : got[k] <= w
    /\ \A k, l \in 1 .. Len(got) : got[k] = got[l] => k = l
    /\ \A k \in 1 .. Len(got), p \in Pipes : \A i \in 1 .. Len(qs[p]) :
         got[k] = qs[p][i] => i = 1 /\ p \in ts

SingleInv == Single(ack_pl, ptx_got, ack_written, TakenPipes)

(* What the transmitter's application gets with the acknowledgments, from  *)
(* all pipes, it gets once.                                                *)
AckPayloadsOnce == \A k, l \in 1 .. Len(ptx_got) : ptx_got[k] = ptx_got[l] => k = l

\* A list with a payload put at its end.
LEMMA ListAppend ==
    ASSUME NEW q \in Seq(Nat), NEW x \in Nat
    PROVE  /\ Len(Append(q, x)) = Len(q) + 1 /\ Append(q, x)[Len(q) + 1] = x
           /\ \A i \in 1 .. Len(q) : Append(q, x)[i] = q[i]
           /\ \A i \in 1 .. Len(Append(q, x)) : i \in 1 .. Len(q) \/ i = Len(q) + 1
           /\ Len(q) \in Nat /\ \A i \in 1 .. Len(q) : q[i] \in Nat
<1>1. /\ Len(q) \in Nat /\ \A i \in 1 .. Len(q) : q[i] \in Nat
      /\ Len(Append(q, x)) = Len(q) + 1 /\ Append(q, x)[Len(q) + 1] = x
      /\ \A i \in 1 .. Len(q) : Append(q, x)[i] = q[i]
  OBVIOUS
<1> QED BY <1>1

\* A list without its head.
LEMMA ListTail ==
    ASSUME NEW q \in Seq(Nat), q # <<>>
    PROVE  /\ 1 \in 1 .. Len(q) /\ Head(q) = q[1]
           /\ \A i \in 1 .. Len(Tail(q)) : /\ i + 1 \in 1 .. Len(q) /\ Tail(q)[i] = q[i + 1]
                                           /\ i \in Int /\ i + 1 # 1
OBVIOUS

\* A payload stands in one place.
LEMMA SinglePlace ==
    ASSUME NEW qs, NEW got, NEW w, NEW ts, Single(qs, got, w, ts),
           NEW p \in Pipes, NEW q \in Pipes,
           NEW i \in 1 .. Len(qs[p]), NEW j \in 1 .. Len(qs[q]), qs[p][i] = qs[q][j]
    PROVE  p = q /\ i = j
BY DEF Single

\* A payload that came stands at the head of a list, if it stands on one.
LEMMA SingleHead ==
    ASSUME NEW qs, NEW got, NEW w, NEW ts, Single(qs, got, w, ts),
           NEW p \in Pipes, NEW k \in 1 .. Len(got), NEW i \in 1 .. Len(qs[p]), got[k] = qs[p][i]
    PROVE  i = 1 /\ p \in ts
BY DEF Single

\* A payload that is queued, or refused, is one that was not there.
LEMMA SingleQueue ==
    ASSUME NEW qs \in [Pipes -> Seq(Nat)], NEW got \in Seq(Nat), NEW w \in Nat, NEW ts,
           Single(qs, got, w, ts), NEW p \in Pipes
    PROVE  /\ Single(qs, got, w + 1, ts)
           /\ Single([qs EXCEPT ![p] = Append(@, w + 1)], got, w + 1, ts)
<1>1. /\ \A q \in Pipes : \A i \in 1 .. Len(qs[q]) : qs[q][i] \in Nat
      /\ \A k \in 1 .. Len(got) : got[k] \in Nat
  OBVIOUS
<1>2. Single(qs, got, w + 1, ts)
  BY <1>1 DEF Single
<1>3. PICK rs : rs = [qs EXCEPT ![p] = Append(@, w + 1)]
  OBVIOUS
<1>4. PICK n : n = Len(qs[p])
  OBVIOUS
<1>5. rs[p] = Append(qs[p], w + 1) /\ \A q \in Pipes : q # p => rs[q] = qs[q]
  BY <1>3
(* Each place on the new lists is an old one, or the new one at the end.   *)
<1>6. \A q \in Pipes : \A i \in 1 .. Len(rs[q]) :
        \/ i \in 1 .. Len(qs[q]) /\ rs[q][i] = qs[q][i]
        \/ q = p /\ i = n + 1 /\ rs[q][i] = w + 1
  <2>1. qs[p] \in Seq(Nat) /\ w + 1 \in Nat
    OBVIOUS
  <2>2. \A i \in 1 .. Len(rs[p]) : \/ i \in 1 .. Len(qs[p]) /\ rs[p][i] = qs[p][i]
                                   \/ i = n + 1 /\ rs[p][i] = w + 1
    BY <1>4, <1>5, <2>1, ListAppend
  <2> QED BY <1>5, <2>2, Zenon
<1>7. \A q \in Pipes : \A i \in 1 .. Len(qs[q]) : qs[q][i] <= w /\ qs[q][i] # w + 1
  BY <1>1 DEF Single
<1>8. \A k \in 1 .. Len(got) : got[k] <= w + 1 /\ got[k] # w + 1
  BY <1>1 DEF Single
<1>9. ASSUME NEW q \in Pipes, NEW r \in Pipes, NEW i \in 1 .. Len(rs[q]), NEW j \in 1 .. Len(rs[r]),
             rs[q][i] = rs[r][j]
      PROVE  q = r /\ i = j
  <2>1. CASE /\ i \in 1 .. Len(qs[q]) /\ rs[q][i] = qs[q][i]
             /\ j \in 1 .. Len(qs[r]) /\ rs[r][j] = qs[r][j]
    <3>1. qs[q][i] = qs[r][j]
      BY <1>9, <2>1
    <3> QED BY <2>1, <3>1, SinglePlace, SMTT(60)
  <2>2. CASE i \in 1 .. Len(qs[q]) /\ rs[q][i] = qs[q][i] /\ rs[r][j] = w + 1
    <3>1. qs[q][i] = w + 1
      BY <1>9, <2>2
    <3> QED BY <1>7, <2>2, <3>1, Zenon
  <2>3. CASE j \in 1 .. Len(qs[r]) /\ rs[r][j] = qs[r][j] /\ rs[q][i] = w + 1
    <3>1. qs[r][j] = w + 1
      BY <1>9, <2>3
    <3> QED BY <1>7, <2>3, <3>1, Zenon
  <2>4. CASE q = p /\ i = n + 1 /\ r = p /\ j = n + 1
    BY <2>4, Zenon
  <2> QED BY <1>6, <2>1, <2>2, <2>3, <2>4, Zenon
<1>10. ASSUME NEW q \in Pipes, NEW i \in 1 .. Len(rs[q]) PROVE rs[q][i] <= w + 1
  <2>1. rs[q][i] = w + 1 \/ (i \in 1 .. Len(qs[q]) /\ rs[q][i] = qs[q][i])
    BY <1>6
  <2>2. CASE rs[q][i] = w + 1
    BY <2>2
  <2>3. CASE i \in 1 .. Len(qs[q]) /\ rs[q][i] = qs[q][i]
    <3>1. PICK y : y = qs[q][i]
      OBVIOUS
    <3>2. y \in Nat /\ y <= w
      BY <1>1, <1>7, <2>3, <3>1, Zenon
    <3>3. y <= w + 1
      BY <3>2
    <3> QED BY <2>3, <3>1, <3>3, Zenon
  <2> QED BY <2>1, <2>2, <2>3, Zenon
<1>11. ASSUME NEW k \in 1 .. Len(got), NEW q \in Pipes, NEW i \in 1 .. Len(rs[q]), got[k] = rs[q][i]
       PROVE  i = 1 /\ q \in ts
  <2>1. i \in 1 .. Len(qs[q]) /\ rs[q][i] = qs[q][i]
    BY <1>6, <1>8, <1>11, Zenon
  <2> QED BY <1>11, <2>1, Zenon DEF Single
<1>12. \A k, l \in 1 .. Len(got) : got[k] = got[l] => k = l
  BY DEF Single
<1>13. Single(rs, got, w + 1, ts)
  BY <1>8, <1>9, <1>10, <1>11, <1>12, Zenon DEF Single
<1> QED BY <1>2, <1>3, <1>13

\* A payload that came is taken off its list.
LEMMA SingleRetire ==
    ASSUME NEW qs \in [Pipes -> Seq(Nat)], NEW got \in Seq(Nat), NEW w \in Nat, NEW ts,
           Single(qs, got, w, ts), NEW p \in Pipes, qs[p] # <<>>
    PROVE  Single([qs EXCEPT ![p] = Tail(@)], got, w, ts \ {p})
<1>s. /\ \A q, r \in Pipes : \A i \in 1 .. Len(qs[q]), j \in 1 .. Len(qs[r]) :
           qs[q][i] = qs[r][j] => q = r /\ i = j
      /\ \A q \in Pipes : \A i \in 1 .. Len(qs[q]) : qs[q][i] <= w
      /\ \A k \in 1 .. Len(got), q \in Pipes : \A i \in 1 .. Len(qs[q]) :
           got[k] = qs[q][i] => i = 1 /\ q \in ts
  BY DEF Single
<1>1. PICK rs : rs = [qs EXCEPT ![p] = Tail(@)]
  OBVIOUS
<1>2. rs[p] = Tail(qs[p]) /\ \A q \in Pipes : q # p => rs[q] = qs[q]
  BY <1>1
(* Each place on the new lists is an old one, the next on pipe p.          *)
<1>3. /\ \A i \in 1 .. Len(rs[p]) : /\ i + 1 \in 1 .. Len(qs[p]) /\ rs[p][i] = qs[p][i + 1]
                                    /\ i + 1 # 1
      /\ \A i, j \in 1 .. Len(rs[p]) : i + 1 = j + 1 => i = j
  <2>1. qs[p] \in Seq(Nat)
    OBVIOUS
  <2>2. \A i \in 1 .. Len(Tail(qs[p])) : /\ i + 1 \in 1 .. Len(qs[p]) /\ Tail(qs[p])[i] = qs[p][i + 1]
                                         /\ i \in Int /\ i + 1 # 1
    BY <2>1, ListTail, Zenon
  <2>3. /\ \A i \in 1 .. Len(rs[p]) : i + 1 \in 1 .. Len(qs[p]) /\ rs[p][i] = qs[p][i + 1] /\ i + 1 # 1
        /\ \A i \in 1 .. Len(rs[p]) : i \in Int
    BY <1>2, <2>2, Zenon
  <2>4. \A i, j \in Int : i + 1 = j + 1 => i = j
    OBVIOUS
  <2> QED BY <2>3, <2>4, Zenon
<1>4. ASSUME NEW q \in Pipes, NEW r \in Pipes, NEW i \in 1 .. Len(rs[q]), NEW j \in 1 .. Len(rs[r]),
             rs[q][i] = rs[r][j]
      PROVE  q = r /\ i = j
  <2>1. CASE q = p /\ r = p
    BY <1>3, <1>4, <2>1 DEF Single
  <2>2. CASE q = p /\ r # p
    <3>1. /\ i + 1 \in 1 .. Len(qs[p]) /\ qs[p][i + 1] = rs[r][j] /\ rs[r] = qs[r]
          /\ j \in 1 .. Len(qs[r])
      BY <1>2, <1>3, <1>4, <2>2
    <3>2. p = r
      BY <3>1, SinglePlace
    <3> QED BY <2>2, <3>2
  <2>3. CASE q # p /\ r = p
    <3>1. /\ j + 1 \in 1 .. Len(qs[p]) /\ qs[p][j + 1] = rs[q][i] /\ rs[q] = qs[q]
          /\ i \in 1 .. Len(qs[q])
      BY <1>2, <1>3, <1>4, <2>3
    <3>2. p = q
      BY <3>1, SinglePlace
    <3> QED BY <2>3, <3>2
  <2>4. CASE q # p /\ r # p
    <3>1. rs[q] = qs[q] /\ rs[r] = qs[r]
      BY <1>2, <2>4
    <3> QED BY <1>s, <1>4, <3>1
  <2> QED BY <2>1, <2>2, <2>3, <2>4
<1>5. ASSUME NEW q \in Pipes, NEW i \in 1 .. Len(rs[q]) PROVE rs[q][i] <= w
  <2>1. CASE q = p
    BY <1>s, <1>3, <2>1
  <2>2. CASE q # p
    <3>1. rs[q] = qs[q]
      BY <1>2, <2>2
    <3> QED BY <1>s, <3>1
  <2> QED BY <2>1, <2>2
<1>6. ASSUME NEW k \in 1 .. Len(got), NEW q \in Pipes, NEW i \in 1 .. Len(rs[q]), got[k] = rs[q][i]
      PROVE  i = 1 /\ q \in ts \ {p}
  <2>1. q # p
    BY <1>3, <1>6 DEF Single
  <2>2. rs[q] = qs[q]
    BY <1>2, <2>1
  <2> QED BY <1>s, <1>6, <2>1, <2>2
<1>7. Single(rs, got, w, ts \ {p})
  BY <1>4, <1>5, <1>6, Zenon DEF Single
<1> QED BY <1>1, <1>7

\* An acknowledgment brings the head of a list that has not come.
LEMMA SingleArrive ==
    ASSUME NEW qs \in [Pipes -> Seq(Nat)], NEW got \in Seq(Nat), NEW w \in Nat, NEW ts,
           Single(qs, got, w, ts), NEW p \in Pipes, p \notin ts, qs[p] # <<>>
    PROVE  Single(qs, Append(got, Head(qs[p])), w, ts \cup {p})
<1>1. PICK x : x = Head(qs[p])
  OBVIOUS
<1>2. PICK g : g = Append(got, x)
  OBVIOUS
<1>3. PICK n : n = Len(got) + 1
  OBVIOUS
<1>4. qs[p] \in Seq(Nat) /\ 1 \in 1 .. Len(qs[p]) /\ x = qs[p][1] /\ x \in Nat
  <2>1. qs[p] \in Seq(Nat)
    OBVIOUS
  <2>2. 1 \in 1 .. Len(qs[p]) /\ x = qs[p][1]
    BY <1>1, <2>1, ListTail, Zenon
  <2> QED BY <2>1, <2>2
<1>5. \A k \in 1 .. Len(g) : (k \in 1 .. Len(got) /\ g[k] = got[k]) \/ (k = n /\ g[k] = x)
  BY <1>2, <1>3, <1>4, ListAppend
<1>6. \A k \in 1 .. Len(got) : got[k] # x
  BY <1>4, Zenon DEF Single
<1>7. ASSUME NEW k \in 1 .. Len(g) PROVE g[k] <= w
  BY <1>4, <1>5, Zenon DEF Single
<1>8. ASSUME NEW k \in 1 .. Len(g), NEW l \in 1 .. Len(g), g[k] = g[l] PROVE k = l
  BY <1>5, <1>6, <1>8, Zenon DEF Single
<1>9. ASSUME NEW k \in 1 .. Len(g), NEW q \in Pipes, NEW i \in 1 .. Len(qs[q]), g[k] = qs[q][i]
      PROVE  i = 1 /\ q \in ts \cup {p}
  <2>1. CASE k \in 1 .. Len(got) /\ g[k] = got[k]
    <3>1. got[k] = qs[q][i]
      BY <1>9, <2>1
    <3>2. i = 1 /\ q \in ts
      BY <2>1, <3>1, SingleHead
    <3> QED BY <3>2
  <2>2. CASE g[k] = x
    <3>1. qs[p][1] = qs[q][i]
      BY <1>4, <1>9, <2>2
    <3>2. p = q /\ 1 = i
      BY <1>4, <3>1, SinglePlace
    <3> QED BY <3>2
  <2> QED BY <1>5, <2>1, <2>2
<1>10. Single(qs, g, w, ts \cup {p})
  BY <1>7, <1>8, <1>9, Zenon DEF Single
<1> QED BY <1>1, <1>2, <1>10

\* The moves of the ack payloads leave each in one place.
LEMMA SingleStep ==
    ASSUME ack_pl \in [Pipes -> Seq(Nat)], ptx_got \in Seq(Nat), ack_written \in Nat,
           SingleInv, AckMoves
    PROVE  SingleInv'
<1>1. Single(ack_pl, ptx_got, ack_written, TakenPipes)
  BY DEF SingleInv
<1>2. ASSUME Single(ack_pl', ptx_got', ack_written', TakenPipes') PROVE SingleInv'
  BY <1>2 DEF SingleInv
<1>3. 0 \in Pipes
  BY BaseAssumption DEF Pipes
<1>4. CASE /\ UNCHANGED ptx_got /\ TakenPipes' = TakenPipes
           /\ \/ UNCHANGED ack_pl /\ (ack_written' = ack_written \/ ack_written' = ack_written + 1)
              \/ \E p \in Pipes : /\ ack_pl' = [ack_pl EXCEPT ![p] = Append(@, ack_written + 1)]
                                   /\ ack_written' = ack_written + 1
  <2>1. /\ Single(ack_pl, ptx_got, ack_written + 1, TakenPipes)
        /\ \A p \in Pipes : Single([ack_pl EXCEPT ![p] = Append(@, ack_written + 1)], ptx_got,
                                   ack_written + 1, TakenPipes)
    BY <1>1, <1>3, SingleQueue
  <2>2. Single(ack_pl', ptx_got', ack_written', TakenPipes')
    BY <1>1, <1>4, <2>1, Zenon
  <2> QED BY <1>2, <2>2
<1>5. ASSUME NEW p \in TakenPipes,
             UNCHANGED <<ptx_got, ack_written>>, TakenPipes' = TakenPipes \ {p},
             ack_pl[p] # <<>>, ack_pl' = [ack_pl EXCEPT ![p] = Tail(@)]
      PROVE  SingleInv'
  <2>1. p \in Pipes
    BY DEF TakenPipes
  <2>2. Single([ack_pl EXCEPT ![p] = Tail(@)], ptx_got, ack_written, TakenPipes \ {p})
    BY <1>1, <1>5, <2>1, SingleRetire
  <2> QED BY <1>2, <1>5, <2>2
<1>6. ASSUME NEW p \in Pipes \ TakenPipes,
             UNCHANGED <<ack_pl, ack_written>>, TakenPipes' = TakenPipes \cup {p},
             ack_pl[p] # <<>>, ptx_got' = Append(ptx_got, Head(ack_pl[p]))
      PROVE  SingleInv'
  <2>1. Single(ack_pl, Append(ptx_got, Head(ack_pl[p])), ack_written, TakenPipes \cup {p})
    BY <1>1, <1>6, SingleArrive
  <2> QED BY <1>2, <1>6, <2>1
<1> QED BY <1>4, <1>5, <1>6 DEF AckMoves

(* On any number of pipes, a payload attached to acknowledgments reaches   *)
(* the transmitter at most once, whatever is lost and repeated: the        *)
(* receiver attaches the head of a pipe's list to every repetition, and    *)
(* the transmitter, which has no duplicate test, takes in only one.        *)
THEOREM LinkAckOnce ==
    ASSUME CrcIsNumber, AckUse
    PROVE  LinkSpec => []AckPayloadsOnce
<1>1. LinkInit => SingleInv
  <2>1. ASSUME LinkInit PROVE ack_pl = [p \in Pipes |-> <<>>] /\ ptx_got = <<>>
    BY <2>1 DEF LinkInit, PtxInit, PrxInit
  <2>2. ASSUME LinkInit PROVE Len(ptx_got) = 0 /\ \A p \in Pipes : Len(ack_pl[p]) = 0
    BY <2>1, <2>2
  <2> QED BY <2>2 DEF SingleInv, Single
<1>2. DriverInv => /\ ack_pl \in [Pipes -> Seq(Nat)] /\ ptx_got \in Seq(Nat) /\ ack_written \in Nat
  BY DEF DriverInv, LinkTypeOK, PrxTypeOK, PtxTypeOK
<1>3. DriverInv /\ DeliveryInv /\ PrxRingInv /\ AckInv /\ SingleInv /\ [LinkNext]_linkVars => SingleInv'
  BY <1>2, AckStep, SingleStep
<1>4. SingleInv => AckPayloadsOnce
  BY DEF SingleInv, Single, AckPayloadsOnce
<1> QED BY <1>1, <1>3, <1>4, LinkAcks, PTL DEF LinkSpec

-----------------------------------------------------------------------------
(* Redeliveries, whatever the two applications call: packets with and      *)
(* without acknowledgment in both protocols, flushes, re-initialisations   *)
(* and reused packet IDs.  The transmitter only goes forward in what was   *)
(* queued, so a packet that was left behind is not sent again.             *)

(* Payloads are queued in the order of their numbers, behind the one that  *)
(* is sent or was sent last.                                               *)
Newer(n, q, pdu, w) ==
    /\ pdu.id <= w
    /\ \A i \in 0 .. n - 1 : q[i].id <= w /\ pdu.id <= q[i].id /\ (pdu.id = q[i].id => pdu = q[i])
    /\ \A i, j \in 0 .. n - 1 : i < j => q[i].id < q[j].id

(* Where the log of deliveries holds packet n.                             *)
CopiesIn(log, n) == {i \in 1 .. Len(log) : log[i] = n}
Copies(n) == Cardinality(CopiesIn(delivered, n))

(* Nothing newer than p was delivered, and p is taken for a repetition if  *)
(* it was delivered since the receiver forgot it last.                     *)
Fresh(p) ==
    /\ \A i \in 1 .. Len(delivered) : delivered[i] <= p.id
    /\ IsRepeat(p) \/ Copies(p.id) <= forgets

RepeatInv ==
    /\ Newer(tx_fifo.count, Queue, tx_pdu, written)
    /\ Fresh(tx_pdu)
    /\ \A f \in air : f.dir = "data" =>
         /\ Fresh(f.pdu)
         /\ f.pdu.id <= tx_pdu.id
         /\ f.pdu.id = tx_pdu.id => f.pdu = tx_pdu
    /\ \A n \in 0 .. written : Copies(n) <= 1 + forgets

\* The copies of a packet are counted by a number, zero if there is none.
LEMMA CopiesCounted ==
    ASSUME NEW log \in Seq(Nat), NEW n
    PROVE  /\ IsFiniteSet(CopiesIn(log, n)) /\ Cardinality(CopiesIn(log, n)) \in Nat
           /\ (\A i \in 1 .. Len(log) : log[i] # n) => Cardinality(CopiesIn(log, n)) = 0
<1>1. IsFiniteSet(1 .. Len(log))
  <2>1. Len(log) \in Int
    OBVIOUS
  <2> QED BY <2>1, FS_Interval
<1>2. CopiesIn(log, n) \in SUBSET (1 .. Len(log))
  BY DEF CopiesIn
<1>3. IsFiniteSet(CopiesIn(log, n))
  BY <1>1, <1>2, FS_Subset
<1>4. Cardinality(CopiesIn(log, n)) \in Nat
  BY <1>3, FS_CardinalityType
<1>5. (\A i \in 1 .. Len(log) : log[i] # n) => CopiesIn(log, n) = {}
  BY DEF CopiesIn
<1> QED BY <1>3, <1>4, <1>5, FS_EmptySet

\* A delivery adds one copy of its packet.
LEMMA CopiesAppend ==
    ASSUME NEW log \in Seq(Nat), NEW x \in Nat, NEW n
    PROVE  Cardinality(CopiesIn(Append(log, x), n)) =
             IF n = x THEN Cardinality(CopiesIn(log, n)) + 1 ELSE Cardinality(CopiesIn(log, n))
<1> DEFINE k == Len(log) + 1
<1>1. /\ Len(log) \in Nat /\ Len(Append(log, x)) = k /\ Append(log, x)[k] = x
      /\ \A i \in 1 .. Len(log) : Append(log, x)[i] = log[i]
  OBVIOUS
<1>2. k \notin CopiesIn(log, n)
  BY <1>1 DEF CopiesIn
<1>3. \A i : i \in 1 .. k <=> i \in 1 .. Len(log) \/ i = k
  BY <1>1
<1>4. CASE n = x
  <2>1. CopiesIn(Append(log, x), n) = CopiesIn(log, n) \cup {k}
    BY <1>1, <1>3, <1>4 DEF CopiesIn
  <2> QED BY <1>2, <1>4, <2>1, CopiesCounted, FS_AddElement, ZenonT(60)
<1>5. CASE n # x
  <2>1. CopiesIn(Append(log, x), n) = CopiesIn(log, n)
    BY <1>1, <1>3, <1>5 DEF CopiesIn
  <2> QED BY <1>5, <2>1
<1> QED BY <1>4, <1>5

(* What a step of the transmitter does to its queue: nothing, start on the *)
(* front payload, queue one, drop all, or drop the front and go on.        *)
QueueMove ==
    \/ UNCHANGED <<tx_fifo, written, tx_pdu>>
    \/ UNCHANGED <<tx_fifo, written>> /\ tx_fifo.count > 0 /\ tx_pdu' = tx_fifo.payload[tx_fifo.front]
    \/ /\ UNCHANGED tx_pdu /\ written' = written + 1 /\ tx_fifo.count < TxSize
       /\ \E x \in Payload : x.id = written + 1 /\ tx_fifo' = FifoPush(tx_fifo, TxSize, x)
    \/ UNCHANGED <<written, tx_pdu>> /\ tx_fifo' = FifoReset(tx_fifo)
    \/ /\ UNCHANGED written /\ tx_fifo' = RemoveLast
       /\ \/ UNCHANGED tx_pdu
          \/ RemoveLast.count > 0 /\ tx_pdu' = RemoveLast.payload[RemoveLast.front]

\* What esb_write_payload queues is the next number.
LEMMA WriteNumbers ==
    ASSUME PtxTypeOK, RingInv, NEW c \in Contexts, PtxWriteEnqueue(c)
    PROVE  /\ UNCHANGED tx_pdu /\ written' = written + 1 /\ tx_fifo.count < TxSize
           /\ \E x \in Payload : x.id = written + 1 /\ tx_fifo' = FifoPush(tx_fifo, TxSize, x)
<1>1. PICK w : w = ptx_call[c]
  OBVIOUS
<1>2. w.step = "enqueue" /\ w.pipe \in Pipes /\ w.noack \in BOOLEAN /\ tx_fifo.count < TxSize
  BY <1>1, WriteCallType DEF PtxWriteEnqueue, PtxResumes, RingInv
<1>3. PICK x : x = [id |-> written + 1, pipe |-> w.pipe, noack |-> w.noack, pid |-> NextPid(w.pipe)]
  OBVIOUS
<1>4. NextPid(w.pipe) \in Pids /\ written + 1 \in Nat
  <2>1. pids[w.pipe] \in Pids
    BY <1>2 DEF PtxTypeOK
  <2>2. pids[w.pipe] + 1 \in Int
    BY <2>1 DEF Pids
  <2> QED BY <2>2, PidRange DEF NextPid, PtxTypeOK
<1>5. x \in Payload /\ x.id = written + 1
  BY <1>2, <1>3, <1>4 DEF Payload
<1>6. tx_fifo' = FifoPush(tx_fifo, TxSize, x) /\ written' = written + 1 /\ UNCHANGED tx_pdu
  BY <1>1, <1>3 DEF PtxWriteEnqueue, ptxRadio
<1> QED BY <1>2, <1>5, <1>6

\* Every step of the transmitter is one of these moves.
LEMMA PtxMoves ==
    ASSUME PtxQueueUse, PtxTypeOK, RingInv, AutoInv, PtxLocal
    PROVE  QueueMove
<1> USE DEF ptxQueues, ptxRadio, ptxLogs
<1>1. ASSUME NEW c \in Contexts, PtxWriteEnqueue(c) PROVE QueueMove
  BY <1>1, WriteNumbers DEF QueueMove
<1>2. ASSUME NEW c \in Contexts, PtxWriteStart(c) \/ esb_start_tx(c) PROVE QueueMove
  <2>1. UNCHANGED written
    BY <1>2, Zenon DEF PtxWriteStart, esb_start_tx
  <2>2. /\ UNCHANGED tx_fifo
        /\ (StartTx(tx_fifo) /\ tx_fifo.count > 0) \/ UNCHANGED tx_pdu
    BY <1>2, StartsQueued
  <2>3. StartTx(tx_fifo) => tx_pdu' = tx_fifo.payload[tx_fifo.front]
    BY DEF StartTx
  <2> QED BY <2>1, <2>2, <2>3 DEF QueueMove
<1>3. ASSUME NEW c \in Contexts, PtxPopCheck(c) \/ PtxPopLocked(c) PROVE FALSE
  BY <1>3 DEF PtxPopCheck, PtxPopLocked, PtxCalling, PtxResumes, NoPop, PtxQueueUse, RingInv
<1>4. ASSUME NEW c \in Contexts, PtxFlushTx(c) \/ PtxReinit PROVE QueueMove
  BY <1>4 DEF PtxFlushTx, PtxReinit, QueueMove
<1>5. ASSUME NEW c \in Contexts,
             \/ PtxWriteCheck(c) \/ PtxReadCheck(c) \/ PtxReadLocked(c) \/ PtxFlushRx(c)
             \/ esb_reuse_pid(c) \/ esb_set_retransmit_count(c)
             \/ PtxEvtEnter \/ PtxEvtFetch \/ PtxEvtReturn
      PROVE  QueueMove
  <2>1. UNCHANGED <<tx_fifo, written, tx_pdu>>
    BY <1>5, Zenon DEF PtxWriteCheck, PtxReadCheck, PtxReadLocked, PtxFlushRx, esb_reuse_pid,
       esb_set_retransmit_count, PtxEvtEnter, PtxEvtFetch, PtxEvtReturn
  <2> QED BY <2>1 DEF QueueMove
<1>6. CASE \E c \in Contexts : PtxApi(c)
  BY <1>1, <1>2, <1>3, <1>4, <1>5, <1>6, Zenon DEF PtxApi
<1>7. "thread" \in Contexts
  BY DEF Contexts
<1> QED BY <1>4, <1>5, <1>6, <1>7, Zenon DEF PtxLocal

\* So is every step of its radio.
LEMMA RadioMoves ==
    ASSUME PtxTypeOK, NEW ack, LinkRadio(ack)
    PROVE  QueueMove
<1> USE DEF ptxQueues, ptxLogs
<1>1. CASE on_radio_disabled_tx \/ AckMissed
  <2>1. UNCHANGED <<tx_fifo, written, tx_pdu>>
    BY <1>1, Zenon DEF on_radio_disabled_tx, AckMissed
  <2> QED BY <2>1 DEF QueueMove
<1>2. CASE on_radio_disabled_tx_noack \/ AckReceived(ack)
  <2>1. StartTx(RemoveLast) => tx_pdu' = RemoveLast.payload[RemoveLast.front]
    BY DEF StartTx
  <2> QED BY <1>2, <2>1, RadioGoesOn DEF QueueMove
<1> QED BY <1>1, <1>2 DEF LinkRadio

\* The moves only go forward.
LEMMA QueueForward ==
    ASSUME LinkTypeOK, LinkTypeOK', RingInv, RingInv', QueueMove,
           Newer(tx_fifo.count, Queue, tx_pdu, written)
    PROVE  /\ Newer(tx_fifo.count, Queue, tx_pdu, written)'
           /\ written <= written'
           /\ tx_pdu' = tx_pdu \/ tx_pdu.id < tx_pdu'.id
<1> DEFINE n == tx_fifo.count
           m == tx_fifo'.count
<1>1. /\ n \in Nat /\ m \in Nat /\ written \in Nat /\ TxSize \in Nat \ {0} /\ TxSize + 2 < UintMod
      /\ tx_fifo \in FifoType(TxSize, Payload) /\ tx_fifo' \in FifoType(TxSize, Payload)
      /\ tx_pdu.id \in Nat /\ tx_pdu'.id \in Nat
  <2>1. tx_pdu \in Payload /\ tx_pdu' \in Payload
    BY DEF LinkTypeOK, PtxTypeOK
  <2>2. tx_fifo' \in FifoType(TxSize, Payload)
    BY DEF LinkTypeOK, PtxTypeOK
  <2>3. tx_fifo'.count \in Nat
    BY <2>2, BaseAssumption DEF FifoType
  <2> QED BY <2>1, <2>2, <2>3, DeliveryTypes DEF Payload
<1>2. /\ \A i \in 0 .. n - 1 : Queue[i] = FifoAt(tx_fifo, TxSize, i) /\ Queue[i].id \in Nat
      /\ \A i \in 0 .. m - 1 : Queue'[i] = FifoAt(tx_fifo', TxSize, i)
  <2>1. \A i \in 0 .. n - 1 : Queue[i] = FifoAt(tx_fifo, TxSize, i) /\ Queue[i] \in Payload
    BY QueueTypes
  <2>2. \A i \in 0 .. m - 1 : Queue'[i] = FifoAt(tx_fifo', TxSize, i)
    BY DEF Queue
  <2> QED BY <2>1, <2>2 DEF Payload
<1>3. FifoConsistent(tx_fifo, TxSize) /\ PtxTypeOK
  BY DEF RingInv, LinkTypeOK
<1>4. /\ FifoAt(tx_fifo, TxSize, 0) = tx_fifo.payload[tx_fifo.front]
      /\ FifoAt(tx_fifo', TxSize, 0) = tx_fifo'.payload[tx_fifo'.front]
  BY <1>1, FrontIsFirst
<1>5. ASSUME NEW q, NEW k \in Nat, Newer(k, q, tx_pdu, written), k > 0, tx_pdu' = q[0],
             \A i \in 0 .. k - 1 : q[i].id \in Nat
      PROVE  Newer(k, q, tx_pdu', written) /\ (tx_pdu' = tx_pdu \/ tx_pdu.id < tx_pdu'.id)
  <2>1. 0 \in 0 .. k - 1 /\ \A i \in 0 .. k - 1 : i = 0 \/ 0 < i
    BY <1>5
  <2>2. /\ tx_pdu.id <= q[0].id /\ (tx_pdu.id = q[0].id => tx_pdu = q[0]) /\ q[0].id <= written
        /\ \A i \in 0 .. k - 1 : i = 0 \/ q[0].id < q[i].id
    BY <1>5, <2>1 DEF Newer
  <2>3. tx_pdu' = tx_pdu \/ tx_pdu.id < tx_pdu'.id
    BY <1>1, <1>5, <2>1, <2>2
  <2>4. ASSUME NEW i \in 0 .. k - 1
        PROVE  q[i].id <= written /\ tx_pdu'.id <= q[i].id /\ (tx_pdu'.id = q[i].id => tx_pdu' = q[i])
    <3>1. q[i].id <= written
      BY <1>5 DEF Newer
    <3>2. CASE i = 0
      BY <1>5, <3>1, <3>2
    <3>3. CASE i # 0
      <4>1. q[0].id < q[i].id
        BY <2>2, <3>3
      <4>2. q[0].id <= q[i].id /\ q[0].id # q[i].id
        BY <1>5, <2>1, <4>1
      <4> QED BY <1>5, <3>1, <4>2
    <3> QED BY <3>2, <3>3
  <2> QED BY <1>5, <2>2, <2>3, <2>4 DEF Newer
<1>6. CASE UNCHANGED <<tx_fifo, written, tx_pdu>>
  <2>1. Queue' = Queue
    BY <1>6 DEF Queue
  <2> QED BY <1>1, <1>6, <2>1
<1>7. CASE UNCHANGED <<tx_fifo, written>> /\ n > 0 /\ tx_pdu' = tx_fifo.payload[tx_fifo.front]
  <2>1. Queue' = Queue /\ 0 \in 0 .. n - 1
    BY <1>1, <1>7 DEF Queue
  <2>2. tx_pdu' = Queue[0]
    BY <1>2, <1>4, <1>7, <2>1
  <2>3. Newer(n, Queue, tx_pdu', written) /\ (tx_pdu' = tx_pdu \/ tx_pdu.id < tx_pdu'.id)
    BY <1>1, <1>2, <1>5, <1>7, <2>2
  <2> QED BY <1>1, <1>7, <2>1, <2>3
<1>8. ASSUME NEW x \in Payload, x.id = written + 1, tx_fifo' = FifoPush(tx_fifo, TxSize, x),
             UNCHANGED tx_pdu, written' = written + 1, n < TxSize
      PROVE  Newer(tx_fifo.count, Queue, tx_pdu, written)'
  <2>1. /\ m = n + 1 /\ FifoAt(tx_fifo', TxSize, n) = x
        /\ \A i \in 0 .. n - 1 : FifoAt(tx_fifo', TxSize, i) = FifoAt(tx_fifo, TxSize, i)
    BY <1>1, <1>3, <1>8, PushQueues
  <2>2. /\ Queue'[n] = x /\ \A i \in 0 .. n - 1 : Queue'[i] = Queue[i]
        /\ \A i \in 0 .. m - 1 : i = n \/ i \in 0 .. n - 1
    BY <1>1, <1>2, <2>1
  <2>3. tx_pdu.id <= written /\ \A i \in 0 .. n - 1 : Queue[i].id <= written
    BY DEF Newer
  <2>4. ASSUME NEW i \in 0 .. m - 1
        PROVE  Queue'[i].id <= written' /\ tx_pdu.id <= Queue'[i].id /\ (tx_pdu.id = Queue'[i].id => tx_pdu = Queue'[i])
    <3>1. CASE i = n
      BY <1>1, <1>8, <2>2, <2>3, <3>1
    <3>2. CASE i \in 0 .. n - 1
      BY <1>1, <1>2, <1>8, <2>2, <2>3, <3>2 DEF Newer
    <3> QED BY <2>2, <3>1, <3>2
  <2>5. ASSUME NEW i \in 0 .. m - 1, NEW j \in 0 .. m - 1, i < j PROVE Queue'[i].id < Queue'[j].id
    <3>1. i \in 0 .. n - 1
      BY <1>1, <2>1, <2>5
    <3>2. CASE j = n
      BY <1>1, <1>2, <1>8, <2>2, <2>3, <3>1, <3>2
    <3>3. CASE j \in 0 .. n - 1
      BY <2>2, <2>5, <3>1, <3>3 DEF Newer
    <3> QED BY <2>2, <3>2, <3>3
  <2>6. tx_pdu'.id <= written'
    BY <1>1, <1>8, <2>3
  <2> QED BY <1>8, <2>4, <2>5, <2>6 DEF Newer
<1>9. CASE UNCHANGED <<written, tx_pdu>> /\ tx_fifo' = FifoReset(tx_fifo)
  <2>1. m = 0 /\ 0 .. m - 1 = {}
    BY <1>9 DEF FifoReset
  <2> QED BY <1>1, <1>9, <2>1 DEF Newer
<1>10. ASSUME UNCHANGED written, tx_fifo' = RemoveLast
       PROVE  Newer(m, Queue', tx_pdu, written) /\ \A i \in 0 .. m - 1 : Queue'[i].id \in Nat
  <2>1. /\ m = IF n = 0 THEN 0 ELSE n - 1
        /\ \A i \in 0 .. n - 2 : FifoAt(tx_fifo', TxSize, i) = FifoAt(tx_fifo, TxSize, i + 1)
    BY <1>3, <1>10, RemoveLastQueue
  <2>2. ASSUME NEW i \in 0 .. m - 1 PROVE i \in Nat /\ i + 1 \in 0 .. n - 1 /\ Queue'[i] = Queue[i + 1]
    <3>1. i \in 0 .. n - 2 /\ i + 1 \in 0 .. n - 1 /\ i \in Nat
      BY <1>1, <2>1
    <3> QED BY <1>2, <2>1, <3>1
  <2>3. \A i, j \in 0 .. m - 1 : i < j => Queue'[i].id < Queue'[j].id
    <3> SUFFICES ASSUME NEW i \in 0 .. m - 1, NEW j \in 0 .. m - 1, i < j PROVE Queue'[i].id < Queue'[j].id
      OBVIOUS
    <3>1. i + 1 < j + 1
      BY <2>2
    <3> QED BY <2>2, <3>1 DEF Newer
  <2>4. \A i \in 0 .. m - 1 : Queue'[i].id \in Nat
    BY <1>2, <2>2
  <2> QED BY <2>2, <2>3, <2>4 DEF Newer
<1>11. CASE UNCHANGED <<written, tx_pdu>> /\ tx_fifo' = RemoveLast
  BY <1>1, <1>10, <1>11
<1>12. CASE /\ UNCHANGED written /\ tx_fifo' = RemoveLast
            /\ RemoveLast.count > 0 /\ tx_pdu' = RemoveLast.payload[RemoveLast.front]
  <2>1. m > 0 /\ 0 \in 0 .. m - 1 /\ tx_pdu' = tx_fifo'.payload[tx_fifo'.front]
    BY <1>1, <1>12
  <2>2. tx_pdu' = Queue'[0]
    BY <1>2, <1>4, <2>1
  <2>3. PICK q : q = Queue'
    OBVIOUS
  <2>4. Newer(m, q, tx_pdu', written) /\ (tx_pdu' = tx_pdu \/ tx_pdu.id < tx_pdu'.id)
    BY <1>1, <1>5, <1>10, <1>12, <2>1, <2>2, <2>3
  <2> QED BY <1>1, <1>12, <2>3, <2>4
<1> QED BY <1>1, <1>6, <1>7, <1>8, <1>9, <1>11, <1>12 DEF QueueMove

\* A packet newer than all that were delivered has no copy.
LEMMA NoCopies ==
    ASSUME delivered \in Seq(Nat), NEW n \in Nat, \A i \in 1 .. Len(delivered) : delivered[i] < n
    PROVE  Copies(n) = 0
<1>1. \A i \in 1 .. Len(delivered) : delivered[i] \in Nat /\ delivered[i] # n
  OBVIOUS
<1> QED BY <1>1, CopiesCounted DEF Copies

\* A step that delivers nothing and makes the receiver forget nothing.
LEMMA RepeatKept ==
    ASSUME LinkTypeOK, LinkTypeOK', RepeatInv, UNCHANGED <<delivered, pipe_info, forgets>>,
           Newer(tx_fifo.count, Queue, tx_pdu, written)', written <= written',
           tx_pdu' = tx_pdu \/ tx_pdu.id < tx_pdu'.id,
           \A f \in air' : f.dir = "data" => f \in air \/ f.pdu = tx_pdu
    PROVE  RepeatInv'
<1>1. /\ tx_pdu \in Payload /\ tx_pdu' \in Payload /\ written \in Nat /\ written' \in Nat /\ forgets \in Nat
      /\ delivered \in Seq(Nat) /\ \A i \in 1 .. Len(delivered) : delivered[i] \in Nat
  <2>1. delivered \in Seq(Nat) /\ forgets \in Nat
    BY DEF LinkTypeOK, PrxTypeOK
  <2>2. tx_pdu \in Payload /\ tx_pdu' \in Payload /\ written \in Nat /\ written' \in Nat
    BY DEF LinkTypeOK, PtxTypeOK
  <2> QED BY <2>1, <2>2
<1>2. \A p : Fresh(p)' <=> Fresh(p)
  BY DEF Fresh, IsRepeat, Copies
<1>3. tx_pdu.id \in Nat /\ tx_pdu'.id \in Nat
  BY <1>1 DEF Payload
<1>4. Fresh(tx_pdu) /\ \A i \in 1 .. Len(delivered) : delivered[i] <= tx_pdu.id
  BY DEF RepeatInv, Fresh
<1>5. Fresh(tx_pdu)'
  <2>1. CASE tx_pdu' = tx_pdu
    BY <1>4, <2>1 DEF Fresh, IsRepeat, Copies
  <2>2. CASE tx_pdu.id < tx_pdu'.id
    <3>1. \A i \in 1 .. Len(delivered) : delivered[i] < tx_pdu'.id
      BY <1>1, <1>3, <1>4, <2>2
    <3>2. Copies(tx_pdu'.id) = 0
      BY <1>1, <1>3, <3>1, NoCopies
    <3>3. Cardinality(CopiesIn(delivered', tx_pdu'.id)) <= forgets'
      BY <1>1, <3>2 DEF Copies
    <3>4. \A i \in 1 .. Len(delivered') : delivered'[i] <= tx_pdu'.id
      BY <1>1, <1>3, <3>1
    <3> QED BY <3>3, <3>4 DEF Fresh, Copies
  <2> QED BY <2>1, <2>2
<1>6. ASSUME NEW f \in air', f.dir = "data"
      PROVE  Fresh(f.pdu)' /\ f.pdu.id <= tx_pdu'.id /\ (f.pdu.id = tx_pdu'.id => f.pdu = tx_pdu')
  <2>1. f.pdu \in Payload
    BY <1>6 DEF LinkTypeOK, AirTypeOK
  <2>2. f.pdu.id \in Nat
    BY <2>1 DEF Payload
  <2>3. Fresh(f.pdu) /\ f.pdu.id <= tx_pdu.id /\ (f.pdu.id = tx_pdu.id => f.pdu = tx_pdu)
    BY <1>3, <1>4, <1>6 DEF RepeatInv
  <2> QED BY <1>2, <1>3, <2>2, <2>3
<1>7. ASSUME NEW n \in 0 .. written' PROVE Copies(n)' <= 1 + forgets'
  <2>1. CASE n \in 0 .. written
    BY <2>1 DEF RepeatInv, Copies
  <2>2. CASE n \notin 0 .. written
    <3>1. n \in Nat /\ tx_pdu.id < n
      BY <1>1, <1>3, <2>2 DEF RepeatInv, Newer
    <3>2. \A i \in 1 .. Len(delivered) : delivered[i] < n
      BY <1>1, <1>3, <1>4, <3>1
    <3>3. Copies(n) = 0
      BY <1>1, <3>1, <3>2, NoCopies
    <3> QED BY <1>1, <3>3 DEF Copies
  <2> QED BY <2>1, <2>2
<1> QED BY <1>5, <1>6, <1>7 DEF RepeatInv

\* When the receiver is made to forget, every packet may come once more.
LEMMA RepeatForget ==
    ASSUME LinkTypeOK, RepeatInv, UNCHANGED <<delivered, tx_fifo, tx_pdu, written, air>>,
           forgets' = forgets + 1
    PROVE  RepeatInv'
<1>1. /\ tx_pdu \in Payload /\ written \in Nat /\ forgets \in Nat /\ delivered \in Seq(Nat)
  BY DEF LinkTypeOK, PtxTypeOK, PrxTypeOK
<1>2. \A n : Copies(n)' = Copies(n) /\ Copies(n) \in Nat
  BY <1>1, CopiesCounted DEF Copies
<1>3. tx_pdu.id \in 0 .. written
  BY <1>1 DEF RepeatInv, Newer, Payload
<1>4. ASSUME NEW p, Fresh(p), p.id \in 0 .. written PROVE Fresh(p)'
  <2>1. Copies(p.id) <= 1 + forgets
    BY <1>4 DEF RepeatInv
  <2>2. Copies(p.id)' <= forgets'
    BY <1>1, <1>2, <2>1
  <2> QED BY <1>4, <2>2 DEF Fresh
<1>5. Fresh(tx_pdu)'
  <2>1. PICK p : p = tx_pdu
    OBVIOUS
  <2>2. Fresh(p)'
    BY <1>3, <1>4, <2>1 DEF RepeatInv
  <2> QED BY <2>1, <2>2 DEF Fresh, IsRepeat, Copies
<1>6. ASSUME NEW f \in air, f.dir = "data" PROVE Fresh(f.pdu)'
  <2>1. f.pdu \in Payload
    BY <1>6 DEF LinkTypeOK, AirTypeOK
  <2>2. Fresh(f.pdu) /\ f.pdu.id \in 0 .. written
    BY <1>1, <1>3, <1>6, <2>1 DEF RepeatInv, Payload
  <2> QED BY <1>4, <2>2
<1>7. Newer(tx_fifo.count, Queue, tx_pdu, written)'
  <2>1. Queue' = Queue
    BY DEF Queue
  <2> QED BY <2>1 DEF RepeatInv
<1>8. \A n \in 0 .. written' : Copies(n)' <= 1 + forgets'
  <2>1. ASSUME NEW n \in 0 .. written PROVE Copies(n)' <= 1 + forgets'
    <3>1. Copies(n) <= 1 + forgets
      BY DEF RepeatInv
    <3> QED BY <1>1, <1>2, <3>1
  <2> QED BY <2>1
<1> QED BY <1>5, <1>6, <1>7, <1>8 DEF RepeatInv

\* What is remembered of a packet makes it a repetition.
LEMMA PacketRemembered ==
    ASSUME PrxTypeOK, NEW pdu \in Payload, PacketReceived(pdu)
    PROVE  IsRepeat(pdu)' /\ UNCHANGED forgets
           /\ \A q \in Payload : IsRepeat(pdu) /\ IsRepeat(q) => IsRepeat(q)'
<1>1. pdu.pipe \in Pipes /\ pipe_info \in [Pipes -> [pid : Pids, crc : Nat, ack_payload : BOOLEAN]]
  BY DEF Payload, PrxTypeOK
<1>2. \E b : pipe_info' = [pipe_info EXCEPT ![pdu.pipe] = PipeInfo(pdu, b)]
  BY Zenon DEF PacketReceived, PrepareDplAck, PrepareFixedAck, NoAck
<1>3. PICK b : pipe_info' = [pipe_info EXCEPT ![pdu.pipe] = PipeInfo(pdu, b)]
  BY <1>2
<1>4. PICK r : r = PipeInfo(pdu, b) /\ r.pid = RxPid(pdu) /\ r.crc = Crc(pdu)
  <2>1. PICK r : r = PipeInfo(pdu, b)
    OBVIOUS
  <2>2. r.pid = RxPid(pdu) /\ r.crc = Crc(pdu)
    BY <2>1 DEF PipeInfo
  <2> QED BY <2>1, <2>2
<1>5. pipe_info'[pdu.pipe] = r /\ \A p \in Pipes : p # pdu.pipe => pipe_info'[p] = pipe_info[p]
  BY <1>1, <1>3, <1>4
<1>6. IsRepeat(pdu)'
  BY <1>4, <1>5 DEF IsRepeat
<1>7. ASSUME NEW q \in Payload, IsRepeat(pdu), IsRepeat(q) PROVE IsRepeat(q)'
  <2>1. CASE q.pipe = pdu.pipe
    BY <1>4, <1>5, <1>7, <2>1 DEF IsRepeat
  <2>2. CASE q.pipe # pdu.pipe
    <3>1. q.pipe \in Pipes
      BY DEF Payload
    <3> QED BY <1>5, <1>7, <2>2, <3>1 DEF IsRepeat
  <2> QED BY <2>1, <2>2
<1>8. UNCHANGED forgets
  BY DEF PacketReceived
<1> QED BY <1>6, <1>7, <1>8

\* A delivery, or the reception of a repetition.
LEMMA RepeatPacket ==
    ASSUME LinkTypeOK, RepeatInv, NEW f \in air, f.dir = "data", PacketReceived(f.pdu),
           air' = {}, UNCHANGED ptxVars
    PROVE  RepeatInv'
<1> DEFINE d == f.pdu
<1>1. /\ tx_pdu \in Payload /\ written \in Nat /\ forgets \in Nat /\ delivered \in Seq(Nat)
      /\ d \in Payload /\ PrxTypeOK
  BY DEF LinkTypeOK, PtxTypeOK, PrxTypeOK, AirTypeOK
<1>2. tx_pdu.id \in Nat /\ d.id \in Nat
  BY <1>1 DEF Payload
<1>3. UNCHANGED <<tx_fifo, tx_pdu, written>>
  BY DEF ptxVars, ptxQueues, ptxRadio, ptxLogs
<1>4. Newer(tx_fifo.count, Queue, tx_pdu, written)'
  <2>1. Queue' = Queue
    BY <1>3 DEF Queue
  <2> QED BY <1>3, <2>1 DEF RepeatInv
<1>5. /\ Fresh(d) /\ d.id <= tx_pdu.id /\ (d.id = tx_pdu.id => d = tx_pdu) /\ Fresh(tx_pdu)
      /\ tx_pdu.id <= written
  BY DEF RepeatInv, Newer
<1>6. IsRepeat(d)' /\ UNCHANGED forgets /\ (IsRepeat(d) /\ IsRepeat(tx_pdu) => IsRepeat(tx_pdu)')
  <2>1. PICK t \in Payload : t = tx_pdu /\ t = tx_pdu'
    BY <1>1, <1>3
  <2>2. IsRepeat(d) /\ IsRepeat(t) => IsRepeat(t)'
    BY <1>1, PacketRemembered
  <2>3. IsRepeat(t)' => IsRepeat(tx_pdu)'
    BY <2>1 DEF IsRepeat
  <2> QED BY <1>1, <2>1, <2>2, <2>3, PacketRemembered DEF IsRepeat
<1>7. d = tx_pdu => IsRepeat(tx_pdu)'
  BY <1>3, <1>6 DEF IsRepeat
<1>8. CASE IsRepeat(d)
  <2>1. UNCHANGED delivered
    BY <1>8 DEF PacketReceived
  <2>2. \A n : Copies(n)' = Copies(n)
    BY <2>1 DEF Copies
  <2>3. Fresh(tx_pdu)'
    <3>1. \A i \in 1 .. Len(delivered') : delivered'[i] <= tx_pdu'.id
      BY <1>3, <1>5, <2>1 DEF Fresh
    <3>2. IsRepeat(tx_pdu)' \/ Cardinality(CopiesIn(delivered', tx_pdu'.id)) <= forgets'
      BY <1>3, <1>5, <1>6, <1>8, <2>1 DEF Fresh, Copies
    <3> QED BY <3>1, <3>2 DEF Fresh, Copies
  <2>4. \A n \in 0 .. written' : Copies(n)' <= 1 + forgets'
    BY <1>3, <1>6, <2>2 DEF RepeatInv
  <2> QED BY <1>4, <2>3, <2>4 DEF RepeatInv
<1>9. CASE ~IsRepeat(d)
  <2>1. delivered' = Append(delivered, d.id)
    BY <1>9 DEF PacketReceived
  <2>2. \A n : Cardinality(CopiesIn(delivered', n)) = IF n = d.id THEN Copies(n) + 1 ELSE Copies(n)
    BY <1>1, <1>2, <2>1, CopiesAppend DEF Copies
  <2>3. /\ Len(delivered) \in Nat /\ Len(delivered') = Len(delivered) + 1
        /\ delivered'[Len(delivered) + 1] = d.id
        /\ \A i \in 1 .. Len(delivered) : delivered'[i] = delivered[i] /\ delivered[i] \in Nat
    BY <1>1, <1>2, <2>1
  <2>4. ASSUME NEW i \in 1 .. Len(delivered') PROVE delivered'[i] <= tx_pdu'.id
    <3>1. CASE i = Len(delivered) + 1
      BY <1>3, <1>5, <2>3, <3>1
    <3>2. CASE i # Len(delivered) + 1
      <4>1. i \in 1 .. Len(delivered)
        BY <2>3, <3>2
      <4> QED BY <1>3, <1>5, <2>3, <4>1 DEF Fresh
    <3> QED BY <3>1, <3>2
  <2>5. Copies(d.id) <= forgets /\ \A n : Copies(n) \in Nat
    BY <1>1, <1>5, <1>9, CopiesCounted DEF Fresh, Copies
  <2>6. IsRepeat(tx_pdu)' \/ Cardinality(CopiesIn(delivered', tx_pdu'.id)) <= forgets'
    <3>1. CASE d = tx_pdu
      BY <1>7, <3>1
    <3>2. CASE d # tx_pdu
      <4>1. d.id < tx_pdu.id
        BY <1>2, <1>5, <3>2
      <4>2. \A i \in 1 .. Len(delivered) : delivered[i] < tx_pdu.id
        BY <1>2, <1>5, <2>3, <4>1 DEF Fresh
      <4>3. Copies(tx_pdu.id) = 0
        BY <1>1, <1>2, <4>2, NoCopies
      <4>4. tx_pdu.id # d.id
        BY <1>2, <4>1
      <4>5. Cardinality(CopiesIn(delivered', tx_pdu.id)) = 0
        BY <2>2, <4>3, <4>4
      <4> QED BY <1>1, <1>3, <1>6, <4>5
    <3> QED BY <3>1, <3>2
  <2>7. Fresh(tx_pdu)'
    BY <2>4, <2>6 DEF Fresh, Copies
  <2>8. ASSUME NEW n \in 0 .. written' PROVE Copies(n)' <= 1 + forgets'
    <3>1. Copies(n)' = IF n = d.id THEN Copies(n) + 1 ELSE Copies(n)
      BY <2>2 DEF Copies
    <3>2. Copies(n) <= 1 + forgets
      BY <1>3 DEF RepeatInv
    <3> QED BY <1>1, <1>6, <2>5, <3>1, <3>2
  <2> QED BY <1>4, <2>7, <2>8 DEF RepeatInv
<1> QED BY <1>8, <1>9

\* The receiver's own steps deliver nothing, and forget in two calls.
LEMMA PrxLocalForgets ==
    ASSUME PrxLocal
    PROVE  UNCHANGED delivered /\ (UNCHANGED <<pipe_info, forgets>> \/ forgets' = forgets + 1)
<1> USE DEF prxQueues, prxRadio, prxEvents, prxLogs
<1>1. ASSUME NEW c \in PrxContexts, PrxApi(c)
      PROVE  UNCHANGED delivered /\ (UNCHANGED <<pipe_info, forgets>> \/ forgets' = forgets + 1)
  BY <1>1, Zenon DEF PrxApi, PrxWriteCheck, PrxWriteEnqueue, PrxReadCheck, PrxReadLocked, PrxFlushTx,
     PrxFlushRx, PrxPopCheck, PrxPopLocked, esb_start_rx, esb_stop_rx
<1>2. CASE PrxReinit \/ PrxEvtEnter \/ PrxEvtReturn
  BY <1>2, Zenon DEF PrxReinit, PrxEvtEnter, PrxEvtReturn
<1> QED BY <1>1, <1>2 DEF PrxLocal

\* Every step of the link keeps redeliveries within bounds.
LEMMA RepeatStep ==
    ASSUME PtxQueueUse, PtxIdleUse, LinkTypeOK, LinkTypeOK', RingInv, RingInv', AutoInv, RepeatInv,
           [LinkNext]_linkVars
    PROVE  RepeatInv'
<1> USE DEF prxVars, prxRadio, prxLogs
<1>1. ASSUME QueueMove, UNCHANGED <<delivered, pipe_info, forgets>>,
             \A f \in air' : f.dir = "data" => f \in air \/ f.pdu = tx_pdu
      PROVE  RepeatInv'
  <2>1. /\ Newer(tx_fifo.count, Queue, tx_pdu, written)'
        /\ written <= written'
        /\ tx_pdu' = tx_pdu \/ tx_pdu.id < tx_pdu'.id
    BY <1>1, QueueForward DEF RepeatInv
  <2> QED BY <1>1, <2>1, RepeatKept
<1>2. UNCHANGED ptxVars => QueueMove
  BY DEF ptxVars, ptxQueues, ptxRadio, ptxLogs, QueueMove
<1>3. PtxTypeOK
  BY DEF LinkTypeOK
<1>4. CASE PtxLocal /\ UNCHANGED <<prxVars, air>>
  <2>1. QueueMove
    BY <1>3, <1>4, PtxMoves
  <2> QED BY <1>1, <1>4, <2>1
<1>5. CASE PrxLocal /\ UNCHANGED <<ptxVars, air>>
  <2>1. UNCHANGED delivered /\ (UNCHANGED <<pipe_info, forgets>> \/ forgets' = forgets + 1)
    BY <1>5, PrxLocalForgets
  <2>2. CASE UNCHANGED <<pipe_info, forgets>>
    BY <1>1, <1>2, <1>5, <2>1, <2>2
  <2>3. CASE forgets' = forgets + 1
    <3>1. UNCHANGED <<tx_fifo, tx_pdu, written, air>>
      BY <1>5 DEF ptxVars, ptxQueues, ptxRadio, ptxLogs
    <3> QED BY <2>1, <2>3, <3>1, RepeatForget
  <2> QED BY <2>1, <2>2, <2>3
<1>6. CASE PtxSends \/ PtxTimeout
  <2>1. PICK ack : LinkRadio(ack)
    BY <1>6 DEF PtxSends, PtxTimeout, LinkRadio
  <2>2. QueueMove
    BY <1>3, <2>1, RadioMoves
  <2>3. UNCHANGED <<delivered, pipe_info, forgets>>
    BY <1>6 DEF PtxSends, PtxTimeout
  <2>4. air' = {Data(tx_pdu)} \/ air' = air
    BY <1>6 DEF PtxSends, PtxTimeout
  <2>5. \A f \in air' : f.dir = "data" => f \in air \/ f.pdu = tx_pdu
    BY <2>4 DEF Data
  <2> QED BY <1>1, <2>2, <2>3, <2>5
<1>7. CASE PrxSends
  <2>1. UNCHANGED ptxVars /\ UNCHANGED <<delivered, pipe_info, forgets>> /\ air' = {Ack(ack_pdu)}
    BY <1>7 DEF PrxSends, on_radio_disabled_rx_ack
  <2> QED BY <1>1, <1>2, <2>1 DEF Ack
<1>8. CASE PrxReceives
  <2>1. PICK f \in air : f.dir = "data" /\ (PacketReceived(f.pdu) \/ PacketRefused)
    BY <1>8 DEF PrxReceives
  <2>2. air' = {} /\ UNCHANGED ptxVars
    BY <1>8 DEF PrxReceives
  <2>3. CASE PacketRefused
    BY <1>1, <1>2, <2>2, <2>3 DEF PacketRefused
  <2>4. CASE PacketReceived(f.pdu)
    BY <2>1, <2>2, <2>4, RepeatPacket
  <2> QED BY <2>1, <2>3, <2>4
<1>9. CASE PtxReceives
  <2>1. PICK f \in air : f.dir = "ack" /\ AckReceived(f.pdu)
    BY <1>9 DEF PtxReceives
  <2>2. QueueMove
    BY <1>3, <2>1, RadioMoves DEF LinkRadio
  <2> QED BY <1>1, <1>9, <2>2 DEF PtxReceives
<1>10. CASE Lose \/ UNCHANGED linkVars
  <2>1. UNCHANGED ptxVars /\ UNCHANGED <<delivered, pipe_info, forgets>> /\ air' \subseteq air
    BY <1>10 DEF Lose, linkVars
  <2> QED BY <1>1, <1>2, <2>1
<1> QED BY <1>4, <1>5, <1>6, <1>7, <1>8, <1>9, <1>10 DEF LinkNext

\* Nothing is queued or delivered at start up.
LEMMA RepeatInit ==
    ASSUME LinkInit
    PROVE  RepeatInv
<1>1. /\ tx_fifo.count = 0 /\ tx_pdu = BlankPayload /\ written = 0 /\ delivered = <<>> /\ air = {}
      /\ forgets = 0
  BY DEF LinkInit, PtxInit, PrxInit, EmptyFifo
<1>2. \A n : Copies(n) = 0
  <2>1. delivered \in Seq(Nat) /\ 1 .. Len(delivered) = {}
    BY <1>1
  <2>2. ASSUME NEW n PROVE Copies(n) = 0
    <3>1. \A i \in 1 .. Len(delivered) : delivered[i] # n
      BY <2>1
    <3> QED BY <2>1, <3>1, CopiesCounted DEF Copies
  <2> QED BY <2>2
<1>3. Newer(tx_fifo.count, Queue, tx_pdu, written)
  BY <1>1 DEF Newer, BlankPayload
<1>4. Fresh(tx_pdu)
  BY <1>1, <1>2 DEF Fresh
<1> QED BY <1>1, <1>2, <1>3, <1>4 DEF RepeatInv

(* A packet is delivered again only when the receiver was made to forget   *)
(* it, once for each time: for every size, CRC, protocol and pattern of    *)
(* losses, and every other call of the two applications.                   *)
THEOREM LinkRedeliveries ==
    ASSUME CrcIsNumber, PtxQueueUse, PtxIdleUse
    PROVE  LinkSpec => []RedeliveriesBounded
<1>1. LinkInit => RingInv /\ AutoInv /\ RepeatInv
  BY RingInit, SendInit, RepeatInit DEF LinkInit, SendInv
<1>2. LinkTypeOK /\ RingInv /\ AutoInv /\ [LinkNext]_linkVars => RingInv' /\ AutoInv'
  <2> SUFFICES ASSUME LinkTypeOK, RingInv, AutoInv, [LinkNext]_linkVars PROVE RingInv' /\ AutoInv'
    OBVIOUS
  <2>1. CASE PtxLocal
    BY <2>1, RingLocal, AutoLocal DEF PtxQueueUse, LinkTypeOK
  <2>2. CASE UNCHANGED ptxVars
    BY <2>2 DEF ptxVars, ptxQueues, ptxRadio, ptxEvents, RingInv, AutoInv, PtxRuns
  <2>3. CASE \E ack : ack.pl \subseteq Nat /\ LinkRadio(ack)
    BY <2>3, RingRadio, AutoRadio DEF LinkRadio, LinkTypeOK
  <2> QED BY <2>1, <2>2, <2>3, PtxSide
<1>3. /\ LinkTypeOK /\ LinkTypeOK' /\ RingInv /\ RingInv' /\ AutoInv /\ RepeatInv /\ [LinkNext]_linkVars
        => RepeatInv'
  BY RepeatStep
<1>4. LinkTypeOK /\ RepeatInv => RedeliveriesBounded
  <2> SUFFICES ASSUME LinkTypeOK, RepeatInv, NEW n \in 1 .. written
               PROVE  Cardinality({i \in 1 .. Len(delivered) : delivered[i] = n}) <= 1 + forgets
    BY DEF RedeliveriesBounded
  <2>1. n \in 0 .. written
    BY DEF LinkTypeOK, PtxTypeOK
  <2> QED BY <2>1 DEF RepeatInv, Copies, CopiesIn
<1> QED BY <1>1, <1>2, <1>3, <1>4, LinkTypeCorrect, PTL DEF LinkSpec
=============================================================================
