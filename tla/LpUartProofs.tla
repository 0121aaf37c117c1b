---------------------------- MODULE LpUartProofs ----------------------------
(***************************************************************************)
(* Proofs about the software low-power UART, for every packet length and   *)
(* every number of packets, aborts and calls that disable the receiver.    *)
(*                                                                         *)
(* Three invariants, each resting on the ones before: the transmitter's    *)
(* (TxInv, with ReportInv), the receiver's (RxInv), and the one of the two *)
(* devices together (LinkInv, with HeardInv).                              *)
(***************************************************************************)
EXTENDS LpUart, SequenceTheorems, TLAPS

-----------------------------------------------------------------------------
(* The types, apart for the two devices.                                   *)
CallSteps == {"none", "poll_tx", "tx_timer", "tx_arm", "abort_complete", "abort_uart"}
TxTypes ==
    /\ tx_buf \in 0 .. MaxPackets /\ tx_active \in BOOLEAN
    /\ txbyte \in BOOLEAN /\ tx_timer \in BOOLEAN
    /\ req \in {"low", "armed", "set"} /\ req_evt \in BOOLEAN
    /\ uart_tx \in [pkt : 0 .. MaxPackets, sent : 0 .. PacketLen, aborted : BOOLEAN]
    /\ accepted \in 0 .. MaxPackets
    /\ tcall \in [Threads -> [step : CallSteps, buf : 0 .. MaxPackets]]

Bytes == Nat \X Nat
RxTypes ==
    /\ rx_state \in RxStates /\ rx_got_data \in BOOLEAN /\ rx_buf \in BOOLEAN
    /\ rdy \in {"none", "HIGH", "HITOLO"} /\ rdy_evt \in BOOLEAN
    /\ rdy_low \in BOOLEAN /\ clk \in 0 .. 1
    /\ uart_rx \in [state : {"off", "on", "stopping", "stopped"}, data : Seq(Bytes)]
    /\ rcall \in {"none", "enable", "arm", "disable"} /\ rx_user \in BOOLEAN /\ deaf \in BOOLEAN

\* The receiver: the pin's trigger, the clock and the UART follow rx_state.  A
\* receiver whose trigger was armed for requests over a reception stays in it.
RxInv ==
    /\ RxTypes
    /\ rx_user => rx_buf
    /\ rcall = "enable" => rx_state = "OFF" /\ rx_user
    /\ rcall = "arm" => rx_state \notin {"OFF", "TO_OFF"} /\ ~deaf
    /\ rcall = "disable" <=> rx_state = "TO_OFF"
    /\ rx_state = "OFF" => (rcall = "enable" <=> rx_user) /\ (rx_buf => rx_user)
    /\ rx_state # "OFF" => rx_user
    /\ clk = 1 <=> rx_state = "PREPARE"
    /\ rdy_low => rx_state = "ACTIVE"
    /\ deaf => rx_state = "ACTIVE" /\ ~rdy_low
    /\ rdy = "HITOLO" <=> rx_state = "ACTIVE" /\ ~deaf
    /\ uart_rx.state = "on" <=> rx_state = "ACTIVE"
    /\ uart_rx.state \in {"stopping", "stopped"} <=> rx_state = "TO_IDLE"

-----------------------------------------------------------------------------
(* Type correctness of the transmitter.                                    *)
Calls == [Threads -> [step : CallSteps, buf : 0 .. MaxPackets]]
Transfers == [pkt : 0 .. MaxPackets, sent : 0 .. PacketLen, aborted : BOOLEAN]

\* A thread enters or leaves a step of its call.
LEMMA CallType ==
    ASSUME TxTypes, NEW t \in Threads, NEW s \in CallSteps, NEW p \in 0 .. MaxPackets,
           Call(t, s, p) \/ Return(t)
    PROVE  tcall' \in Calls
BY LpAssumption DEF TxTypes, Call, Return, Calls, CallSteps, Idle

\* tx_complete leaves no current transfer and the pin low.
LEMMA Completed ==
    tx_complete => tx_buf' = 0 /\ tx_active' \in BOOLEAN /\ ~tx_active' /\ req' = "low"
BY DEF tx_complete, ReqPinIdle

\* uart_tx_abort marks the transfer of the UART, if there is one.
LEMMA AbortType == TxTypes /\ AbortUart => uart_tx' \in Transfers
BY DEF TxTypes, AbortUart, Transfers

\* The end of a transfer is reported, or frees the byte of api_poll_out.
LEMMA ReportType ==
    ASSUME TxTypes, NEW p, NEW e, ReportTo(p, e) PROVE txbyte' \in BOOLEAN
BY DEF TxTypes, ReportTo

\* Every step keeps the transmitter's variables in their types: the packet
\* number stays within the transfers accepted, the UART's count within the
\* packet (api_tx, uart_callback, tx_timeout, api_tx_abort).
LEMMA TxTypesStep == TxTypes /\ [LpNext]_vars => TxTypes'
<1> SUFFICES ASSUME TxTypes, [LpNext]_vars PROVE TxTypes'
  OBVIOUS
<1> DEFINE Same == UNCHANGED <<tx_buf, tx_active, txbyte, tx_timer, req, req_evt,
                               uart_tx, accepted, tcall>>
<1>0. Same => TxTypes'
  BY DEF TxTypes
<1> USE LpAssumption
<1>1. CASE UNCHANGED vars
  BY <1>1, <1>0 DEF vars, txVars, history
<1>2. CASE req_pin_handler
  <2>1. UNCHANGED <<txbyte, accepted, tcall>> /\ req_evt' \in BOOLEAN
    BY <1>2 DEF req_pin_handler, history
  <2>2. tx_timer' \in BOOLEAN
    BY <1>2 DEF req_pin_handler, TxTypes
  <2>3. CASE tx_buf = 0
    <3>1. tx_complete /\ uart_tx' = uart_tx
      BY <1>2, <2>3 DEF req_pin_handler
    <3> QED BY <2>1, <2>2, <3>1, Completed DEF TxTypes
  <2>4. CASE tx_buf # 0 /\ uart_tx.pkt = 0
    <3>1. /\ req' = "set" /\ tx_active' \in BOOLEAN /\ tx_buf' = tx_buf
          /\ uart_tx' = [pkt |-> tx_buf, sent |-> 0, aborted |-> FALSE]
      BY <1>2, <2>4 DEF req_pin_handler
    <3> QED BY <2>1, <2>2, <3>1 DEF TxTypes
  <2>5. CASE tx_buf # 0 /\ uart_tx.pkt # 0
    <3>1. /\ req' = "low" /\ tx_active' \in BOOLEAN /\ tx_buf' = 0
          /\ uart_tx' = uart_tx
      BY <1>2, <2>5 DEF req_pin_handler, ReqPinIdle
    <3> QED BY <2>1, <2>2, <3>1 DEF TxTypes
  <2> QED BY <2>3, <2>4, <2>5
<1>3. CASE UartSendsByte
  <2>1. uart_tx' \in Transfers
    BY <1>3 DEF TxTypes, UartSendsByte, Transfers
  <2>2. UNCHANGED <<tx_buf, tx_active, txbyte, tx_timer, req, req_evt, tcall, accepted>>
    BY <1>3 DEF UartSendsByte, history
  <2> QED BY <2>1, <2>2 DEF TxTypes, Transfers
<1>4. CASE UartTxDone
  <2>1. uart_tx' \in Transfers
    BY <1>4 DEF TxTypes, UartTxDone, NoTransfer, Transfers
  <2>2. UNCHANGED <<tx_timer, req_evt, tcall, accepted>> /\ tx_complete
    BY <1>4 DEF UartTxDone
  <2>3. txbyte' \in BOOLEAN
    BY <1>4, ReportType DEF UartTxDone
  <2> QED BY <2>1, <2>2, <2>3, Completed DEF TxTypes, Transfers
<1>5. CASE UartTxAborted
  BY <1>5 DEF UartTxAborted, NoTransfer, TxTypes
<1>6. CASE PollTx
  <2>1. tcall' \in Calls
    BY <1>6, CallType DEF PollTx, TakeBuf, TxTypes, Threads, CallSteps
  <2>2. UNCHANGED <<tx_active, tx_timer, req, req_evt, uart_tx>> /\ txbyte' \in BOOLEAN
    BY <1>6 DEF PollTx, TxTypes
  <2>3. accepted' \in 0 .. MaxPackets /\ tx_buf' \in 0 .. MaxPackets
    BY <1>6 DEF PollTx, TakeBuf, TxTypes
  <2> QED BY <2>1, <2>2, <2>3 DEF TxTypes, Calls
<1>7. ASSUME NEW t \in Threads, TxStartTimer(t) PROVE TxTypes'
  <2>1. tcall' \in Calls
    BY <1>7, CallType DEF TxStartTimer, TxTypes, CallSteps
  <2> QED BY <1>7, <2>1 DEF TxStartTimer, TxTypes, history, Calls
<1>8. ASSUME NEW t \in Threads, TxArm(t) PROVE TxTypes'
  <2>1. tcall' \in Calls
    BY <1>8, CallType DEF TxArm, CallSteps
  <2>2. /\ UNCHANGED <<tx_buf, tx_active, txbyte, tx_timer, uart_tx, accepted>>
        /\ req' = "armed" /\ req_evt' \in BOOLEAN
    BY <1>8 DEF TxArm, ReqPinArm, history
  <2> QED BY <2>1, <2>2 DEF TxTypes, Calls
<1>9. CASE AbortCompletes
  <2>1. tcall' \in Calls
    BY <1>9, CallType DEF AbortCompletes, TxTypes, Threads, CallSteps
  <2>2. tx_complete /\ UNCHANGED <<txbyte, tx_timer, req_evt, uart_tx, accepted>>
    BY <1>9 DEF AbortCompletes, history
  <2> QED BY <2>1, <2>2, Completed DEF TxTypes, Calls
<1>10. CASE AbortReturns
  <2>1. tcall' \in Calls
    BY <1>10, CallType DEF AbortReturns, Threads, CallSteps
  <2>2. uart_tx' \in Transfers
    BY <1>10, AbortType DEF AbortReturns
  <2>3. UNCHANGED <<tx_buf, tx_active, txbyte, tx_timer, req, req_evt, accepted>>
    BY <1>10 DEF AbortReturns
  <2> QED BY <2>1, <2>2, <2>3 DEF TxTypes, Calls, Transfers
<1>11. CASE tx_timeout
  <2>1. UNCHANGED <<req_evt, tcall, accepted>> /\ tx_timer' \in BOOLEAN
    BY <1>11 DEF tx_timeout
  <2>2. uart_tx' \in Transfers
    BY <1>11, AbortType DEF tx_timeout, TxTypes, Transfers
  <2>3. txbyte' \in BOOLEAN
    BY <1>11, ReportType DEF tx_timeout, TxTypes
  <2>4. /\ tx_buf' \in 0 .. MaxPackets /\ tx_active' \in BOOLEAN
        /\ req' \in {"low", "armed", "set"}
    BY <1>11, Completed DEF tx_timeout, TxTypes
  <2> QED BY <2>1, <2>2, <2>3, <2>4 DEF TxTypes, Transfers
<1>12. CASE api_tx
  <2>1. accepted' \in 0 .. MaxPackets /\ tx_buf' \in 0 .. MaxPackets
    BY <1>12 DEF api_tx, TakeBuf, TxTypes
  <2>2. tcall' \in Calls
    BY <1>12, <2>1, CallType DEF api_tx, TakeBuf, Threads, CallSteps
  <2> QED BY <1>12, <2>1, <2>2 DEF api_tx, TxTypes, Calls
<1>13. CASE api_poll_out
  <2>1. tcall' \in Calls
    BY <1>13, CallType DEF api_poll_out, Threads, CallSteps
  <2> QED BY <1>13, <2>1 DEF api_poll_out, TxTypes, history, Calls
<1>14. CASE api_tx_abort
  <2>1. tcall' \in Calls
    BY <1>14, CallType DEF api_tx_abort, TxTypes, Threads, CallSteps
  <2> QED BY <1>14, <2>1 DEF api_tx_abort, TxTypes, Calls
<1>15. CASE RequestDetected \/ ClockStarted
  <2>1. /\ UNCHANGED <<tx_buf, tx_active, txbyte, tx_timer, req, uart_tx, accepted, tcall>>
        /\ req_evt' \in BOOLEAN
    BY <1>15 DEF RequestDetected, ClockStarted, activate_rx, history, TxTypes
  <2> QED BY <2>1 DEF TxTypes
<1>16. CASE \/ BlinkEnds \/ EndDetected \/ UartRxReady \/ UartRxDisabled \/ EnableIdle \/ RdyPinArms
            \/ DisableUart \/ api_rx_buf_rsp \/ api_rx_enable \/ api_rx_disable
  BY <1>16, <1>0 DEF BlinkEnds, EndDetected, UartRxReady, UartRxDisabled, EnableIdle, RdyPinArms,
     DisableUart, api_rx_buf_rsp, api_rx_enable, api_rx_disable, txVars, history
<1> QED
  BY <1>1, <1>2, <1>3, <1>4, <1>5, <1>6, <1>7, <1>8, <1>9, <1>10, <1>11, <1>12,
     <1>13, <1>14, <1>15, <1>16 DEF LpNext, Transmitter, Receiver

-----------------------------------------------------------------------------
(* The receiver.                                                           *)
TxStep == Transmitter \/ tx_timeout \/ api_tx \/ api_poll_out \/ api_tx_abort
RxStep == Receiver \/ api_rx_buf_rsp \/ api_rx_enable \/ api_rx_disable

\* The transmitter reaches the receiver through the line, which sets what the
\* trigger has detected, and through the bytes the UART sends, and no other way.
LEMMA TxLeavesRx ==
    ASSUME RxTypes, TxStep
    PROVE  /\ UNCHANGED <<rx_state, rx_got_data, rx_buf, rdy, rdy_low, clk, rcall, rx_user, deaf>>
           /\ rdy_evt' \in BOOLEAN
           /\ uart_rx' = uart_rx \/ UartSendsByte
<1>1. CASE req_pin_handler
  BY <1>1 DEF history, req_pin_handler, tx_complete, ReqPinIdle, RxTypes
<1>2. CASE UartSendsByte
  BY <1>2 DEF history, UartSendsByte, RxTypes
<1>3. CASE UartTxDone
  BY <1>3 DEF UartTxDone, tx_complete, ReqPinIdle, RxTypes
<1>4. CASE UartTxAborted \/ PollTx \/ AbortReturns \/ api_tx \/ api_poll_out \/ api_tx_abort
  BY <1>4 DEF UartTxAborted, PollTx, AbortReturns, api_tx, api_poll_out, api_tx_abort,
     rxVars, RxTypes, history
<1>5. ASSUME NEW t \in Threads, TxStartTimer(t)
      PROVE  UNCHANGED <<rxVars, deaf>>
  BY <1>5 DEF TxStartTimer, history
<1>6. ASSUME NEW t \in Threads, TxArm(t)
      PROVE  /\ UNCHANGED <<rx_state, rx_got_data, rx_buf, rdy, rdy_low, clk, uart_rx,
                            rcall, rx_user, deaf>>
             /\ rdy_evt' \in BOOLEAN
  BY <1>6 DEF history, TxArm, ReqPinArm, RxTypes
<1>7. CASE AbortCompletes
  BY <1>7 DEF history, AbortCompletes, tx_complete, ReqPinIdle, RxTypes
<1>8. CASE tx_timeout
  BY <1>8 DEF tx_timeout, tx_complete, ReqPinIdle, RxTypes
<1> QED
  BY <1>1, <1>2, <1>3, <1>4, <1>5, <1>6, <1>7, <1>8 DEF TxStep, Transmitter, rxVars, RxTypes

\* A byte on the wire is taken by a UART that is on, and lost otherwise.
LEMMA ByteOnWire ==
    ASSUME TxTypes, RxTypes, UartSendsByte
    PROVE  /\ uart_rx'.state = uart_rx.state
           /\ uart_rx' \in [state : {"off", "on", "stopping", "stopped"}, data : Seq(Bytes)]
           /\ uart_rx.state = "on" =>
                 uart_rx'.data = Append(uart_rx.data, Byte(uart_tx.pkt, uart_tx.sent + 1))
           /\ uart_rx.state # "on" => uart_rx' = uart_rx
<1>1. Byte(uart_tx.pkt, uart_tx.sent + 1) \in Bytes
  BY LpAssumption DEF Byte, Bytes, TxTypes
<1>2. Append(uart_rx.data, Byte(uart_tx.pkt, uart_tx.sent + 1)) \in Seq(Bytes)
  BY <1>1 DEF RxTypes
<1> QED
  BY <1>2 DEF UartSendsByte, RxTypes

\* The application disables the receiver between transfers only.
DisablesBetween == DisableIn \subseteq {"IDLE", "BLOCKED"}

\* What a step of the receiver may change in it is what the invariant follows.
LEMMA RxStepInv ==
    ASSUME DisablesBetween, RxInv, RxStep
    PROVE  RxInv'
<1> USE DEF RxStates
<1>0. uart_rx.state \in {"off", "on", "stopping", "stopped"} /\ <<>> \in Seq(Bytes)
  BY DEF RxInv, RxTypes
<1>1. ASSUME activate_rx, rx_state \in {"IDLE", "PREPARE"}, clk' = 0,
             UNCHANGED <<rx_buf, rcall, rx_user, deaf>>
      PROVE  RxInv'
  <2>1. rx_buf /\ uart_rx.state = "off" /\ rcall # "disable" /\ rcall # "enable" /\ rx_user
    BY <1>0, <1>1 DEF RxInv
  <2>2. /\ rx_got_data' \in BOOLEAN /\ rx_state' = "ACTIVE"
        /\ uart_rx' = [state |-> "on", data |-> <<>>]
        /\ rdy_low' \in BOOLEAN
        /\ rdy' = "HITOLO" /\ rdy_evt' \in BOOLEAN
    BY <1>1, <2>1 DEF activate_rx
  <2> QED
    BY <1>0, <1>1, <2>1, <2>2 DEF RxInv, RxTypes
<1>2. CASE RequestDetected
  <2>1. CASE rx_state = "IDLE" /\ HfxoOnRx
    <3>1. /\ rx_state' = "PREPARE" /\ clk' = clk + 1 /\ rdy' = "none" /\ rdy_evt' \in BOOLEAN
          /\ UNCHANGED <<rx_got_data, uart_rx, rdy_low, rx_buf, rcall, rx_user, deaf>>
      BY <1>2, <2>1 DEF history, RequestDetected, RdyPinSuspend
    <3>2. clk = 0
      BY <2>1 DEF RxInv, RxTypes
    <3> QED BY <3>1, <3>2, <2>1 DEF RxInv, RxTypes
  <2>2. CASE rx_state = "IDLE" /\ ~HfxoOnRx
    <3>1. clk = 0
      BY <2>2 DEF RxInv, RxTypes
    <3>2. activate_rx /\ UNCHANGED <<clk, rx_buf, rcall, rx_user, deaf>>
      BY <1>2, <2>2 DEF history, RequestDetected
    <3> QED BY <1>1, <2>2, <3>1, <3>2
  <2>3. CASE rx_state # "IDLE"
    <3>1. /\ rdy = "HIGH" /\ rdy' = "none" /\ rdy_evt' \in BOOLEAN
          /\ UNCHANGED <<rx_state, rx_got_data, uart_rx, rdy_low, clk, rx_buf, rcall, rx_user, deaf>>
      BY <1>2, <2>3 DEF history, RequestDetected, RdyPinSuspend
    <3> QED BY <3>1 DEF RxInv, RxTypes
  <2> QED BY <2>1, <2>2, <2>3
<1>3. CASE ClockStarted
  <2>1. clk = 1 /\ clk' = 0 /\ rx_state = "PREPARE" /\ rx_buf
    BY <1>3 DEF ClockStarted, RxInv, RxTypes
  <2>2. activate_rx /\ UNCHANGED <<rx_buf, rcall, rx_user, deaf>>
    BY <1>3, <2>1 DEF history, ClockStarted
  <2> QED BY <1>1, <2>1, <2>2
<1>4. ASSUME rx_state = "ACTIVE", ~deaf, RdyPinSuspend, deactivate_rx, rdy_low' \in BOOLEAN, ~rdy_low',
             UNCHANGED <<rx_got_data, rx_buf, clk, rcall, rx_user, deaf>>
      PROVE  RxInv'
  <2>1. rdy' = "none" /\ rdy_evt' \in BOOLEAN /\ rx_state' = "TO_IDLE"
    BY <1>4 DEF RdyPinSuspend, deactivate_rx
  <2>2. uart_rx' \in [state : {"stopping"}, data : Seq(Bytes)]
    BY <1>4 DEF deactivate_rx, StopUart, RxInv, RxTypes
  <2> QED BY <1>4, <2>1, <2>2 DEF RxInv, RxTypes
<1>5. CASE BlinkEnds
  <2>1. rx_state = "ACTIVE" /\ ~deaf /\ rdy_low' \in BOOLEAN /\ ~rdy_low'
    BY <1>5 DEF BlinkEnds, RxInv
  <2>2. UNCHANGED <<rx_got_data, rx_buf, clk, rcall, rx_user, deaf>>
    BY <1>5 DEF history, BlinkEnds
  <2>3. CASE RdyPinSuspend /\ deactivate_rx
    BY <1>4, <2>1, <2>2, <2>3
  <2>4. CASE UNCHANGED <<rdy, rdy_evt, rx_state, uart_rx>>
    BY <2>1, <2>2, <2>4 DEF RxInv, RxTypes
  <2> QED BY <1>5, <2>3, <2>4 DEF BlinkEnds
<1>6. CASE EndDetected
  <2>1. rx_state = "ACTIVE" /\ ~deaf
    BY <1>6 DEF EndDetected, RxInv
  <2>2. /\ RdyPinSuspend /\ deactivate_rx /\ ~rdy_low' /\ rdy_low' \in BOOLEAN
        /\ UNCHANGED <<rx_got_data, rx_buf, clk, rcall, rx_user, deaf>>
    BY <1>6, <2>1 DEF history, EndDetected, RxIsr, RxInv, RxTypes
  <2> QED BY <1>4, <2>1, <2>2
<1>7. CASE UartRxReady
  <2>1. /\ uart_rx.state = "stopping" /\ uart_rx' = [state |-> "stopped", data |-> <<>>]
        /\ rx_got_data' \in BOOLEAN
        /\ UNCHANGED <<rx_state, rx_buf, rdy, rdy_evt, rdy_low, clk, rcall, rx_user, deaf>>
    BY <1>7 DEF history, UartRxReady
  <2> QED BY <1>0, <2>1 DEF RxInv, RxTypes
<1>8. CASE UartRxDisabled
  <2>1. rx_state = "TO_IDLE" /\ uart_rx' = [state |-> "off", data |-> <<>>]
    BY <1>8 DEF UartRxDisabled, RxInv
  <2>2. UNCHANGED <<rx_got_data, rx_buf, rdy_low, clk, rcall, rx_user, deaf>>
    BY <1>8, <2>1 DEF history, UartRxDisabled
  <2>3. \/ rx_state' = "IDLE" /\ rdy' = "HIGH" /\ rdy_evt' \in BOOLEAN
        \/ rx_state' = "BLOCKED" /\ rdy' = rdy /\ rdy_evt' = rdy_evt
    BY <1>8, <2>1 DEF UartRxDisabled, ToIdle, RdyPinIdle, High
  <2> QED BY <1>0, <2>1, <2>2, <2>3 DEF RxInv, RxTypes
<1>9. CASE api_rx_buf_rsp
  <2>1. /\ rx_state = "BLOCKED" /\ rx_state' = "IDLE" /\ rcall = "none" /\ rcall' = "arm"
        /\ rx_buf' \in BOOLEAN /\ rx_buf'
        /\ UNCHANGED <<rx_got_data, rdy, rdy_evt, rdy_low, clk, uart_rx, rx_user, deaf>>
    BY <1>9 DEF api_rx_buf_rsp, history
  <2> QED BY <2>1 DEF RxInv, RxTypes
<1>10. CASE api_rx_enable
  <2>1. /\ ~rx_user /\ rx_buf' \in BOOLEAN /\ rx_buf' /\ rx_user' \in BOOLEAN /\ rx_user'
        /\ rcall' = "enable"
        /\ UNCHANGED <<rx_state, rx_got_data, rdy, rdy_evt, rdy_low, clk, uart_rx, deaf>>
    BY <1>10 DEF history, api_rx_enable
  <2> QED BY <2>1 DEF RxInv, RxTypes
<1>11. CASE EnableIdle
  <2>1. /\ rcall = "enable" /\ rx_state' = "IDLE" /\ rcall' = "arm"
        /\ UNCHANGED <<rx_got_data, rx_buf, rdy, rdy_evt, rdy_low, clk, uart_rx, rx_user, deaf>>
    BY <1>11 DEF EnableIdle, history
  <2> QED BY <2>1 DEF RxInv, RxTypes
<1>14. CASE RdyPinArms
  <2>1. /\ rcall = "arm" /\ rcall' = "none" /\ rdy' = "HIGH" /\ rdy_evt' \in BOOLEAN /\ ~rdy_low
        /\ UNCHANGED <<rx_state, rx_got_data, rx_buf, rdy_low, clk, uart_rx, rx_user>>
    BY <1>14 DEF RdyPinArms, RdyPinIdle, High, RxIsr
  <2>2. deaf' \in BOOLEAN /\ (deaf' <=> rx_state = "ACTIVE")
    BY <1>14, <2>1 DEF RdyPinArms, RxInv, RxTypes
  <2> QED BY <2>1, <2>2 DEF RxInv, RxTypes
<1>12. CASE api_rx_disable
  <2>1. /\ rx_state \in {"IDLE", "BLOCKED"} /\ rx_state' = "TO_OFF" /\ rcall' = "disable"
        /\ UNCHANGED <<rx_got_data, rx_buf, rdy, rdy_evt, rdy_low, clk, uart_rx, rx_user, deaf>>
    BY <1>12 DEF history, api_rx_disable, DisablesBetween
  <2> QED BY <2>1 DEF RxInv, RxTypes
<1>13. CASE DisableUart
  <2>1. rcall = "disable" /\ rx_state = "TO_OFF" /\ uart_rx.state = "off"
    BY <1>0, <1>13 DEF DisableUart, RxInv
  <2>2. /\ rcall' = "none" /\ rx_state' = "OFF" /\ rx_buf' \in BOOLEAN /\ ~rx_buf'
        /\ rx_user' \in BOOLEAN /\ ~rx_user' /\ uart_rx' = uart_rx
        /\ UNCHANGED <<rx_got_data, rdy, rdy_evt, rdy_low, clk, deaf>>
    BY <1>13, <2>1 DEF DisableUart, history
  <2> QED BY <2>1, <2>2 DEF RxInv, RxTypes
<1> QED
  BY <1>2, <1>3, <1>5, <1>6, <1>7, <1>8, <1>9, <1>10, <1>11, <1>12, <1>13, <1>14
  DEF RxStep, Receiver

\* Every step keeps the receiver's invariant.
LEMMA RxInvStep ==
    ASSUME DisablesBetween, TxTypes, RxInv, [LpNext]_vars
    PROVE  RxInv'
<1>1. CASE UNCHANGED vars
  BY <1>1 DEF vars, rxVars, history, RxInv, RxTypes
<1>2. CASE RxStep
  BY <1>2, RxStepInv
<1>3. CASE TxStep
  <2>1. /\ UNCHANGED <<rx_state, rx_got_data, rx_buf, rdy, rdy_low, clk, rcall, rx_user, deaf>>
        /\ rdy_evt' \in BOOLEAN
    BY <1>3, TxLeavesRx DEF RxInv
  <2>2. /\ uart_rx'.state = uart_rx.state
        /\ uart_rx' \in [state : {"off", "on", "stopping", "stopped"}, data : Seq(Bytes)]
    BY <1>3, TxLeavesRx, ByteOnWire DEF RxInv, RxTypes
  <2> QED BY <2>1, <2>2 DEF RxInv, RxTypes
<1> QED
  BY <1>1, <1>2, <1>3 DEF LpNext, TxStep, RxStep

\* After a reset the variables have their types and the receiver is off.
LEMMA LpInitTypes == LpInit => TxTypes /\ RxInv
<1> SUFFICES ASSUME LpInit PROVE TxTypes /\ RxInv
  OBVIOUS
<1>1. TxTypes
  <2>1. tx_active \in BOOLEAN /\ txbyte \in BOOLEAN /\ tx_timer \in BOOLEAN /\ req_evt \in BOOLEAN
    BY DEF LpInit
  <2>2. uart_tx \in Transfers
    BY LpAssumption DEF LpInit, Transfers
  <2>3. tcall \in Calls
    BY LpAssumption DEF LpInit, Calls, Idle, CallSteps
  <2>4. tx_buf \in 0 .. MaxPackets /\ req \in {"low", "armed", "set"} /\ accepted \in 0 .. MaxPackets
    BY LpAssumption DEF LpInit
  <2> QED BY <2>1, <2>2, <2>3, <2>4 DEF TxTypes, Transfers, Calls
<1>2. <<>> \in Seq(Bytes)
  OBVIOUS
<1>3. uart_rx \in [state : {"off", "on", "stopping", "stopped"}, data : Seq(Bytes)]
  BY <1>2 DEF LpInit
<1>4. RxTypes
  <2>1. /\ rx_got_data \in BOOLEAN /\ rx_buf \in BOOLEAN /\ rdy_evt \in BOOLEAN
        /\ rdy_low \in BOOLEAN /\ rx_user \in BOOLEAN /\ deaf \in BOOLEAN
    BY DEF LpInit
  <2>2. /\ rx_state \in RxStates /\ rdy \in {"none", "HIGH", "HITOLO"} /\ clk \in 0 .. 1
        /\ rcall \in {"none", "enable", "arm", "disable"}
    BY DEF LpInit, RxStates
  <2> QED BY <1>3, <2>1, <2>2 DEF RxTypes
<1>5. RxInv
  BY <1>4 DEF LpInit, RxInv
<1> QED BY <1>1, <1>5

\* The types of both devices and the receiver's assertions: no request is
\* detected while it is active, but for a reception that began before
\* api_rx_enable or api_rx_buf_rsp had armed the pin; the UART is off when it is enabled and not
\* disabled twice, the clock is requested once, and a receiver whose
\* application was told that it is disabled is off.
THEOREM LpRxAssertions ==
    ASSUME DisablesBetween
    PROVE  LpSpec => []RxAssertionsHold
<1>1. LpInit => TxTypes /\ RxInv
  BY LpInitTypes
<1>2. TxTypes /\ RxInv /\ [LpNext]_vars => (TxTypes /\ RxInv)'
  BY TxTypesStep, RxInvStep
<1>3. TxTypes /\ RxInv => RxAssertionsHold
  BY DEF TxTypes, RxInv, RxTypes, RxAssertionsHold, LpTypeOK, DisabledIsOff
<1> QED
  BY <1>1, <1>2, <1>3, PTL DEF LpSpec

-----------------------------------------------------------------------------
(* The transmitter.                                                        *)

\* Transfers are aborted by handlers, one at a time and not before uart_tx has
\* returned, and uart_tx arms the pin before its timeout.
Prompt == SafeAbort /\ ~SlowCaller

\* A thread is in api_tx, with its buffer taken and the pin not yet armed.
ArmingBy(t) == tcall[t].step \in {"tx_timer", "tx_arm"}
CallsInv ==
    /\ tcall["tx"].step \in {"none", "tx_timer", "tx_arm"}
    /\ tcall["poll"].step \in {"none", "poll_tx", "tx_timer", "tx_arm"}
    /\ tcall["abort"].step \in {"none", "abort_complete", "abort_uart"}
    /\ \A t \in Threads : tcall[t].step \in {"none", "poll_tx"} <=> tcall[t].buf = 0
    /\ \A t \in Threads : ArmingBy(t) =>
          /\ tcall[t].buf = tx_buf
          /\ req = "low" /\ ~InAbort
          /\ tx_timer <=> tcall[t].step = "tx_arm"
    /\ ~(ArmingBy("tx") /\ ArmingBy("poll"))
    /\ At("abort", "abort_complete") =>
          tx_buf = tcall["abort"].buf /\ ~tx_timer /\ ~uart_tx.aborted
    /\ At("abort", "abort_uart") =>
          /\ tx_buf = 0 /\ ~uart_tx.aborted /\ tcall["abort"].buf = accepted
          /\ uart_tx.pkt \in {0, accepted}

\* The current transfer is the last one accepted; the pin, the timer and the
\* UART say how far it is.
TransferInv ==
    /\ tx_timer => tx_buf # 0 /\ ~tx_active
    /\ tx_active <=> req = "set"
    /\ tx_active => tx_buf = uart_tx.pkt /\ tx_buf # 0 /\ ~uart_tx.aborted
    /\ tx_buf = 0 => req = "low"
    /\ tx_buf # 0 => tx_buf = accepted
    /\ uart_tx.pkt <= accepted
    /\ tx_buf # 0 /\ ~tx_active => uart_tx.pkt # tx_buf
    /\ uart_tx.pkt # 0 /\ ~uart_tx.aborted =>
          tx_active \/ At("abort", "abort_uart")
    /\ uart_tx.aborted => uart_tx.pkt # 0
TxInv == TxTypes /\ CallsInv /\ TransferInv

\* A call changes the thread that makes it.
LEMMA CallChanges ==
    ASSUME TxTypes, NEW t \in Threads, NEW s, NEW p
    PROVE  /\ Call(t, s, p) => /\ tcall'[t] = [step |-> s, buf |-> p]
                               /\ \A u \in Threads \ {t} : tcall'[u] = tcall[u]
           /\ Return(t) => /\ tcall'[t] = [step |-> "none", buf |-> 0]
                           /\ \A u \in Threads \ {t} : tcall'[u] = tcall[u]
BY DEF TxTypes, Call, Return, Idle

\* The handlers run outside aborts.
LEMMA NotInAbort ==
    ASSUME Prompt, TxTypes, TxIsr
    PROVE  tcall["abort"].step = "none"
BY DEF Prompt, TxIsr, InAbort

\* No step of the transmitter, of its application or of the receiver breaks
\* the transmitter's invariant.
LEMMA TxInvStep ==
    ASSUME Prompt, TxInv, [LpNext]_vars
    PROVE  TxInv'
<1> USE LpAssumption
<1>0. TxTypes /\ TxTypes'
  BY TxTypesStep DEF TxInv
<1>00. /\ \A t \in Threads : /\ tcall[t].step \in CallSteps /\ tcall[t].buf \in 0 .. MaxPackets
                             /\ tcall'[t].step \in CallSteps /\ tcall'[t].buf \in 0 .. MaxPackets
       /\ Threads = {"tx", "poll", "abort"}
  BY <1>0 DEF TxTypes, Threads
<1> DEFINE Same == UNCHANGED <<tx_buf, tx_active, tx_timer, req, uart_tx, accepted, tcall>>
<1>1. Same => TxInv'
  BY <1>0 DEF TxInv, CallsInv, TransferInv, ArmingBy, At, InAbort
<1>2. CASE UNCHANGED vars
  BY <1>1, <1>2 DEF vars, txVars, history
<1>3. CASE req_pin_handler
  <2>1. UNCHANGED <<accepted, tcall>> /\ req = "armed" /\ tcall["abort"].step = "none"
    BY <1>0, <1>3, NotInAbort DEF req_pin_handler
  <2>2. tx_buf # 0 /\ ~tx_active /\ (uart_tx.pkt = 0 \/ uart_tx.aborted)
    BY <2>1 DEF TxInv, TransferInv, At
  <2>4. \A t \in Threads : ~ArmingBy(t)
    BY <2>1 DEF TxInv, CallsInv
  <2>5. CallsInv'
    BY <1>0, <1>00, <2>1, <2>4 DEF TxInv, CallsInv, ArmingBy, At
  <2>6. CASE uart_tx.pkt = 0
    <3>1. /\ req' = "set" /\ ~tx_timer' /\ tx_active' /\ tx_buf' = tx_buf
          /\ uart_tx' = [pkt |-> tx_buf, sent |-> 0, aborted |-> FALSE]
      BY <1>3, <2>2, <2>6 DEF req_pin_handler
    <3>2. TransferInv'
      BY <1>0, <2>1, <2>2, <3>1 DEF TxInv, TransferInv, At, TxTypes
    <3> QED BY <1>0, <2>5, <3>2 DEF TxInv
  <2>7. CASE uart_tx.pkt # 0
    <3>1. /\ req' = "low" /\ ~tx_timer' /\ ~tx_active' /\ tx_buf' = 0 /\ uart_tx' = uart_tx
      BY <1>3, <2>2, <2>7 DEF req_pin_handler, ReqPinIdle
    <3>2. TransferInv'
      BY <1>0, <2>1, <2>2, <2>7, <3>1 DEF TxInv, TransferInv, At, TxTypes
    <3> QED BY <1>0, <2>5, <3>2 DEF TxInv
  <2> QED BY <2>6, <2>7
<1>4. CASE UartSendsByte
  <2>1. UNCHANGED <<tx_buf, tx_active, tx_timer, req, accepted, tcall>>
    BY <1>4 DEF UartSendsByte, history
  <2>2. uart_tx'.pkt = uart_tx.pkt /\ uart_tx'.aborted = uart_tx.aborted
    BY <1>0, <1>4 DEF UartSendsByte, TxTypes
  <2> QED
    BY <1>0, <2>1, <2>2 DEF TxInv, CallsInv, TransferInv, ArmingBy, At, InAbort
<1>5. ASSUME tx_complete, tcall' = tcall, accepted' = accepted, ~tx_timer',
             tcall["abort"].step = "none", \A t \in Threads : ~ArmingBy(t),
             uart_tx'.pkt = 0 \/ (uart_tx' = uart_tx /\ ~tx_active), uart_tx'.pkt = 0 => ~uart_tx'.aborted
      PROVE  TxInv'
  <2>1. tx_buf' = 0 /\ ~tx_active' /\ req' = "low"
    BY <1>5, Completed
  <2>2. CallsInv'
    BY <1>0, <1>00, <1>5, <2>1 DEF TxInv, CallsInv, ArmingBy, At
  <2>3. TransferInv'
    BY <1>0, <1>5, <2>1 DEF TxInv, TransferInv, At, TxTypes
  <2> QED BY <1>0, <2>2, <2>3 DEF TxInv
<1>6. CASE UartTxDone
  <2>1. /\ tx_complete /\ UNCHANGED <<tx_timer, tcall, accepted>> /\ uart_tx.pkt # 0
        /\ ~uart_tx.aborted /\ uart_tx' = [pkt |-> 0, sent |-> 0, aborted |-> FALSE]
    BY <1>6 DEF UartTxDone, NoTransfer
  <2>2. tcall["abort"].step = "none"
    BY <1>0, <1>6, NotInAbort DEF UartTxDone
  <2>3. tx_active /\ ~tx_timer /\ req = "set"
    BY <2>1, <2>2 DEF TxInv, TransferInv, At
  <2>4. \A t \in Threads : ~ArmingBy(t)
    BY <2>3 DEF TxInv, CallsInv
  <2> QED BY <1>5, <2>1, <2>2, <2>3, <2>4
<1>7. CASE UartTxAborted
  <2>1. /\ UNCHANGED <<tx_buf, tx_active, tx_timer, req, accepted, tcall>>
        /\ uart_tx.aborted /\ uart_tx' = [pkt |-> 0, sent |-> 0, aborted |-> FALSE]
    BY <1>7 DEF UartTxAborted, NoTransfer
  <2>2. tcall["abort"].step = "none" /\ ~tx_active
    BY <1>0, <1>7, NotInAbort DEF UartTxAborted, TxInv, TransferInv
  <2>3. CallsInv'
    BY <1>0, <1>00, <2>1, <2>2 DEF TxInv, CallsInv, ArmingBy, At, InAbort
  <2>4. TransferInv'
    BY <1>0, <2>1, <2>2 DEF TxInv, TransferInv, At, TxTypes
  <2> QED BY <1>0, <2>3, <2>4 DEF TxInv
<1>8. ASSUME NEW t \in {"tx", "poll"}, TakeBuf(t), tcall[t].step \in {"none", "poll_tx"},
             tcall["abort"].step = "none",
             UNCHANGED <<tx_active, tx_timer, req, uart_tx>>
      PROVE  TxInv'
  <2>1. /\ tx_buf = 0 /\ tx_buf' = accepted + 1 /\ accepted' = accepted + 1
        /\ tcall'[t] = [step |-> "tx_timer", buf |-> accepted + 1]
        /\ \A u \in Threads \ {t} : tcall'[u] = tcall[u]
    BY <1>0, <1>00, <1>8, CallChanges DEF TakeBuf
  <2>2. \A u \in Threads : ~ArmingBy(u)
    BY <1>00, <2>1 DEF TxInv, CallsInv, ArmingBy
  <2>3. ~tx_timer /\ req = "low" /\ ~tx_active
    BY <2>1 DEF TxInv, TransferInv
  <2>4. accepted \in Nat /\ uart_tx.pkt \in Nat /\ uart_tx.pkt <= accepted
    BY <1>0 DEF TxTypes, TxInv, TransferInv
  <2>5. CallsInv'
    BY <1>00, <1>8, <2>1, <2>2, <2>3, <2>4 DEF TxInv, CallsInv, ArmingBy, At, InAbort
  <2>6. TransferInv'
    BY <1>00, <1>8, <2>1, <2>3, <2>4 DEF TxInv, TransferInv, At
  <2> QED BY <1>0, <2>5, <2>6 DEF TxInv
<1>9. ASSUME NEW t \in Threads, tcall[t].step \in {"none", "poll_tx"},
             tcall'[t].step \in {"none", "poll_tx"}, tcall'[t].buf = 0,
             t \in {"tx", "abort"} => tcall'[t].step = "none",
             \A u \in Threads \ {t} : tcall'[u] = tcall[u],
             UNCHANGED <<tx_buf, tx_active, tx_timer, req, uart_tx, accepted>>
      PROVE  TxInv'
  <2>1. CallsInv'
    BY <1>00, <1>9 DEF TxInv, CallsInv, ArmingBy, At, InAbort
  <2>2. TransferInv'
    BY <1>00, <1>9 DEF TxInv, TransferInv, At
  <2> QED BY <1>0, <2>1, <2>2 DEF TxInv
<1>10. CASE PollTx
  <2>1. tcall["poll"].step = "poll_tx" /\ tcall["abort"].step = "none"
    BY <1>0, <1>10, NotInAbort DEF PollTx, At
  <2>2. UNCHANGED <<tx_active, tx_timer, req, uart_tx>>
    BY <1>10 DEF PollTx
  <2>3. CASE TakeBuf("poll")
    BY <1>8, <2>1, <2>2, <2>3
  <2>4. CASE Return("poll") /\ UNCHANGED <<tx_buf, accepted>>
    <3>1. /\ tcall'["poll"] = [step |-> "none", buf |-> 0]
          /\ \A u \in Threads \ {"poll"} : tcall'[u] = tcall[u]
      BY <1>0, <1>00, <2>4, CallChanges
    <3> QED BY <1>00, <1>9, <2>1, <2>2, <2>4, <3>1
  <2> QED BY <1>10, <2>3, <2>4 DEF PollTx
<1>11. ASSUME NEW t \in Threads, TxStartTimer(t) PROVE TxInv'
  <2>1. /\ tcall[t].step = "tx_timer" /\ tx_timer'
        /\ tcall'[t] = [step |-> "tx_arm", buf |-> tcall[t].buf]
        /\ \A u \in Threads \ {t} : tcall'[u] = tcall[u]
        /\ UNCHANGED <<tx_buf, tx_active, req, uart_tx, accepted>>
    BY <1>0, <1>11, CallChanges DEF TxStartTimer, At, history
  <2>2. t \in {"tx", "poll"} /\ tcall["abort"].step = "none" /\ tx_buf # 0 /\ ~tx_active
    BY <1>00, <2>1 DEF TxInv, CallsInv, ArmingBy, TransferInv, InAbort
  <2>3. CallsInv'
    BY <1>00, <2>1, <2>2 DEF TxInv, CallsInv, ArmingBy, At, InAbort
  <2>4. TransferInv'
    BY <1>00, <2>1, <2>2 DEF TxInv, TransferInv, At
  <2> QED BY <1>0, <2>3, <2>4 DEF TxInv
<1>12. ASSUME NEW t \in Threads, TxArm(t) PROVE TxInv'
  <2>1. /\ tcall[t].step = "tx_arm" /\ req' = "armed"
        /\ tcall'[t] = [step |-> "none", buf |-> 0]
        /\ \A u \in Threads \ {t} : tcall'[u] = tcall[u]
        /\ UNCHANGED <<tx_buf, tx_active, tx_timer, uart_tx, accepted>>
    BY <1>0, <1>12, CallChanges DEF TxArm, ReqPinArm, At, history
  <2>2. t \in {"tx", "poll"} /\ tcall["abort"].step = "none" /\ tx_buf # 0 /\ ~tx_active
    BY <1>00, <2>1 DEF TxInv, CallsInv, ArmingBy, TransferInv, InAbort
  <2>3. CallsInv'
    BY <1>00, <2>1, <2>2 DEF TxInv, CallsInv, ArmingBy, At, InAbort
  <2>4. TransferInv'
    BY <1>00, <2>1, <2>2 DEF TxInv, TransferInv, At
  <2> QED BY <1>0, <2>3, <2>4 DEF TxInv
<1>13. CASE AbortCompletes
  <2>1. /\ tcall["abort"].step = "abort_complete"
        /\ tcall'["abort"] = [step |-> "abort_uart", buf |-> tcall["abort"].buf]
        /\ \A u \in Threads \ {"abort"} : tcall'[u] = tcall[u]
        /\ UNCHANGED <<tx_timer, uart_tx, accepted>>
        /\ tx_buf' = 0 /\ ~tx_active' /\ req' = "low"
    BY <1>0, <1>00, <1>13, CallChanges, Completed DEF AbortCompletes, At, history
  <2>2. /\ tx_buf # 0 /\ tx_buf = accepted /\ ~tx_timer /\ ~uart_tx.aborted
        /\ tcall["abort"].buf = accepted /\ ~ArmingBy("tx") /\ ~ArmingBy("poll")
    BY <1>00, <2>1 DEF TxInv, CallsInv, TransferInv, At, InAbort
  <2>3. uart_tx.pkt \in {0, accepted}
    BY <1>0, <2>1, <2>2 DEF TxInv, TransferInv, At, TxTypes
  <2>4. CallsInv'
    BY <1>00, <2>1, <2>2, <2>3 DEF TxInv, CallsInv, ArmingBy, At, InAbort
  <2>5. TransferInv'
    BY <1>00, <2>1, <2>2, <2>3 DEF TxInv, TransferInv, At
  <2> QED BY <1>0, <2>4, <2>5 DEF TxInv
<1>14. CASE AbortReturns
  <2>1. /\ tcall["abort"].step = "abort_uart"
        /\ tcall'["abort"] = [step |-> "none", buf |-> 0]
        /\ \A u \in Threads \ {"abort"} : tcall'[u] = tcall[u]
        /\ UNCHANGED <<tx_buf, tx_active, tx_timer, req, accepted>>
    BY <1>0, <1>00, <1>14, CallChanges DEF AbortReturns, At
  <2>2. uart_tx'.pkt = uart_tx.pkt /\ uart_tx'.aborted = (uart_tx.pkt # 0)
    BY <1>0, <1>14 DEF AbortReturns, AbortUart, TxTypes
  <2>3. tx_buf = 0 /\ ~tx_active /\ ~ArmingBy("tx") /\ ~ArmingBy("poll")
    BY <1>00, <2>1 DEF TxInv, CallsInv, TransferInv, At, InAbort
  <2>4. CallsInv'
    BY <1>00, <2>1, <2>2, <2>3 DEF TxInv, CallsInv, ArmingBy, At, InAbort
  <2>5. TransferInv'
    BY <1>00, <2>1, <2>2, <2>3 DEF TxInv, TransferInv, At
  <2> QED BY <1>0, <2>4, <2>5 DEF TxInv
<1>15. CASE tx_timeout
  <2>1. tx_timer /\ ~tx_active /\ tx_buf # 0 /\ tcall["abort"].step = "none"
    BY <1>0, <1>15, NotInAbort DEF tx_timeout, TxInv, TransferInv
  <2>2. \A t \in Threads : ~ArmingBy(t)
    BY <1>15, <2>1 DEF tx_timeout, Prompt, At, TxInv, CallsInv, ArmingBy
  <2>3. tx_complete /\ ~tx_timer' /\ UNCHANGED <<tcall, accepted, uart_tx>>
    BY <1>15, <2>1 DEF tx_timeout
  <2>4. uart_tx.pkt = 0 => ~uart_tx.aborted
    BY DEF TxInv, TransferInv
  <2> QED BY <1>5, <2>1, <2>2, <2>3, <2>4
<1>16. CASE api_tx
  <2>1. /\ TakeBuf("tx") /\ tcall["tx"].step = "none" /\ tcall["abort"].step = "none"
        /\ UNCHANGED <<tx_active, tx_timer, req, uart_tx>>
    BY <1>0, <1>16, NotInAbort DEF api_tx, At
  <2> QED BY <1>8, <2>1
<1>17. CASE api_poll_out
  <2>1. /\ tcall["poll"].step = "none"
        /\ tcall'["poll"] = [step |-> "poll_tx", buf |-> 0]
        /\ \A u \in Threads \ {"poll"} : tcall'[u] = tcall[u]
        /\ UNCHANGED <<tx_buf, tx_active, tx_timer, req, uart_tx, accepted>>
    BY <1>0, <1>00, <1>17, CallChanges DEF api_poll_out, At, history
  <2> QED BY <1>00, <1>9, <2>1
<1>18. CASE api_tx_abort
  <2>1. /\ tcall["abort"].step = "none" /\ tx_buf # 0 /\ ~Arming /\ ~uart_tx.aborted
        /\ ~tx_timer'
        /\ tcall'["abort"] = [step |-> "abort_complete", buf |-> tx_buf]
        /\ \A u \in Threads \ {"abort"} : tcall'[u] = tcall[u]
        /\ UNCHANGED <<tx_buf, tx_active, req, uart_tx, accepted>>
    BY <1>0, <1>00, <1>18, CallChanges DEF api_tx_abort, At, Prompt
  <2>2. ~ArmingBy("tx") /\ ~ArmingBy("poll")
    BY <1>00, <2>1 DEF Arming, ArmingBy
  <2>3. CallsInv'
    BY <1>00, <2>1, <2>2 DEF TxInv, CallsInv, ArmingBy, At, InAbort
  <2>4. TransferInv'
    BY <1>00, <2>1, <2>2 DEF TxInv, TransferInv, At
  <2> QED BY <1>0, <2>3, <2>4 DEF TxInv
<1>19. CASE RxStep
  BY <1>1, <1>19 DEF RxStep, Receiver, RequestDetected, ClockStarted, BlinkEnds, EndDetected,
     UartRxReady, UartRxDisabled, EnableIdle, RdyPinArms, DisableUart, api_rx_buf_rsp, api_rx_enable,
     api_rx_disable, txVars, history
<1> QED
  BY <1>2, <1>3, <1>4, <1>6, <1>7, <1>10, <1>11, <1>12, <1>13, <1>14, <1>15, <1>16,
     <1>17, <1>18, <1>19 DEF LpNext, Transmitter, RxStep

-----------------------------------------------------------------------------
(* Every transfer is reported once.                                        *)
Ends == {"DONE", "ABORTED"}
Packets == 1 .. MaxPackets
ReportInv ==
    /\ reports \in [Packets -> Seq(Ends)]
    /\ polls \subseteq 1 .. accepted
    /\ \A p \in Packets :
        /\ p > accepted => reports[p] = <<>> /\ p \notin dropped
        /\ p <= accepted /\ p \notin polls =>
              IF UnderWay(p) \/ p \in dropped THEN reports[p] = <<>> ELSE Len(reports[p]) = 1
        /\ UnderWay(p) => p \notin dropped

\* A step after which the same transfers are under way.
LEMMA StillUnderWay ==
    ASSUME ReportInv, UNCHANGED <<reports, dropped, polls, accepted>>,
           \A p \in Packets : UnderWay(p)' <=> UnderWay(p)
    PROVE  ReportInv'
BY DEF ReportInv

\* A step that ends one transfer and reports it, or frees the byte of
\* api_poll_out.
LEMMA EndsOne ==
    ASSUME ReportInv, accepted \in 0 .. MaxPackets, UNCHANGED <<dropped, polls, accepted>>,
           NEW q \in Packets, NEW e \in Ends, UnderWay(q), ~UnderWay(q)', q <= accepted,
           \A p \in Packets \ {q} : UnderWay(p)' <=> UnderWay(p),
           Report(q, e) \/ (q \in polls /\ reports' = reports)
    PROVE  ReportInv'
<1>1. CASE Report(q, e)
  <2>1. reports' = [reports EXCEPT ![q] = Append(@, e)]
    BY <1>1, LpAssumption DEF Report, Packets
  <2>2. reports \in [Packets -> Seq(Ends)]
    BY DEF ReportInv
  <2>3. /\ reports' \in [Packets -> Seq(Ends)] /\ reports'[q] = Append(reports[q], e)
        /\ \A p \in Packets \ {q} : reports'[p] = reports[p]
    BY <2>1, <2>2
  <2>4. reports[q] = <<>> => Len(reports'[q]) = 1
    BY <2>3
  <2>5. ASSUME NEW p \in Packets
        PROVE  /\ p > accepted => reports'[p] = <<>> /\ p \notin dropped
               /\ p <= accepted /\ p \notin polls =>
                     IF UnderWay(p)' \/ p \in dropped
                     THEN reports'[p] = <<>> ELSE Len(reports'[p]) = 1
               /\ UnderWay(p)' => p \notin dropped
    <3>1. CASE p = q
      BY <2>4, <3>1, LpAssumption DEF ReportInv, Packets
    <3>2. CASE p # q
      <4>1. reports'[p] = reports[p] /\ (UnderWay(p)' <=> UnderWay(p))
        BY <2>3, <3>2
      <4> QED BY <4>1 DEF ReportInv
    <3> QED BY <3>1, <3>2
  <2>6. polls \subseteq 1 .. accepted
    BY DEF ReportInv
  <2> QED
    BY <2>3, <2>5, <2>6 DEF ReportInv
<1>2. CASE q \in polls /\ reports' = reports
  BY <1>2 DEF ReportInv
<1> QED
  BY <1>1, <1>2

\* A step that accepts a transfer, of api_tx or of api_poll_out.
LEMMA TakesOne ==
    ASSUME ReportInv, accepted \in 0 .. MaxPackets, accepted < MaxPackets,
           NEW q \in Nat, q = accepted + 1, accepted' = q, reports' = reports, dropped' = dropped,
           polls' = polls \/ polls' = polls \cup {q}, UnderWay(q)',
           \A p \in Packets \ {q} : UnderWay(p)' <=> UnderWay(p)
    PROVE  ReportInv'
<1>1. reports'[q] = <<>> /\ reports' \in [Packets -> Seq(Ends)] /\ q \notin dropped
  BY LpAssumption DEF ReportInv, Packets
<1>2. polls' \subseteq 1 .. accepted'
  <2> SUFFICES ASSUME NEW x \in polls' PROVE x \in 1 .. accepted'
    OBVIOUS
  <2>1. x \in polls \/ x = q
    OBVIOUS
  <2>2. polls \subseteq 1 .. accepted
    BY DEF ReportInv
  <2>3. q \in 1 .. q /\ \A y \in 1 .. accepted : y \in 1 .. q
    BY LpAssumption
  <2> QED BY <2>1, <2>2, <2>3
<1>3. ASSUME NEW p \in Packets
      PROVE  /\ p > accepted' => reports'[p] = <<>> /\ p \notin dropped'
             /\ p <= accepted' /\ p \notin polls' =>
                   IF UnderWay(p)' \/ p \in dropped'
                   THEN reports'[p] = <<>> ELSE Len(reports'[p]) = 1
             /\ UnderWay(p)' => p \notin dropped'
  <2>1. CASE p = q
    BY <1>1, <2>1, LpAssumption DEF Packets
  <2>2. CASE p # q
    <3>1. p > accepted' => p > accepted
      BY LpAssumption DEF Packets
    <3>2. p <= accepted' => p <= accepted
      BY <2>2, LpAssumption DEF Packets
    <3>3. p \notin polls' => p \notin polls
      OBVIOUS
    <3>4. UnderWay(p)' <=> UnderWay(p)
      BY <2>2
    <3> QED BY <3>1, <3>2, <3>3, <3>4 DEF ReportInv
  <2> QED BY <2>1, <2>2
<1> QED
  BY <1>1, <1>2, <1>3 DEF ReportInv

\* A step that gives up a transfer without a report.
LEMMA DropsOne ==
    ASSUME ReportInv, UNCHANGED <<reports, polls, accepted>>, NEW q \in Packets, q <= accepted,
           dropped' = dropped \cup {q}, UnderWay(q), ~UnderWay(q)',
           \A p \in Packets \ {q} : UnderWay(p)' <=> UnderWay(p), accepted \in 0 .. MaxPackets
    PROVE  ReportInv'
<1>1. ASSUME NEW p \in Packets
      PROVE  /\ p > accepted => reports[p] = <<>> /\ p \notin dropped'
             /\ p <= accepted /\ p \notin polls =>
                   IF UnderWay(p)' \/ p \in dropped' THEN reports[p] = <<>> ELSE Len(reports[p]) = 1
             /\ UnderWay(p)' => p \notin dropped'
  <2>1. CASE p = q
    <3>1. ~(p > accepted)
      BY <2>1, LpAssumption DEF Packets
    <3> QED BY <2>1, <3>1 DEF ReportInv
  <2>2. CASE p # q
    <3>1. (UnderWay(p)' <=> UnderWay(p)) /\ (p \in dropped' <=> p \in dropped)
      BY <2>2
    <3> QED BY <3>1 DEF ReportInv
  <2> QED BY <2>1, <2>2
<1> QED BY <1>1 DEF ReportInv

\* Every step keeps the count of the reports.
LEMMA ReportStep ==
    ASSUME Prompt, TxInv, ReportInv, [LpNext]_vars
    PROVE  ReportInv'
<1> USE LpAssumption
<1>0. TxTypes /\ TxTypes' /\ TxInv' /\ accepted \in 0 .. MaxPackets
  BY TxTypesStep, TxInvStep DEF TxInv, TxTypes
<1>00. /\ \A t \in Threads : tcall[t].step \in CallSteps /\ tcall[t].buf \in 0 .. MaxPackets
       /\ Threads = {"tx", "poll", "abort"}
       /\ tx_buf \in 0 .. MaxPackets /\ uart_tx.pkt \in 0 .. MaxPackets
       /\ \A p \in Packets : p \in Nat /\ p # 0
  BY <1>0 DEF TxTypes, Threads, Packets
<1>1. ASSUME UNCHANGED <<tx_buf, uart_tx, tcall, accepted, polls, reports, dropped>> PROVE ReportInv'
  BY <1>1, StillUnderWay DEF UnderWay
<1>2. CASE UNCHANGED vars
  BY <1>1, <1>2 DEF vars, txVars, history
<1>3. CASE req_pin_handler
  <2>1. UNCHANGED <<accepted, tcall, polls, reports>> /\ req = "armed"
        /\ tcall["abort"].step = "none"
    BY <1>0, <1>3, NotInAbort DEF req_pin_handler
  <2>2. tx_buf # 0 /\ ~tx_active /\ (uart_tx.pkt = 0 \/ uart_tx.aborted)
    BY <2>1 DEF TxInv, TransferInv, At
  <2>3. CASE uart_tx.pkt = 0
    <3>1. tx_buf' = tx_buf /\ uart_tx'.pkt = tx_buf /\ dropped' = dropped
      BY <1>3, <2>2, <2>3 DEF req_pin_handler
    <3> QED BY <1>00, <2>1, <2>2, <2>3, <3>1, StillUnderWay DEF UnderWay
  <2>4. CASE uart_tx.pkt # 0
    <3>1. PICK q \in Packets : q = tx_buf
      BY <1>00, <2>2 DEF Packets
    <3>2. tx_buf' = 0 /\ uart_tx' = uart_tx /\ dropped' = dropped \cup {q}
      BY <1>3, <2>2, <2>4, <3>1 DEF req_pin_handler
    <3>3. q <= accepted /\ uart_tx.pkt # q
      BY <1>0, <2>2, <3>1 DEF TxInv, TransferInv
    <3>4. \A t \in Threads : tcall[t].buf # q
      <4>1. \A t \in Threads : ~ArmingBy(t)
        BY <2>1 DEF TxInv, CallsInv
      <4>2. \A t \in Threads : tcall[t].buf = 0
        BY <1>00, <2>1, <4>1 DEF TxInv, CallsInv, ArmingBy
      <4> QED BY <1>00, <4>2
    <3>5. UnderWay(q) /\ ~UnderWay(q)' /\ \A p \in Packets \ {q} : UnderWay(p)' <=> UnderWay(p)
      BY <1>00, <2>1, <3>1, <3>2, <3>3, <3>4 DEF UnderWay
    <3> QED BY <1>0, <2>1, <3>2, <3>3, <3>5, DropsOne
  <2> QED BY <2>3, <2>4
<1>4. CASE UartSendsByte
  <2>1. UNCHANGED <<tx_buf, accepted, tcall, polls, reports, dropped>> /\ uart_tx'.pkt = uart_tx.pkt
    BY <1>0, <1>4 DEF UartSendsByte, history, TxTypes
  <2> QED BY <2>1, StillUnderWay DEF UnderWay
<1>5. ASSUME NEW q \in Packets, NEW e \in Ends, tx_buf = q, tx_buf' = 0, uart_tx'.pkt # q,
             ReportTo(q, e), tcall["abort"].step = "none", \A t \in Threads : ~ArmingBy(t),
             uart_tx'.pkt = uart_tx.pkt \/ (uart_tx.pkt = q /\ uart_tx'.pkt = 0),
             UNCHANGED <<tcall, accepted, polls, dropped>>
      PROVE  ReportInv'
  <2>1. \A t \in Threads : tcall[t].buf = 0
    BY <1>00, <1>5 DEF TxInv, CallsInv, ArmingBy
  <2>2. UnderWay(q) /\ ~UnderWay(q)' /\ \A p \in Packets \ {q} : UnderWay(p)' <=> UnderWay(p)
    BY <1>00, <1>5, <2>1 DEF UnderWay
  <2>3. q <= accepted
    BY <1>0, <1>00, <1>5 DEF TxInv, TransferInv
  <2>4. Report(q, e) \/ (q \in polls /\ reports' = reports)
    BY <1>5 DEF ReportTo
  <2> QED BY <1>0, <1>5, <2>2, <2>3, <2>4, EndsOne
<1>6. CASE UartTxDone
  <2>1. /\ UNCHANGED <<tcall, accepted, polls, dropped>> /\ uart_tx.pkt # 0 /\ tx_complete
        /\ ~uart_tx.aborted /\ uart_tx'.pkt = 0 /\ ReportTo(uart_tx.pkt, "DONE")
    BY <1>6 DEF UartTxDone, NoTransfer
  <2>2. tcall["abort"].step = "none"
    BY <1>0, <1>6, NotInAbort DEF UartTxDone
  <2>3. tx_active /\ req = "set" /\ tx_buf = uart_tx.pkt
    BY <2>1, <2>2 DEF TxInv, TransferInv, At
  <2>4. \A t \in Threads : ~ArmingBy(t)
    BY <2>3 DEF TxInv, CallsInv
  <2>5. tx_buf' = 0
    BY <2>1, Completed
  <2> QED BY <1>00, <1>5, <2>1, <2>2, <2>3, <2>4, <2>5 DEF Packets, Ends
<1>7. CASE UartTxAborted
  <2>1. /\ UNCHANGED <<tx_buf, accepted, tcall, polls, dropped>>
        /\ uart_tx.aborted /\ uart_tx'.pkt = 0 /\ Report(uart_tx.pkt, "ABORTED")
    BY <1>7 DEF UartTxAborted, NoTransfer
  <2>2. tcall["abort"].step = "none" /\ ~tx_active /\ uart_tx.pkt \in Packets
        /\ uart_tx.pkt <= accepted /\ tx_buf # uart_tx.pkt
    BY <1>0, <1>00, <1>7, NotInAbort DEF UartTxAborted, TxInv, TransferInv, Packets
  <2>3. \A t \in Threads : tcall[t].buf = 0 \/ tcall[t].buf = tx_buf
    BY <1>00, <2>2 DEF TxInv, CallsInv, ArmingBy
  <2>4. /\ UnderWay(uart_tx.pkt)
        /\ ~(tx_buf' = uart_tx.pkt \/ uart_tx'.pkt = uart_tx.pkt
                \/ \E t \in Threads : tcall'[t].buf = uart_tx.pkt)
        /\ \A p \in Packets \ {uart_tx.pkt} : UnderWay(p)' <=> UnderWay(p)
    BY <1>00, <2>1, <2>2, <2>3 DEF UnderWay
  <2>5. PICK q \in Packets : q = uart_tx.pkt
    BY <2>2
  <2>6. ~UnderWay(q)'
    BY <2>4, <2>5 DEF UnderWay
  <2> QED BY <1>0, <2>1, <2>2, <2>4, <2>5, <2>6, EndsOne DEF Ends
<1>8. ASSUME NEW t \in {"tx", "poll"}, TakeBuf(t), tcall[t].step \in {"none", "poll_tx"},
             reports' = reports, polls' = polls \/ polls' = polls \cup {accepted + 1},
             uart_tx' = uart_tx, dropped' = dropped
      PROVE  ReportInv'
  <2>1. /\ tx_buf = 0 /\ tx_buf' = accepted + 1 /\ accepted' = accepted + 1
        /\ accepted < MaxPackets
        /\ tcall'[t] = [step |-> "tx_timer", buf |-> accepted + 1]
        /\ \A u \in Threads \ {t} : tcall'[u] = tcall[u]
    BY <1>0, <1>00, <1>8, CallChanges DEF TakeBuf
  <2>2. tcall[t].buf = 0
    BY <1>00, <1>8 DEF TxInv, CallsInv
  <2>3. PICK q \in Nat : q = accepted + 1
    BY <1>0
  <2>4. UnderWay(q)'
    BY <2>1, <2>3 DEF UnderWay
  <2>5. \A p \in Packets \ {q} : UnderWay(p)' <=> UnderWay(p)
    BY <1>00, <1>8, <2>1, <2>2, <2>3 DEF UnderWay
  <2> QED BY <1>0, <1>8, <2>1, <2>3, <2>4, <2>5, TakesOne
<1>9. CASE PollTx
  <2>1. tcall["poll"].step = "poll_tx" /\ UNCHANGED <<reports, dropped, uart_tx>>
    BY <1>9 DEF PollTx, At
  <2>2. CASE TakeBuf("poll") /\ polls' = polls \cup {accepted + 1}
    BY <1>8, <2>1, <2>2
  <2>3. CASE Return("poll") /\ UNCHANGED <<tx_buf, accepted, polls>>
    <3>1. /\ tcall'["poll"] = [step |-> "none", buf |-> 0]
          /\ \A u \in Threads \ {"poll"} : tcall'[u] = tcall[u]
      BY <1>0, <1>00, <2>3, CallChanges
    <3>2. tcall["poll"].buf = 0
      BY <1>00, <2>1 DEF TxInv, CallsInv
    <3> QED BY <1>00, <2>1, <2>3, <3>1, <3>2, StillUnderWay DEF UnderWay
  <2> QED BY <1>9, <2>2, <2>3 DEF PollTx
<1>10. ASSUME NEW t \in Threads, TxStartTimer(t) PROVE ReportInv'
  <2>1. /\ tcall'[t] = [step |-> "tx_arm", buf |-> tcall[t].buf]
        /\ \A u \in Threads \ {t} : tcall'[u] = tcall[u]
        /\ UNCHANGED <<tx_buf, uart_tx, accepted, polls, reports, dropped>>
    BY <1>0, <1>10, CallChanges DEF TxStartTimer, history
  <2> QED BY <1>00, <2>1, StillUnderWay DEF UnderWay
<1>11. ASSUME NEW t \in Threads, TxArm(t) PROVE ReportInv'
  <2>1. /\ tcall[t].step = "tx_arm"
        /\ tcall'[t] = [step |-> "none", buf |-> 0]
        /\ \A u \in Threads \ {t} : tcall'[u] = tcall[u]
        /\ UNCHANGED <<tx_buf, uart_tx, accepted, polls, reports, dropped>>
    BY <1>0, <1>11, CallChanges DEF TxArm, At, history
  <2>2. tcall[t].buf = tx_buf
    BY <2>1 DEF TxInv, CallsInv, ArmingBy
  <2> QED BY <1>00, <2>1, <2>2, StillUnderWay DEF UnderWay
<1>12. CASE AbortCompletes
  <2>1. /\ tcall["abort"].step = "abort_complete"
        /\ tcall'["abort"] = [step |-> "abort_uart", buf |-> tcall["abort"].buf]
        /\ \A u \in Threads \ {"abort"} : tcall'[u] = tcall[u]
        /\ UNCHANGED <<uart_tx, accepted, polls, reports, dropped>>
        /\ tx_buf' = 0
    BY <1>0, <1>00, <1>12, CallChanges, Completed DEF AbortCompletes, At, history
  <2>2. tx_buf = tcall["abort"].buf
    BY <2>1 DEF TxInv, CallsInv, At
  <2> QED BY <1>00, <2>1, <2>2, StillUnderWay DEF UnderWay
<1>13. CASE AbortReturns
  <2>1. /\ tcall["abort"].step = "abort_uart"
        /\ tcall'["abort"] = [step |-> "none", buf |-> 0]
        /\ \A u \in Threads \ {"abort"} : tcall'[u] = tcall[u]
        /\ UNCHANGED <<tx_buf, accepted, polls, dropped>>
    BY <1>0, <1>00, <1>13, CallChanges DEF AbortReturns, At
  <2>2. uart_tx'.pkt = uart_tx.pkt
    BY <1>0, <1>13 DEF AbortReturns, AbortUart, TxTypes
  <2>3. /\ tx_buf = 0 /\ tcall["abort"].buf = accepted /\ uart_tx.pkt \in {0, accepted}
        /\ tcall["abort"].buf # 0 /\ tcall["tx"].buf = 0 /\ tcall["poll"].buf = 0
    BY <1>00, <2>1 DEF TxInv, CallsInv, TransferInv, At, InAbort, ArmingBy
  <2>4. CASE uart_tx.pkt = 0
    <3>1. PICK q \in Packets : q = accepted
      BY <1>0, <2>3 DEF Packets
    <3>2. Report(q, "ABORTED")
      BY <1>13, <2>3, <2>4, <3>1 DEF AbortReturns
    <3>3. UnderWay(q) /\ ~UnderWay(q)' /\ \A p \in Packets \ {q} : UnderWay(p)' <=> UnderWay(p)
      BY <1>00, <2>1, <2>2, <2>3, <2>4, <3>1 DEF UnderWay
    <3>4. q <= accepted /\ "ABORTED" \in Ends
      BY <1>0, <3>1 DEF Ends
    <3> QED BY <1>0, <2>1, <3>2, <3>3, <3>4, EndsOne
  <2>5. CASE uart_tx.pkt # 0
    <3>1. reports' = reports
      BY <1>13, <2>5 DEF AbortReturns
    <3> QED BY <1>00, <2>1, <2>2, <2>3, <2>5, <3>1, StillUnderWay DEF UnderWay
  <2> QED BY <2>4, <2>5
<1>14. CASE tx_timeout
  <2>1. tx_timer /\ ~tx_active /\ tx_buf # 0 /\ tcall["abort"].step = "none"
    BY <1>0, <1>14, NotInAbort DEF tx_timeout, TxInv, TransferInv
  <2>2. \A t \in Threads : ~ArmingBy(t)
    BY <1>14, <2>1 DEF tx_timeout, Prompt, At, TxInv, CallsInv, ArmingBy
  <2>3. ReportTo(tx_buf, "ABORTED") /\ tx_complete /\ UNCHANGED <<tcall, accepted, polls, uart_tx, dropped>>
    BY <1>14, <2>1 DEF tx_timeout
  <2>4. tx_buf' = 0 /\ uart_tx.pkt # tx_buf
    BY <2>1, <2>3, Completed DEF TxInv, TransferInv
  <2> QED BY <1>00, <1>5, <2>1, <2>2, <2>3, <2>4 DEF Packets, Ends
<1>15. CASE api_tx
  <2>1. TakeBuf("tx") /\ tcall["tx"].step = "none" /\ UNCHANGED <<polls, reports, dropped, uart_tx>>
    BY <1>15 DEF api_tx, At
  <2> QED BY <1>8, <2>1
<1>16. CASE api_poll_out
  <2>1. /\ tcall["poll"].step = "none"
        /\ tcall'["poll"] = [step |-> "poll_tx", buf |-> 0]
        /\ \A u \in Threads \ {"poll"} : tcall'[u] = tcall[u]
        /\ UNCHANGED <<tx_buf, uart_tx, accepted, polls, reports, dropped>>
    BY <1>0, <1>00, <1>16, CallChanges DEF api_poll_out, At, history
  <2>2. tcall["poll"].buf = 0
    BY <1>00, <2>1 DEF TxInv, CallsInv
  <2> QED BY <1>00, <2>1, <2>2, StillUnderWay DEF UnderWay
<1>17. CASE api_tx_abort
  <2>1. /\ tcall["abort"].step = "none"
        /\ tcall'["abort"] = [step |-> "abort_complete", buf |-> tx_buf]
        /\ \A u \in Threads \ {"abort"} : tcall'[u] = tcall[u]
        /\ UNCHANGED <<tx_buf, uart_tx, accepted, polls, reports, dropped>>
    BY <1>0, <1>00, <1>17, CallChanges DEF api_tx_abort, At
  <2>2. tcall["abort"].buf = 0
    BY <1>00, <2>1 DEF TxInv, CallsInv
  <2> QED BY <1>00, <2>1, <2>2, StillUnderWay DEF UnderWay
<1>18. CASE RxStep
  BY <1>1, <1>18 DEF RxStep, Receiver, RequestDetected, ClockStarted, BlinkEnds, EndDetected,
     UartRxReady, UartRxDisabled, EnableIdle, RdyPinArms, DisableUart, api_rx_buf_rsp, api_rx_enable,
     api_rx_disable, txVars, history
<1> QED
  BY <1>2, <1>3, <1>4, <1>6, <1>7, <1>9, <1>10, <1>11, <1>12, <1>13, <1>14, <1>15, <1>16,
     <1>17, <1>18 DEF LpNext, Transmitter, RxStep

\* After a reset no transfer is current and none was reported.
LEMMA TxInvInit == LpInit => TxInv /\ ReportInv
<1> SUFFICES ASSUME LpInit PROVE TxInv /\ ReportInv
  OBVIOUS
<1>1. TxTypes
  BY LpInitTypes
<1>2. /\ tx_buf = 0 /\ ~tx_active /\ ~tx_timer /\ req = "low" /\ accepted = 0
      /\ uart_tx.pkt = 0 /\ ~uart_tx.aborted /\ polls = {} /\ dropped = {}
      /\ \A t \in Threads : tcall[t] = [step |-> "none", buf |-> 0]
  BY DEF LpInit, Idle
<1>3. CallsInv
  BY <1>2 DEF CallsInv, ArmingBy, At, InAbort, Threads
<1>4. TransferInv
  BY <1>2 DEF TransferInv
<1>5. reports = [p \in Packets |-> <<>>] /\ <<>> \in Seq(Ends)
  BY DEF LpInit, Packets
<1>6. ReportInv
  BY <1>2, <1>5 DEF ReportInv, Packets
<1> QED BY <1>1, <1>3, <1>4, <1>6 DEF TxInv

\* Every transfer that uart_tx accepted is reported by exactly one
\* UART_TX_DONE or UART_TX_ABORTED, whatever the order of the confirmation, the
\* timeout, the end and an abort; none is forgotten but one that is confirmed
\* while the UART still aborts the transfer before, which gets no event.
THEOREM LpReportedOnce ==
    ASSUME Prompt
    PROVE  LpSpec => []ReportedOnce
<1>1. LpInit => TxInv /\ ReportInv
  BY TxInvInit
<1>2. TxInv /\ ReportInv /\ [LpNext]_vars => (TxInv /\ ReportInv)'
  BY TxInvStep, ReportStep
<1>3. TxInv /\ ReportInv => ReportedOnce
  <2> SUFFICES ASSUME TxInv, ReportInv, NEW p \in (1 .. accepted) \ polls
               PROVE  /\ Len(reports[p]) <= 1
                      /\ ~UnderWay(p) => (reports[p] # <<>> <=> p \notin dropped)
    BY DEF ReportedOnce
  <2>1. p \in Packets /\ p <= accepted
    BY LpAssumption DEF TxInv, TxTypes, Packets
  <2>2. CASE UnderWay(p)
    BY <2>1, <2>2 DEF ReportInv
  <2>3. CASE ~UnderWay(p)
    <3>1. IF p \in dropped THEN reports[p] = <<>> ELSE Len(reports[p]) = 1
      BY <2>1, <2>3 DEF ReportInv
    <3>2. CASE p \in dropped
      BY <3>1, <3>2
    <3>3. CASE p \notin dropped
      <4>1. Len(reports[p]) = 1
        BY <3>1, <3>3
      <4>2. reports[p] # <<>> /\ Len(reports[p]) <= 1
        BY <4>1
      <4> QED BY <3>3, <4>2
    <3> QED BY <3>2, <3>3
  <2> QED BY <2>2, <2>3
<1> QED
  BY <1>1, <1>2, <1>3, PTL DEF LpSpec

-----------------------------------------------------------------------------
(* Both devices.                                                           *)

\* The first n bytes of packet p.
Prefix(p, n) == [i \in 1 .. n |-> Byte(p, i)]
\* A prefix is a sequence of its length, of bytes of one packet.
LEMMA PrefixIs ==
  ASSUME NEW p \in Nat, NEW n \in Nat
  PROVE /\ Prefix(p, n) \in Seq(Bytes) /\ Len(Prefix(p, n)) = n
        /\ n = 0 <=> Prefix(p, n) = <<>>
        /\ n # 0 => Prefix(p, n)[1][1] = p
<1>1. \A i \in 1 .. n : Byte(p, i) \in Bytes /\ Byte(p,i)[1] = p
  BY DEF Byte, Bytes
<1>2. Prefix(p, n) \in [1 .. n -> Bytes]
  BY <1>1 DEF Prefix
<1>3. Prefix(p, n) \in Seq(Bytes) /\ Len(Prefix(p, n)) = n
  BY <1>2
<1>4. n = 0 <=> Prefix(p, n) = <<>>
  BY <1>3
<1>5. n # 0 => Prefix(p, n)[1][1] = p
  BY <1>1 DEF Prefix
<1> QED BY <1>3, <1>4, <1>5

\* The next byte of the packet makes the next prefix.
LEMMA PrefixGrows ==
  ASSUME NEW p \in Nat, NEW n \in Nat
  PROVE Append(Prefix(p, n), Byte(p, n + 1)) = Prefix(p, n + 1)
<1>1. /\ Prefix(p, n) \in Seq(Bytes) /\ Len(Prefix(p, n)) = n
      /\ Prefix(p, n+1) \in Seq(Bytes) /\ Len(Prefix(p, n+1)) = n+1
  BY PrefixIs
<1>2. Byte(p, n + 1) \in Bytes
  BY DEF Byte, Bytes
<1>3. /\ Append(Prefix(p, n), Byte(p, n + 1)) \in Seq(Bytes)
      /\ Len(Append(Prefix(p, n), Byte(p, n + 1))) = n + 1
  BY <1>1, <1>2
<1>4. \A i \in 1 .. n + 1 : Append(Prefix(p, n), Byte(p, n + 1))[i] = Prefix(p, n+1)[i]
  <2> TAKE i \in 1 .. n+1
  <2>1. CASE i = n + 1
    <3>1. Append(Prefix(p, n), Byte(p, n + 1))[i] = Byte(p, n + 1)
      BY <1>1, <1>2, <2>1
    <3>2. Prefix(p, n + 1)[i] = Byte(p, i)
      BY DEF Prefix
    <3> QED BY <2>1, <3>1, <3>2
  <2>2. CASE i \in 1 .. n
    <3>1. Append(Prefix(p, n), Byte(p, n + 1))[i] = Prefix(p, n)[i]
      BY <1>1, <1>2, <2>2
    <3>2. Prefix(p, n + 1)[i] = Byte(p, i) /\ Prefix(p, n)[i] = Byte(p, i)
      BY <2>2 DEF Prefix
    <3> QED BY <3>1, <3>2
  <2>3. i = n + 1 \/ i \in 1 .. n
    OBVIOUS
  <2> QED BY <2>1, <2>2, <2>3
<1> QED BY <1>1, <1>3, <1>4, SeqEqual

\* The prefixes of a packet are its first bytes.
LEMMA PrefixOfWhole ==
  ASSUME NEW p \in Nat, NEW n \in 0 .. PacketLen
  PROVE SubSeq(Whole(p), 1, n) = Prefix(p, n)
<1>1. Whole(p) \in Seq(Bytes) /\ Len(Whole(p)) = PacketLen /\ Whole(p) = Prefix(p, PacketLen)
  BY LpAssumption, PrefixIs DEF Whole, Prefix
<1>2. Prefix(p, n) \in Seq(Bytes) /\ Len(Prefix(p, n)) = n
  BY PrefixIs, LpAssumption
<1>3. SubSeq(Whole(p), 1, n) \in Seq(Bytes) /\ Len(SubSeq(Whole(p), 1, n)) = n 
       /\ \A i \in 1 .. n : SubSeq(Whole(p), 1, n)[i] = Whole(p)[i]
  BY <1>1, LpAssumption, SubSeqProperties
<1>4. \A i \in 1 .. n : Whole(p)[i] = Prefix(p, n)[i]
  BY LpAssumption DEF Whole, Prefix
<1> QED BY <1>2, <1>3, <1>4, SeqEqual

\* The UART is sending, and has not been told to abort.
Sending == uart_tx.pkt # 0 /\ ~uart_tx.aborted

\* When the transmitter has seen the blink, and until its UART has sent the
\* last byte, the receiver's UART is on and has what was sent.  An aborted
\* transfer may go on until the UART is told; the receiver has then detected
\* its end and does not detect another request.
LinkInv ==
    /\ req = "armed" /\ req_evt =>
          rx_state = "ACTIVE" /\ (deaf \/ ~rdy_evt) /\ uart_rx.data = <<>>
    /\ req = "set" => rx_state = "ACTIVE" /\ (deaf \/ ~rdy_evt)
    /\ Sending /\ rx_state = "ACTIVE" => uart_rx.data = Prefix(uart_tx.pkt, uart_tx.sent)
    /\ Sending /\ ~tx_active =>
          /\ rx_state # "PREPARE" /\ ~rdy_low
          /\ rdy = "HIGH" => ~rdy_evt \/ deaf
          /\ rx_state = "ACTIVE" => rdy_evt \/ deaf
    /\ uart_rx.state \in {"off", "stopped"} => uart_rx.data = <<>>

\* The transmitter sends only while it holds the line or is in api_tx_abort.
LEMMA SendingWhen ==
    ASSUME TxInv, Sending
    PROVE  \/ tx_active /\ req = "set" /\ tx_buf = uart_tx.pkt
           \/ tcall["abort"].step = "abort_uart" /\ ~tx_active /\ req = "low" /\ tx_buf = 0
BY DEF TxInv, TransferInv, CallsInv, Sending, At

\* Every step of the transmitter keeps the link.
LEMMA LinkTxStep ==
    ASSUME Prompt, TxInv, RxInv, LinkInv, TxStep, TxInv'
    PROVE  LinkInv'
<1> USE LpAssumption
<1>0. TxTypes /\ RxTypes /\ tx_buf \in Nat
  BY DEF TxInv, RxInv, TxTypes
<1>1. /\ UNCHANGED <<rx_state, rx_got_data, rx_buf, rdy, rdy_low, clk, rcall, rx_user, deaf>>
      /\ rdy_evt' \in BOOLEAN
      /\ uart_rx' = uart_rx \/ UartSendsByte
  BY <1>0, TxLeavesRx
<1>2. CASE UartSendsByte
  <2>1. UNCHANGED <<tx_active, req, req_evt, rdy_evt>> /\ uart_tx.sent < PacketLen /\ Sending
    BY <1>2 DEF UartSendsByte, Sending
  <2>2. /\ uart_tx'.pkt = uart_tx.pkt /\ uart_tx'.aborted = uart_tx.aborted
        /\ uart_tx'.sent = uart_tx.sent + 1
    BY <1>0, <1>2 DEF UartSendsByte, TxTypes
  <2>3. /\ uart_rx'.state = uart_rx.state
        /\ uart_rx.state = "on" =>
              uart_rx'.data = Append(uart_rx.data, Byte(uart_tx.pkt, uart_tx.sent + 1))
        /\ uart_rx.state # "on" => uart_rx' = uart_rx
    BY <1>0, <1>2, ByteOnWire
  <2>4. req # "armed"
    BY <2>1, SendingWhen
  <2>5. rx_state = "ACTIVE" => uart_rx'.data = Prefix(uart_tx.pkt, uart_tx.sent + 1)
    <3>1. uart_tx.pkt \in Nat /\ uart_tx.sent \in Nat
      BY <1>0 DEF TxTypes
    <3> QED BY <2>1, <2>3, <3>1, PrefixGrows, ZenonT(60) DEF LinkInv, RxInv
  <2> QED
    BY <1>1, <2>1, <2>2, <2>3, <2>4, <2>5 DEF LinkInv, Sending
<1>3. ASSUME ~Sending', req' # "armed" \/ ~req_evt', req' # "set",
             uart_rx' = uart_rx
      PROVE  LinkInv'
  BY <1>1, <1>3 DEF LinkInv
<1>4. ASSUME UNCHANGED <<req, req_evt, rdy_evt, uart_tx, tx_active, uart_rx>>
      PROVE  LinkInv'
  BY <1>1, <1>4 DEF LinkInv, Sending
<1>5. CASE req_pin_handler
  <2>1. req = "armed" /\ req_evt /\ tcall["abort"].step = "none"
    BY <1>0, <1>5, NotInAbort DEF req_pin_handler
  <2>2. tx_buf # 0 /\ ~tx_active /\ (uart_tx.pkt = 0 \/ uart_tx.aborted)
    BY <2>1 DEF TxInv, TransferInv, At
  <2>3. CASE uart_tx.pkt = 0
    <3>1. /\ req' = "set" /\ tx_active' /\ rdy_evt' = rdy_evt /\ uart_rx' = uart_rx
          /\ uart_tx' = [pkt |-> tx_buf, sent |-> 0, aborted |-> FALSE]
      BY <1>5, <2>2, <2>3 DEF req_pin_handler
    <3>2. Prefix(tx_buf, 0) = <<>>
      BY <1>0, PrefixIs
    <3> QED
      BY <1>1, <2>1, <3>1, <3>2 DEF LinkInv
  <2>4. CASE uart_tx.pkt # 0
    <3>1. req' = "low" /\ uart_tx' = uart_tx /\ uart_rx' = uart_rx
      BY <1>5, <2>2, <2>4 DEF req_pin_handler, ReqPinIdle
    <3> QED BY <1>3, <2>2, <2>4, <3>1 DEF Sending
  <2> QED BY <2>3, <2>4
<1>6. CASE UartTxDone
  <2>1. uart_tx' = [pkt |-> 0, sent |-> 0, aborted |-> FALSE] /\ tx_complete /\ uart_rx' = uart_rx
    BY <1>6 DEF UartTxDone, NoTransfer
  <2> QED BY <1>3, <2>1, Completed DEF Sending
<1>7. CASE UartTxAborted
  <2>1. /\ UNCHANGED <<req, req_evt, rdy_evt, tx_active, uart_rx>>
        /\ uart_tx' = [pkt |-> 0, sent |-> 0, aborted |-> FALSE]
    BY <1>7 DEF UartTxAborted, NoTransfer, rxVars
  <2> QED BY <1>1, <2>1 DEF LinkInv, Sending
<1>8. CASE PollTx \/ api_tx \/ api_poll_out \/ api_tx_abort
  BY <1>4, <1>8 DEF PollTx, api_tx, api_poll_out, api_tx_abort, rxVars
<1>9. ASSUME NEW t \in Threads, TxStartTimer(t) PROVE LinkInv'
  BY <1>4, <1>9 DEF TxStartTimer, rxVars
<1>10. ASSUME NEW t \in Threads, TxArm(t) PROVE LinkInv'
  <2>1. ~req_evt' /\ req' = "armed" /\ uart_tx' = uart_tx /\ uart_rx' = uart_rx
    BY <1>10 DEF TxArm, ReqPinArm
  <2>2. req = "low" /\ tcall["abort"].step = "none"
    BY <1>0, <1>10, NotInAbort DEF TxArm, At, TxInv, CallsInv, ArmingBy
  <2>3. ~Sending
    BY <2>2, SendingWhen
  <2> QED BY <1>3, <2>1, <2>3 DEF Sending
<1>11. CASE AbortCompletes
  <2>1. /\ tx_complete /\ UNCHANGED <<uart_tx, uart_rx>> /\ tcall["abort"].step = "abort_complete"
    BY <1>11 DEF AbortCompletes, At
  <2>2. CASE ~Sending
    BY <1>3, <2>1, <2>2, Completed DEF Sending
  <2>3. CASE Sending
    <3>1. tx_active /\ req = "set" /\ rx_state = "ACTIVE" /\ (deaf \/ rdy = "HITOLO")
      BY <2>1, <2>3, SendingWhen DEF LinkInv, RxInv
    <3>2. ~rdy_low /\ (deaf \/ rdy_evt') /\ ~tx_active' /\ req' = "low"
      BY <2>1, <3>1 DEF tx_complete, ReqPinIdle, High
    <3> QED
      BY <1>1, <2>1, <3>1, <3>2 DEF LinkInv, Sending
  <2> QED BY <2>2, <2>3
<1>12. CASE AbortReturns
  <2>1. /\ UNCHANGED <<req, req_evt, rdy_evt, tx_active, uart_rx>>
        /\ tcall["abort"].step = "abort_uart"
    BY <1>12 DEF AbortReturns, rxVars, At
  <2>2. uart_tx'.pkt = uart_tx.pkt /\ uart_tx'.aborted = (uart_tx.pkt # 0)
    BY <1>0, <1>12 DEF AbortReturns, AbortUart, TxTypes
  <2>3. ~Sending'
    BY <2>2 DEF Sending
  <2>4. req = "low"
    BY <2>1 DEF TxInv, CallsInv, TransferInv, At
  <2> QED BY <1>3, <2>1, <2>3, <2>4
<1>13. CASE tx_timeout
  <2>1. tx_timer /\ ~tx_active /\ tcall["abort"].step = "none"
    BY <1>0, <1>13, NotInAbort DEF tx_timeout, TxInv, TransferInv
  <2>2. tx_complete /\ UNCHANGED <<uart_tx, uart_rx>>
    BY <1>13, <2>1 DEF tx_timeout
  <2>3. ~Sending
    BY <2>1, SendingWhen
  <2> QED BY <1>3, <2>2, <2>3, Completed DEF Sending
<1> QED
  BY <1>2, <1>5, <1>6, <1>7, <1>8, <1>9, <1>10, <1>11, <1>12, <1>13 DEF TxStep, Transmitter

\* A step of the receiver leaves the transmitter alone, but for the blink; it
\* heard what it has, or hands it over.
LEMMA RxLeavesTx ==
    ASSUME RxStep
    PROVE  UNCHANGED <<tx_buf, tx_active, req, uart_tx, accepted, polls, sent>>
BY DEF RxStep, Receiver, RequestDetected, ClockStarted, BlinkEnds, EndDetected,
   UartRxReady, UartRxDisabled, EnableIdle, RdyPinArms, DisableUart, api_rx_buf_rsp, api_rx_enable,
   api_rx_disable, txVars, history

\* Every step of the receiver keeps the link.
LEMMA LinkRxStep ==
    ASSUME DisablesBetween, TxInv, RxInv, LinkInv, RxStep
    PROVE  LinkInv'
<1>1. UNCHANGED <<tx_active, req, uart_tx>>
  BY RxLeavesTx
<1>2. uart_rx.state \in {"off", "on", "stopping", "stopped"} /\ rx_state \in RxStates
  BY DEF RxInv, RxTypes
\* While the UART sends and the receiver is not active, the line is low.
<1>3. Sending /\ rx_state # "ACTIVE" => ~tx_active /\ req = "low"
  BY SendingWhen DEF LinkInv
<1>20. ~RdyPinArms => deaf' = deaf
  BY DEF RxStep, Receiver, RequestDetected, ClockStarted, BlinkEnds, EndDetected, UartRxReady,
     UartRxDisabled, EnableIdle, DisableUart, api_rx_buf_rsp, api_rx_enable, api_rx_disable, history
<1>21. deaf => rx_state = "ACTIVE" /\ ~rdy_low /\ rdy # "HITOLO"
  BY DEF RxInv
<1>4. ASSUME activate_rx, rx_state \in {"IDLE", "PREPARE"}, rx_buf, ~Sending PROVE LinkInv'
  <2>1. uart_rx.state = "off" /\ req # "set"
    BY <1>2, <1>4 DEF RxInv, LinkInv
  <2>2. /\ rx_state' = "ACTIVE" /\ uart_rx' = [state |-> "on", data |-> <<>>] /\ ~rdy_evt'
    BY <1>4, <2>1 DEF activate_rx
  <2> QED BY <1>1, <1>4, <2>1, <2>2 DEF LinkInv, Sending
<1>5. ASSUME rx_state # "ACTIVE", rx_state' \notin {"ACTIVE", "PREPARE"}, req_evt' = req_evt,
             ~rdy_low', rdy' = "HIGH" /\ Sending => ~rdy_evt',
             uart_rx' = uart_rx \/ uart_rx'.data = <<>>
      PROVE  LinkInv'
  BY <1>1, <1>5 DEF LinkInv, Sending
<1>6. CASE RequestDetected
  <2>1. /\ rdy = "HIGH" /\ rdy_evt /\ ~rdy_low /\ (rx_state = "ACTIVE" <=> deaf)
        /\ rx_state # "ACTIVE" => ~Sending
    <3>1. rdy = "HIGH" /\ rdy_evt /\ ~rdy_low
      BY <1>6 DEF RequestDetected, RxIsr
    <3>2. rx_state = "ACTIVE" <=> deaf
      BY <3>1 DEF RxInv
    <3> QED BY <1>3, <3>1, <3>2 DEF LinkInv
  <2>2. CASE rx_state = "IDLE" /\ HfxoOnRx
    <3>1. rx_state' = "PREPARE" /\ rdy' = "none" /\ UNCHANGED <<uart_rx, req_evt>>
      BY <1>6, <2>2 DEF RequestDetected, RdyPinSuspend
    <3> QED BY <1>1, <2>1, <2>2, <3>1 DEF LinkInv, Sending
  <2>3. CASE rx_state = "IDLE" /\ ~HfxoOnRx
    <3>1. activate_rx /\ rx_buf
      BY <1>6, <2>3 DEF RequestDetected, RxInv
    <3> QED BY <1>4, <2>1, <2>3, <3>1
  <2>4. CASE rx_state # "IDLE"
    <3>1. UNCHANGED <<rx_state, uart_rx, req_evt, rdy_low>> /\ rdy' = "none" /\ deaf' = deaf
      BY <1>6, <2>4 DEF RequestDetected, RdyPinSuspend, history
    <3>2. CASE deaf
      BY <1>1, <2>1, <3>1, <3>2 DEF LinkInv, Sending
    <3>3. CASE ~deaf
      BY <1>1, <2>1, <3>1, <3>3 DEF LinkInv, Sending
    <3> QED BY <3>2, <3>3
  <2> QED BY <2>2, <2>3, <2>4
<1>7. CASE ClockStarted
  <2>1. rx_state = "PREPARE" /\ rx_buf
    BY <1>7 DEF ClockStarted, RxInv, RxTypes
  <2>2. ~Sending
    BY <1>3, <2>1 DEF LinkInv
  <2>3. activate_rx
    BY <1>7, <2>1 DEF ClockStarted
  <2> QED BY <1>4, <2>1, <2>2, <2>3
<1>8. ASSUME rx_state = "ACTIVE", RdyPinSuspend, deactivate_rx, ~rdy_low', req_evt' = req_evt,
             ~deaf, rdy_evt \/ (req = "low" /\ ~Sending)
      PROVE  LinkInv'
  <2>1. /\ rdy' = "none" /\ rx_state' = "TO_IDLE"
        /\ uart_rx' = [uart_rx EXCEPT !.state = "stopping"]
    BY <1>8 DEF RdyPinSuspend, deactivate_rx, StopUart, RxInv
  <2>2. uart_rx'.state = "stopping"
    BY <2>1 DEF RxInv, RxTypes
  <2>3. req = "low" \/ (req = "armed" /\ ~req_evt)
    BY <1>8 DEF LinkInv, TxInv, TxTypes
  <2> QED BY <1>1, <1>8, <2>1, <2>2, <2>3 DEF LinkInv, Sending
<1>9. CASE BlinkEnds
  <2>1. rx_state = "ACTIVE" /\ ~rdy_low' /\ req_evt' = req_evt /\ rdy_low /\ ~deaf /\ deaf' = deaf
    BY <1>9 DEF BlinkEnds, RxInv, txVars, history
  <2>2. CASE req = "low" /\ ~rdy_evt
    <3>1. RdyPinSuspend /\ deactivate_rx
      BY <1>9, <2>2 DEF BlinkEnds
    <3>2. ~Sending
      BY <2>1, <2>2, SendingWhen DEF LinkInv
    <3> QED BY <1>8, <2>1, <2>2, <3>1, <3>2
  <2>3. CASE ~(req = "low" /\ ~rdy_evt)
    <3>1. UNCHANGED <<rdy, rdy_evt, rx_state, uart_rx>>
      BY <1>9, <2>3 DEF BlinkEnds
    <3> QED BY <1>1, <2>1, <3>1 DEF LinkInv, Sending
  <2> QED BY <2>2, <2>3
<1>10. CASE EndDetected
  <2>1. rx_state = "ACTIVE" /\ rdy_evt /\ ~rdy_low /\ ~deaf
    BY <1>10 DEF EndDetected, RxInv, RxIsr
  <2>2. RdyPinSuspend /\ deactivate_rx /\ ~rdy_low' /\ req_evt' = req_evt
    BY <1>10, <2>1 DEF EndDetected, txVars
  <2> QED BY <1>8, <2>1, <2>2
<1>11. CASE UartRxReady
  <2>1. /\ rx_state = "TO_IDLE" /\ uart_rx'.data = <<>>
        /\ UNCHANGED <<rx_state, rdy, rdy_evt, rdy_low, req_evt>>
    BY <1>11 DEF UartRxReady, RxInv, txVars
  <2>2. ~rdy_low /\ ~deaf
    BY <1>21, <2>1 DEF RxInv
  <2>3. rdy' = "HIGH" /\ Sending => ~rdy_evt'
    BY <1>3, <2>1, <2>2 DEF LinkInv
  <2> QED BY <1>5, <2>1, <2>2, <2>3
<1>12. ASSUME rx_state # "ACTIVE", rx_state' = "IDLE", RdyPinIdle, UNCHANGED <<rdy_low, req_evt>>,
              uart_rx' = uart_rx \/ uart_rx'.data = <<>>
       PROVE  LinkInv'
  <2>1. Sending => ~rdy_evt'
    BY <1>3, <1>12 DEF RdyPinIdle, High
  <2>2. ~rdy_low
    BY <1>12 DEF RxInv
  <2> QED BY <1>5, <1>12, <2>1, <2>2
<1>13. CASE UartRxDisabled
  <2>1. /\ rx_state = "TO_IDLE" /\ uart_rx'.data = <<>> /\ UNCHANGED <<rdy_low, req_evt>>
        /\ ~rdy_low /\ ~deaf
    BY <1>13 DEF UartRxDisabled, RxInv, txVars
  <2>2. \/ rx_state' = "IDLE" /\ RdyPinIdle
        \/ rx_state' = "BLOCKED" /\ UNCHANGED <<rdy, rdy_evt>>
    BY <1>13, <2>1 DEF UartRxDisabled, ToIdle
  <2>3. rdy = "HIGH" /\ Sending => ~rdy_evt
    BY <1>3, <2>1 DEF LinkInv
  <2> QED BY <1>5, <1>12, <2>1, <2>2, <2>3
<1>14. CASE RdyPinArms
  <2>1. /\ RdyPinIdle /\ UNCHANGED <<rx_state, rdy_low, req_evt, uart_rx>> /\ ~rdy_low
        /\ rcall = "arm" /\ deaf' = (deaf \/ rx_state = "ACTIVE")
    BY <1>14 DEF RdyPinArms, RxIsr, txVars
  <2>2. CASE rx_state = "ACTIVE"
    <3>1. deaf'
      BY <2>1, <2>2
    <3> QED BY <1>1, <2>1, <2>2, <3>1 DEF LinkInv, Sending
  <2>3. CASE rx_state # "ACTIVE"
    <3>1. ~deaf' /\ ~deaf
      BY <1>21, <2>1, <2>3
    <3>2. Sending => ~rdy_evt'
      BY <1>3, <2>1, <2>3 DEF RdyPinIdle, High
    <3>3. Sending => rx_state # "PREPARE"
      BY <1>3, <2>3 DEF LinkInv
    <3> QED BY <1>1, <2>1, <2>3, <3>1, <3>2, <3>3 DEF LinkInv, Sending
  <2> QED BY <2>2, <2>3
<1>15. CASE api_rx_enable \/ api_rx_disable \/ DisableUart \/ EnableIdle \/ api_rx_buf_rsp
  <2>1. /\ UNCHANGED <<req_evt, rdy, rdy_evt, rdy_low>>
        /\ rx_state \notin {"ACTIVE", "PREPARE"} /\ rx_state' \notin {"ACTIVE", "PREPARE"}
    BY <1>2, <1>15 DEF api_rx_enable, api_rx_disable, DisableUart, EnableIdle, api_rx_buf_rsp,
       RxInv, DisablesBetween, StopUart, txVars
  <2>2. uart_rx' = uart_rx
    BY <1>2, <1>15, <2>1 DEF api_rx_enable, api_rx_disable, DisableUart, EnableIdle,
       api_rx_buf_rsp, RxInv, StopUart
  <2>3. ~rdy_low /\ (rdy = "HIGH" /\ Sending => ~rdy_evt)
    BY <1>3, <1>21, <2>1 DEF RxInv, LinkInv
  <2> QED BY <1>5, <2>1, <2>2, <2>3
<1> QED
  BY <1>6, <1>7, <1>9, <1>10, <1>11, <1>13, <1>14, <1>15 DEF RxStep, Receiver

-----------------------------------------------------------------------------
(* What the receiving application hears.                                   *)
First(s) == s[1][1]
Part(s) == \E p \in 1 .. accepted : \E n \in 1 .. PacketLen : s = Prefix(p, n)

\* What was handed over, and what the UART has, are beginnings of packets,
\* each of a later packet; all that was sent to its end is among them whole.
PiecesInv ==
    /\ chunks \in Seq(Seq(Bytes))
    /\ \A i \in 1 .. Len(chunks) : Part(chunks[i])
    /\ \A i, j \in 1 .. Len(chunks) : i < j => First(chunks[i]) < First(chunks[j])
    /\ uart_rx.data # <<>> =>
          /\ Part(uart_rx.data)
          /\ \A i \in 1 .. Len(chunks) : First(chunks[i]) < First(uart_rx.data)
    /\ sent \subseteq Nat
    /\ \A p \in sent : \/ uart_rx.data = Prefix(p, PacketLen)
                       \/ \E i \in 1 .. Len(chunks) : chunks[i] = Prefix(p, PacketLen)
\* The transfer to come, and the one that is sent, are newer.
NewerInv ==
    /\ tx_buf # 0 /\ ~tx_active =>
          /\ \A i \in 1 .. Len(chunks) : First(chunks[i]) < tx_buf
          /\ uart_rx.data # <<>> => First(uart_rx.data) < tx_buf
    /\ Sending /\ rx_state = "ACTIVE" =>
          \A i \in 1 .. Len(chunks) : First(chunks[i]) < uart_tx.pkt
HeardInv == PiecesInv /\ NewerInv

\* What a piece is: not empty, of a packet that was accepted.
LEMMA PartIs ==
    ASSUME NEW s, Part(s), accepted \in Nat
    PROVE  /\ s # <<>> /\ s \in Seq(Bytes) /\ First(s) \in 1 .. accepted
           /\ Len(s) \in 1 .. PacketLen /\ s = Prefix(First(s), Len(s))
<1>1. PICK p \in 1 .. accepted : \E n \in 1 .. PacketLen : s = Prefix(p, n)
  BY DEF Part
<1>2. PICK n \in 1 .. PacketLen : s = Prefix(p, n)
  BY <1>1
<1>3. p \in Nat /\ n \in Nat /\ n # 0
  BY LpAssumption
<1>4. s # <<>> /\ s \in Seq(Bytes) /\ Len(s) = n /\ s[1][1] = p
  BY <1>2, <1>3, PrefixIs
<1> QED BY <1>2, <1>4 DEF First

\* A step that hears nothing and hands over nothing.
LEMMA NothingHeard ==
    ASSUME PiecesInv, UNCHANGED <<chunks, sent>>, uart_rx'.data = uart_rx.data,
           accepted \in Nat, accepted' \in Nat, accepted <= accepted'
    PROVE  PiecesInv'
<1>1. ASSUME NEW s, Part(s) PROVE \E p \in 1 .. accepted' : \E n \in 1 .. PacketLen : s = Prefix(p, n)
  <2>1. PICK p \in 1 .. accepted : \E n \in 1 .. PacketLen : s = Prefix(p, n)
    BY <1>1 DEF Part
  <2>2. p \in 1 .. accepted'
    OBVIOUS
  <2> QED BY <2>1, <2>2
<1>2. ASSUME NEW i \in 1 .. Len(chunks) PROVE Part(chunks[i])'
  BY <1>1 DEF PiecesInv, Part
<1>3. uart_rx.data # <<>> => Part(uart_rx.data)'
  BY <1>1 DEF PiecesInv, Part
<1> QED
  BY <1>2, <1>3 DEF PiecesInv

\* The packet being sent was accepted; its prefixes are pieces of it.
LEMMA PrefixIsPart ==
    ASSUME TxInv, uart_tx.pkt # 0, NEW n \in 1 .. PacketLen
    PROVE  Part(Prefix(uart_tx.pkt, n)) /\ First(Prefix(uart_tx.pkt, n)) = uart_tx.pkt
<1>1. uart_tx.pkt \in 1 .. accepted /\ uart_tx.pkt \in Nat /\ n \in Nat /\ n # 0
  BY LpAssumption DEF TxInv, TxTypes, TransferInv
<1> QED
  BY <1>1, PrefixIs DEF Part, First

\* Every step of the transmitter keeps what was heard in order.
LEMMA HeardTxStep ==
    ASSUME Prompt, TxInv, RxInv, LinkInv, HeardInv, TxStep, TxInv'
    PROVE  HeardInv'
<1> USE LpAssumption
<1>0. /\ TxTypes /\ RxTypes /\ tx_buf \in Nat /\ accepted \in Nat /\ accepted' \in Nat
      /\ uart_tx.pkt \in Nat /\ uart_tx.sent \in Nat /\ uart_tx.pkt <= accepted
  BY DEF TxInv, RxInv, TxTypes, TransferInv
<1>1. rx_state' = rx_state /\ (uart_rx' = uart_rx \/ UartSendsByte)
  BY <1>0, TxLeavesRx
<1>2. CASE UartSendsByte
  <2>1. UNCHANGED <<tx_active, tx_buf, accepted, chunks, sent>> /\ Sending /\ uart_tx.sent < PacketLen
    BY <1>2 DEF UartSendsByte, Sending, history
  <2>2. uart_tx'.pkt = uart_tx.pkt /\ uart_tx'.aborted = uart_tx.aborted
    BY <1>0, <1>2 DEF UartSendsByte, TxTypes
  <2>3. ~(tx_buf # 0 /\ ~tx_active)
    BY <2>1, SendingWhen
  <2>4. NewerInv'
    BY <1>1, <2>1, <2>2, <2>3 DEF HeardInv, NewerInv, Sending
  <2>5. CASE rx_state # "ACTIVE"
    <3>1. uart_rx' = uart_rx
      BY <1>0, <1>2, <2>5, ByteOnWire DEF RxInv
    <3> QED BY <1>0, <2>1, <2>4, <3>1, NothingHeard DEF HeardInv
  <2>6. CASE rx_state = "ACTIVE"
    <3>1. uart_rx.data = Prefix(uart_tx.pkt, uart_tx.sent)
      BY <2>1, <2>6 DEF LinkInv
    <3>2. uart_rx'.data = Prefix(uart_tx.pkt, uart_tx.sent + 1)
      BY <1>0, <1>2, <2>6, <3>1, ByteOnWire, PrefixGrows DEF RxInv
    <3>3. PICK d : d = Prefix(uart_tx.pkt, uart_tx.sent + 1)
      OBVIOUS
    <3>4. Part(d) /\ First(d) = uart_tx.pkt
      BY <1>0, <2>1, <3>3, PrefixIsPart DEF Sending
    <3>5. Part(d)'
      BY <2>1, <3>4 DEF Part
    <3>6. \A i \in 1 .. Len(chunks) : First(chunks[i]) < First(d)
      BY <2>1, <2>6, <3>4 DEF HeardInv, NewerInv
    <3>7. ASSUME NEW p \in sent PROVE \E i \in 1 .. Len(chunks) : chunks[i] = Prefix(p, PacketLen)
      <4>1. p \in Nat /\ Len(Prefix(p, PacketLen)) = PacketLen /\ Len(uart_rx.data) = uart_tx.sent
        BY <1>0, <3>1, PrefixIs DEF HeardInv, PiecesInv
      <4>2. uart_rx.data # Prefix(p, PacketLen)
        BY <1>0, <2>1, <4>1
      <4> QED BY <4>2 DEF HeardInv, PiecesInv
    <3>8. ASSUME NEW i \in 1 .. Len(chunks) PROVE Part(chunks[i])'
      BY <2>1 DEF HeardInv, PiecesInv, Part
    <3>9. PiecesInv'
      BY <2>1, <3>2, <3>3, <3>5, <3>6, <3>7, <3>8 DEF HeardInv, PiecesInv
    <3> QED BY <2>4, <3>9 DEF HeardInv
  <2> QED BY <2>5, <2>6
<1>3. ASSUME UNCHANGED <<chunks, sent, uart_rx, accepted>>,
             tx_buf' # 0 /\ ~tx_active' => tx_buf # 0 /\ ~tx_active /\ tx_buf' = tx_buf,
             Sending' => Sending /\ uart_tx'.pkt = uart_tx.pkt
      PROVE  HeardInv'
  <2>1. PiecesInv'
    BY <1>0, <1>3, NothingHeard DEF HeardInv
  <2>2. NewerInv'
    BY <1>1, <1>3 DEF HeardInv, NewerInv
  <2> QED BY <2>1, <2>2 DEF HeardInv
<1>4. CASE req_pin_handler
  <2>1. req = "armed" /\ req_evt /\ tcall["abort"].step = "none"
    BY <1>0, <1>4, NotInAbort DEF req_pin_handler
  <2>2. tx_buf # 0 /\ ~tx_active /\ (uart_tx.pkt = 0 \/ uart_tx.aborted)
    BY <2>1 DEF TxInv, TransferInv, At
  <2>3. CASE uart_tx.pkt = 0
    <3>1. /\ tx_active' /\ uart_rx' = uart_rx /\ UNCHANGED <<chunks, sent, accepted, tx_buf>>
          /\ uart_tx' = [pkt |-> tx_buf, sent |-> 0, aborted |-> FALSE]
      BY <1>4, <2>2, <2>3 DEF req_pin_handler
    <3>2. PiecesInv'
      BY <1>0, <3>1, NothingHeard DEF HeardInv
    <3>3. NewerInv'
      BY <1>1, <2>2, <3>1 DEF HeardInv, NewerInv
    <3> QED BY <3>2, <3>3 DEF HeardInv
  <2>4. CASE uart_tx.pkt # 0
    <3>1. UNCHANGED <<chunks, sent, uart_rx, accepted, uart_tx>> /\ tx_buf' = 0
      BY <1>4, <2>2, <2>4 DEF req_pin_handler
    <3> QED BY <1>3, <2>2, <2>4, <3>1 DEF Sending
  <2> QED BY <2>3, <2>4
<1>5. CASE UartTxDone
  <2>1. /\ uart_tx' = [pkt |-> 0, sent |-> 0, aborted |-> FALSE] /\ tx_complete
        /\ UNCHANGED <<uart_rx, chunks, accepted>> /\ sent' = sent \cup {uart_tx.pkt}
        /\ Sending /\ uart_tx.sent = PacketLen
    BY <1>5 DEF UartTxDone, NoTransfer, Sending
  <2>2. tcall["abort"].step = "none"
    BY <1>0, <1>5, NotInAbort DEF UartTxDone
  <2>3. uart_rx.data = Prefix(uart_tx.pkt, PacketLen)
    BY <2>1, <2>2, SendingWhen DEF LinkInv
  <2>4. ASSUME NEW i \in 1 .. Len(chunks) PROVE Part(chunks[i])'
    BY <2>1 DEF HeardInv, PiecesInv, Part
  <2>5. uart_rx.data # <<>> => Part(uart_rx.data)'
    BY <2>1 DEF HeardInv, PiecesInv, Part
  <2>6. PiecesInv'
    BY <1>0, <2>1, <2>3, <2>4, <2>5 DEF HeardInv, PiecesInv
  <2>7. NewerInv'
    BY <2>1, Completed DEF NewerInv, Sending
  <2> QED BY <2>6, <2>7 DEF HeardInv
<1>6. CASE UartTxAborted
  <2>1. /\ UNCHANGED <<tx_buf, tx_active, uart_rx, chunks, sent, accepted>>
        /\ uart_tx' = [pkt |-> 0, sent |-> 0, aborted |-> FALSE]
    BY <1>6 DEF UartTxAborted, NoTransfer, rxVars
  <2> QED BY <1>3, <2>1 DEF Sending
<1>7. ASSUME NEW t, TakeBuf(t), UNCHANGED <<tx_active, uart_tx, uart_rx, chunks, sent>>
      PROVE  HeardInv'
  <2>1. tx_buf' = accepted + 1 /\ accepted' = accepted + 1
    BY <1>7 DEF TakeBuf
  <2>2. PiecesInv'
    BY <1>0, <1>7, <2>1, NothingHeard DEF HeardInv
  <2>3. \A i \in 1 .. Len(chunks) : First(chunks[i]) \in 1 .. accepted
    BY <1>0, PartIs DEF HeardInv, PiecesInv
  <2>4. uart_rx.data # <<>> => First(uart_rx.data) \in 1 .. accepted
    BY <1>0, PartIs DEF HeardInv, PiecesInv
  <2>5. (\A i \in 1 .. Len(chunks) : First(chunks[i]) < accepted + 1)
        /\ (uart_rx.data # <<>> => First(uart_rx.data) < accepted + 1)
    BY <1>0, <2>3, <2>4
  <2>6. NewerInv'
    BY <1>1, <1>7, <2>1, <2>5 DEF HeardInv, NewerInv, Sending
  <2> QED BY <2>2, <2>6 DEF HeardInv
<1>8. CASE api_tx
  BY <1>7, <1>8 DEF api_tx, rxVars
<1>9. CASE PollTx
  <2>1. UNCHANGED <<tx_active, uart_tx, uart_rx, chunks, sent>>
    BY <1>9 DEF PollTx, rxVars
  <2>2. CASE TakeBuf("poll")
    BY <1>7, <2>1, <2>2
  <2>3. CASE UNCHANGED <<tx_buf, accepted>>
    BY <1>3, <2>1, <2>3 DEF Sending
  <2> QED BY <1>9, <2>2, <2>3 DEF PollTx
<1>10. CASE api_poll_out \/ api_tx_abort
  BY <1>3, <1>10 DEF api_poll_out, api_tx_abort, rxVars, history, Sending
<1>11. ASSUME NEW t \in Threads, TxStartTimer(t) \/ TxArm(t) PROVE HeardInv'
  BY <1>3, <1>11 DEF TxStartTimer, TxArm, rxVars, history, Sending
<1>12. CASE AbortCompletes
  <2>1. tx_complete /\ UNCHANGED <<chunks, sent, uart_rx, uart_tx, accepted>>
    BY <1>12 DEF AbortCompletes, history
  <2> QED BY <1>3, <2>1, Completed DEF Sending
<1>13. CASE AbortReturns
  <2>1. UNCHANGED <<tx_buf, tx_active, uart_rx, chunks, sent, accepted>>
    BY <1>13 DEF AbortReturns, rxVars
  <2>2. uart_tx'.pkt = uart_tx.pkt /\ uart_tx'.aborted = (uart_tx.pkt # 0)
    BY <1>0, <1>13 DEF AbortReturns, AbortUart, TxTypes
  <2>3. ~Sending'
    BY <2>2 DEF Sending
  <2> QED BY <1>3, <2>1, <2>3
<1>14. CASE tx_timeout
  <2>1. ~tx_active
    BY <1>14 DEF tx_timeout, TxInv, TransferInv
  <2>2. tx_complete /\ UNCHANGED <<uart_tx, uart_rx, chunks, sent, accepted>>
    BY <1>14, <2>1 DEF tx_timeout
  <2> QED BY <1>3, <2>2, Completed DEF Sending
<1> QED
  BY <1>2, <1>4, <1>5, <1>6, <1>8, <1>9, <1>10, <1>11, <1>12, <1>13, <1>14 DEF TxStep, Transmitter

\* The receiver becomes active only when no transfer is being sent.
LEMMA ActivatesUnsent ==
    ASSUME DisablesBetween, TxInv, RxInv, LinkInv, RxStep, Sending, rx_state' = "ACTIVE"
    PROVE  rx_state = "ACTIVE"
<1> SUFFICES ASSUME rx_state # "ACTIVE" PROVE FALSE
  OBVIOUS
<1>1. ~tx_active /\ req = "low"
  BY SendingWhen DEF LinkInv
<1>2. CASE RequestDetected
  BY <1>1, <1>2 DEF RequestDetected, LinkInv, RxInv
<1>3. CASE ClockStarted
  BY <1>1, <1>3 DEF ClockStarted, LinkInv, RxInv, RxTypes
<1>4. CASE BlinkEnds \/ EndDetected \/ UartRxReady
  BY <1>4 DEF BlinkEnds, EndDetected, UartRxReady, RxInv, RxTypes
<1>5. CASE UartRxDisabled \/ EnableIdle \/ RdyPinArms \/ DisableUart \/ api_rx_buf_rsp \/ api_rx_enable
           \/ api_rx_disable
  BY <1>5 DEF UartRxDisabled, EnableIdle, RdyPinArms, DisableUart, api_rx_buf_rsp, api_rx_enable,
     api_rx_disable, ToIdle
<1> QED
  BY <1>2, <1>3, <1>4, <1>5 DEF RxStep, Receiver

\* Every step of the receiver keeps what was heard in order.
LEMMA HeardRxStep ==
    ASSUME DisablesBetween, TxInv, RxInv, LinkInv, HeardInv, RxStep
    PROVE  HeardInv'
<1>1. UNCHANGED <<tx_buf, tx_active, uart_tx, accepted, sent>>
  BY RxLeavesTx
<1>2. /\ uart_rx.state \in {"off", "on", "stopping", "stopped"} /\ accepted \in Nat
      /\ uart_rx.data \in Seq(Bytes)
  BY LpAssumption DEF RxInv, RxTypes, TxInv, TxTypes
<1>3. CASE UartRxReady
  <2>1. /\ rx_state = "TO_IDLE" /\ rx_state' = rx_state /\ uart_rx'.data = <<>>
        /\ chunks' = IF uart_rx.data = <<>> THEN chunks ELSE Append(chunks, uart_rx.data)
    BY <1>3 DEF UartRxReady, RxInv
  <2>2. CASE uart_rx.data = <<>>
    <3>1. PiecesInv'
      BY <1>1, <1>2, <2>1, <2>2, NothingHeard DEF HeardInv
    <3>2. NewerInv'
      BY <1>1, <2>1, <2>2 DEF HeardInv, NewerInv
    <3> QED BY <3>1, <3>2 DEF HeardInv
  <2>3. CASE uart_rx.data # <<>>
    <3>1. chunks \in Seq(Seq(Bytes))
      BY DEF HeardInv, PiecesInv
    <3>2. /\ chunks' \in Seq(Seq(Bytes)) /\ Len(chunks') = Len(chunks) + 1 /\ Len(chunks) \in Nat
          /\ \A i \in 1 .. Len(chunks) : chunks'[i] = chunks[i]
          /\ chunks'[Len(chunks) + 1] = uart_rx.data
      BY <1>2, <2>1, <2>3, <3>1, AppendProperties
    <3>3. \A i \in 1 .. Len(chunks') : i \in 1 .. Len(chunks) \/ i = Len(chunks) + 1
      BY <3>2
    <3>4. Part(uart_rx.data) /\ \A i \in 1 .. Len(chunks) : First(chunks[i]) < First(uart_rx.data)
      BY <2>3 DEF HeardInv, PiecesInv
    <3>5. ASSUME NEW i \in 1 .. Len(chunks') PROVE Part(chunks[i])'
      <4>1. Part(chunks'[i])
        BY <3>2, <3>3, <3>4 DEF HeardInv, PiecesInv
      <4> QED BY <1>1, <4>1 DEF Part
    <3>6. ASSUME NEW i \in 1 .. Len(chunks'), NEW j \in 1 .. Len(chunks'), i < j
          PROVE  First(chunks'[i]) < First(chunks'[j])
      <4>1. i \in 1 .. Len(chunks)
        BY <3>2, <3>6
      <4>2. CASE j \in 1 .. Len(chunks)
        BY <3>2, <3>6, <4>1, <4>2 DEF HeardInv, PiecesInv
      <4>3. CASE j = Len(chunks) + 1
        BY <3>2, <3>4, <4>1, <4>3
      <4> QED BY <3>3, <4>2, <4>3
    <3>7. ASSUME NEW p \in sent PROVE \E i \in 1 .. Len(chunks') : chunks'[i] = Prefix(p, PacketLen)
      <4>1. CASE uart_rx.data = Prefix(p, PacketLen)
        <5>1. Len(chunks) + 1 \in 1 .. Len(chunks')
          BY <3>2
        <5> QED BY <3>2, <4>1, <5>1
      <4>2. CASE \E i \in 1 .. Len(chunks) : chunks[i] = Prefix(p, PacketLen)
        <5>1. PICK i \in 1 .. Len(chunks) : chunks[i] = Prefix(p, PacketLen)
          BY <4>2
        <5>2. i \in 1 .. Len(chunks')
          BY <3>2
        <5> QED BY <3>2, <5>1, <5>2
      <4> QED BY <4>1, <4>2 DEF HeardInv, PiecesInv
    <3>8. sent \subseteq Nat
      BY DEF HeardInv, PiecesInv
    <3>9. PiecesInv'
      BY <1>1, <2>1, <3>2, <3>5, <3>6, <3>7, <3>8 DEF PiecesInv, First
    <3>10. tx_buf # 0 /\ ~tx_active => \A i \in 1 .. Len(chunks') : First(chunks'[i]) < tx_buf
      BY <2>3, <3>2, <3>3 DEF HeardInv, NewerInv
    <3>11. NewerInv'
      BY <1>1, <2>1, <3>10 DEF NewerInv, First
    <3> QED BY <3>9, <3>11 DEF HeardInv
  <2> QED BY <2>2, <2>3
<1>4. ASSUME UNCHANGED chunks, uart_rx'.data = uart_rx.data PROVE HeardInv'
  <2>1. PiecesInv'
    BY <1>1, <1>2, <1>4, NothingHeard DEF HeardInv
  <2>2. Sending' /\ rx_state' = "ACTIVE" => Sending /\ rx_state = "ACTIVE"
    BY <1>1, ActivatesUnsent DEF Sending
  <2>3. NewerInv'
    BY <1>1, <1>4, <2>2 DEF HeardInv, NewerInv
  <2> QED BY <2>1, <2>3 DEF HeardInv
<1>5. (activate_rx \/ StopUart \/ uart_rx' = uart_rx) => uart_rx'.data = uart_rx.data
  BY DEF activate_rx, StopUart, LinkInv, RxInv, RxTypes
<1>6. CASE RequestDetected \/ ClockStarted \/ BlinkEnds \/ EndDetected
  <2>1. (activate_rx \/ StopUart \/ uart_rx' = uart_rx) /\ chunks' = chunks
    BY <1>6 DEF RequestDetected, ClockStarted, BlinkEnds, EndDetected, deactivate_rx, history
  <2> QED BY <1>4, <1>5, <2>1
<1>7. CASE EnableIdle \/ RdyPinArms \/ DisableUart \/ api_rx_buf_rsp \/ api_rx_enable \/ api_rx_disable
  <2>1. (StopUart \/ uart_rx' = uart_rx) /\ chunks' = chunks
    BY <1>7 DEF EnableIdle, RdyPinArms, DisableUart, api_rx_buf_rsp, api_rx_enable, api_rx_disable, history
  <2> QED BY <1>4, <1>5, <2>1
<1>8. CASE UartRxDisabled
  <2>1. uart_rx.state = "stopped" /\ uart_rx'.data = <<>> /\ chunks' = chunks
    BY <1>8 DEF UartRxDisabled, history
  <2> QED BY <1>4, <2>1 DEF LinkInv
<1> QED
  BY <1>3, <1>6, <1>7, <1>8 DEF RxStep, Receiver

\* After a reset nothing was sent and nothing heard.
LEMMA LinkInit == LpInit => LinkInv /\ HeardInv
<1> SUFFICES ASSUME LpInit PROVE LinkInv /\ HeardInv
  OBVIOUS
<1>1. /\ req = "low" /\ uart_tx.pkt = 0 /\ tx_buf = 0 /\ uart_rx.data = <<>> /\ chunks = <<>>
      /\ sent = {}
  BY DEF LpInit
<1>2. LinkInv
  BY <1>1 DEF LinkInv, Sending
<1>3. chunks \in Seq(Seq(Bytes)) /\ Len(chunks) = 0
  BY <1>1
<1>4. HeardInv
  BY <1>1, <1>3 DEF HeardInv, PiecesInv, NewerInv, Sending
<1> QED BY <1>2, <1>4

\* Every transfer that ended with UART_TX_DONE was received whole, and what
\* the receiving application gets are beginnings of packets, each of a later
\* packet than the one before, whatever the order in which the two devices
\* run their handlers, time out, abort and disable.
THEOREM LpReceivedWholeAndApart ==
    ASSUME Prompt, DisablesBetween
    PROVE  LpSpec => []ReceivedWholeAndApart
<1> DEFINE Inv == TxInv /\ RxInv /\ LinkInv /\ HeardInv
<1>1. LpInit => Inv
  BY TxInvInit, LpInitTypes, LinkInit
<1>2. ASSUME Inv, [LpNext]_vars PROVE Inv'
  <2>1. TxInv'
    BY <1>2, TxInvStep
  <2>2. RxInv'
    BY <1>2, RxInvStep DEF TxInv
  <2>3. CASE UNCHANGED vars
    <3>1. LinkInv'
      BY <1>2, <2>3 DEF LinkInv, Sending, vars, txVars, rxVars, history
    <3>2. PiecesInv'
      BY <1>2, <2>3 DEF HeardInv, PiecesInv, Part, First, vars, txVars, rxVars, history
    <3>3. NewerInv'
      BY <1>2, <2>3 DEF HeardInv, NewerInv, Sending, vars, txVars, rxVars, history
    <3> QED BY <2>1, <2>2, <3>1, <3>2, <3>3 DEF HeardInv
  <2>4. CASE TxStep
    BY <1>2, <2>1, <2>2, <2>4, LinkTxStep, HeardTxStep
  <2>5. CASE RxStep
    BY <1>2, <2>1, <2>2, <2>5, LinkRxStep, HeardRxStep
  <2> QED BY <1>2, <2>3, <2>4, <2>5 DEF LpNext, TxStep, RxStep
<1>3. Inv => ReceivedWholeAndApart
  <2> SUFFICES ASSUME Inv PROVE ReceivedWholeAndApart
    OBVIOUS
  <2>1. /\ chunks \in Seq(Seq(Bytes)) /\ uart_rx.data \in Seq(Bytes) /\ accepted \in Nat
        /\ PacketLen \in Nat /\ Len(chunks) \in Nat
    BY LpAssumption DEF HeardInv, PiecesInv, RxInv, RxTypes, TxInv, TxTypes
  <2>2. /\ DOMAIN Heard = 1 .. Len(chunks) + 1 /\ Heard[Len(chunks) + 1] = uart_rx.data
        /\ \A i \in 1 .. Len(chunks) : Heard[i] = chunks[i]
    BY <2>1, AppendProperties DEF Heard
  <2>3. \A i \in DOMAIN Heard : i \in 1 .. Len(chunks) \/ i = Len(chunks) + 1
    BY <2>1, <2>2
  <2>4. \A i \in DOMAIN Heard : Heard[i] # <<>> => Part(Heard[i])
    BY <2>2, <2>3 DEF HeardInv, PiecesInv
  <2>5. ASSUME NEW p \in sent PROVE \E i \in DOMAIN Heard : Heard[i] = Whole(p)
    <3>1. Whole(p) = Prefix(p, PacketLen)
      BY DEF Whole, Prefix
    <3>2. Len(chunks) + 1 \in DOMAIN Heard /\ \A i \in 1 .. Len(chunks) : i \in DOMAIN Heard
      BY <2>1, <2>2
    <3> QED BY <2>2, <3>1, <3>2 DEF HeardInv, PiecesInv
  <2>6. ASSUME NEW i \in DOMAIN Heard, Heard[i] # <<>>
        PROVE  Heard[i] = SubSeq(Whole(Heard[i][1][1]), 1, Len(Heard[i]))
    <3>1. /\ First(Heard[i]) \in 1 .. accepted /\ Len(Heard[i]) \in 1 .. PacketLen
          /\ Heard[i] = Prefix(First(Heard[i]), Len(Heard[i]))
      BY <2>1, <2>4, <2>6, PartIs
    <3>2. PICK p \in Nat : p = First(Heard[i])
      BY <2>1, <3>1
    <3>3. PICK n \in 0 .. PacketLen : n = Len(Heard[i])
      BY <2>1, <3>1
    <3>4. SubSeq(Whole(p), 1, n) = Prefix(p, n)
      BY PrefixOfWhole
    <3> QED BY <3>1, <3>2, <3>3, <3>4 DEF First
  <2>7. ASSUME NEW i \in DOMAIN Heard, NEW j \in DOMAIN Heard, i < j, Heard[j] # <<>>
        PROVE  Heard[i][1][1] < Heard[j][1][1]
    <3>1. i \in 1 .. Len(chunks)
      BY <2>1, <2>2, <2>7
    <3>2. CASE j \in 1 .. Len(chunks)
      BY <2>2, <2>7, <3>1, <3>2 DEF HeardInv, PiecesInv, First
    <3>3. CASE j = Len(chunks) + 1
      BY <2>2, <2>7, <3>1, <3>3 DEF HeardInv, PiecesInv, First
    <3> QED BY <2>3, <3>2, <3>3
  <2> QED
    BY <2>5, <2>6, <2>7 DEF ReceivedWholeAndApart
<1> QED
  BY <1>1, <1>2, <1>3, PTL DEF LpSpec
=============================================================================
