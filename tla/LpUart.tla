------------------------------- MODULE LpUart -------------------------------
(***************************************************************************)
(* The software low-power UART: drivers/serial/uart_nrf_sw_lpuart.c with   *)
(* its asynchronous API, as the transmitter of one device and the receiver *)
(* of another, joined by one control line (REQ of the first, RDY of the    *)
(* second) and the wire.  The two devices run concurrently.  On each, the  *)
(* handlers of the pins, the UART and the timer have one priority and do   *)
(* not interrupt each other; they interrupt the threads, so that a call is *)
(* as many steps as it touches what the handlers use.                      *)
(*                                                                         *)
(* A packet is its number; its bytes are numbered.  The receive buffer     *)
(* holds the largest packet (the first of the two ways the user guide      *)
(* offers), so no buffer is requested in the middle of one.                *)
(***************************************************************************)
EXTENDS Naturals, Sequences

CONSTANTS
    PacketLen,      \* bytes of a packet
    HfxoOnRx,       \* CONFIG_NRF_SW_LPUART_HFXO_ON_RX
    SlowCaller,     \* whether a timeout may expire before api_tx has armed
                    \* the pin
    SafeAbort,      \* whether transfers are aborted only by a handler, only
                    \* once uart_tx has returned, and only once the UART has
                    \* reported the end of a transfer aborted before
    DisableIn,      \* the receiver states in which the application disables
    MaxPackets,     \* bound: transfers accepted
    MaxAborts,      \* bound: calls of api_tx_abort
    MaxDisables     \* bound: calls of api_rx_disable

RxStates == {"OFF", "IDLE", "PREPARE", "ACTIVE", "TO_IDLE", "BLOCKED", "TO_OFF"}

ASSUME LpAssumption ==
    /\ PacketLen \in Nat \ {0}
    /\ HfxoOnRx \in BOOLEAN /\ SlowCaller \in BOOLEAN /\ SafeAbort \in BOOLEAN
    /\ DisableIn \subseteq RxStates
    /\ MaxPackets \in Nat /\ MaxAborts \in Nat /\ MaxDisables \in Nat

VARIABLES
    \* The transmitting device.
    tx_buf,         \* the packet of the current transfer, 0 for NULL
    tx_active,
    txbyte,         \* txbyte holds a byte of api_poll_out
    tx_timer,       \* the timer runs
    req,            \* the pin: "low" output, "armed" or "set" input, pulled up
    req_evt,        \* GPIOTE has seen the line fall
    uart_tx,        \* the UART's transfer: packet (0: none), bytes sent,
                    \* whether it is being aborted
    tcall,          \* per thread: the call in progress
    \* The receiving device.
    rx_state, rx_got_data,
    rx_buf,         \* rx_buf # NULL
    rdy,            \* what the pin's trigger detects: "none", "HIGH", "HITOLO"
    rdy_evt,        \* it has detected it
    rdy_low,        \* the pin is driven low: the blink
    clk,            \* clock requests not answered yet
    uart_rx,        \* the UART: "off", "on", "stopping", "stopped", its bytes
    rcall,          \* the call in progress
    rx_user,        \* the application has the receiver enabled
    \* History.
    accepted, polls,    \* transfers accepted; those of api_poll_out
    sent,               \* transfers the UART has completed
    reports,            \* per transfer, the events the application got
    dropped,            \* transfers given up since the UART still aborts
                        \* one before them
    deaf,               \* the pin was armed for requests over a reception
    chunks,             \* what the receiving application got, in order
    aborts, disables

txVars == <<tx_buf, tx_active, txbyte, tx_timer, req, req_evt, uart_tx, tcall>>
rxVars == <<rx_state, rx_got_data, rx_buf, rdy, rdy_evt, rdy_low, clk, uart_rx,
            rcall, rx_user>>
history == <<accepted, polls, sent, reports, dropped, deaf, chunks, aborts, disables>>
vars == <<txVars, rxVars, history>>

Threads == {"tx", "poll", "abort"}
Idle == [step |-> "none", buf |-> 0]
Byte(p, i) == <<p, i>>
Whole(p) == [i \in 1 .. PacketLen |-> Byte(p, i)]

LpInit ==
    /\ tx_buf = 0 /\ tx_active = FALSE /\ txbyte = FALSE /\ tx_timer = FALSE
    /\ req = "low" /\ req_evt = FALSE
    /\ uart_tx = [pkt |-> 0, sent |-> 0, aborted |-> FALSE]
    /\ tcall = [t \in Threads |-> Idle]
    /\ rx_state = "OFF" /\ rx_got_data = FALSE /\ rx_buf = FALSE
    /\ rdy = "none" /\ rdy_evt = FALSE /\ rdy_low = FALSE /\ clk = 0
    /\ uart_rx = [state |-> "off", data |-> <<>>]
    /\ rcall = "none" /\ rx_user = FALSE
    /\ accepted = 0 /\ polls = {} /\ sent = {}
    /\ reports = [p \in 1 .. MaxPackets |-> <<>>]
    /\ dropped = {} /\ deaf = FALSE
    /\ chunks = <<>> /\ aborts = 0 /\ disables = 0

-----------------------------------------------------------------------------
(* The line, which either side can hold low and the transmitter pulls up.  *)
High == req # "low" /\ ~rdy_low

\* req_pin_idle: the receiver's GPIOTE sees the line fall.
ReqPinIdle ==
    /\ req' = "low"
    /\ rdy_evt' = (rdy_evt \/ (rdy = "HITOLO" /\ High))

\* A plausible error: what was detected earlier is not cleared.
ReqPinArmStale ==
    /\ req' = "armed" /\ UNCHANGED req_evt
    /\ rdy_evt' = (rdy_evt \/ (rdy = "HIGH" /\ ~rdy_low))
\* req_pin_arm: the line rises, unless the receiver holds it.
ReqPinArm ==
    /\ req' = "armed" /\ req_evt' = FALSE
    /\ rdy_evt' = (rdy_evt \/ (rdy = "HIGH" /\ ~rdy_low))

\* rdy_pin_idle and rdy_pin_suspend.
RdyPinIdle == rdy' = "HIGH" /\ rdy_evt' = High
RdyPinSuspend == rdy' = "none" /\ rdy_evt' = FALSE

-----------------------------------------------------------------------------
(* The transmitter.                                                        *)
InAbort == tcall["abort"].step # "none"
TxIsr == ~(SafeAbort /\ InAbort)

Report(p, e) ==
    reports' = IF p = 0 THEN reports ELSE [reports EXCEPT ![p] = Append(@, e)]

\* user_callback, or the end of api_poll_out's byte.
ReportTo(p, e) ==
    IF p \in polls
    THEN txbyte' = FALSE /\ UNCHANGED reports
    ELSE Report(p, e) /\ UNCHANGED txbyte

\* tx_complete: while a transfer is active it waits for the end of the blink.
tx_complete ==
    /\ tx_active => High
    /\ ReqPinIdle
    /\ tx_buf' = 0
    /\ tx_active' = FALSE

Call(t, step, p) == tcall' = [tcall EXCEPT ![t] = [step |-> step, buf |-> p]]
Return(t) == tcall' = [tcall EXCEPT ![t] = Idle]
At(t, step) == tcall[t].step = step
Arming == \E t \in Threads : tcall[t].step \in {"tx_timer", "tx_arm"}

\* api_tx: the buffer is taken, the timer started, the pin armed.
TakeBuf(t) ==
    /\ accepted < MaxPackets
    /\ tx_buf = 0
    /\ tx_buf' = accepted + 1
    /\ accepted' = accepted + 1
    /\ Call(t, "tx_timer", accepted + 1)

api_tx ==
    /\ At("tx", "none") /\ TxIsr
    /\ TakeBuf("tx")
    /\ UNCHANGED <<tx_active, txbyte, tx_timer, req, req_evt, uart_tx, rxVars,
                   polls, sent, reports, dropped, deaf, chunks, aborts,
                   disables>>

TxStartTimer(t) ==
    /\ At(t, "tx_timer") /\ TxIsr
    /\ tx_timer' = TRUE
    /\ Call(t, "tx_arm", tcall[t].buf)
    /\ UNCHANGED <<tx_buf, tx_active, txbyte, req, req_evt, uart_tx, rxVars, history>>

TxArm(t) ==
    /\ At(t, "tx_arm") /\ TxIsr
    /\ ReqPinArm
    /\ Return(t)
    /\ UNCHANGED <<tx_buf, tx_active, txbyte, tx_timer, uart_tx, rx_state,
                   rx_got_data, rx_buf, rdy, rdy_low, clk, uart_rx, rcall,
                   rx_user, history>>

\* api_poll_out waits until no transfer is current and takes txbyte, then
\* calls api_tx, which may find that another transfer came first.
api_poll_out ==
    /\ At("poll", "none") /\ TxIsr
    /\ accepted < MaxPackets
    /\ tx_buf = 0 /\ ~txbyte
    /\ txbyte' = TRUE
    /\ Call("poll", "poll_tx", 0)
    /\ UNCHANGED <<tx_buf, tx_active, tx_timer, req, req_evt, uart_tx, rxVars, history>>

PollTx ==
    /\ At("poll", "poll_tx") /\ TxIsr
    /\ \/ /\ TakeBuf("poll")
          /\ polls' = polls \cup {accepted + 1}
          /\ UNCHANGED txbyte
       \/ /\ tx_buf # 0 \/ accepted = MaxPackets
          /\ txbyte' = FALSE
          /\ Return("poll")
          /\ UNCHANGED <<tx_buf, accepted, polls>>
    /\ UNCHANGED <<tx_active, tx_timer, req, req_evt, uart_tx, rxVars, sent,
                   reports, dropped, deaf, chunks, aborts, disables>>

\* req_pin_handler: the receiver has blinked.
req_pin_handler ==
    /\ req = "armed" /\ req_evt /\ TxIsr
    /\ req_evt' = FALSE
    /\ \/ /\ tx_buf = 0
          /\ tx_complete
          /\ UNCHANGED <<tx_timer, uart_tx, dropped>>
       \/ /\ tx_buf # 0 /\ uart_tx.pkt = 0
          /\ req' = "set"
          /\ tx_timer' = FALSE
          /\ tx_active' = TRUE
          /\ uart_tx' = [pkt |-> tx_buf, sent |-> 0, aborted |-> FALSE]
          /\ UNCHANGED <<tx_buf, rdy_evt, dropped>>
       \/ /\ tx_buf # 0 /\ uart_tx.pkt # 0      \* uart_tx: -EBUSY
          /\ tx_timer' = FALSE
          /\ ~rdy_low
          /\ ReqPinIdle /\ tx_buf' = 0 /\ tx_active' = FALSE
          /\ dropped' = IF uart_tx.aborted THEN dropped \cup {tx_buf} ELSE dropped
          /\ UNCHANGED uart_tx
    /\ UNCHANGED <<txbyte, tcall, rx_state, rx_got_data, rx_buf, rdy, rdy_low,
                   clk, uart_rx, rcall, rx_user, accepted, polls, sent, reports,
                   deaf, chunks, aborts, disables>>

\* The UART sends a byte: it is received if the other UART is on.
UartSendsByte ==
    /\ uart_tx.pkt # 0 /\ ~uart_tx.aborted /\ uart_tx.sent < PacketLen
    /\ uart_tx' = [uart_tx EXCEPT !.sent = @ + 1]
    /\ uart_rx' = IF uart_rx.state = "on"
                  THEN [uart_rx EXCEPT
                        !.data = Append(@, Byte(uart_tx.pkt, uart_tx.sent + 1))]
                  ELSE uart_rx
    /\ UNCHANGED <<tx_buf, tx_active, txbyte, tx_timer, req, req_evt, tcall,
                   rx_state, rx_got_data, rx_buf, rdy, rdy_evt, rdy_low, clk,
                   rcall, rx_user, history>>

\* uart_callback: UART_TX_DONE, UART_TX_ABORTED.
NoTransfer == uart_tx' = [pkt |-> 0, sent |-> 0, aborted |-> FALSE]
UartTxDone ==
    /\ uart_tx.pkt # 0 /\ ~uart_tx.aborted /\ uart_tx.sent = PacketLen /\ TxIsr
    /\ NoTransfer
    /\ tx_complete
    /\ ReportTo(uart_tx.pkt, "DONE")
    /\ sent' = sent \cup {uart_tx.pkt}
    /\ UNCHANGED <<tx_timer, req_evt, tcall, rx_state, rx_got_data, rx_buf,
                   rdy, rdy_low, clk, uart_rx, rcall, rx_user, accepted,
                   polls, dropped, deaf, chunks, aborts, disables>>

UartTxAborted ==
    /\ uart_tx.aborted /\ TxIsr
    /\ NoTransfer
    /\ Report(uart_tx.pkt, "ABORTED")
    /\ UNCHANGED <<tx_buf, tx_active, txbyte, tx_timer, req, req_evt, tcall,
                   rxVars, accepted, polls, sent, dropped, deaf, chunks,
                   aborts, disables>>

\* uart_tx_abort of the UART: nothing to abort is -EFAULT.
AbortUart == uart_tx' = [uart_tx EXCEPT !.aborted = (uart_tx.pkt # 0)]

\* tx_timeout: the receiver has not confirmed in time.
tx_timeout ==
    /\ tx_timer /\ TxIsr
    /\ SlowCaller \/ \A t \in Threads : ~At(t, "tx_arm")
    /\ tx_timer' = FALSE
    /\ \/ /\ tx_active
          /\ AbortUart
          /\ UNCHANGED <<tx_buf, tx_active, txbyte, req, rdy_evt, reports>>
       \/ /\ ~tx_active
          /\ tx_complete
          /\ ReportTo(tx_buf, "ABORTED")
          /\ UNCHANGED uart_tx
    /\ UNCHANGED <<req_evt, tcall, rx_state, rx_got_data, rx_buf, rdy,
                   rdy_low, clk, uart_rx, rcall, rx_user, accepted, polls,
                   sent, dropped, deaf, chunks, aborts, disables>>

\* api_tx_abort: it reads tx_buf and stops the timer, completes the transfer
\* with interrupts locked, and aborts the UART.
api_tx_abort ==
    /\ At("abort", "none") /\ aborts < MaxAborts /\ tx_buf # 0
    /\ SafeAbort => ~Arming /\ ~uart_tx.aborted
    /\ tx_timer' = FALSE
    /\ aborts' = aborts + 1
    /\ Call("abort", "abort_complete", tx_buf)
    /\ UNCHANGED <<tx_buf, tx_active, txbyte, req, req_evt, uart_tx, rxVars,
                   accepted, polls, sent, reports, dropped, deaf, chunks,
                   disables>>

AbortCompletes ==
    /\ At("abort", "abort_complete")
    /\ tx_complete
    /\ Call("abort", "abort_uart", tcall["abort"].buf)
    /\ UNCHANGED <<txbyte, tx_timer, req_evt, uart_tx, rx_state, rx_got_data,
                   rx_buf, rdy, rdy_low, clk, uart_rx, rcall, rx_user, history>>

\* A plausible error: the abort is reported although the UART will report it.
AbortReports ==
    /\ At("abort", "abort_uart")
    /\ AbortUart
    /\ Report(tcall["abort"].buf, "ABORTED")
    /\ Return("abort")
    /\ UNCHANGED <<tx_buf, tx_active, txbyte, tx_timer, req, req_evt, rxVars,
                   accepted, polls, sent, dropped, deaf, chunks, aborts,
                   disables>>
AbortReturns ==
    /\ At("abort", "abort_uart")
    /\ AbortUart
    /\ IF uart_tx.pkt = 0 THEN Report(tcall["abort"].buf, "ABORTED")
                          ELSE UNCHANGED reports
    /\ Return("abort")
    /\ UNCHANGED <<tx_buf, tx_active, txbyte, tx_timer, req, req_evt, rxVars,
                   accepted, polls, sent, dropped, deaf, chunks, aborts,
                   disables>>

-----------------------------------------------------------------------------
(* The receiver.                                                           *)
RxIsr == ~rdy_low   \* no handler is in the middle of a blink

\* deactivate_rx; the UART has something to stop or returns -EFAULT.
StopUart ==
    uart_rx' = IF uart_rx.state = "on" THEN [uart_rx EXCEPT !.state = "stopping"]
               ELSE uart_rx
deactivate_rx == rx_state' = "TO_IDLE" /\ StopUart

\* activate_rx, up to where the pin is driven low and its trigger enabled; the
\* transmitter's GPIOTE sees the line fall.
activate_rx ==
    \/ /\ ~rx_buf
       /\ rx_state' = "PREPARE"
       /\ RdyPinSuspend
       /\ UNCHANGED <<rx_got_data, uart_rx, rdy_low, req_evt>>
    \/ /\ rx_buf
       /\ rx_got_data' = FALSE
       /\ rx_state' = "ACTIVE"
       /\ uart_rx' = IF uart_rx.state = "off" THEN [state |-> "on", data |-> <<>>]
                     ELSE uart_rx
       /\ rdy_low' = TRUE
       /\ rdy' = "HITOLO" /\ rdy_evt' = FALSE
       /\ req_evt' = (req_evt \/ req = "armed")

\* rdy_pin_handler, high state: a request.
RequestDetected ==
    /\ rdy = "HIGH" /\ rdy_evt /\ RxIsr
    /\ \/ /\ rx_state = "IDLE" /\ HfxoOnRx
          /\ rx_state' = "PREPARE"
          /\ clk' = clk + 1
          /\ RdyPinSuspend
          /\ UNCHANGED <<rx_got_data, uart_rx, rdy_low, req_evt>>
       \/ /\ rx_state = "IDLE" /\ ~HfxoOnRx
          /\ activate_rx
          /\ UNCHANGED clk
       \/ /\ rx_state # "IDLE"
          /\ RdyPinSuspend
          /\ UNCHANGED <<rx_state, rx_got_data, uart_rx, rdy_low, clk, req_evt>>
    /\ UNCHANGED <<tx_buf, tx_active, txbyte, tx_timer, req, uart_tx, tcall,
                   rx_buf, rcall, rx_user, history>>

\* rx_hfclk_callback.
ClockStarted ==
    /\ clk > 0 /\ RxIsr
    /\ clk' = clk - 1
    /\ \/ ~rx_buf /\ UNCHANGED <<rx_state, rx_got_data, uart_rx, rdy, rdy_evt,
                                 rdy_low, req_evt>>
       \/ rx_buf /\ activate_rx
    /\ UNCHANGED <<tx_buf, tx_active, txbyte, tx_timer, req, uart_tx, tcall,
                   rx_buf, rcall, rx_user, history>>

\* A plausible error: the pin is not looked at after the blink.
BlinkEndsUnchecked ==
    /\ rdy_low
    /\ rdy_low' = FALSE
    /\ UNCHANGED <<txVars, rdy, rdy_evt, rx_state, uart_rx, rx_got_data, rx_buf,
                   clk, rcall, rx_user, history>>
\* The locked part of rdy_pin_blink: the pin is an input again.  If it is low
\* and has not fallen, the transmitter has withdrawn the request.
BlinkEnds ==
    /\ rdy_low
    /\ rdy_low' = FALSE
    /\ IF req = "low" /\ ~rdy_evt
       THEN RdyPinSuspend /\ deactivate_rx
       ELSE UNCHANGED <<rdy, rdy_evt, rx_state, uart_rx>>
    /\ UNCHANGED <<txVars, rx_got_data, rx_buf, clk, rcall, rx_user, history>>

\* A plausible error: requests are detected again before the UART is off.
EndDetectedArms ==
    /\ rdy = "HITOLO" /\ rdy_evt /\ RxIsr
    /\ rx_state' = "IDLE"
    /\ RdyPinIdle
    /\ StopUart
    /\ UNCHANGED <<txVars, rx_got_data, rx_buf, rdy_low, clk, rcall, rx_user, history>>
\* rdy_pin_handler, high to low: the end of a transfer.
EndDetected ==
    /\ rdy = "HITOLO" /\ rdy_evt /\ RxIsr
    /\ \/ /\ rx_state = "ACTIVE"
          /\ RdyPinSuspend
          /\ deactivate_rx
       \/ /\ rx_state # "ACTIVE"
          /\ rx_state' = "IDLE"
          /\ RdyPinIdle
          /\ UNCHANGED uart_rx
    /\ UNCHANGED <<txVars, rx_got_data, rx_buf, rdy_low, clk, rcall, rx_user, history>>

\* The UART hands over what it has: UART_RX_RDY, UART_RX_BUF_RELEASED.
UartRxReady ==
    /\ uart_rx.state = "stopping" /\ RxIsr
    /\ uart_rx' = [state |-> "stopped", data |-> <<>>]
    /\ rx_got_data' = (rx_got_data \/ uart_rx.data # <<>>)
    /\ chunks' = IF uart_rx.data = <<>> THEN chunks ELSE Append(chunks, uart_rx.data)
    /\ UNCHANGED <<txVars, rx_state, rx_buf, rdy, rdy_evt, rdy_low, clk,
                   rcall, rx_user, accepted, polls, sent, reports, dropped,
                   deaf, aborts, disables>>

\* UART_RX_DISABLED.  The application answers the buffer request at once, in
\* the handler, or later (api_rx_buf_rsp).
ToIdle == rx_state' = "IDLE" /\ RdyPinIdle
UartRxDisabled ==
    /\ uart_rx.state = "stopped" /\ RxIsr
    /\ uart_rx' = [state |-> "off", data |-> <<>>]
    /\ \/ rx_state = "TO_IDLE" /\ ToIdle /\ UNCHANGED <<rx_buf, rx_user>>
       \/ /\ rx_state = "TO_IDLE" /\ rx_got_data
          /\ rx_state' = "BLOCKED"
          /\ UNCHANGED <<rdy, rdy_evt, rx_buf, rx_user>>
       \/ /\ rx_state # "TO_IDLE"
          /\ rx_state' = "OFF"
          /\ rx_buf' = FALSE
          /\ rx_user' = FALSE
          /\ UNCHANGED <<rdy, rdy_evt>>
    /\ UNCHANGED <<txVars, rx_got_data, rdy_low, clk, rcall, history>>

api_rx_buf_rsp ==
    /\ rx_state = "BLOCKED" /\ rcall = "none" /\ RxIsr
    /\ rx_buf' = TRUE
    /\ rx_state' = "IDLE"
    /\ rcall' = "arm"
    /\ UNCHANGED <<txVars, rx_got_data, rdy, rdy_evt, rdy_low, clk, uart_rx, rx_user, history>>

api_rx_enable ==
    /\ ~rx_user /\ rcall = "none" /\ RxIsr
    /\ ~rx_buf
    /\ rx_buf' = TRUE
    /\ rx_user' = TRUE
    /\ rcall' = "enable"
    /\ UNCHANGED <<txVars, rx_state, rx_got_data, rdy, rdy_evt, rdy_low, clk,
                   uart_rx, history>>

EnableIdle ==
    /\ rcall = "enable" /\ RxIsr
    /\ rx_state' = "IDLE"
    /\ rcall' = "arm"
    /\ UNCHANGED <<txVars, rx_got_data, rx_buf, rdy, rdy_evt, rdy_low, clk,
                   uart_rx, rx_user, history>>

\* rdy_pin_idle, the last step of api_rx_enable and api_rx_buf_rsp.  A trigger
\* left armed by api_rx_disable may have started a reception before it.
RdyPinArms ==
    /\ rcall = "arm" /\ RxIsr
    /\ RdyPinIdle
    /\ rcall' = "none"
    /\ deaf' = (deaf \/ rx_state = "ACTIVE")
    /\ UNCHANGED <<txVars, rx_state, rx_got_data, rx_buf, rdy_low, clk,
                   uart_rx, rx_user, accepted, polls, sent, reports, dropped,
                   chunks, aborts, disables>>

api_rx_disable ==
    /\ rx_user /\ rcall = "none" /\ RxIsr
    /\ disables < MaxDisables /\ rx_state \in DisableIn
    /\ rx_state # "OFF"
    /\ rx_state' = "TO_OFF"
    /\ rcall' = "disable"
    /\ disables' = disables + 1
    /\ UNCHANGED <<txVars, rx_got_data, rx_buf, rdy, rdy_evt, rdy_low, clk,
                   uart_rx, rx_user, accepted, polls, sent, reports, dropped,
                   deaf, chunks, aborts>>

DisableUart ==
    /\ rcall = "disable" /\ RxIsr
    /\ rcall' = "none"
    /\ IF uart_rx.state = "off"
       THEN rx_state' = "OFF" /\ rx_buf' = FALSE /\ rx_user' = FALSE /\ UNCHANGED uart_rx
       ELSE StopUart /\ UNCHANGED <<rx_state, rx_buf, rx_user>>
    /\ UNCHANGED <<txVars, rx_got_data, rdy, rdy_evt, rdy_low, clk, history>>

-----------------------------------------------------------------------------
Transmitter ==
    \/ req_pin_handler \/ UartSendsByte \/ UartTxDone \/ UartTxAborted
    \/ PollTx \/ (\E t \in Threads : TxStartTimer(t) \/ TxArm(t))
    \/ AbortCompletes \/ AbortReturns
Receiver ==
    \/ RequestDetected \/ ClockStarted \/ BlinkEnds \/ EndDetected
    \/ UartRxReady \/ UartRxDisabled \/ EnableIdle \/ RdyPinArms \/ DisableUart
LpNext ==
    \/ Transmitter \/ tx_timeout \/ api_tx \/ api_poll_out \/ api_tx_abort
    \/ Receiver \/ api_rx_buf_rsp \/ api_rx_enable \/ api_rx_disable

LpSpec == LpInit /\ [][LpNext]_vars

\* Handlers run, calls go on, the UARTs and the clock work, the timer expires;
\* the receiving application enables the receiver and answers buffer requests.
LpFairness ==
    /\ WF_vars(Transmitter) /\ WF_vars(Receiver) /\ WF_vars(tx_timeout)
    /\ WF_vars(api_rx_buf_rsp) /\ WF_vars(api_rx_enable)
LpFairSpec == LpSpec /\ LpFairness

-----------------------------------------------------------------------------
\* The types of struct lpuart_data; the clock is never requested twice with
\* one rx_clk_cli (rx_hfclk_request).
LpTypeOK ==
    /\ tx_buf \in 0 .. MaxPackets /\ tx_active \in BOOLEAN
    /\ txbyte \in BOOLEAN /\ tx_timer \in BOOLEAN
    /\ req \in {"low", "armed", "set"} /\ req_evt \in BOOLEAN
    /\ uart_tx \in [pkt : 0 .. MaxPackets, sent : 0 .. PacketLen, aborted : BOOLEAN]
    /\ rx_state \in RxStates /\ rx_got_data \in BOOLEAN /\ rx_buf \in BOOLEAN
    /\ rdy \in {"none", "HIGH", "HITOLO"} /\ rdy_evt \in BOOLEAN
    /\ rdy_low \in BOOLEAN /\ clk \in 0 .. 1
    /\ uart_rx.state \in {"off", "on", "stopping", "stopped"}

\* Every transfer that ended with UART_TX_DONE was received whole, by a
\* receiver that was on from its first byte to its last and closed after it
\* (req_pin_handler against rdy_pin_blink, tx_complete against EndDetected).
\* What the receiving application gets at a time is the beginning of one
\* packet, each of a later packet than the one before: the end of a transfer
\* is never missed so that two are taken for one, and none is heard twice.
Heard == Append(chunks, uart_rx.data)
ReceivedWholeAndApart ==
    /\ \A p \in sent : \E i \in DOMAIN Heard : Heard[i] = Whole(p)
    /\ \A i \in DOMAIN Heard : Heard[i] = <<>>
            \/ Heard[i] = SubSeq(Whole(Heard[i][1][1]), 1, Len(Heard[i]))
    /\ \A i, j \in DOMAIN Heard : i < j /\ Heard[j] # <<>>
            => Heard[i][1][1] < Heard[j][1][1]

\* Every transfer api_tx accepted is reported by exactly one UART_TX_DONE or
\* UART_TX_ABORTED, in a race of timeout, confirmation, abort and end.  The
\* one exception: confirmed while the UART still aborts the transfer before,
\* it is given up with no event (the error branch of req_pin_handler).
UnderWay(p) ==
    tx_buf = p \/ uart_tx.pkt = p \/ \E t \in Threads : tcall[t].buf = p
ReportedOnce ==
    \A p \in (1 .. accepted) \ polls :
        /\ Len(reports[p]) <= 1
        /\ ~UnderWay(p) => (reports[p] # <<>> <=> p \notin dropped)

\* The assertion of api_rx_enable: an application that never enabled the
\* receiver, or was told that it is disabled, finds it off.
DisabledIsOff == ~rx_user => rx_state = "OFF"

\* The types and the assertions of the receiver: no request is detected while
\* it is active, uart_rx_enable finds the UART off, the UART is not disabled
\* while the receiver is off, and a disabled receiver stays off.  The first
\* fails in one case: a reception has begun before api_rx_enable, or
\* api_rx_buf_rsp, came from setting RX_IDLE to arming the pin.
RxAssertionsHold ==
    /\ LpTypeOK
    /\ DisabledIsOff
    /\ rdy = "HIGH" /\ rdy_evt /\ ~deaf => rx_state # "ACTIVE"
    /\ clk > 0 /\ rx_buf => uart_rx.state = "off"
    /\ uart_rx.state = "stopped" => rx_state # "OFF"

\* A current transfer ends, so that tx_buf is free again for the next one, and
\* the receiver does not stay in the middle of one, unless the pin was armed
\* for requests over the reception, which hides the end of the transfer.
BothReturnToRest ==
    /\ tx_buf # 0 ~> tx_buf = 0
    /\ []<>(rx_state \in {"OFF", "IDLE", "BLOCKED"} \/ deaf)
=============================================================================
