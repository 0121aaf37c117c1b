# Verification of nRF Connect SDK v2.9.0: protocols, storage and firmware update

TLA+ models of the subsystems of this repository that carry their own protocol
logic, model-checked with TLC and partly proved with TLAPS:

* **Enhanced ShockBurst (ESB)**, `subsys/esb/esb.c`: a packet radio protocol with
  acknowledgments, retransmission, duplicate detection and payloads that travel
  back with acknowledgments, driven by three execution contexts;
* **emergency data storage (EMDS)**, `subsys/emds/`: a store of entries that has
  to survive a power loss at any point;
* **firmware download**, `subsys/net/lib/download_client/`,
  `subsys/net/lib/fota_download/` and `subsys/dfu/dfu_target/`: a file fetched in
  fragments and written to flash by several threads, interrupted, cancelled,
  retried and resumed, also after a reset;
* **secure boot**, `samples/bootloader/` (NSIB), `subsys/bootloader/` and
  `subsys/fw_info/`: which image runs, with downgrade protection, key revocation
  and power losses;
* **software low-power UART (LPUART)**, `drivers/serial/uart_nrf_sw_lpuart.c`: a
  handshake of two devices over a single line;
* **nRF RPC over UART**, `subsys/nrf_rpc/nrf_rpc_uart.c`, in its reliable mode;
* **Quality of Service (QoS)**, `lib/qos/qos.c`: messages that wait for
  acknowledgments, and a delayed work item.

All file names below are relative to `src/`.

## 1. Inventory

The SDK is a collection of libraries, subsystems and drivers over Zephyr. What
follows names the parts whose logic is in this repository; `PROJECT.json` has
the complete list with the reason for each part that is left out.

| Part | State | Operations | What is hard |
|---|---|---|---|
| ESB, transmitter | `esb_state`, `tx_fifo`, `rx_fifo`, `pids`, `retransmits_remaining`, `last_tx_attempts`, `interrupt_flags`, `tx_payload_buffer` | write, start, read, flush, pop, init, settings; radio, timer and event interrupts | API checks outside `irq_lock()`, three priorities, unsigned wrap, 2-bit packet IDs |
| ESB, receiver | the same plus `rx_pipe_info`, `ack_pl_wrap_pipe` | start, stop, read, write, flush, pop, init; radio and event interrupts | loss and repetition, CRC collisions, full FIFO, when an attached payload counts as received |
| EMDS | flash area, `struct emds_fs`, `emds_ready`, the entry lists | init, entry_add, load, prepare, clear, store | power loss between any two flash operations, store from an interrupt, failing erase, 16-bit offsets |
| Firmware download, DFU target | download client's progress, offset, state and semaphore; FOTA's flags, retries and URI; the stream's buffer, count and saved progress | start, cancel; connect, request, receive, events; work item; write, done, reset, schedule | fragments against cancellation and reconnects; the resume offset against the flash; resets |
| Bootloader storage, NSIB | monotonic counter slots, key slots, two image slots | validate, revoke, record, boot; choice of the slot to update | power loss between two words, the active slot inferred from versions |
| LPUART | request and ready pins with latched edges, `tx_buf`, `tx_active`, `rx_state`, timer, clock request | tx, abort, poll_out, rx_enable, rx_disable, buffer response; pin, UART, timer and clock handlers | two devices and a line that either drives, timeouts, handlers that interrupt calls |
| nRF RPC UART | `ack_payload`, `ack_sem`, `ack_tx_lock`, flips, ring buffer, decoder | send; decode, acknowledge, filter, hand over | lost and late acknowledgments, one sequence bit, two writers to the line, restarts |
| QoS | `pending_list`, the work item | add, remove, notify_all, remove_all, timer_reset; timeout | calls between the work item's states, full list, buffers freed once |
| Event manager and its proxy, power manager, PCD | queues, timers, a shared command word | submit, process; suspend | submission from any context, another core |

Components interact as follows. An application thread, and the application's
event handler running in the event interrupt, call the ESB API; the radio
interrupt and the timer interrupt run the protocol and set `interrupt_flags`; the
event interrupt hands them to the application. Two nodes interact over the air
only. EMDS is called by the application's thread and, for the emergency store,
from the power failure interrupt; the flash is its only lasting state. The
download thread calls FOTA's callback for every event, which writes fragments to
the DFU target, and which may hand the download to a work item that restarts the
client from the target's offset; the application starts and cancels, and polls
flags that the callback clears. A scheduled image is copied by MCUboot and, when
it is a second stage, validated by NSIB at the next reset, which also decides
which slot the application has to download for. The two LPUART drivers interact
over the line and the wire only; the two RPC nodes over the wire, on each of
which a sending thread and a work queue share a lock and a semaphore. QoS is
called by any thread and calls the application back under its lock.

What makes each part correct:

* PTX: the ring buffers are consistent; what is sent is what is queued; no event
  is lost; the attempts reported are the transmissions of the last transaction,
  unless the radio has gone on to another; every transaction ends; a queued payload
  is not left behind.
* PRX and link: every packet is delivered once and in order, success means
  delivery, the same for payloads in acknowledgments.
* EMDS: a completed store is what the next load reads; a store that was cut short
  never yields older or mixed data; no flash block is programmed twice; readiness
  means room.
* Firmware download: what is stored is always the beginning of the file that is
  downloaded, the offset is its end, only a whole image is scheduled, and every
  download ends in one report after which a new one may begin (but for one race of
  the callback and the work item, section 3).
* Secure boot: no older image than one that ran, none signed with a revoked key, a
  device that always boots, and good updates that get to run.
* LPUART: a transfer reported as done was received whole and apart from others,
  each is reported once, and both sides come back to rest (two exceptions, section 3).
* nRF RPC UART: packets arrive in order and once, an acknowledged packet has
  arrived, as long as every damage is detected; and `send()` returns, with an error
  only when all attempts met losses.
* QoS: a message leaves the list exactly once, pending messages keep the timer
  running, and no message stays for ever.

The hazards, each at its line with the properties that watch it, are in
`PROJECT.json`.

## 2. Modules

| Module | Models | Extends |
|---|---|---|
| `EsbBase` | configuration, packets, CRC, ring buffers | |
| `EsbPtx` | `esb.c` in PTX mode, with an air that answers as it likes | `EsbBase` |
| `EsbPrx` | `esb.c` in PRX mode | `EsbBase` |
| `EsbLink` | a PTX, a PRX and the air | `EsbPtx`, `EsbPrx` |
| `EsbReliableLink` | abstract: what an acknowledged link promises | |
| `EsbPtxProofs` | theorems about `EsbPtx` | `EsbPtx` |
| `EsbLinkProofs` | theorems about `EsbLink` | `EsbLink`, `EsbPtxProofs` |
| `Emds` | `emds.c` and `emds_flash.c` | |
| `EmdsProofs` | theorems about `Emds` | `Emds` |
| `DownloadClient` | `download_client.c` and `http.c`: the download thread | |
| `DfuTarget` | `dfu_target.c`, `dfu_target_mcuboot.c` and `dfu_target_stream.c`, as operators on a record | |
| `Fota` | `fota_download.c`, the application and resets | `DownloadClient`, `DfuTarget` |
| `FotaImage` | abstract: what is promised about the image | |
| `FotaProofs` | theorems about `Fota` | `Fota` |
| `BlStorage` | the counter and the keys of `bl_storage.c` | |
| `SecureBoot` | NSIB, validation, slot selection, with MCUboot and the power | `BlStorage` |
| `SecureBootProofs` | theorems about `SecureBoot` | `SecureBoot` |
| `LpUart` | `uart_nrf_sw_lpuart.c` on a transmitting and a receiving device | |
| `LpUartProofs` | theorems about `LpUart` | `LpUart` |
| `RpcUart` | `nrf_rpc_uart.c` on two nodes | |
| `RpcUartProofs` | theorems about `RpcUart` | `RpcUart` |
| `Qos` | `qos.c` with two threads and its work item | |
| `QosProofs` | theorems about `Qos` | `Qos` |
| `MCEsbPtx`, `MCEsbLink`, `MCEmds`, `MCFota`, `MCSecureBoot`, `MCLpUart`, `MCRpcUart`, `MCQos` | values of the constants for TLC | |

### ESB

The contexts, in falling priority, are the radio interrupt, the event interrupt
with the application's handler (`"evt"`) and the thread (`"thread"`). A run of a
radio callback is one action, as nothing of the driver interrupts it. The API
functions test their conditions first and take `irq_lock()` then, so such a call
is two or three actions and `ptx_call[c]`, `prx_call[c]` hold what context `c`
has still to do (`PtxWriteCheck`, `PtxWriteEnqueue` and `PtxWriteStart` are
`esb_write_payload`). A lower context takes a step only while no higher one is
ready (`PtxRuns`, `PrxRuns`). `CONFIG_ESB_NEVER_DISABLE_TX` completes a packet in
the timer interrupt, which has the event interrupt's priority
(`on_radio_disabled_tx_noack` stands for both completions without acknowledgment).

| Variable | Code |
|---|---|
| `ptx_state`, `prx_state` | `esb_state` |
| `tx_fifo`, `ptx_rx_fifo`, `prx_rx_fifo` | `tx_fifo`, `rx_fifo`: slots, front, back, count |
| `tx_pdu`, `ack_pdu` | `tx_payload_buffer` on each side |
| `pipe_info`, `ack_pl`, `ack_count` | `rx_pipe_info`, the lists of `ack_pl_wrap_pipe`, `tx_fifo.count` |
| `ptx_flags`, `ptx_pending`, `ptx_evt` (and `prx_`) | `interrupt_flags`, the pending event interrupt, the progress of `esb_evt_irq_handler` |
| `written`, `sends`, `tries`, `gave_up`, `last_acked`, `ptx_got`, `delivered`, `ack_done`, `forgets`, and `rests` of `ptx_evt` | history, read by the properties (and by bounds) only |

`sends` counts the transmissions of the transaction under way, `tries` those of the
one that ended last; `ptx_evt.attempts` is what the event handler read from
`last_tx_attempts`, and `rests` whether the radio was at rest then.

A payload is its number in the order of writing. The CRC is a parameter `Crc`:
an arbitrary function, so that any two packets may collide. In the fixed-length
protocol the receiver reads the DPL view of a header in which those bits are
zero (`RxPid`, `RxAckBit`). The FIFO counters are unsigned and wrap at `UintMod`
(2^32 in the code).

`air` holds at most one PDU: the radio is half-duplex, and the retransmission
delay is required to be longer than the acknowledgment takes. Likewise the
window in which the PTX listens covers the answer; it closes on an answer or
when there is none. Loss, and a bad CRC, which the code treats alike, may happen
to any PDU. Applications re-initialise an idle module only, as `esb_disable`
leaves a running radio alone.

What an application calls is the constant `PtxCalls` or `PrxCalls`, a set of
`<<context, call>>` pairs. `write_idle` is a write after `esb_is_idle()`; `drain`
is the user guide's "completely empty the RX FIFO".

### EMDS

The flash is an array of write blocks; a block is erased, zero, data of an entry,
part of an allocation table entry (ATE), foreign (`junk`) or `clash`: programmed
while not erased. A step programs one block or erases one sector, and `PowerLoss`
is possible between any two. ATEs are invalidated by writing zeros, which is
possible on any block. The CRCs are taken to tell contents apart. `stores` numbers
the stores, and the number stands for the contents written. `thread`, `cursor`
are the call in progress; `isr`, `todo`, `block` the store in progress. The store
locks the interrupts: nothing but a power loss interrupts it.

`emds_entry_add` is two actions: the entry is in the list (`emds.c:133`) before
`emds_ready` is cleared (135), and a store may come between the two. `Reserved` is
the entries but for one that is being added, `Promised` the same with the static
ones.

An emergency store may come at any point of a call; the device then halts, as the
documentation requires. A planned store comes from the thread, and the
application goes on. `FlashFailsIn` says in which calls a write or an erase may
fail. `WhileReady` says whether the application prepares or clears while
`emds_is_ready()`.

Left out: the comparator code for erratum 242 (`suspend_pofwarn`,
`restore_pofwarn`), which is built for some chips only; RRAM, on which programming
a block again is harmless; `emds_store_time_get`, which changes nothing; entries
whose size changes between two firmware versions (`-ENOMEM` in
`emds_flash_read`).

### Firmware download

Four threads of control meet: the download thread, the work item, the application
and the power. `dlc` is `struct download_client`, `pc` the place of the download
thread, `evt` the event it calls back with and `ret` what the callback returned:
an event and its handling are two actions, between which the other threads may
act unless the code holds the client's mutex (`Locked`). `flags`, `retries`,
`uri`, `work` are the static variables of `fota_download.c`. The system work queue
is a cooperative thread: the work item interrupts the other threads anywhere and
stops only where it waits for the client's mutex. So it is two actions,
`download_with_offset`, which takes no lock, and `get_from_offset`, the call of
`download_client_get` (`item` holds its arguments); and `CLOSED` is handled in four,
with the flag operations apart: `OnClosed` sets `FLAG_CLOSED`, `StopsUnlessResumed`
tests `FLAG_RESUME` and clears `FLAG_DOWNLOADING`, `TestsError` and `TestsCancel`
are the rest of `stopped()`; `closing` is the place among them. `overtaken` is
history: the work item has cleared `FLAG_RESUME` between the first two. `dfu` is the
target: the slot, `bytes_written`, the buffer of `stream_flash` (external, as
used by the code), `stream_buf_bytes`, and the saved progress. A file is a
sequence of numbered units; a fragment, the write buffer and the slot have
lengths in units, which do not divide each other, as in the code. The server and
the network are external: a connection may be refused, end, or answer with a
faulty header; `MaxFaults` bounds how often. With `FlashFails` a write to the flash
or the erase of a target that is reset (`ResetFails`) may fail, with `DoneFails` the
erase of the page after a whole image or the call that schedules it.

`fota_download_cancel` is four actions, as it waits for `FLAG_DOWNLOADING`
between them. A reset (`Reboot`) may come at any point, also between the write
to the flash and the saving of the progress (`CutOff`).

Left out: CoAP, the modem and SMP targets, TLS and name resolution (their errors
are those of connecting), answers whose header exceeds the buffer, several images.

### Secure boot

`slot` is what the flash of S0 and S1 shows: whether `fw_info_find` finds the
structure, `fw_info.valid`, whether the image is otherwise good, whether the
EXT_APIs it requires are there, its version and its key. `pc` is the place in the
chain: `main`, the validation, the revocation key by key, the record of the
version, `bl_boot`, the second stage, its copying in two steps and the
application. `counter` and `keyValid` are one-time programmable: a counter slot
is written once, a key is only ever invalidated. Power may be lost between any two
writes. External: MCUboot, taken to reset after it copied an image for a slot of
NSIB, and a tool that rewrites a slot. An application finds the active slot by
`read_s0_active` or, with TF-M, by `tfm_platform_s0_active` (`NonSecure`).

### LPUART

The transmitter and the receiver are two devices; the control line is high when
neither drives it low, and each pin latches the edge it is armed for (`req_evt`,
`rdy_evt`). The handlers of a device do not interrupt each other, but they
interrupt the calls of threads, which therefore are several actions. The receiver
confirms by the blink: it drives the line low (`rdy_low`) and releases it. Bytes
move one at a time. `api_rx_enable` and `api_rx_buf_rsp` set `RX_IDLE` and arm the
pin in a second action (`RdyPinArms`), as the handler of the pin may run between.
`sent`, `reports`, `chunks` are history, and so are `dropped`, the transfers that
`req_pin_handler` gave up because the UART still aborted the one before, and
`deaf`, that the pin was armed for requests over a reception.

Left out: the interrupt-driven API, a second receive buffer within a packet,
initialisation, UARTs that return errors.

### nRF RPC UART

Packets are numbers, what goes over the line are tokens: delimiters, packets and
checksum fields, any of which may be damaged or lost, on the line or before a full
ring buffer. A frame is written in two parts, so that another one could get
between if the lock did not prevent it. `Crc` is a parameter. The field that
follows a packet, and is sent back as the acknowledgment, is 15 bits of the
checksum and the sequence bit. An acknowledgment carries no checksum, and
`crc_compare` ignores the sequence bit: so a damaged field may become any other
field (`AnyField`), which the receiver may take for a good one; `altered` counts
these. Damage to a packet is detected by its checksum. A wait that ends while something is under way that
could become the acknowledgment is a late one, bounded by `MaxLate`; a wait may
always end once nothing is (`Quiet`). `Restart` resets a node.

Left out: frames longer than the buffer, the unreliable mode, the core.

### QoS

What a call does under `ctx_lock` is one action; `qos_message_remove_all` takes
the lock twice and is two. The states of the delayed work item (waiting, queued,
running and about to return) are those of Zephyr's kernel. The pending list is a
set: no call depends on the order of its nodes. `events` is the history
of what the application's handler was called with, per message.

Left out: handlers that call the library, the wrap of IDs and counts.

## 3. Runs

| Run | Shows | Bounds |
|---|---|---|
| `esb_ptx_calls` | `PtxTypeOK`, `PtxFlagsNotLost`, `AttemptsExact`, `TransactionsReported` (liveness) | every API call (the thread sends, the handler reads, flushes the RX FIFO and reuses IDs), a TX FIFO of 2 and an RX FIFO of 1, 2 payloads, 1 in an acknowledgment, never-disable transmitter |
| `esb_link` | `PtxFifosConsistent`, `PrxQueuesConsistent`, `SendsQueuedPayload`, `SuccessMeansDelivered`, `AckPayloadsOnceInOrder`, `AckDoneWasReceived`, `ImplementsReliableLink` (exactly-once, in-order delivery) | 6 packets (the packet ID wraps after 4), 3 payloads back, FIFOs of 1 and 2, all CRCs equal |
| `esb_prx_calls` | `AutoModeDrains`, `RedeliveriesBounded` | every receiver call, 2 packets with or without acknowledgment, automatic mode, 1 call that forgets |
| `esb_live` | `EverythingSucceeds` (liveness) | fixed-length protocol, 5 packets |
| `emds` | `EmdsTypeOK`, `NoBlockReprogrammed`, `StoredIsLoaded`, `LoadNeverStale`, `ReadyFits` | 16 blocks in 2 sectors, ATEs of 2 blocks, 3 entries of 0, 1 and 2 blocks, 3 stores, 3 power losses, erased or foreign initial contents |
| `fota` | `OffsetIsEnd`, `OneReportPerDownload`, `ReadyAfterReport`, `ImplementsFotaImage`, `DownloadsEnd` (liveness) | a file of 5 units, fragments of 2, write buffer of 3, slot of 5, 3 faults, a failing `dfu_target_done` or schedule among them, 1 retry, 2 downloads, 1 cancellation, 1 reset (after which downloads are counted anew), range requests, saved progress |
| `secure_boot` | `BootTypeOK`, `NoDowngrade`, `RevokedNeverBoots`, `AlwaysBoots`, `UpdatesTakeEffect` (liveness) | 2 keys, 2 counter slots, versions 1 to 3, 2 updates, 2 power losses, 1 slot rewritten, with TF-M |
| `lpuart` | `ReceivedWholeAndApart`, `ReportedOnce`, `RxAssertionsHold`, `BothReturnToRest` (liveness) | 3 packets of 2 bytes, 2 aborts, 1 disabling, the clock requested for reception |
| `rpc_uart` | `DeliveredInOrder`, `AckedMeansDelivered`, `RetriesSuffice`, `LockingSound` | 3 packets one way, 1 the other, 2 attempts, 1 token lost, damaged or turned into another field, 1 late wait, 1 restart, all checksums of a node equal |
| `qos` | `RemovedOnceAndLast`, `TimerArmed`, `MessagesEnd` (liveness) | list of 2, 2 notifications, 4 messages, 2 threads |
| `esb_auto` | counterexample to `SendsQueuedPayload`: a stale payload is transmitted | 3 payloads |
| `fota_uri` | counterexample to `StoredIsPrefix`: data of two files in one slot | 2 URIs |

Why the bounds are enough for what they are for. Two slots make a ring buffer
wrap within three payloads and tell the front from the back; one slot makes it
full at once. `UintMod = 8` is above every legal count and small enough that an
underflow would be seen as a count beyond the FIFO. Six packets are two more than
there are packet IDs, and with `MCCrc` every CRC collides, so the ID alone has to
tell packets apart; more collisions than that are not possible. One
retransmission gives the three fates of a packet: at once, repeated, failed. In
`emds` three stores fill the area of 16 blocks, so that a preparation must erase
it, and three power losses allow one in a store, one in the preparation after it
and one in the erase. `OffsMod` is 64, above the area.

In `fota` five units need three fragments of two, the last one short, and two
flushes of a buffer of three at places that are not fragment boundaries. Two
downloads are one that fails or is cancelled and one that resumes, and a reset
allows two more; three faults are enough to use up the retry of one and to disturb
the next. In `secure_boot`
two updates over two installed images reach every order of versions and keys, one
of the two may be faulty, and two losses allow one in the copying and one in the
boot after it; two counter slots are used up by two updates. In `lpuart` three
packets show a transfer between two others, so that what one leaves behind (a
latched edge, an armed pin) meets the next; two bytes give a beginning, a middle
and an end. In `rpc_uart` three packets are one more than the sequence bit tells
apart, and with equal checksums the bit is all there is. In `qos` four messages
fill the list of two and meet it again after removals.

The type invariants of `EsbPrx`, `Fota`, `LpUart`, `RpcUart` and `Qos` are
conjuncts of `PrxQueuesConsistent`, `OffsetIsEnd`, `RxAssertionsHold`,
`LockingSound` and `RemovedOnceAndLast`; `DisabledIsOff` is one of
`RxAssertionsHold`, `SelectedIsInactive` of `AlwaysBoots`.

Deadlock is checked in `esb_link`, `esb_prx_calls` and `secure_boot`, where the
air and the applications, or the power button, always have a step. It is not in
the others, where the bounds on packets, messages, downloads, stores and losses
let the model come to rest.

### Fairness

`PtxFairness`: the radio and its timer always raise the interrupt that ends a
transmission or a window, interrupts that are pending are served, and a started
API call goes on; all weak fairness, as none of these can be disabled for ever by
the others. `LinkFairness` adds strong fairness of the receptions, "the air does
not lose everything", which is the assumption under which retransmission can work
at all, and weak fairness of three application calls of the profile: restarting
after a failure (`esb_start_tx`), starting reception and reading. Without the
restart the code knowingly leaves a failed payload where it is; without reading
the receiver's FIFO stays full.

`FotaFairness`: weak fairness of the download thread, of the callback, of the
work item and of the application's call in progress; these are threads and a work
queue that the kernel schedules. A receive returns because of the socket timeout
`CONFIG_DOWNLOAD_CLIENT_TCP_SOCK_TIMEO_MS`, 30 seconds by default; Kconfig allows -1,
which disables it: then a server that stays silent holds a receive for ever, and
`DownloadsEnd` does not apply. `LpFairness`: the handlers of both
devices and the timer run, and an application that was asked for a buffer, or told
that the receiver is off, answers. `BootFairSpec`: the bootloader and MCUboot go
on, unless the power is lost, which is bounded. `QosFairSpec`: the timer expires
and the work queue is served. For nRF RPC, `LockingSound` says in place of a
liveness property that while a `send()` is in progress some thread or work queue is
at a point where it need not wait (`SendGoesOn`), and that such a point is an
enabled step; the number of steps of a `send()` is bounded by its attempts.

### What the counterexamples show

* `esb_auto`. The thread queues payload *n* while payload *n-1* is under way.
  Between `irq_unlock()` and the test of `esb_state` both are completed by the
  radio interrupt. The state is idle and the FIFO empty; `esb_write_payload`
  starts a transaction all the same, on whatever the front slot still holds.
  Applications that write only while `esb_is_idle()`, or start explicitly, are not
  exposed (`esb_link` checks `SendsQueuedPayload` for the latter).
* `fota_uri`. Part of file *u1* is stored when its download fails. A download of
  *u2* fails before its first fragment, which is where the target would have been
  reset. *u2* is started again: its URI is the same as last time, `FLAG_NEW_URI`
  is clear, the target's offset is not 0, and *u2* is resumed there.

### Known limits of the properties, found by running other profiles

ESB and EMDS:

* `AttemptsExact` is not what `include/esb.h:311` suggests: when a packet is
  acknowledged and the next is in the FIFO, `start_tx_transaction` sets
  `last_tx_attempts` to 1 (`esb.c:1059`, from 1300) before the event handler reads
  it (1612), and the event says 1 however many attempts the packet took.
* An emergency store that interrupts `emds_entry_add` between `emds.c:133` and 135
  runs with `emds_ready` and may refuse the new entry with `-ENOMEM`; `ReadyFits` and
  `StoredIsLoaded` except this entry (`Reserved`, `Promised`).
* `esb_ptx_calls` has one writer; with a handler that writes as well its properties
  hold too (without payloads in acknowledgments, which would make the run too large),
  and the three that are proved hold for every such profile.
* `AckDoneWasReceived` needs a receiver that does not call `esb_flush_tx`: the
  flush leaves `pipe_info.ack_payload` set.
* `SuccessMeansDelivered` and `SendsQueuedPayload` need a transmitter that does
  not flush during a transaction, whose completion would remove a newer payload.
* `PtxFifosConsistent` needs a single writer: with writers in two contexts the
  test of the count outside the lock lets the ring overflow.
* `SuccessMeansDelivered` also needs every packet to ask for an acknowledgment:
  three unacknowledged ones lost in a row make the next look like a repetition
  when CRCs collide, and it is acknowledged and discarded.
* `StoredIsLoaded` needs `WhileReady = FALSE`: an emergency store in the middle
  of `emds_clear`, once the sector with the ATEs is erased, is written below an
  erased ATE and not found again.
* `LoadNeverStale` allows one exception: an `emds_clear` cut short between two
  sectors leaves valid ATEs whose data are erased, and `emds_load` copies the
  erased bytes into the entry before it checks the CRC, and returns 0.
* `esb_pop_tx` drops the last payload, not the first as `include/esb.h:450` says,
  and leaves a gap; a repetition that meets a full RX FIFO is not acknowledged,
  although `doc/nrf/protocols/esb/index.rst:117` says that it is.
* `ReadyFits` needs an area of more than two ATEs (`Size > 2 * AteSize`): in a
  smaller one `emds_flash_free_space_get` is 0 after an erase, while `emds_prepare`
  has compared the entries with the size of the area.
* `emds_prepare` ignores a failing erase (`ReadyFits` needs `FlashFailsIn` without
  `"erase"`), and the data offset wraps at 16 bits (`StoredIsLoaded` needs
  `OffsMod` above the area).

Firmware download:

* The callback sets `FLAG_CLOSED` (`fota_download.c:343`) and then tests
  `FLAG_RESUME` (345). If the work item runs between the two it clears
  `FLAG_RESUME` (392) and resumes the download, and the callback, which no longer
  finds the flag, reports `FINISHED`: the download goes on without
  `FLAG_DOWNLOADING`, and a second report follows. `overtaken` records it, and
  `OneReportPerDownload`, `ReadyAfterReport`, `OffsetIsEnd` and
  `ImplementsFotaImage` promise nothing after it.
* `stopped()` clears `FLAG_DOWNLOADING` (110) before it tests `error_state` (111): a
  `fota_download` that begins between the two resets it (601), and the error of the
  old download is reported as `FINISHED`. It is one report all the same.
* With `ReconnectFails = TRUE` the reconnect after `Connection: close` may fail:
  `CLOSED` ends the download for the application, and an error event follows,
  possibly into the next one.
* A cancellation after the last fragment reports `CANCELLED` although the image
  is scheduled.
* With `FlashFails = TRUE` and saved progress, a failed flush of the last buffer is
  overwritten by the result of `settings_delete`: an incomplete image is scheduled.
* With range requests a fragment that the callback refused may be followed by a
  reconnect that ignores the refusal.
* An image that fits into one fragment: when its only fragment is refused by the
  callback, `handle_received` sends `DOWNLOAD_CLIENT_EVT_DONE` all the same, and a
  resumed, truncated image may be scheduled. `fota` uses files of several fragments.
* A download of the same URI after `FINISHED` resumes at the end of the file.
* The progress saved across a reset is not used, as the URI is new then.
* A path that is too long (`-E2BIG`) leaves `FLAG_DOWNLOADING` set; a file that
  does not fit (`-EFBIG`) leaves `current_target` set. Neither is generated.

Secure boot:

* `AlwaysBoots` and `SelectedIsInactive` need `ResetAfterCopy = TRUE`, an assumption
  on MCUboot.
* `AlwaysBoots` needs `ApisUnmet = FALSE`: the version is recorded and the keys are
  revoked before `bl_boot` finds that an EXT_API is missing, after which the other
  image no longer passes.
* `AlwaysBoots` needs TF-M's way to find the active slot (`NonSecure = TRUE`).
  `read_s0_active` compares versions only: after a newer image was copied into the
  inactive slot and refused by the bootloader, which invalidates its `fw_info`, it
  takes that image for the running one, and the next update is selected for the
  slot that runs, against `include/net/fota_download.h:173`.
* Once the counter has no slot left, `-ENOMEM` is ignored and downgrade protection
  ends; `NoDowngrade` speaks of the time before (`room`).
* If `s0_info` is missing, `main` reads a version through a null pointer; the model
  lets it try the slots in either order.
* A word of one-time programmable memory is written atomically.

LPUART:

* A transfer that is confirmed while the UART still aborts the one before is given
  up: `uart_tx` returns `-EBUSY`, and `req_pin_handler` drops the transfer without an
  event (`uart_nrf_sw_lpuart.c:478-482`). `ReportedOnce` says that exactly these are
  not reported (`dropped`). If it was a transfer of `uart_poll_out`, `txbyte` stays
  taken, and the next `uart_poll_out` waits for ever.
* `api_rx_enable` sets `RX_IDLE` (751) and arms the pin (754). After `uart_rx_disable`
  in `RX_IDLE` the trigger of the pin is still armed: a request between the two
  starts a reception, and the thread arms the pin for requests over it. The end of
  the transfer is not seen, the receiver stays active, and the next request fails
  the assertion at 498. `RxAssertionsHold` (in its clause about 498) and
  `BothReturnToRest` except this (`deaf`).
* A receiver disabled in the middle of a transfer (`DisableIn` with `"PREPARE"`,
  `"ACTIVE"` or `"TO_IDLE"`) leaves the pin armed for the end of it. When the line
  falls, the handler sets `RX_IDLE` and arms the pin for requests, although the
  application was told `UART_RX_DISABLED`; its next `uart_rx_enable` fails the
  assertion of `drivers/serial/uart_nrf_sw_lpuart.c:744`.
* An abort from a thread (`SafeAbort = FALSE`) may meet the end of the transfer it
  read, and report it a second time. So may a second abort that comes while the
  first is under way (`drivers/serial/uart_nrf_sw_lpuart.c:697`): both read the
  same `tx_buf`.
* A caller of `uart_tx` that is delayed between starting the timer and arming the
  pin for longer than the timeout (`SlowCaller = TRUE`) leaves the pin armed
  without a transfer.

nRF RPC UART:

* After a send that was not acknowledged, or a restart of the sender, a packet with
  the checksum field of an earlier one may be acknowledged and not delivered: it is
  dropped as a duplicate, or a late acknowledgment of the earlier one is taken for
  its own. That is the exception that `AckedMeansDelivered` names. The earlier
  packet need not be the last one received: with four packets of equal checksums
  and several losses the acknowledgment of the first may end the third. While
  every send was acknowledged, no node restarted and no field was altered there is
  no exception.
* `crc_compare` masks the sequence bit (`nrf_rpc_uart.c:160`). A packet whose bit was
  damaged is accepted, acknowledged with a field its sender does not wait for (90),
  sent again, and delivered again, as its field differs from `last_rx_crc` (149).
  Likewise a late repetition may be taken for the next packet when checksums are
  equal, and that one is acknowledged and dropped. `DeliveredInOrder` bounds how
  often, with two more copies for each such damage, and keeps the order;
  `AckedMeansDelivered` names it as an exception (`altered`). The same goes for an
  acknowledgment whose field was damaged into the one that is waited for.
* `RetriesSuffice` counts the disturbances of the whole run: once two sends have
  failed it says less than that each met as many of its own.
* A packet is acknowledged before it is handed over: a restart of the receiver in
  between loses it.
* If two packets of opposite directions have equal checksum fields and the bytes of
  one are lost, the rest of its frame passes for the acknowledgment of the other,
  and `AckedMeansDelivered` fails; `MCCrc` and the hypothesis `CrcApart` keep the
  two directions apart.

QoS:

* `TimerArmed` needs the thread that adds to be the one that calls
  `qos_message_remove_all`, which releases the lock before `qos_timer_reset`. A
  message added by another thread in between finds the old timeout pending and
  leaves it alone; then that is cancelled, and the message is not notified again
  (`include/qos.h:44` promises that it is).
* With a full list `qos_message_add` notifies `QOS_EVT_MESSAGE_REMOVED_FROM_LIST`
  and nothing else, although `include/qos.h:141` says that
  `QOS_EVT_MESSAGE_NEW` is always notified.
* With a preemptible system work queue (`Cooperative = FALSE`) `TimerArmed` fails:
  a message added after the handler has found the list empty and released the lock,
  and before it has returned, sees the work as pending.

## 4. Proofs

Eight modules of theorems, for every value of the constants that the named
assumptions of the modules allow: every FIFO size, number of pipes, entries, keys,
messages and packets, and no bound on losses, power losses or calls. A hypothesis
of a theorem is a use of the component that the code needs; section 3 says what
happens without it, and the run that checks the property satisfies it, except that
`fota` also lets `dfu_target_done` and the scheduling fail. The exceptions that a
property names (`overtaken`, `dropped`, `deaf`, `altered`, the entry being added) are
part of the theorem.

| Theorem | States | Hypotheses |
|---|---|---|
| `PtxTypeCorrect`, `PtxEventsKept`, `PtxAttemptsCounted` | `PtxTypeOK`, `PtxFlagsNotLost`, `AttemptsExact` | none |
| `PtxRingsConsistent` | `PtxFifosConsistent` | `PtxQueueUse`: one context writes, one reads, no `esb_pop_tx` |
| `PtxAutoModeDrains` | `AutoModeDrains` | `NoPop` |
| `PtxSendsQueued` | `SendsQueuedPayload` | `PtxQueueUse`, `PtxSendUse`: no `esb_flush_tx`; in automatic mode, writes while idle |
| `LinkTypeCorrect` | the types of both drivers and the air | the CRC is a number, here and below |
| `LinkPrxQueues` | `PrxQueuesConsistent` | `PrxQueueUse`: one context reads, no `esb_pop_tx` |
| `LinkSuccess`, `LinkRefinesReliable` | `SuccessMeansDelivered`, `ImplementsReliableLink` | `LinkUse`: also dynamic payload length, every packet asks for an acknowledgment, no reused packet IDs, no re-initialisation, no flush of the receiver |
| `LinkAckDone` | `AckDoneWasReceived` | `AckUse`: `LinkUse`, `PrxQueueUse`, no `esb_flush_tx` at the receiver |
| `LinkAckOnce` | no ack payload comes twice, on any number of pipes (`AckPayloadsOnce`) | `AckUse` |
| `LinkAckOrder` | `AckPayloadsOnceInOrder` | `AckUse`, one pipe |
| `LinkRedeliveries` | `RedeliveriesBounded` | `PtxQueueUse`, `PtxIdleUse` |
| `EmdsTypeCorrect` | `EmdsTypeOK` | none |
| `EmdsNoBlockReprogrammed` | `NoBlockReprogrammed` | `SoundArea`: the 16-bit offset covers the area, erases in `emds_prepare` succeed |
| `EmdsReadyFits` | `ReadyFits`, about all entries but one being added | `RoomyArea`: `SoundArea`, more than two ATEs |
| `EmdsLoadNeverStale` | `LoadNeverStale` | `DeleteUse`: `SoundArea`, no deletion while ready; `CleanStart`: no ATE in the area at first |
| `EmdsStoredIsLoaded` | `StoredIsLoaded`, about the same entries | `RoomyArea`, `DeleteUse`, `CleanStart` |
| `FotaOneReport`, `FotaReadyAfterReport` | `OneReportPerDownload`, `ReadyAfterReport` | `NoErrorWhileClosing`: `ReconnectFails = FALSE`, `DoneFails = FALSE`, and progress is saved or writes to the flash do not fail |
| `FotaProgressBacked` | `FotaTypeOK`, and `bytes_written` and the saved progress never exceed what the slot holds (`Kept`), unless `overtaken` | `NoErrorWhileClosing` |
| `FotaOffsetIsEnd` | `OffsetIsEnd`, with it the types, unless `overtaken` | `FlashKeepsAll`: `ReconnectFails = FALSE`, `DoneFails = FALSE`, writes to the flash do not fail, files fit the slot |
| `FotaImplementsImage`, `FotaStoredIsPrefix` | `ImplementsFotaImage`, and `StoredIsPrefix` unless `overtaken` | `OneImage`: `FlashKeepsAll`, one URI, the file is longer than the receive buffer |
| `BootTypeCorrect`, `BootNoDowngrade`, `BootRevokedNeverBoots` | `BootTypeOK`, `NoDowngrade`, `RevokedNeverBoots` | none |
| `BootAlwaysBoots` | `AlwaysBoots` | TF-M, a reset after copying, EXT_APIs provided |
| `QosRemovedOnceAndLast` | `RemovedOnceAndLast` | none |
| `QosTimerArmed` | `TimerArmed` | a cooperative work queue; a thread that removes all is the only one that adds |
| `LpRxAssertions` | `RxAssertionsHold` | `DisablesBetween`: disabled between transfers only |
| `LpReportedOnce` | `ReportedOnce` | `Prompt`: `SafeAbort`, not `SlowCaller` |
| `LpReceivedWholeAndApart` | `ReceivedWholeAndApart` | `Prompt`, `DisablesBetween` |
| `RpcTypeCorrect`, `RpcSendGoesOn` | `RpcTypeOK`, `SendGoesOn`: the first two parts of `LockingSound` | none |
| `RpcRetriesSuffice` | `RetriesSuffice` | none |
| `RpcDeliveredInOrder`, `RpcAckedMeansDelivered` | `DeliveredInOrder` while no damaged field has passed for another (`altered = 0`), `AckedMeansDelivered` | `CrcApart`: the checksums of the two directions differ |

The argument of each, and why the property alone is not inductive:

* *PTX.* `PtxTypeOK` and `PtxFlagsNotLost` are inductive as they stand, and
  `AttemptsExact` needs more: during a transaction the transmissions and the
  retransmissions left add up, `last_tx_attempts` is `tries` while the radio is at
  rest and 1 otherwise, and a radio found at rest by the event handler stays there
  until the handler's step, as nothing below it runs. `RingInv` adds to the consistency of the rings that
  what a call tested outside the lock (room, a payload to read) is still true at
  the locked part, because only interrupts that make it truer can come between.
  `DrainInv` adds that `PTX_TXIDLE` is a state of the never-disable transmitter.
  `AutoInv` says that in automatic mode a write finds the driver idle from its
  test to its start.
* *Link.* `NumberInv`: the packets are numbered in the order of writing; those up
  to `last_acked` are acknowledged, the FIFO holds the rest, and the receiver has
  the acknowledged ones and perhaps the front one (`Got`). `ChainInv`: the packet
  IDs of a pipe follow each other from the one the receiver remembers through the
  FIFO, so that a repetition of the front is recognised and no other packet is
  taken for one, whatever the CRC. `AirInv`: on the air is the front packet, or an
  acknowledgment that only exists once the receiver has it. The refinement maps
  every step to a stutter, a write, a delivery or a success (`Visible`). `AckInv`
  adds that a payload attached and not awaiting a repetition came to the
  transmitter (`Taken`). Every step then queues an ack payload, retires a head
  that came or brings one that did not (`AckMoves`), so that no payload stands
  twice on the lists of all pipes and one that came stands there only as the head
  that came (`SingleInv`); on a single pipe those waiting are also newer than
  those that came (`OrderInv`), an order that several pipes do not keep. `RepeatInv` needs none of `LinkUse`: a packet in the FIFO or on the air
  is at least as new as everything delivered, and is recognised as a repetition
  or was forgotten as often as it was delivered (`Fresh`).
* *EMDS.* `SpaceLeft`: the entry a store has taken fits between the data and the
  ATEs. `GapInv`: the gap between them is erased whenever the module is
  initialised and need not erase, whenever it is ready and, minus what is
  written, during a store; `ate_last_recover` re-establishes it after a restart
  by its `check_erased`. `FitsInv`: while the module is ready the entries fit into
  an empty area and into the gap. `AtesInv` is about what a restart finds, at
  every point at which the power may go. Valid ATEs are of the last store and
  their data are there, but for an `emds_clear` under way or cut short (`Kept`);
  no block of an ATE is below a blank place, so that the walk of
  `ate_last_recover` passes them all; and some blank place, a `Mark`, is above
  the data, so that it stops there and not among them. Invalidation goes upwards
  from the newest ATE, and sectors are erased upwards: either way an ATE that is
  left is above every blank place. When the module is ready no ATE is valid, which
  is why a store that is cut short never shows an older one. `CoverInv`: during a
  store every entry with data is still to be stored or has a valid ATE, and the
  entries left fit into the gap, so that `emds_flash_write` refuses none; the sum
  of their sizes is taken apart by `SizeSteps`, the recursion of `SizeOfLast`,
  whose existence is shown by a least counterexample. `StoredInv` then carries the
  ATEs from the end of the store to the next deletion.
* *Firmware download.* The lemmas about the DFU target are about one record and
  the record a call leaves. `ControlInv`: which state of the client goes with which
  place of the thread and which event, and with which flags, work item and target;
  its core is `Dying`, the time from a refused fragment, an error or a cancellation
  to `DOWNLOAD_CLIENT_EVT_CLOSED`, in which the thread goes on for a while but
  reports nothing more than `DONE`. A pending work item waits for that event or
  finds the client idle, so that there is one report and nothing left behind it.
  `NoErrorWhileClosing` is what makes it true: an error reported by a connection
  that is already given up comes after `CLOSED`. It allows writes that fail while
  progress is saved: `FotaProgressBacked` is what the target then still promises,
  as a failed write leaves the slot, the count and the saved progress in step
  (`Kept`). `CountInv`: unless the thread is
  dying, the client's progress is what the target holds, plus what is collected,
  plus what is being handed over (`Counted`; before the first fragment is accepted
  the target does not count); the size, the range asked for and the units to come
  stay within the file (`Sizes`), and `stream_buf_bytes` agrees with the stream
  (`Exact`). A failed write leaves a full buffer and a count that has gone on, a
  file that is too big a target without a stream: hence `FlashKeepsAll`.
  `ImageInv`: `PartAt(s, a)` says that *s* is the image from *a* on; every
  sequence of units between the server and the flash is such a part, at the place
  the counters give (`Collected`, `HandedOver`, `ToCome`, `Holds`). `DONE` comes
  only when the last fragment was taken (`Firsts`, `Followed`), because a fragment
  that is refused is the first and not the whole file; a scheduled image is whole,
  and a download begun after it has the same URI, so that the target is not reset
  (`Marked`). The refinement maps a step of an unscheduled image to `Extend` or
  `CutBack`, the handling of `DONE` to `Mark`, and everything after it to a
  stutter (`ImageStep`). All of these invariants are of the form "`overtaken`, or":
  the step of the work item that sets it is the only one that breaks them, and
  `FotaImage` has the step `Race` for it, after which it promises nothing.
* *Secure boot.* `BootInv`: the counter's slots are written in order (`CounterFilled`),
  keys before that of any image started are invalid (`KeysRevoked`), and while
  there is room the counter is at least the version of every image started
  (`VersionsRecorded`), because both are written before `bl_boot`; `Chain` keeps
  the place in the boot chain and the slots still to be tried. `AlwaysBoots`
  needs that the slot that ran last stays bootable while the other is written
  (`NeverGivesUp`).
* *QoS.* `ListInv`: IDs in the list are unique, a message in the list was not
  notified as removed, and one that is not was, last. `TimerInv`: pending messages
  have the timer, the work item or a call that will start it; a thread between the
  two locks of `qos_message_remove_all` has left the list empty.
* *LPUART.* `RxInv` gives each receiver state the pins, buffers and calls it goes
  with. `CallsInv` and `TransferInv` relate the threads in the middle of a call,
  the pin, the timer and the UART to `tx_buf`; `ReportInv` says that a transfer
  under way is not reported yet and every other one is, once, or was dropped. `LinkInv` relates
  the two devices: an armed and triggered request pin means that the receiver is
  active with an empty buffer, and while bytes move what it has is a prefix of the
  packet. `HeardInv` orders the buffers handed over by packet.
* *nRF RPC UART.* The invariants are operators of the parts of the state of one
  direction, from a node to its peer, so that the lemmas are about values: tokens
  appended to a ring, a frame cut from its front. `RpcBase`: the types, the lock,
  and the field that `send()` waits for. `RpcSendGoesOn` follows from them: of a
  `send()` and a work queue that wait for `ack_tx_lock` the other holds it and is
  writing, and a `send()` that waits for an acknowledgment has a timeout, which
  is let expire once nothing is under way; what is under way is with a thread or
  a work queue that can go on. `Budget`: every attempt but the one in
  flight has met a loss, a late wait or a restart, and that one is still being
  written, whole in the peer's ring, being acknowledged, or its acknowledgment is
  whole on its way back (`InFlight`); a loss lets go of one attempt only. `Line`:
  the packets in a ring come in order, a field after a packet is its own or an
  acknowledgment of the other direction, which `CrcApart` tells apart; what was
  delivered and what is being handled comes before what is in the ring; and the
  receiver remembers the field of the last packet handled, so that every further
  copy of that one is recognised (`CopiesOK`). `Acks`: whatever is acknowledged,
  on the line, by the semaphore or in a result, a packet with the same field has
  arrived (`AckOK`). While all sends were acknowledged (`CleanOK`) only the last
  two packets are on their way, the acknowledgments of the last behind those of
  the one before, and the sequence bit tells the two apart. `Line`, `Acks` and
  `CleanOK` are about the time before a damaged field passes for another
  (`altered`); `Budget` is not, as such a field costs one attempt like any loss.

Only model-checked. The liveness properties (`TransactionsReported`,
`EverythingSucceeds`, `DownloadsEnd`, `BothReturnToRest`, `UpdatesTakeEffect`,
`MessagesEnd`), as TLAPS has no rules for fairness here; and the last part of
`LockingSound`, that what is ready to go on is `ENABLED` (its other two parts, the
types with the lock and the absence of deadlock, are proved). `AckPayloadsOnce` and
`Kept` are stated by theorems only; the bound of `DeliveredInOrder` on repetitions
once a damaged field has passed for another is checked by the run only; on one pipe the first follows from
`AckPayloadsOnceInOrder`. No module uses a RECURSIVE operator.

## 5. Plan

Done: ESB with its composition and abstract specification, EMDS, firmware download
with its abstract specification, secure boot, LPUART, nRF RPC UART, QoS; the
theorems of section 4. Next, in this order:

1. *Prove with weaker hypotheses*: the success of acknowledged packets on an ESB
   link that also carries packets that ask for no acknowledgment.
2. *Model* the network core update (`subsys/pcd/`, `samples/nrf5340/netboot/`), the
   interrupt-driven LPUART API, the event manager and its proxy.

### Not modelled

The bulk of the repository is not protocol logic of its own: samples and
applications, vendored code (`ext/`), Bluetooth services and mesh models over
Zephyr's host, AT command wrappers around the closed modem firmware, glue around
the closed MPSL and controller libraries, cryptography drivers and build
configuration. `PROJECT.json` lists each part with its reason.
