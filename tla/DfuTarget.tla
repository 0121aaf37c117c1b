----------------------------- MODULE DfuTarget -----------------------------
(***************************************************************************)
(* The DFU target as FOTA drives it: subsys/dfu/dfu_target/src/            *)
(* dfu_target.c over dfu_target_mcuboot.c over dfu_target_stream.c, for    *)
(* one MCUboot image.  The operators take the static variables of the      *)
(* three files, with the flash and the settings behind them, as one record *)
(* and return it as the call leaves it; the calls run in the download      *)
(* thread and in the thread of the application, and take no lock.          *)
(*                                                                         *)
(* Data are counted in units; what a unit is is left to the caller.        *)
(***************************************************************************)
EXTENDS Naturals, Sequences

CONSTANTS
    StreamBufLen,   \* units of the stream's write buffer: stream_buf_len
    SlotLen,        \* units of the secondary slot: secondary_size
    SaveProgress    \* CONFIG_DFU_TARGET_STREAM_SAVE_PROGRESS

ASSUME DfuAssumption ==
    /\ StreamBufLen \in Nat \ {0} /\ SlotLen \in Nat
    /\ SaveProgress \in BOOLEAN

-----------------------------------------------------------------------------
\* slot, saved and scheduled survive a reset of the device: the contents of
\* the secondary slot from its start, the stored progress (0 when the setting
\* is deleted) and the request left to MCUboot.
Dfu(Unit) ==
    [target : BOOLEAN,      \* current_target # NULL
     id : BOOLEAN,          \* current_id # NULL
     available : Nat,       \* stream.available: 0 before stream_flash_init
     bytes_written : Nat,   \* stream.bytes_written
     buf : Seq(Unit),       \* the stream.buf_bytes units of stream.buf
     stream_buf_bytes : Nat,
     slot : Seq(Unit), saved : Nat, scheduled : BOOLEAN]

DfuStart(slot, saved, scheduled) ==
    [target |-> FALSE, id |-> FALSE, available |-> 0, bytes_written |-> 0, buf |-> <<>>,
     stream_buf_bytes |-> 0, slot |-> slot, saved |-> saved,
     scheduled |-> scheduled]

\* The units the target holds: in flash, then in the buffer.
Stored(d) == SubSeq(d.slot, 1, d.bytes_written) \o d.buf

store_progress(d) ==
    [d EXCEPT !.saved = IF SaveProgress THEN d.bytes_written ELSE @]

\* flash_sync of the stream: n units of data go to the flash, after what was
\* written before; rest is what the buffer then holds.
Synced(d, data, n, rest) ==
    [d EXCEPT !.slot = SubSeq(@, 1, d.bytes_written) \o SubSeq(data, 1, n),
              !.bytes_written = @ + n,
              !.buf = rest]

\* stream_flash_buffered_write: the buffer is written each time it is full.
BufferedWrite(d, new) ==
    LET data == d.buf \o new
        n == (Len(data) \div StreamBufLen) * StreamBufLen
    IN  Synced(d, data, n, SubSeq(data, n + 1, Len(data)))

\* The same when writing the k-th full buffer fails: it stays in the buffer
\* and what comes after it is not taken.
BufferedWriteFails(d, new, k) ==
    LET data == d.buf \o new
        n == (k - 1) * StreamBufLen
    IN  Synced(d, data, n, SubSeq(data, n + 1, n + StreamBufLen))

\* The buffers that a write of new fills.
FullBuffers(d, new) == 1 .. (Len(d.buf) + Len(new)) \div StreamBufLen

-----------------------------------------------------------------------------
\* dfu_target_init: a target that was initialized is not initialized again,
\* so that the download continues where it left off.  Otherwise a file that
\* is too big is refused (-EFBIG), dfu_target_stream_init refuses while an id
\* is current, and the stored progress is loaded.
InitFails(d, size) == ~d.target /\ (size > SlotLen \/ d.id)
dfu_target_init(d, size) ==
    IF d.target THEN d
    ELSE IF InitFails(d, size) THEN [d EXCEPT !.target = TRUE, !.stream_buf_bytes = 0]
    ELSE [d EXCEPT !.target = TRUE, !.id = TRUE, !.stream_buf_bytes = 0,
                   !.available = SlotLen, !.buf = <<>>,
                   !.bytes_written = IF SaveProgress THEN d.saved ELSE 0]

dfu_target_offset_get(d) == d.bytes_written + d.stream_buf_bytes

\* The stream takes no more than fits the slot (-ENOMEM).
NoRoom(d, new) == d.bytes_written + Len(d.buf) + Len(new) > d.available

\* dfu_target_mcuboot_write counts the units before it hands them on.
\* A plausible error: the count does not start again with a new buffer.
CountUnwrapped(d, new) == [d EXCEPT !.stream_buf_bytes = @ + Len(new)]
CountWritten(d, new) ==
    [d EXCEPT !.stream_buf_bytes = (@ + Len(new)) % StreamBufLen]
dfu_target_write(d, new) ==
    store_progress(BufferedWrite(CountWritten(d, new), new))
WriteFails(d, new, k) == BufferedWriteFails(CountWritten(d, new), new, k)

\* A plausible error: the rest of the buffer is not written.
DoneUnflushed(d) ==
    [d EXCEPT !.buf = <<>>, !.id = FALSE, !.stream_buf_bytes = 0, !.saved = 0]
\* dfu_target_done(true): the rest of the buffer is written, the stored
\* progress deleted.
DoneOk(d) ==
    [Synced(d, d.buf, Len(d.buf), <<>>)
        EXCEPT !.id = FALSE, !.stream_buf_bytes = 0, !.saved = 0]
\* The same when that write fails.  With CONFIG_DFU_TARGET_STREAM_SAVE_PROGRESS
\* the error is lost to the result of settings_delete.
DoneFlushFails(d) ==
    [d EXCEPT !.id = FALSE,
              !.stream_buf_bytes = IF SaveProgress THEN 0 ELSE @,
              !.saved = IF SaveProgress THEN 0 ELSE @]
FlushErrorReturned == ~SaveProgress

\* dfu_target_done(false).
DoneAborted(d) ==
    IF d.target THEN [store_progress(d) EXCEPT !.id = FALSE] ELSE d

dfu_target_reset(d) ==
    [d EXCEPT !.target = FALSE, !.id = FALSE, !.bytes_written = 0,
              !.buf = <<>>, !.stream_buf_bytes = 0, !.slot = <<>>,
              !.saved = IF SaveProgress THEN 0 ELSE @]

\* The same when the first page cannot be erased: the target stays current.
ResetFails(d) == [dfu_target_reset(d) EXCEPT !.target = TRUE, !.slot = d.slot]

dfu_target_schedule_update(d) == [d EXCEPT !.scheduled = TRUE]

\* What a reset of the device leaves.
DfuReboot(d) == DfuStart(d.slot, d.saved, d.scheduled)
=============================================================================
