-------------------------------- MODULE Fota --------------------------------
(***************************************************************************)
(* FOTA download: subsys/net/lib/fota_download/src/fota_download.c, with   *)
(* the download client whose events it handles and the DFU target it       *)
(* writes to.  Four threads of control meet here: the download thread and  *)
(* the callbacks it runs, the work item that downloads from an offset, the *)
(* application that starts and cancels downloads, and the power.  The work *)
(* item, on a cooperative thread, interrupts the other threads anywhere    *)
(* and is itself stopped only where it waits for the client's mutex.       *)
(***************************************************************************)
EXTENDS DownloadClient, DfuTarget

CONSTANTS
    Retries,        \* CONFIG_FOTA_SOCKET_RETRIES
    FlashFails,     \* whether a write to the flash may fail
    DoneFails,      \* whether the last page of a whole image may not be erased,
                    \* or its update not be scheduled
    MaxDownloads,   \* bound: calls of fota_download
    MaxCancels,     \* bound: calls of fota_download_cancel
    MaxReboots      \* bound: resets of the device

ASSUME FotaAssumption ==
    /\ Retries \in Nat /\ FlashFails \in BOOLEAN /\ DoneFails \in BOOLEAN
    /\ MaxDownloads \in Nat /\ MaxCancels \in Nat /\ MaxReboots \in Nat

VARIABLES
    dfu,            \* the DFU target
    flags,          \* enum flags_t
    error_state,    \* is_error()
    retries,        \* socket_retries_left
    uri,            \* dl_host and dl_file, and their hashes
    work,           \* dlc_with_offset_work is scheduled
    item,           \* the work item's call of download_client_get: whether it
                    \* is under way, and its arguments
    closing,        \* how far the callback is with CLOSED: "none", "closed"
                    \* (FLAG_CLOSED is set), and in stopped() "stopped"
                    \* (FLAG_DOWNLOADING is cleared) and "no_error"
    app,            \* where the application is in a call
    accepted,       \* downloads begun
    reports,        \* FINISHED, ERROR and CANCELLED events, in order
    overtaken,      \* history: the work item has cleared FLAG_RESUME after the
                    \* callback set FLAG_CLOSED and before it tests FLAG_RESUME
    cancels, reboots

callVars == <<item, closing, overtaken>>
fotaVars == <<flags, error_state, retries, uri, work, callVars>>
appVars == <<app, accepted, cancels, reboots>>
vars == <<dlVars, dfu, fotaVars, appVars, reports>>

FlagNames == {"DOWNLOADING", "FIRST_FRAGMENT", "RESUME", "NEW_URI", "CLOSED", "CANCEL"}
Cleared == [f \in FlagNames |-> FALSE]
NoItem == [gets |-> FALSE, uri |-> NoUri, from |-> 0]
With(set, clear) ==
    [f \in FlagNames |-> (flags[f] \/ f \in set) /\ f \notin clear]

FotaInit ==
    /\ DlInit
    /\ dfu = DfuStart(<<>>, 0, FALSE)
    /\ flags = Cleared
    /\ error_state = FALSE
    /\ retries = 0
    /\ uri = NoUri
    /\ work = FALSE
    /\ item = NoItem /\ closing = "none" /\ overtaken = FALSE
    /\ app = "idle"
    /\ accepted = 0 /\ cancels = 0 /\ reboots = 0
    /\ reports = <<>>

-----------------------------------------------------------------------------
(* The callback of the download client.                                    *)
Handles(id) == evt.id = id /\ evt' = NoEvt
Returns(ok) == ret' = ok

\* disconnect()
DoDisconnect == dlc' = Disconnected /\ sem' = SemAfterDisconnect
NoDisconnect == UNCHANGED <<dlc, sem>>

\* stopped(): the event of a download that is over.
Outcome(error) ==
    IF error THEN "ERROR" ELSE IF flags["CANCEL"] THEN "CANCELLED" ELSE "FINISHED"
SendEvt(outcome) == reports' = Append(reports, outcome)

\* The label error_and_close, reached with the target d.
ErrorAndClose(d, f) ==
    /\ flags' = [f EXCEPT !["RESUME"] = FALSE]
    /\ error_state' = TRUE
    /\ DoDisconnect
    /\ dfu' = DoneAborted(d)
    /\ Returns(FALSE)
    /\ UNCHANGED work

\* dfu_target_write of the fragment, and what follows it.
WriteFragment(d, f) ==
    \/ /\ ~NoRoom(d, evt.data)
       /\ dfu' = dfu_target_write(d, evt.data)
       /\ flags' = f
       /\ Returns(TRUE)
       /\ NoDisconnect
       /\ UNCHANGED <<error_state, work, faults>>
    \/ /\ FlashFails /\ Fault
       /\ ~NoRoom(d, evt.data)
       /\ \E k \in FullBuffers(d, evt.data) :
            ErrorAndClose(WriteFails(d, evt.data, k), f)
    \/ /\ NoRoom(d, evt.data)
       /\ ErrorAndClose(CountWritten(d, evt.data), f)
       /\ UNCHANGED faults

\* The first fragment of a download.  Its type may be unknown or unexpected,
\* or the target refuses the file.  A target that holds data is reset when the
\* URI is new; otherwise the fragment is refused, and the work item downloads
\* from where the data end.
FirstFragment ==
    LET size == dlc.file_size
        d == dfu_target_init(dfu, size)
        fails == InitFails(dfu, size)
        offset == dfu_target_offset_get(d)
        again == dfu_target_init(dfu_target_reset(d), size)
        f == With({}, {"FIRST_FRAGMENT"})
        fresh == With({}, {"FIRST_FRAGMENT", "RESUME"})
    IN  \/ Fault /\ ErrorAndClose(dfu, f)
        \/ fails /\ ErrorAndClose(d, f) /\ UNCHANGED faults
        \/ ~fails /\ offset = 0 /\ WriteFragment(d, fresh)
        \/ /\ ~fails /\ offset # 0 /\ flags["NEW_URI"]
           /\ FlashFails /\ Fault /\ ErrorAndClose(ResetFails(d), fresh)
        \/ /\ ~fails /\ offset # 0 /\ flags["NEW_URI"]
           /\ IF InitFails(dfu_target_reset(d), size)
              THEN ErrorAndClose(again, fresh) /\ UNCHANGED faults
              ELSE WriteFragment(again, fresh)
        \/ /\ ~fails /\ offset # 0 /\ ~flags["NEW_URI"]
           /\ dfu' = d
           /\ flags' = [f EXCEPT !["RESUME"] = TRUE]
           /\ DoDisconnect
           /\ work' = TRUE
           /\ Returns(FALSE)
           /\ UNCHANGED <<error_state, faults>>

OnFragment ==
    /\ Handles("FRAGMENT")
    /\ IF flags["FIRST_FRAGMENT"] THEN FirstFragment ELSE WriteFragment(dfu, flags)
    /\ UNCHANGED <<thr, rx, retries, uri, callVars, reports, appVars>>

\* DOWNLOAD_CLIENT_EVT_DONE: dfu_target_done(true), then
\* dfu_target_schedule_update and disconnect().
DoneAndScheduled(d) ==
    /\ dfu' = dfu_target_schedule_update(d)
    /\ DoDisconnect
    /\ Returns(TRUE)
    /\ UNCHANGED <<flags, error_state, work>>

OnDone ==
    /\ Handles("DONE")
    /\ \/ dfu.target /\ DoneAndScheduled(DoneOk(dfu)) /\ UNCHANGED faults
       \/ /\ dfu.target /\ FlashFails /\ dfu.buf # <<>> /\ Fault
          /\ IF FlushErrorReturned
             THEN ErrorAndClose(DoneFlushFails(dfu), flags)
             ELSE DoneAndScheduled(DoneFlushFails(dfu))
       \/ dfu.target /\ DoneFails /\ Fault /\ ErrorAndClose(DoneOk(dfu), flags)
       \/ ~dfu.target /\ ErrorAndClose(dfu, flags) /\ UNCHANGED faults
    /\ UNCHANGED <<thr, rx, retries, uri, callVars, reports, appVars>>

\* DOWNLOAD_CLIENT_EVT_ERROR: the first resets of the connection are left to
\* the client, which connects again.
OnError ==
    /\ Handles("ERROR")
    /\ \/ /\ retries > 0 /\ evt.error = "ECONNRESET"
          /\ retries' = retries - 1
          /\ Returns(TRUE)
          /\ NoDisconnect
          /\ UNCHANGED <<dfu, flags, error_state, work>>
       \/ /\ ~(retries > 0 /\ evt.error = "ECONNRESET")
          /\ ErrorAndClose(dfu, flags)
          /\ UNCHANGED retries
    /\ UNCHANGED <<thr, rx, faults, uri, callVars, reports, appVars>>

\* A plausible error: FLAG_CLOSED is not set.
OnClosedUnmarked ==
    /\ evt.id = "CLOSED" /\ closing = "none"
    /\ closing' = "closed"
    /\ UNCHANGED <<dlVars, dfu, flags, error_state, retries, uri, work, item,
                   overtaken, reports, appVars>>
\* DOWNLOAD_CLIENT_EVT_CLOSED, handled with the client's mutex held: FLAG_CLOSED
\* is set; the work item may go on from here.
OnClosed ==
    /\ evt.id = "CLOSED" /\ closing = "none"
    /\ flags' = With({"CLOSED"}, {})
    /\ closing' = "closed"
    /\ UNCHANGED <<dlVars, dfu, error_state, retries, uri, work, item, overtaken,
                   reports, appVars>>

\* The callback returns.
ClosedReturns ==
    /\ closing' = "none" /\ evt' = NoEvt
    /\ Returns(TRUE)

\* A plausible error: the download is over although it is to be resumed.
StopsUntested ==
    /\ closing = "closed"
    /\ flags' = With({}, {"DOWNLOADING"})
    /\ closing' = "stopped"
    /\ UNCHANGED <<dlVars, dfu, error_state, retries, uri, work, item, overtaken,
                   reports, appVars>>
\* Unless it is to resume, the download is over: stopped() clears
\* FLAG_DOWNLOADING first, so that a new one may begin before the event.
StopsUnlessResumed ==
    /\ closing = "closed"
    /\ \/ flags["RESUME"] /\ ClosedReturns /\ UNCHANGED flags
       \/ /\ ~flags["RESUME"]
          /\ flags' = With({}, {"DOWNLOADING"})
          /\ closing' = "stopped"
          /\ UNCHANGED <<evt, ret>>
    /\ UNCHANGED <<dlc, sem, thr, rx, faults, dfu, error_state, retries, uri, work,
                   item, overtaken, reports, appVars>>

\* The rest of stopped() in the callback: the error is looked at, then the
\* cancellation.
TestsError ==
    /\ closing = "stopped"
    /\ \/ error_state /\ SendEvt("ERROR") /\ ClosedReturns
       \/ ~error_state /\ closing' = "no_error" /\ UNCHANGED <<evt, ret, reports>>
    /\ UNCHANGED <<dlc, sem, thr, rx, faults, dfu, flags, error_state, retries, uri,
                   work, item, overtaken, appVars>>

TestsCancel ==
    /\ closing = "no_error"
    /\ SendEvt(Outcome(FALSE)) /\ ClosedReturns
    /\ flags' = With({}, {"CANCEL"})
    /\ UNCHANGED <<dlc, sem, thr, rx, faults, dfu, error_state, retries, uri, work,
                   item, overtaken, appVars>>

ClosedCallback == OnClosed \/ StopsUnlessResumed \/ TestsError \/ TestsCancel
DownloadCallback == OnFragment \/ OnDone \/ OnError \/ ClosedCallback

-----------------------------------------------------------------------------
\* The work item, scheduled again until the connection is closed, up to its
\* call of download_client_get, or to the end of stopped() when there is no
\* target.
WorkStops ==
    /\ error_state' = TRUE
    /\ flags' = With({}, {"RESUME", "DOWNLOADING"})
    /\ SendEvt(Outcome(TRUE))
download_with_offset ==
    /\ work /\ flags["CLOSED"] /\ ~item.gets
    /\ work' = FALSE
    /\ overtaken' = (overtaken \/ closing = "closed")
    /\ \/ /\ dfu.target
          /\ flags' = With({}, {"RESUME"})
          /\ item' = [gets |-> TRUE, uri |-> uri, from |-> dfu_target_offset_get(dfu)]
          /\ UNCHANGED <<error_state, reports>>
       \/ ~dfu.target /\ WorkStops /\ UNCHANGED item
    /\ UNCHANGED <<dlVars, dfu, retries, uri, closing, appVars>>

\* get_from_offset: its call has the mutex.
get_from_offset ==
    /\ item.gets /\ ~Locked
    /\ item' = NoItem
    /\ \/ /\ Gets
          /\ dlc' = Got(item.uri, item.from)
          /\ sem' = 1
          /\ UNCHANGED <<flags, error_state, reports>>
       \/ ~Gets /\ WorkStops /\ UNCHANGED <<dlc, sem>>
    /\ UNCHANGED <<thr, evt, ret, rx, faults, dfu, retries, uri, work, closing,
                   overtaken, appVars>>

WorkItem == download_with_offset \/ get_from_offset

-----------------------------------------------------------------------------
(* The application.                                                        *)

\* fota_download up to its call of download_client_get.
fota_download ==
    /\ app = "idle" /\ ~flags["DOWNLOADING"] /\ accepted < MaxDownloads
    /\ \E u \in Uris :
        /\ uri' = u
        /\ flags' = [With({"DOWNLOADING", "FIRST_FRAGMENT"}, {"CLOSED", "RESUME"})
                        EXCEPT !["NEW_URI"] = (u # uri)]
    /\ error_state' = FALSE
    /\ retries' = Retries
    /\ app' = "start"
    /\ accepted' = accepted + 1
    /\ UNCHANGED <<dlVars, dfu, work, callVars, cancels, reboots, reports>>

\* Its call, and the disconnect() when that fails.
StartDownload ==
    /\ app = "start" /\ ~Locked
    /\ IF Gets
       THEN dlc' = Got(uri, 0) /\ sem' = 1 /\ UNCHANGED <<flags, accepted>>
       ELSE /\ flags' = With({}, {"DOWNLOADING"})
            /\ accepted' = accepted - 1
            /\ DoDisconnect
    /\ app' = "idle"
    /\ UNCHANGED <<thr, evt, ret, rx, faults, dfu, error_state, retries, uri,
                   work, callVars, cancels, reboots, reports>>

\* fota_download_cancel, between its accesses to what others use.
fota_download_cancel ==
    /\ app = "idle" /\ flags["DOWNLOADING"] /\ cancels < MaxCancels
    /\ flags' = With({"CANCEL"}, {})
    /\ app' = "cancel"
    /\ cancels' = cancels + 1
    /\ UNCHANGED <<dlVars, dfu, error_state, retries, uri, work, callVars,
                   accepted, reboots, reports>>

CancelDisconnects ==
    /\ app = "cancel" /\ ~Locked
    /\ app' = IF Disconnects THEN "cancel_done" ELSE "idle"
    /\ DoDisconnect
    /\ UNCHANGED <<thr, evt, ret, rx, faults, dfu, fotaVars, accepted, cancels,
                   reboots, reports>>

CancelTarget ==
    /\ app = "cancel_done"
    /\ dfu' = DoneAborted(dfu)
    /\ app' = "cancel_wait"
    /\ UNCHANGED <<dlVars, fotaVars, accepted, cancels, reboots, reports>>

CancelReturns ==
    /\ app = "cancel_wait" /\ ~flags["DOWNLOADING"]
    /\ app' = "idle"
    /\ UNCHANGED <<dlVars, dfu, fotaVars, accepted, cancels, reboots, reports>>

Application ==
    StartDownload \/ CancelDisconnects \/ CancelTarget \/ CancelReturns

-----------------------------------------------------------------------------
\* The device is reset before the new image was left to MCUboot, perhaps when
\* a fragment was written and its progress not yet stored.
CutOff ==
    {dfu} \cup (IF /\ evt.id = "FRAGMENT" /\ ~flags["FIRST_FRAGMENT"]
                  /\ ~NoRoom(dfu, evt.data)
               THEN {BufferedWrite(dfu, evt.data)} ELSE {})
Reboot ==
    /\ reboots < MaxReboots /\ ~dfu.scheduled
    /\ dlc' = [state |-> "IDLE", fd |-> FALSE, host |-> NoUri, file |-> NoUri,
               file_size |-> 0, progress |-> 0, buf |-> <<>>,
               has_header |-> FALSE, connection_close |-> FALSE,
               close_when_done |-> FALSE]
    /\ sem' = 0
    /\ thr' = [pc |-> "wait", ctx |-> "start", send_request |-> FALSE]
    /\ evt' = NoEvt
    /\ ret' = TRUE
    /\ rx' = [header |-> {}, data |-> <<>>]
    /\ \E d \in CutOff : dfu' = DfuReboot(d)
    /\ flags' = Cleared
    /\ error_state' = FALSE
    /\ retries' = 0
    /\ uri' = NoUri
    /\ work' = FALSE
    /\ item' = NoItem /\ closing' = "none"
    /\ app' = "idle"
    /\ reboots' = reboots + 1
    /\ accepted' = 0 /\ reports' = <<>>
    /\ UNCHANGED <<faults, overtaken, cancels>>

DownloadStep == DownloadThread /\ UNCHANGED <<dfu, fotaVars, appVars, reports>>

FotaNext ==
    \/ DownloadStep
    \/ DownloadCallback
    \/ WorkItem
    \/ fota_download \/ fota_download_cancel
    \/ Application
    \/ Reboot

FotaSpec == FotaInit /\ [][FotaNext]_vars

\* The threads and the work queue are scheduled, and recv() and connect()
\* return.
FotaFairness ==
    /\ WF_vars(DownloadStep)
    /\ WF_vars(DownloadCallback)
    /\ WF_vars(WorkItem)
    /\ WF_vars(Application)
FotaFairSpec == FotaSpec /\ FotaFairness

-----------------------------------------------------------------------------
\* The types of the variables of fota_download.c; the retries left are never
\* negative, so that they end (the handling of DOWNLOAD_CLIENT_EVT_ERROR).
FotaTypeOK ==
    /\ DlTypeOK
    /\ dfu \in Dfu(Unit)
    /\ flags \in [FlagNames -> BOOLEAN]
    /\ error_state \in BOOLEAN
    /\ retries \in 0 .. Retries
    /\ uri \in Uris \cup {NoUri}
    /\ work \in BOOLEAN /\ overtaken \in BOOLEAN
    /\ item \in [gets : BOOLEAN, uri : Uris \cup {NoUri}, from : Nat]
    /\ closing \in {"none", "closed", "stopped", "no_error"}
    /\ app \in {"idle", "start", "cancel", "cancel_done", "cancel_wait"}

\* What the target holds, in flash and in its buffer, is the beginning of one
\* file: no unit is missing, doubled, or of another download, whatever was
\* aborted, resumed, retried or lost with the power on the way
\* (set_host_and_file, the first fragment, download_with_offset).
StoredIsPrefix ==
    \E u \in Uris : \E n \in 0 .. FileLen[u] : Stored(dfu) = SubSeq(File(u), 1, n)

\* The variables have their types, and the offset from which a download is
\* resumed, kept in stream_buf_bytes apart from the stream's own counters, is
\* where the data end, across aborts, refusals and resets of the target; but
\* for a download reported as over while it goes on (overtaken, below).
OffsetIsEnd ==
    /\ FotaTypeOK
    /\ dfu.target /\ ~overtaken => dfu_target_offset_get(dfu) = Len(Stored(dfu))

\* Every download that fota_download began and that is not under way was
\* reported by exactly one FINISHED, ERROR or CANCELLED event, or is about to
\* be (stopped()).  The one exception: the work item resumed the download
\* between the lines of the callback that set FLAG_CLOSED and test FLAG_RESUME,
\* so that the callback reports the end of what goes on.
BeingReported == closing \in {"stopped", "no_error"}
Reported ==
    Len(reports) = accepted - (IF flags["DOWNLOADING"] THEN 1 ELSE 0)
                            - (IF BeingReported THEN 1 ELSE 0)
OneReportPerDownload == overtaken \/ Reported

\* After that event the client is ready for a new request: the download
\* client is idle and no work is left that would start it again, with the same
\* exception.
ReadyAfterReport ==
    ~flags["DOWNLOADING"] /\ ~Locked /\ ~overtaken
        => dlc.state = "IDLE" /\ ~work /\ ~item.gets

\* FOTA implements what it promises about the image.  Once it is scheduled
\* only the flash counts.
TheFile == CHOOSE u \in Uris : TRUE
Held ==
    IF dfu.scheduled THEN SubSeq(dfu.slot, 1, dfu.bytes_written) ELSE Stored(dfu)
FotaImage == INSTANCE FotaImage WITH
    Image <- File(TheFile), stored <- Held, marked <- dfu.scheduled,
    raced <- overtaken
ImplementsFotaImage == FotaImage!ImageSpec

\* Every download ends, whatever fails: no wait for a closed connection, for
\* the work item or for the thread lasts for ever.
DownloadsEnd == flags["DOWNLOADING"] ~> ~flags["DOWNLOADING"]
=============================================================================
