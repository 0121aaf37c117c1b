--------------------------- MODULE DownloadClient ---------------------------
(***************************************************************************)
(* The download client over HTTP: subsys/net/lib/download_client/src/      *)
(* download_client.c and http.c.  A thread connects, asks for the next     *)
(* range of the file, collects the answer and hands it to a callback;      *)
(* other threads start and stop it.                                        *)
(*                                                                         *)
(* A callback is an event left in evt: whoever extends this module handles *)
(* it and leaves the value it returns in ret, and the thread goes on from  *)
(* there.  A step of the thread ends where it waits for the network, calls *)
(* the callback, or looks at the state again, so that a call of another    *)
(* thread may come between any two of them.  Files are sequences of units. *)
(***************************************************************************)
EXTENDS Integers, Sequences, FiniteSets, FiniteSetsExt

CONSTANTS
    Uris,           \* the pairs of a host and a file
    FileLen,        \* FileLen[u]: units of the file
    FragSize,       \* units asked for in a range: HTTP_FRAG_SIZE
    DlBufSize,      \* units that fit the receive buffer: BUF_SIZE
    RangeRequests,  \* CONFIG_DOWNLOAD_CLIENT_RANGE_REQUESTS
    NoUri,          \* a null pointer
    ReconnectFails, \* whether the connection made anew after an answer with
                    \* "Connection: close" may fail
    MaxFaults       \* bound: failures of the network, the server, the flash

ASSUME DownloadAssumption ==
    /\ FileLen \in [Uris -> Nat \ {0}]
    /\ FragSize \in Nat \ {0} /\ DlBufSize \in Nat
    /\ DlBufSize >= FragSize
    /\ RangeRequests \in BOOLEAN /\ ReconnectFails \in BOOLEAN
    /\ NoUri \notin Uris
    /\ MaxFaults \in Nat

VARIABLES
    dlc,    \* struct download_client
    sem,    \* wait_for_download, a binary semaphore
    thr,    \* the thread: where it is, who called client_connect, the local
            \* send_request
    evt,    \* the event the callback is called with, or NoEvt
    ret,    \* whether the last callback returned zero
    rx,     \* what the server sent and recv() has not returned
    faults  \* the failures so far

dlVars == <<dlc, sem, thr, evt, ret, rx, faults>>

-----------------------------------------------------------------------------
Unit == [uri : Uris, pos : Nat]
File(u) == [i \in 1 .. FileLen[u] |-> [uri |-> u, pos |-> i]]

DlStates == {"IDLE", "CONNECTING", "DOWNLOADING", "FINISHED", "CLOSING"}
Client ==
    [state : DlStates, fd : BOOLEAN, host : Uris \cup {NoUri},
     file : Uris \cup {NoUri}, file_size : Nat, progress : Nat,
     buf : Seq(Unit), has_header : BOOLEAN, connection_close : BOOLEAN,
     close_when_done : BOOLEAN]

\* Errors of connect(), and those of the thread's own.
ConnectErrors == {"ECONNREFUSED", "EHOSTUNREACH"}
Errors == ConnectErrors \cup {"ECONNRESET", "ETIMEDOUT", "EBADMSG", "EHOSTDOWN"}
Event ==
    [id : {"FRAGMENT", "DONE", "CLOSED"}, data : Seq(Unit)]
        \cup [id : {"ERROR"}, error : Errors]
NoEvt == [id |-> "NONE"]
Fragment(data) == [id |-> "FRAGMENT", data |-> data]
Simple(id) == [id |-> id, data |-> <<>>]
ErrorEvt(e) == [id |-> "ERROR", error |-> e]

\* What the server sends: the header of an answer, then its units.  ok is
\* whether the status is the expected one.
Header == [ok : BOOLEAN, size : Nat, close : BOOLEAN]

DlInit ==
    /\ dlc = [state |-> "IDLE", fd |-> FALSE, host |-> NoUri, file |-> NoUri,
              file_size |-> 0, progress |-> 0, buf |-> <<>>,
              has_header |-> FALSE, connection_close |-> FALSE,
              close_when_done |-> FALSE]
    /\ sem = 0
    /\ thr = [pc |-> "wait", ctx |-> "start", send_request |-> FALSE]
    /\ evt = NoEvt
    /\ ret = TRUE
    /\ rx = [header |-> {}, data |-> <<>>]
    /\ faults = 0

-----------------------------------------------------------------------------
(* The calls, as what they make of the client.                             *)

\* A plausible error: an idle client goes to CLOSING.
SetStateAlways(c, s) == [c EXCEPT !.state = s]
\* set_state: never from IDLE to CLOSING.
SetState(c, s) ==
    IF s = "CLOSING" /\ c.state = "IDLE" THEN c ELSE [c EXCEPT !.state = s]

\* download_client_disconnect fails when the client is idle.
Disconnects == dlc.state # "IDLE"
Disconnected == SetState(dlc, "CLOSING")
SemAfterDisconnect == IF Disconnects THEN 1 ELSE sem

\* download_client_get from a position: download_client_set_host, then
\* download_client_start.
Gets == dlc.state = "IDLE"
Got(u, from) ==
    [dlc EXCEPT !.host = u, !.file = u, !.close_when_done = TRUE,
                !.file_size = 0, !.progress = from, !.buf = <<>>,
                !.has_header = FALSE, !.state = "CONNECTING"]

\* The mutex is held by the thread while it connects again after a socket
\* error or a closed connection, and while it reports CLOSED.
Locked ==
    \/ evt.id = "CLOSED"
    \/ thr.pc \in {"connect", "connect_failed", "connect_closed"}
       /\ thr.ctx \in {"socket_error", "received"}

-----------------------------------------------------------------------------
(* The thread.                                                             *)
Goto(pc) == thr' = [thr EXCEPT !.pc = pc]
At(pc) == thr.pc = pc /\ evt = NoEvt
Fault == faults < MaxFaults /\ faults' = faults + 1

WakeUp ==
    /\ At("wait") /\ sem = 1
    /\ sem' = 0
    /\ Goto("check")
    /\ UNCHANGED <<dlc, evt, ret, rx, faults>>

CheckConnecting ==
    /\ At("check")
    /\ IF dlc.state = "CONNECTING"
       THEN thr' = [thr EXCEPT !.pc = "connect", !.ctx = "start"]
       ELSE Goto("loop")
    /\ UNCHANGED <<dlc, sem, evt, ret, rx, faults>>

\* client_connect, and what its callers do when it succeeds.
ConnectOk ==
    /\ At("connect")
    /\ dlc' = [dlc EXCEPT !.fd = TRUE,
                          !.state = IF thr.ctx = "start" THEN "DOWNLOADING" ELSE @]
    /\ rx' = [header |-> {}, data |-> <<>>]
    /\ thr' = [thr EXCEPT !.pc = "loop", !.send_request = TRUE]
    /\ UNCHANGED <<sem, evt, ret, faults>>

ConnectFails ==
    /\ At("connect") /\ Fault
    /\ thr.ctx = "received" => ReconnectFails
    /\ \E e \in ConnectErrors : evt' = ErrorEvt(e)
    /\ Goto("connect_failed")
    /\ UNCHANGED <<dlc, sem, ret, rx>>

Closed(c) ==
    [c EXCEPT !.fd = FALSE, !.close_when_done = FALSE, !.host = NoUri,
              !.file = NoUri, !.state = "IDLE"]

\* handle_disconnect, called by client_connect.
ConnectCloses ==
    /\ At("connect_failed")
    /\ dlc' = Closed(dlc)
    /\ evt' = Simple("CLOSED")
    /\ Goto("connect_closed")
    /\ UNCHANGED <<sem, ret, rx, faults>>

\* client_connect has failed: back in its caller.
ConnectReturns ==
    /\ At("connect_closed")
    /\ Goto(IF thr.ctx = "start" THEN "wait" ELSE "end")
    /\ evt' = IF thr.ctx = "received" THEN ErrorEvt("EHOSTDOWN") ELSE NoEvt
    /\ UNCHANGED <<dlc, sem, ret, rx, faults>>

\* The head of the request loop.
LeaveLoop ==
    /\ At("loop") /\ dlc.state # "DOWNLOADING"
    /\ Goto("end")
    /\ UNCHANGED <<dlc, sem, evt, ret, rx, faults>>

\* http_get_request_send and the answer of the server: the range asked for,
\* the rest of the file, or, past its end, an error status.
ServerSends ==
    LET u == dlc.file
        first == dlc.progress + 1
        last == IF RangeRequests
                THEN Min({dlc.progress + FragSize, FileLen[u]}) ELSE FileLen[u]
    IN  \E close \in BOOLEAN :
            /\ IF close THEN Fault ELSE UNCHANGED faults
            /\ rx' = [header |-> {[ok |-> first <= FileLen[u],
                                   size |-> FileLen[u], close |-> close]},
                      data |-> SubSeq(File(u), first, last)]
SendRequest ==
    /\ At("loop") /\ dlc.state = "DOWNLOADING" /\ thr.send_request
    /\ dlc.fd
    /\ dlc' = [dlc EXCEPT !.buf = <<>>, !.has_header = FALSE]
    /\ ServerSends
    /\ thr' = [thr EXCEPT !.pc = "recv", !.send_request = FALSE]
    /\ UNCHANGED <<sem, evt, ret>>

SendFails ==
    /\ At("loop") /\ dlc.state = "DOWNLOADING" /\ thr.send_request
    /\ IF dlc.fd THEN Fault ELSE UNCHANGED faults
    /\ dlc' = [dlc EXCEPT !.buf = <<>>, !.has_header = @ /\ ~dlc.fd]
    /\ evt' = ErrorEvt("ECONNRESET")
    /\ thr' = [thr EXCEPT !.pc = "send_failed", !.send_request = FALSE]
    /\ UNCHANGED <<sem, ret, rx>>

\* reconnect closes the socket and calls client_connect.
Reconnect(ctx) ==
    /\ dlc' = [dlc EXCEPT !.fd = FALSE,
                  !.connection_close = IF ctx = "received" THEN FALSE ELSE @]
    /\ thr' = [thr EXCEPT !.pc = "connect", !.ctx = ctx]

ReconnectToSend ==
    /\ At("send_failed")
    /\ IF ret THEN Reconnect("request") ELSE Goto("end") /\ UNCHANGED dlc
    /\ UNCHANGED <<sem, evt, ret, rx, faults>>

LoopRecv ==
    /\ At("loop") /\ dlc.state = "DOWNLOADING" /\ ~thr.send_request
    /\ Goto("recv")
    /\ UNCHANGED <<dlc, sem, evt, ret, rx, faults>>

\* recv() returns n units, after the header when that is still to come;
\* http_parse and the first half of handle_received.
ForwardSize == IF RangeRequests THEN FragSize ELSE DlBufSize
WholeFragment(c) == c.progress = c.file_size \/ Len(c.buf) >= ForwardSize
Received(h, n) ==
    [dlc EXCEPT
        !.has_header = TRUE,
        !.file_size = IF @ = 0 THEN h.size ELSE @,
        !.connection_close = @ \/ h.close,
        !.buf = @ \o SubSeq(rx.data, 1, n),
        !.progress = @ + n]
Receive(h, n) ==
    LET c == Received(h, n)
    IN  /\ rx' = [header |-> {}, data |-> SubSeq(rx.data, n + 1, Len(rx.data))]
        /\ IF WholeFragment(c)
           THEN /\ dlc' = [c EXCEPT !.buf = <<>>]
                /\ evt' = Fragment(c.buf)
                /\ Goto("fragment")
           ELSE /\ dlc' = c
                /\ evt' = NoEvt
                /\ Goto("loop")

RecvHeader ==
    /\ At("recv")
    /\ \E h \in rx.header : \E n \in 0 .. Len(rx.data) :
            h.ok /\ n <= DlBufSize /\ Receive(h, n)
    /\ UNCHANGED <<sem, ret, faults>>

RecvData ==
    /\ At("recv") /\ rx.header = {}
    /\ \E n \in 1 .. Min({Len(rx.data), DlBufSize - Len(dlc.buf)}) :
            Receive([ok |-> TRUE, size |-> 0, close |-> FALSE], n)
    /\ UNCHANGED <<sem, ret, faults>>

\* A header with another status, or none that can be used.
RecvBadHeader ==
    /\ At("recv")
    /\ \E h \in rx.header : IF h.ok THEN Fault ELSE UNCHANGED faults
    /\ evt' = ErrorEvt("EBADMSG")
    /\ Goto("end")
    /\ UNCHANGED <<dlc, sem, ret, rx>>

\* The callback has taken, or refused, a fragment: the second half of
\* handle_received.
Refused == IF RangeRequests THEN FALSE ELSE ~ret
AfterFragment ==
    /\ At("fragment")
    /\ \/ /\ dlc.progress = dlc.file_size
          /\ evt' = Simple("DONE")
          /\ Goto("end")
          /\ UNCHANGED dlc
       \/ /\ dlc.progress # dlc.file_size /\ Refused
          /\ Goto("end")
          /\ UNCHANGED <<dlc, evt>>
       \/ /\ dlc.progress # dlc.file_size /\ ~Refused /\ dlc.connection_close
          /\ Reconnect("received")
          /\ UNCHANGED evt
       \/ /\ dlc.progress # dlc.file_size /\ ~Refused /\ ~dlc.connection_close
          /\ thr' = [thr EXCEPT !.pc = "loop", !.send_request = RangeRequests]
          /\ UNCHANGED <<dlc, evt>>
    /\ UNCHANGED <<sem, ret, rx, faults>>

\* recv() fails or finds the connection closed: handle_socket_error.  What
\* was counted as progress is handed over first.
SocketError(e) == evt' = ErrorEvt(e) /\ Goto("socket_error")
RecvFails ==
    /\ At("recv")
    /\ IF rx.header = {} /\ rx.data = <<>> THEN UNCHANGED faults ELSE Fault
    /\ \/ /\ dlc.has_header /\ dlc.buf # <<>>
          /\ evt' = Fragment(dlc.buf)
          /\ dlc' = [dlc EXCEPT !.buf = <<>>]
          /\ Goto("partial")
       \/ /\ ~(dlc.has_header /\ dlc.buf # <<>>)
          /\ \E e \in {"ECONNRESET", "ETIMEDOUT"} : SocketError(e)
          /\ UNCHANGED dlc
    /\ UNCHANGED <<sem, ret, rx>>

AfterPartial ==
    /\ At("partial")
    /\ IF ret
       THEN \E e \in {"ECONNRESET", "ETIMEDOUT"} : SocketError(e)
       ELSE Goto("end") /\ UNCHANGED evt
    /\ UNCHANGED <<dlc, sem, ret, rx, faults>>

AfterSocketError ==
    /\ At("socket_error")
    /\ IF ret THEN Reconnect("socket_error") ELSE Goto("end") /\ UNCHANGED dlc
    /\ UNCHANGED <<sem, evt, ret, rx, faults>>

\* After the request loop.
EndDownload ==
    /\ At("end")
    /\ Goto(IF dlc.state = "DOWNLOADING" THEN "ended" ELSE "closing")
    /\ UNCHANGED <<dlc, sem, evt, ret, rx, faults>>

SetEnded ==
    /\ At("ended")
    /\ dlc' = SetState(dlc, IF dlc.close_when_done THEN "CLOSING" ELSE "FINISHED")
    /\ Goto("closing")
    /\ UNCHANGED <<sem, evt, ret, rx, faults>>

\* handle_disconnect, called by the thread.
HandleClosing ==
    /\ At("closing")
    /\ IF dlc.state = "CLOSING"
       THEN dlc' = Closed(dlc) /\ evt' = Simple("CLOSED")
       ELSE UNCHANGED <<dlc, evt>>
    /\ Goto("wait")
    /\ UNCHANGED <<sem, ret, rx, faults>>

DownloadThread ==
    \/ WakeUp \/ CheckConnecting
    \/ ConnectOk \/ ConnectFails \/ ConnectCloses \/ ConnectReturns
    \/ LeaveLoop \/ SendRequest \/ SendFails \/ ReconnectToSend \/ LoopRecv
    \/ RecvHeader \/ RecvData \/ RecvBadHeader \/ AfterFragment
    \/ RecvFails \/ AfterPartial \/ AfterSocketError
    \/ EndDownload \/ SetEnded \/ HandleClosing

\* The types of struct download_client, of the semaphore and of the events.
DlTypeOK ==
    /\ dlc \in Client
    /\ sem \in 0 .. 1
    /\ thr.send_request \in BOOLEAN
    /\ evt = NoEvt \/ evt \in Event
    /\ ret \in BOOLEAN
    /\ faults \in 0 .. MaxFaults
=============================================================================
