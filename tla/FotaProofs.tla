----------------------------- MODULE FotaProofs -----------------------------
(***************************************************************************)
(* Proofs about the firmware download, in layers that each rest on those   *)
(* before:                                                                 *)
(*   - the types of the client, of the events and of the flags (ClientInv);*)
(*   - the DFU target: what its calls keep, as lemmas about a record;      *)
(*   - control: the state of the client against the place of the thread,   *)
(*     the event being handled, the flags and the work item (ControlInv);  *)
(*   - counting: the progress of the client against the units that the     *)
(*     target holds (CountInv);                                            *)
(*   - contents: whatever is received, collected, handed over or stored is *)
(*     the part of the image that belongs there (ImageInv), and with it    *)
(*     that FOTA implements FotaImage.                                     *)
(***************************************************************************)
EXTENDS Fota, SequenceTheorems, TLAPS

-----------------------------------------------------------------------------
(* Types.                                                                  *)
ThreadPcs ==
    {"wait", "check", "connect", "connect_failed", "connect_closed", "loop", "recv",
     "send_failed", "fragment", "partial", "socket_error", "end", "ended", "closing"}
Contexts == {"start", "request", "received", "socket_error"}

\* Where the thread may be while the client is idle.
IdlePcs == {"wait", "check", "loop", "end", "closing", "connect_closed"}

DlTypes ==
    /\ dlc \in Client
    /\ sem \in 0 .. 1
    /\ thr \in [pc : ThreadPcs, ctx : Contexts, send_request : BOOLEAN]
    /\ evt = NoEvt \/ evt \in Event
    /\ ret \in BOOLEAN
    /\ rx \in [header : SUBSET Header, data : Seq(Unit)]
    /\ faults \in 0 .. MaxFaults

\* An idle client has no file; before the first call of fota_download nothing
\* moves.
DlFiles ==
    /\ dlc.state = "IDLE" => thr.pc \in IdlePcs
    /\ dlc.state # "IDLE" => dlc.file \in Uris
    /\ uri = NoUri => /\ dlc.state = "IDLE" /\ thr.pc = "wait" /\ sem = 0
                      /\ evt = NoEvt /\ app # "start" /\ ~work /\ ~item.gets
                      /\ closing = "none"
    /\ item.gets => item.uri \in Uris

FotaTypes ==
    /\ flags \in [FlagNames -> BOOLEAN]
    /\ error_state \in BOOLEAN
    /\ retries \in 0 .. Retries
    /\ uri \in Uris \cup {NoUri}
    /\ work \in BOOLEAN /\ overtaken \in BOOLEAN
    /\ item \in [gets : BOOLEAN, uri : Uris \cup {NoUri}, from : Nat]
    /\ closing \in {"none", "closed", "stopped", "no_error"}
    /\ app \in {"idle", "start", "cancel", "cancel_done", "cancel_wait"}
    /\ reports \in Seq({"ERROR", "CANCELLED", "FINISHED"})
    /\ accepted \in Int

ClientInv == DlTypes /\ DlFiles /\ FotaTypes

-----------------------------------------------------------------------------
(* The values of the download client.                                      *)

\* A file is a sequence of units.
LEMMA FileFacts ==
    ASSUME NEW u \in Uris
    PROVE  /\ FileLen[u] \in Nat \ {0}
           /\ File(u) \in Seq(Unit) /\ Len(File(u)) = FileLen[u]
           /\ \A i \in 1 .. FileLen[u] : File(u)[i] = [uri |-> u, pos |-> i]
<1>1. FileLen[u] \in Nat \ {0}
  BY DownloadAssumption
<1>2. \A i \in 1 .. FileLen[u] : [uri |-> u, pos |-> i] \in Unit
  BY <1>1 DEF Unit
<1>3. File(u) \in [1 .. FileLen[u] -> Unit]
  BY <1>1, <1>2 DEF File
<1>4. File(u) \in Seq(Unit) /\ Len(File(u)) = FileLen[u]
  BY <1>1, <1>3
<1>5. \A i \in 1 .. FileLen[u] : File(u)[i] = [uri |-> u, pos |-> i]
  BY DEF File
<1> QED
  BY <1>1, <1>4, <1>5

\* A part of a sequence.
LEMMA Part ==
    ASSUME NEW S, NEW s \in Seq(S), NEW m \in Nat \ {0}, NEW n \in Int, n <= Len(s)
    PROVE  /\ SubSeq(s, m, n) \in Seq(S)
           /\ Len(SubSeq(s, m, n)) = IF m <= n THEN n - m + 1 ELSE 0
           /\ \A i \in 1 .. n - m + 1 : SubSeq(s, m, n)[i] = s[m + i - 1]
<1>1. \A i \in m .. n : s[i] \in S
  OBVIOUS
<1> QED
  BY <1>1, SubSeqProperties

\* The smaller of two numbers.
LEMMA MinOfTwo ==
    ASSUME NEW a \in Int, NEW b \in Int
    PROVE  /\ Min({a, b}) \in Int
           /\ Min({a, b}) = IF a <= b THEN a ELSE b
<1>1. \E x \in {a, b} : \A y \in {a, b} : x <= y
  OBVIOUS
<1>2. Min({a, b}) \in {a, b} /\ \A y \in {a, b} : Min({a, b}) <= y
  BY <1>1 DEF Min
<1> QED
  BY <1>2

\* The events and what tells them apart.
LEMMA EventFacts ==
    /\ \A d \in Seq(Unit) : /\ Fragment(d) \in Event /\ Fragment(d).id = "FRAGMENT"
                            /\ Fragment(d).data = d
    /\ \A i \in {"DONE", "CLOSED"} : Simple(i) \in Event /\ Simple(i).id = i
    /\ \A e \in Errors : /\ ErrorEvt(e) \in Event /\ ErrorEvt(e).id = "ERROR"
                         /\ ErrorEvt(e).error = e
    /\ NoEvt.id = "NONE"
    /\ \A e \in Event : /\ e.id \in {"FRAGMENT", "DONE", "CLOSED", "ERROR"}
                        /\ e.id = "FRAGMENT" => e.data \in Seq(Unit)
                        /\ e # NoEvt
<1>1. <<>> \in Seq(Unit)
  OBVIOUS
<1>2. NoEvt.id = "NONE"
  BY DEF NoEvt
<1>3. ASSUME NEW e \in Event
      PROVE  /\ e.id \in {"FRAGMENT", "DONE", "CLOSED", "ERROR"}
             /\ e.id = "FRAGMENT" => e.data \in Seq(Unit)
  BY DEF Event
<1>4. \A e \in Event : e # NoEvt
  BY <1>2, <1>3
<1>5. \A d \in Seq(Unit) : /\ Fragment(d) \in Event /\ Fragment(d).id = "FRAGMENT"
                           /\ Fragment(d).data = d
  BY DEF Event, Fragment
<1>6. \A i \in {"DONE", "CLOSED"} : Simple(i) \in Event /\ Simple(i).id = i
  BY <1>1 DEF Event, Simple
<1>7. \A e \in Errors : /\ ErrorEvt(e) \in Event /\ ErrorEvt(e).id = "ERROR"
                        /\ ErrorEvt(e).error = e
  BY DEF Event, ErrorEvt
<1> QED
  BY <1>2, <1>3, <1>4, <1>5, <1>6, <1>7

\* set_state and the other changes of the client keep its type.
LEMMA ClientFacts ==
    ASSUME NEW c \in Client
    PROVE  /\ \A s \in DlStates : SetState(c, s) \in Client
           /\ SetState(c, "CLOSING").state = IF c.state = "IDLE" THEN "IDLE" ELSE "CLOSING"
           /\ SetState(c, "CLOSING") = [c EXCEPT !.state = SetState(c, "CLOSING").state]
           /\ Closed(c) \in Client /\ Closed(c).state = "IDLE"
BY DEF SetState, Closed, Client, DlStates

\* A step of the download thread.
LEMMA ThreadClient ==
    ASSUME ClientInv, DownloadThread, UNCHANGED <<fotaVars, appVars, reports>>
    PROVE  ClientInv'
<1> USE DEF ClientInv
<1>0. FotaTypes'
  BY DEF FotaTypes, fotaVars, appVars, callVars
<1>e. /\ <<>> \in Seq(Unit)
      /\ [header |-> {}, data |-> <<>>] \in [header : SUBSET Header, data : Seq(Unit)]
  OBVIOUS
<1>f. Fault \/ UNCHANGED faults => faults' \in 0 .. MaxFaults
  BY DownloadAssumption DEF Fault, DlTypes
<1>u. UNCHANGED <<uri, app, work, item, closing>>
  BY DEF fotaVars, appVars, callVars
<1>1. CASE WakeUp
  BY <1>0, <1>u, <1>1 DEF WakeUp, At, Goto, DlTypes, DlFiles, ThreadPcs, IdlePcs
<1>2. CASE CheckConnecting
  BY <1>0, <1>u, <1>2 DEF CheckConnecting, At, Goto, DlTypes, DlFiles, ThreadPcs, IdlePcs, Contexts
<1>3. CASE ConnectOk
  <2>1. dlc' \in Client /\ dlc'.state = (IF thr.ctx = "start" THEN "DOWNLOADING" ELSE dlc.state)
        /\ dlc'.file = dlc.file
    BY <1>3 DEF ConnectOk, DlTypes, Client, DlStates
  <2> QED
    BY <1>0, <1>u, <1>e, <1>3, <2>1 DEF ConnectOk, At, Goto, DlTypes, DlFiles, ThreadPcs, IdlePcs, Contexts
<1>4. CASE ConnectFails
  <2>1. evt' \in Event
    BY <1>4, EventFacts DEF ConnectFails, Errors
  <2> QED
    BY <1>0, <1>u, <1>f, <1>4, <2>1 DEF ConnectFails, At, Goto, DlTypes, DlFiles, ThreadPcs, IdlePcs, Contexts
<1>5. CASE ConnectCloses
  <2>1. dlc' \in Client /\ dlc'.state = "IDLE" /\ evt' \in Event
    BY <1>5, EventFacts, ClientFacts DEF ConnectCloses, DlTypes
  <2> QED
    BY <1>0, <1>u, <1>5, <2>1 DEF ConnectCloses, At, Goto, DlTypes, DlFiles, ThreadPcs, IdlePcs, Contexts
<1>6. CASE ConnectReturns
  <2>1. evt' = NoEvt \/ evt' \in Event
    BY <1>6, EventFacts DEF ConnectReturns, Errors
  <2> QED
    BY <1>0, <1>u, <1>6, <2>1 DEF ConnectReturns, At, Goto, DlTypes, DlFiles, ThreadPcs, IdlePcs, Contexts
<1>7. CASE LeaveLoop
  BY <1>0, <1>u, <1>7 DEF LeaveLoop, At, Goto, DlTypes, DlFiles, ThreadPcs, IdlePcs, Contexts
<1>8. CASE SendRequest
  <2>1. dlc' \in Client /\ dlc'.state = dlc.state /\ dlc'.file = dlc.file
    BY <1>8, <1>e DEF SendRequest, DlTypes, Client
  <2>2. rx' \in [header : SUBSET Header, data : Seq(Unit)] /\ faults' \in 0 .. MaxFaults
    <3> DEFINE last == IF RangeRequests
                       THEN Min({dlc.progress + FragSize, FileLen[dlc.file]}) ELSE FileLen[dlc.file]
    <3>1. dlc.file \in Uris /\ dlc.progress \in Nat
      BY <1>8 DEF SendRequest, DlTypes, DlFiles, Client
    <3>2. last \in Int /\ last <= FileLen[dlc.file]
      BY <3>1, FileFacts, MinOfTwo, DownloadAssumption, SMTT(60)
    <3>3. SubSeq(File(dlc.file), dlc.progress + 1, last) \in Seq(Unit)
      <4> HIDE DEF last
      <4>1. dlc.progress + 1 \in Nat \ {0}
        BY <3>1
      <4> QED
        BY <4>1, <3>1, <3>2, FileFacts, Part
    <3>4. PICK close \in BOOLEAN :
            /\ IF close THEN Fault ELSE UNCHANGED faults
            /\ rx' = [header |-> {[ok |-> dlc.progress + 1 <= FileLen[dlc.file],
                                   size |-> FileLen[dlc.file], close |-> close]},
                      data |-> SubSeq(File(dlc.file), dlc.progress + 1, last)]
      BY <1>8 DEF SendRequest, ServerSends
    <3> HIDE DEF last
    <3>5. [ok |-> dlc.progress + 1 <= FileLen[dlc.file],
           size |-> FileLen[dlc.file], close |-> close] \in Header
      BY <3>1, FileFacts DEF Header
    <3> QED
      BY <3>3, <3>4, <3>5, DownloadAssumption DEF Fault, DlTypes
  <2> QED
    BY <1>0, <1>u, <1>8, <2>1, <2>2 DEF SendRequest, At, Goto, DlTypes, DlFiles, ThreadPcs, IdlePcs, Contexts
<1>9. CASE SendFails
  <2>1. dlc' \in Client /\ dlc'.state = dlc.state /\ dlc'.file = dlc.file
    BY <1>9, <1>e DEF SendFails, DlTypes, Client
  <2>2. evt' \in Event
    BY <1>9, EventFacts DEF SendFails, Errors
  <2> QED
    BY <1>0, <1>u, <1>f, <1>9, <2>1, <2>2 DEF SendFails, At, Goto, DlTypes, DlFiles, ThreadPcs, IdlePcs, Contexts
<1>r. ASSUME NEW x \in Contexts, Reconnect(x), At("send_failed") \/ At("fragment") \/ At("socket_error"),
             UNCHANGED <<sem, evt, ret, rx, faults>>
      PROVE  ClientInv'
  <2>1. dlc' \in Client /\ dlc'.state = dlc.state /\ dlc'.file = dlc.file
    BY <1>r DEF Reconnect, DlTypes, Client
  <2> QED
    BY <1>0, <1>u, <1>r, <2>1 DEF Reconnect, At, DlTypes, DlFiles, ThreadPcs, IdlePcs, Contexts
<1>10. CASE ReconnectToSend
  <2>1. CASE ret
    BY <2>1, <1>10, <1>r DEF ReconnectToSend, Contexts
  <2>2. CASE ~ret
    BY <2>2, <1>0, <1>u, <1>10 DEF ReconnectToSend, At, Goto, DlTypes, DlFiles, ThreadPcs, IdlePcs
  <2> QED
    BY <2>1, <2>2
<1>11. CASE LoopRecv
  BY <1>0, <1>u, <1>11 DEF LoopRecv, At, Goto, DlTypes, DlFiles, ThreadPcs, IdlePcs, Contexts
<1>v. ASSUME NEW h \in Header, NEW n \in 0 .. Len(rx.data), At("recv"), Receive(h, n),
             UNCHANGED <<sem, ret, faults>>
      PROVE  ClientInv'
  <2>1. /\ SubSeq(rx.data, 1, n) \in Seq(Unit)
        /\ SubSeq(rx.data, n + 1, Len(rx.data)) \in Seq(Unit)
    BY Part DEF DlTypes
  <2>2. /\ Received(h, n) \in Client /\ Received(h, n).state = dlc.state
        /\ Received(h, n).file = dlc.file /\ Received(h, n).buf \in Seq(Unit)
    <3>1. dlc.buf \o SubSeq(rx.data, 1, n) \in Seq(Unit)
      BY <2>1, ConcatProperties DEF DlTypes, Client
    <3>2. dlc \in Client /\ h.size \in Nat /\ h.close \in BOOLEAN /\ n \in Nat
      BY DEF DlTypes, Header
    <3>3. /\ (IF dlc.file_size = 0 THEN h.size ELSE dlc.file_size) \in Nat
          /\ (dlc.connection_close \/ h.close) \in BOOLEAN
          /\ dlc.progress + n \in Nat
      BY <3>2 DEF Client
    <3>5. PICK f \in Nat, b \in BOOLEAN, p \in Nat :
            /\ f = IF dlc.file_size = 0 THEN h.size ELSE dlc.file_size
            /\ b = (dlc.connection_close \/ h.close)
            /\ p = dlc.progress + n
      BY <3>3
    <3>6. Received(h, n) = [dlc EXCEPT !.has_header = TRUE, !.file_size = f,
                                       !.connection_close = b,
                                       !.buf = dlc.buf \o SubSeq(rx.data, 1, n),
                                       !.progress = p]
      BY <3>5 DEF Received
    <3> QED
      BY <3>1, <3>2, <3>5, <3>6 DEF Client
  <2>3. [Received(h, n) EXCEPT !.buf = <<>>] \in Client
        /\ [Received(h, n) EXCEPT !.buf = <<>>].state = dlc.state
        /\ [Received(h, n) EXCEPT !.buf = <<>>].file = dlc.file
    BY <2>2, <1>e DEF Client
  <2>4. dlc' \in Client /\ dlc'.state = dlc.state /\ dlc'.file = dlc.file
    BY <1>v, <2>2, <2>3 DEF Receive
  <2>5. evt' = NoEvt \/ evt' \in Event
    BY <1>v, <2>2, EventFacts DEF Receive
  <2>6. rx' \in [header : SUBSET Header, data : Seq(Unit)]
    BY <1>v, <2>1 DEF Receive
  <2>7. thr' \in [pc : ThreadPcs, ctx : Contexts, send_request : BOOLEAN]
    BY <1>v DEF Receive, Goto, DlTypes, ThreadPcs
  <2>8. dlc.state # "IDLE" /\ uri # NoUri
    BY <1>v DEF At, DlFiles, IdlePcs
  <2> QED
    BY <1>0, <1>u, <1>v, <2>4, <2>5, <2>6, <2>7, <2>8 DEF DlTypes, DlFiles
<1>12. CASE RecvHeader
  <2>1. PICK h \in rx.header, n \in 0 .. Len(rx.data) : Receive(h, n)
    BY <1>12 DEF RecvHeader
  <2>2. h \in Header
    BY <2>1 DEF DlTypes
  <2> QED
    BY <2>1, <2>2, <1>12, <1>v DEF RecvHeader
<1>13. CASE RecvData
  <2>1. PICK n \in 1 .. Min({Len(rx.data), DlBufSize - Len(dlc.buf)}) :
            Receive([ok |-> TRUE, size |-> 0, close |-> FALSE], n)
    BY <1>13 DEF RecvData
  <2>2. Len(rx.data) \in Nat /\ DlBufSize - Len(dlc.buf) \in Int
    BY DownloadAssumption DEF DlTypes, Client
  <2>3. n \in 0 .. Len(rx.data)
    BY <2>1, <2>2, MinOfTwo
  <2>4. [ok |-> TRUE, size |-> 0, close |-> FALSE] \in Header
    BY DEF Header
  <2> QED
    BY <2>1, <2>3, <2>4, <1>13, <1>v DEF RecvData
<1>14. CASE RecvBadHeader
  <2>1. evt' \in Event
    BY <1>14, EventFacts DEF RecvBadHeader, Errors
  <2> QED
    BY <1>0, <1>u, <1>f, <1>14, <2>1 DEF RecvBadHeader, At, Goto, DlTypes, DlFiles, ThreadPcs, IdlePcs, Contexts
<1>15. CASE AfterFragment
  <2>1. CASE Reconnect("received") /\ UNCHANGED evt
    BY <2>1, <1>15, <1>r DEF AfterFragment, Contexts
  <2>2. CASE evt' = Simple("DONE") /\ Goto("end") /\ UNCHANGED dlc
    <3>1. evt' \in Event
      BY <2>2, EventFacts
    <3> QED
      BY <3>1, <2>2, <1>0, <1>u, <1>15 DEF AfterFragment, At, Goto, DlTypes, DlFiles, ThreadPcs, IdlePcs
  <2>3. CASE Goto("end") /\ UNCHANGED <<dlc, evt>>
    BY <2>3, <1>0, <1>u, <1>15 DEF AfterFragment, At, Goto, DlTypes, DlFiles, ThreadPcs, IdlePcs
  <2>4. CASE thr' = [thr EXCEPT !.pc = "loop", !.send_request = RangeRequests] /\ UNCHANGED <<dlc, evt>>
    BY <2>4, <1>0, <1>u, <1>15, DownloadAssumption DEF AfterFragment, At, Goto, DlTypes, DlFiles, ThreadPcs, IdlePcs
  <2> QED
    BY <2>1, <2>2, <2>3, <2>4, <1>15 DEF AfterFragment
<1>16. CASE RecvFails
  <2>1. /\ dlc' \in Client /\ dlc'.state = dlc.state /\ dlc'.file = dlc.file
    BY <1>16, <1>e DEF RecvFails, DlTypes, Client
  <2>2. evt' \in Event
    BY <1>16, EventFacts DEF RecvFails, SocketError, Errors, DlTypes, Client
  <2>3. thr' \in [pc : ThreadPcs, ctx : Contexts, send_request : BOOLEAN]
    BY <1>16 DEF RecvFails, SocketError, Goto, DlTypes, ThreadPcs
  <2>4. faults' \in 0 .. MaxFaults
    BY <1>16, DownloadAssumption DEF RecvFails, Fault, DlTypes
  <2>5. dlc.state # "IDLE" /\ uri # NoUri
    BY <1>16 DEF RecvFails, At, DlFiles, IdlePcs
  <2> QED
    BY <1>0, <1>u, <1>16, <2>1, <2>2, <2>3, <2>4, <2>5 DEF RecvFails, DlTypes, DlFiles
<1>17. CASE AfterPartial
  <2>1. evt' = NoEvt \/ evt' \in Event
    BY <1>17, EventFacts DEF AfterPartial, SocketError, Errors, At
  <2>2. thr' \in [pc : ThreadPcs, ctx : Contexts, send_request : BOOLEAN]
    BY <1>17 DEF AfterPartial, SocketError, Goto, DlTypes, ThreadPcs
  <2>3. dlc.state # "IDLE" /\ uri # NoUri
    BY <1>17 DEF AfterPartial, At, DlFiles, IdlePcs
  <2> QED
    BY <1>0, <1>u, <1>17, <2>1, <2>2, <2>3 DEF AfterPartial, DlTypes, DlFiles
<1>18. CASE AfterSocketError
  <2>1. CASE ret
    BY <2>1, <1>18, <1>r DEF AfterSocketError, Contexts
  <2>2. CASE ~ret
    BY <2>2, <1>0, <1>u, <1>18 DEF AfterSocketError, At, Goto, DlTypes, DlFiles, ThreadPcs, IdlePcs
  <2> QED
    BY <2>1, <2>2
<1>19. CASE EndDownload
  BY <1>0, <1>u, <1>19 DEF EndDownload, At, Goto, DlTypes, DlFiles, ThreadPcs, IdlePcs, Contexts
<1>20. CASE SetEnded
  <2>1. dlc.state # "IDLE"
    BY <1>20 DEF SetEnded, At, DlFiles, IdlePcs
  <2>2. dlc' \in Client /\ dlc'.state # "IDLE" /\ dlc'.file = dlc.file
    BY <1>20, <2>1 DEF SetEnded, SetState, DlTypes, Client, DlStates
  <2> QED
    BY <1>0, <1>u, <1>20, <2>1, <2>2 DEF SetEnded, At, Goto, DlTypes, DlFiles, ThreadPcs, IdlePcs, Contexts
<1>21. CASE HandleClosing
  <2>1. dlc' \in Client /\ (dlc' = dlc \/ dlc'.state = "IDLE")
    BY <1>21, ClientFacts DEF HandleClosing, DlTypes
  <2>2. evt' = NoEvt \/ evt' \in Event
    BY <1>21, EventFacts DEF HandleClosing, At
  <2>3. uri # NoUri
    BY <1>21 DEF HandleClosing, At, DlFiles
  <2> QED
    BY <1>0, <1>u, <1>21, <2>1, <2>2, <2>3 DEF HandleClosing, At, Goto, DlTypes, DlFiles, ThreadPcs, IdlePcs, Contexts
<1> QED
  BY <1>1, <1>2, <1>3, <1>4, <1>5, <1>6, <1>7, <1>8, <1>9, <1>10, <1>11, <1>12, <1>13,
     <1>14, <1>15, <1>16, <1>17, <1>18, <1>19, <1>20, <1>21 DEF DownloadThread

-----------------------------------------------------------------------------
(* The callback and the calls keep the types of the client.                *)
Flags == [FlagNames -> BOOLEAN]

\* disconnect() takes an idle client for what it is.
LEMMA DisconnectFacts ==
    ASSUME dlc \in Client, sem \in 0 .. 1
    PROVE  /\ Disconnected \in Client /\ SemAfterDisconnect \in 0 .. 1
           /\ Disconnected.state = IF dlc.state = "IDLE" THEN "IDLE" ELSE "CLOSING"
           /\ Disconnected = [dlc EXCEPT !.state = Disconnected.state]
           /\ Disconnected.file = dlc.file
BY DEF Disconnected, SemAfterDisconnect, Disconnects, SetState, Client, DlStates

\* Flags that are set and cleared.
LEMMA FlagFacts ==
    ASSUME flags \in Flags, NEW set, NEW clear
    PROVE  /\ With(set, clear) \in Flags
           /\ \A f \in FlagNames : With(set, clear)[f] = ((flags[f] \/ f \in set) /\ f \notin clear)
BY DEF With, Flags

\* What a callback leaves of the client's and FOTA's own variables.
CallbackKeeps ==
    /\ \/ dlc' = dlc /\ sem' = sem
       \/ dlc' = Disconnected /\ sem' = SemAfterDisconnect
    /\ ret' \in BOOLEAN /\ flags' \in Flags
    /\ error_state' \in BOOLEAN /\ work' \in BOOLEAN
    /\ faults' \in 0 .. MaxFaults

\* The label error_and_close.
LEMMA ErrorKeeps ==
    ASSUME ClientInv, NEW d, NEW f \in Flags, ErrorAndClose(d, f), Fault \/ UNCHANGED faults
    PROVE  CallbackKeeps
<1>1. faults' \in 0 .. MaxFaults
  BY DownloadAssumption DEF ClientInv, DlTypes, Fault
<1>2. flags' \in Flags
  BY DEF ErrorAndClose, Flags, FlagNames
<1> QED
  BY <1>1, <1>2 DEF ErrorAndClose, DoDisconnect, Returns, CallbackKeeps, ClientInv, FotaTypes

\* A fragment is written, or refused.
LEMMA WriteKeeps ==
    ASSUME ClientInv, NEW d, NEW f \in Flags, WriteFragment(d, f)
    PROVE  CallbackKeeps
<1>1. CASE /\ flags' = f /\ Returns(TRUE) /\ NoDisconnect
           /\ UNCHANGED <<error_state, work, faults>>
  BY <1>1 DEF Returns, NoDisconnect, CallbackKeeps, ClientInv, DlTypes, FotaTypes
<1>2. CASE \E e : ErrorAndClose(e, f) /\ (Fault \/ UNCHANGED faults)
  BY <1>2, ErrorKeeps
<1> QED
  BY <1>1, <1>2 DEF WriteFragment

\* The first fragment.
LEMMA FirstKeeps ==
    ASSUME ClientInv, FirstFragment
    PROVE  CallbackKeeps
<1> DEFINE f == With({}, {"FIRST_FRAGMENT"})
           g == With({}, {"FIRST_FRAGMENT", "RESUME"})
<1>1. f \in Flags /\ g \in Flags
  BY FlagFacts DEF ClientInv, FotaTypes, Flags
<1>2. CASE \E e : ErrorAndClose(e, f) /\ (Fault \/ UNCHANGED faults)
  BY <1>1, <1>2, ErrorKeeps
<1>3. CASE \E e : ErrorAndClose(e, g) /\ (Fault \/ UNCHANGED faults)
  BY <1>1, <1>3, ErrorKeeps
<1>4. CASE \E e : WriteFragment(e, g)
  BY <1>1, <1>4, WriteKeeps
<1>5. CASE /\ flags' = [f EXCEPT !["RESUME"] = TRUE]
           /\ DoDisconnect
           /\ work' = TRUE
           /\ Returns(FALSE)
           /\ UNCHANGED <<error_state, faults>>
  <2>1. flags' \in Flags
    BY <1>1, <1>5 DEF Flags
  <2> QED
    BY <2>1, <1>5 DEF DoDisconnect, Returns, CallbackKeeps, ClientInv, DlTypes, FotaTypes
<1> QED
  BY <1>2, <1>3, <1>4, <1>5 DEF FirstFragment

\* What the callback does with CLOSED, step by step.
LEMMA ClosedEffects ==
    ASSUME ClientInv, ClosedCallback
    PROVE  /\ UNCHANGED <<dlc, sem, thr, rx, faults, dfu, error_state, retries, uri, work, item,
                          overtaken, app, accepted>>
           /\ flags' \in Flags
           /\ flags'["FIRST_FRAGMENT"] = flags["FIRST_FRAGMENT"]
           /\ flags'["RESUME"] = flags["RESUME"] /\ flags'["NEW_URI"] = flags["NEW_URI"]
           /\ reports' \in Seq({"ERROR", "CANCELLED", "FINISHED"})
           /\ \/ /\ closing = "none" /\ evt.id = "CLOSED" /\ closing' = "closed"
                 /\ UNCHANGED <<evt, ret, reports>>
                 /\ flags'["CLOSED"] /\ flags'["DOWNLOADING"] = flags["DOWNLOADING"]
              \/ /\ closing = "closed" /\ flags["RESUME"] /\ closing' = "none"
                 /\ evt' = NoEvt /\ ret' = TRUE /\ UNCHANGED <<flags, reports>>
              \/ /\ closing = "closed" /\ ~flags["RESUME"] /\ closing' = "stopped"
                 /\ UNCHANGED <<evt, ret, reports>>
                 /\ flags'["CLOSED"] = flags["CLOSED"] /\ ~flags'["DOWNLOADING"]
              \/ /\ closing = "stopped" /\ closing' = "no_error"
                 /\ UNCHANGED <<evt, ret, flags, reports>>
              \/ /\ closing \in {"stopped", "no_error"} /\ closing' = "none"
                 /\ evt' = NoEvt /\ ret' = TRUE /\ Len(reports') = Len(reports) + 1
                 /\ flags'["CLOSED"] = flags["CLOSED"]
                 /\ flags'["DOWNLOADING"] = flags["DOWNLOADING"]
<1>1. flags \in Flags /\ reports \in Seq({"ERROR", "CANCELLED", "FINISHED"})
  BY DEF ClientInv, FotaTypes, Flags
<1>3. ASSUME NEW o \in {"ERROR", "CANCELLED", "FINISHED"}, SendEvt(o)
      PROVE  /\ reports' \in Seq({"ERROR", "CANCELLED", "FINISHED"})
             /\ Len(reports') = Len(reports) + 1
  BY <1>1, <1>3, AppendProperties DEF SendEvt
<1>4. CASE OnClosed
  <2>1. /\ flags' = With({"CLOSED"}, {}) /\ closing = "none" /\ evt.id = "CLOSED"
        /\ closing' = "closed" /\ UNCHANGED <<evt, ret, reports>>
        /\ UNCHANGED <<dlc, sem, thr, rx, faults, dfu, error_state, retries, uri, work, item,
                       overtaken, app, accepted>>
    BY <1>4 DEF OnClosed, dlVars, appVars
  <2>2. /\ flags' \in Flags /\ flags'["CLOSED"]
        /\ \A f \in FlagNames \ {"CLOSED"} : flags'[f] = flags[f]
    BY <1>1, <2>1 DEF With, Flags, FlagNames
  <2>3. {"FIRST_FRAGMENT", "RESUME", "NEW_URI", "DOWNLOADING"} \subseteq FlagNames \ {"CLOSED"}
    BY DEF FlagNames
  <2> QED
    BY <1>1, <2>1, <2>2, <2>3
<1>5. CASE StopsUnlessResumed
  <2>1. CASE flags["RESUME"]
    BY <1>1, <1>5, <2>1 DEF StopsUnlessResumed, ClosedReturns, Returns, appVars
  <2>2. CASE ~flags["RESUME"]
    <3>1. /\ flags' = With({}, {"DOWNLOADING"}) /\ closing = "closed" /\ closing' = "stopped"
          /\ UNCHANGED <<evt, ret, reports>>
          /\ UNCHANGED <<dlc, sem, thr, rx, faults, dfu, error_state, retries, uri, work, item,
                         overtaken, app, accepted>>
      BY <1>5, <2>2 DEF StopsUnlessResumed, appVars
    <3>2. /\ flags' \in Flags /\ ~flags'["DOWNLOADING"]
          /\ \A f \in FlagNames \ {"DOWNLOADING"} : flags'[f] = flags[f]
      BY <1>1, <3>1 DEF With, Flags, FlagNames
    <3>3. {"FIRST_FRAGMENT", "RESUME", "NEW_URI", "CLOSED"} \subseteq FlagNames \ {"DOWNLOADING"}
      BY DEF FlagNames
    <3> QED
      BY <1>1, <2>2, <3>1, <3>2, <3>3
  <2> QED
    BY <2>1, <2>2
<1>6. CASE TestsError
  <2>1. CASE error_state
    BY <1>1, <1>3, <1>6, <2>1 DEF TestsError, ClosedReturns, Returns, appVars
  <2>2. CASE ~error_state
    BY <1>1, <1>6, <2>2 DEF TestsError, appVars
  <2> QED
    BY <2>1, <2>2
<1>7. CASE TestsCancel
  <2>1. Outcome(FALSE) \in {"ERROR", "CANCELLED", "FINISHED"}
    BY DEF Outcome
  <2>2. /\ reports' \in Seq({"ERROR", "CANCELLED", "FINISHED"})
        /\ Len(reports') = Len(reports) + 1
    BY <1>3, <1>7, <2>1 DEF TestsCancel
  <2>3. /\ flags' = With({}, {"CANCEL"}) /\ closing = "no_error" /\ closing' = "none"
        /\ evt' = NoEvt /\ ret' = TRUE
        /\ UNCHANGED <<dlc, sem, thr, rx, faults, dfu, error_state, retries, uri, work, item,
                       overtaken, app, accepted>>
    BY <1>7 DEF TestsCancel, ClosedReturns, Returns, appVars
  <2>4. /\ flags' \in Flags
        /\ \A f \in FlagNames \ {"CANCEL"} : flags'[f] = flags[f]
    BY <1>1, <2>3 DEF With, Flags, FlagNames
  <2>5. {"FIRST_FRAGMENT", "RESUME", "NEW_URI", "CLOSED", "DOWNLOADING"}
            \subseteq FlagNames \ {"CANCEL"}
    BY DEF FlagNames
  <2> QED
    BY <1>1, <2>2, <2>3, <2>4, <2>5
<1> QED
  BY <1>4, <1>5, <1>6, <1>7 DEF ClosedCallback

\* Every callback.
LEMMA CallbackClient ==
    ASSUME ClientInv, DownloadCallback
    PROVE  ClientInv'
<1>1. ASSUME OnFragment \/ OnDone \/ OnError
      PROVE  evt # NoEvt /\ evt \in Event /\ uri # NoUri
  BY <1>1, EventFacts DEF OnFragment, OnDone, OnError, Handles, ClientInv, DlTypes, DlFiles
<1>2. ASSUME OnFragment \/ OnDone \/ OnError
      PROVE  UNCHANGED <<thr, rx, uri, app, accepted, item, closing, overtaken>> /\ evt' = NoEvt
  BY <1>2 DEF OnFragment, OnDone, OnError, Handles, appVars, callVars
<1>3. ASSUME OnFragment \/ OnDone \/ OnError, CallbackKeeps, retries' \in 0 .. Retries,
             reports' \in Seq({"ERROR", "CANCELLED", "FINISHED"})
      PROVE  ClientInv'
  <2>1. dlc' \in Client /\ sem' \in 0 .. 1 /\ dlc'.file = dlc.file
        /\ (dlc'.state = "IDLE" <=> dlc.state = "IDLE")
    BY <1>3, DisconnectFacts DEF CallbackKeeps, ClientInv, DlTypes
  <2>2. DlTypes'
    BY <1>2, <1>3, <2>1 DEF CallbackKeeps, ClientInv, DlTypes
  <2>3. FotaTypes'
    BY <1>2, <1>3 DEF CallbackKeeps, ClientInv, FotaTypes, Flags
  <2>4. DlFiles'
    BY <1>1, <1>2, <1>3, <2>1 DEF ClientInv, DlFiles
  <2> QED
    BY <2>2, <2>3, <2>4 DEF ClientInv
<1>4. flags \in Flags
  BY DEF ClientInv, FotaTypes, Flags
<1>r. /\ UNCHANGED retries => retries' \in 0 .. Retries
      /\ UNCHANGED reports => reports' \in Seq({"ERROR", "CANCELLED", "FINISHED"})
  BY DEF ClientInv, FotaTypes
<1>5. CASE OnFragment
  <2>1. CallbackKeeps
    BY <1>4, <1>5, FirstKeeps, WriteKeeps DEF OnFragment
  <2> QED
    BY <1>3, <1>5, <1>r, <2>1 DEF OnFragment
<1>6. CASE OnDone
  <2>1. ASSUME NEW d, ErrorAndClose(d, flags), Fault \/ UNCHANGED faults
        PROVE  CallbackKeeps
    BY <1>4, <2>1, ErrorKeeps
  <2>2. ASSUME NEW d, DoneAndScheduled(d), Fault \/ UNCHANGED faults
        PROVE  CallbackKeeps
    <3>1. faults' \in 0 .. MaxFaults
      BY <2>2, DownloadAssumption DEF ClientInv, DlTypes, Fault
    <3> QED
      BY <1>4, <2>2, <3>1 DEF DoneAndScheduled, DoDisconnect, Returns, CallbackKeeps,
         ClientInv, FotaTypes
  <2>3. \/ DoneAndScheduled(DoneOk(dfu)) /\ UNCHANGED faults
        \/ ErrorAndClose(DoneFlushFails(dfu), flags) /\ Fault
        \/ DoneAndScheduled(DoneFlushFails(dfu)) /\ Fault
        \/ ErrorAndClose(DoneOk(dfu), flags) /\ Fault
        \/ ErrorAndClose(dfu, flags) /\ UNCHANGED faults
    BY <1>6 DEF OnDone
  <2>4. CallbackKeeps
    BY <2>1, <2>2, <2>3
  <2> QED
    BY <1>3, <1>6, <1>r, <2>4 DEF OnDone
<1>7. CASE OnError
  <2>1. CallbackKeeps
    <3>1. CASE ErrorAndClose(dfu, flags)
      BY <1>4, <1>7, <3>1, ErrorKeeps DEF OnError
    <3>2. CASE Returns(TRUE) /\ NoDisconnect /\ UNCHANGED <<dfu, flags, error_state, work>>
      BY <1>4, <1>7, <3>2 DEF OnError, Returns, NoDisconnect, CallbackKeeps, ClientInv, DlTypes,
         FotaTypes
    <3> QED
      BY <1>7, <3>1, <3>2 DEF OnError
  <2>2. retries' \in 0 .. Retries
    <3>1. retries \in 0 .. Retries /\ Retries \in Nat
      BY FotaAssumption DEF ClientInv, FotaTypes
    <3>2. (retries > 0 /\ retries' = retries - 1) \/ UNCHANGED retries
      BY <1>7 DEF OnError
    <3> QED
      BY <3>1, <3>2
  <2> QED
    BY <1>3, <1>7, <1>r, <2>1, <2>2 DEF OnError
<1>8. CASE ClosedCallback
  <2>1. /\ UNCHANGED <<dlc, sem, thr, rx, faults, error_state, retries, uri, work, item,
                       overtaken, app, accepted>>
        /\ flags' \in Flags /\ closing' \in {"none", "closed", "stopped", "no_error"}
        /\ evt' = evt \/ evt' = NoEvt
        /\ ret' \in BOOLEAN /\ uri # NoUri
        /\ reports' \in Seq({"ERROR", "CANCELLED", "FINISHED"})
    BY <1>8, ClosedEffects, EventFacts DEF ClientInv, DlTypes, DlFiles, FotaTypes
  <2>2. DlTypes' /\ FotaTypes'
    BY <2>1 DEF ClientInv, DlTypes, FotaTypes, Flags
  <2>3. DlFiles'
    BY <2>1 DEF ClientInv, DlFiles
  <2> QED
    BY <2>2, <2>3 DEF ClientInv
<1> QED
  BY <1>5, <1>6, <1>7, <1>8 DEF DownloadCallback

\* The work item, the application, and a reset of the device.
LEMMA OthersClient ==
    ASSUME ClientInv,
           \/ WorkItem \/ fota_download \/ fota_download_cancel
           \/ Application \/ Reboot,
           dfu_target_offset_get(dfu) \in Nat
    PROVE  ClientInv'
<1>1. flags \in Flags /\ dlc \in Client /\ sem \in 0 .. 1
  BY DEF ClientInv, FotaTypes, DlTypes, Flags
<1>2. <<>> \in Seq(Unit)
  OBVIOUS
<1>3. ASSUME NEW n \in Nat, NEW u \in Uris
      PROVE  Got(u, n) \in Client /\ Got(u, n).state = "CONNECTING" /\ Got(u, n).file = u
  BY <1>1, <1>2, <1>3 DEF Got, Client, DlStates
<1>4. CASE fota_download
  <2>1. PICK u \in Uris :
            /\ uri' = u
            /\ flags' = [With({"DOWNLOADING", "FIRST_FRAGMENT"}, {"CLOSED", "RESUME"})
                            EXCEPT !["NEW_URI"] = (u # uri)]
    BY <1>4 DEF fota_download
  <2>2. flags' \in Flags
    BY <1>1, <2>1, FlagFacts DEF Flags
  <2>3. FotaTypes'
    <3>1. accepted' \in Int /\ retries' \in 0 .. Retries
      BY <1>4, FotaAssumption DEF fota_download, callVars, ClientInv, FotaTypes
    <3> QED
      BY <1>4, <2>1, <2>2, <3>1 DEF fota_download, callVars, ClientInv, FotaTypes, Flags
  <2>4. DlTypes' /\ DlFiles'
    BY <1>4, <2>1, DownloadAssumption DEF fota_download, callVars, ClientInv, DlTypes, DlFiles, dlVars
  <2> QED
    BY <2>3, <2>4 DEF ClientInv
<1>5. CASE fota_download_cancel
  <2>1. flags' \in Flags
    BY <1>1, <1>5, FlagFacts DEF fota_download_cancel
  <2>2. FotaTypes'
    BY <1>5, <2>1 DEF fota_download_cancel, callVars, ClientInv, FotaTypes, Flags
  <2>3. DlTypes' /\ DlFiles'
    BY <1>5 DEF fota_download_cancel, callVars, ClientInv, DlTypes, DlFiles, dlVars
  <2> QED
    BY <2>2, <2>3 DEF ClientInv
<1>6. CASE StartDownload
  <2>1. uri \in Uris
    BY <1>6 DEF StartDownload, ClientInv, DlFiles, FotaTypes
  <2>2. flags' \in Flags
    BY <1>1, <1>6, FlagFacts DEF StartDownload
  <2>3. FotaTypes'
    <3>0. accepted \in Int /\ (accepted' = accepted \/ accepted' = accepted - 1)
      BY <1>6 DEF StartDownload, ClientInv, FotaTypes
    <3>1. accepted' \in Int
      BY <3>0
    <3>2. UNCHANGED <<error_state, retries, uri, work, item, closing, overtaken, reports>>
          /\ app' = "idle"
      BY <1>6 DEF StartDownload, callVars
    <3> QED
      BY <2>2, <3>1, <3>2 DEF ClientInv, FotaTypes, Flags
  <2>4. dlc' \in Client /\ sem' \in 0 .. 1
        /\ (dlc'.state # "IDLE" => dlc'.file \in Uris)
        /\ (dlc'.state = "IDLE" => dlc.state = "IDLE")
    <3>1. CASE dlc' = Got(uri, 0) /\ sem' = 1
      <4>1. 0 \in Nat
        OBVIOUS
      <4>2. Got(uri, 0) \in Client /\ Got(uri, 0).state = "CONNECTING" /\ Got(uri, 0).file = uri
        BY <1>3, <2>1, <4>1
      <4> QED
        BY <2>1, <3>1, <4>2
    <3>2. CASE DoDisconnect
      BY <1>1, <3>2, DisconnectFacts DEF DoDisconnect, ClientInv, DlFiles
    <3> QED
      BY <1>6, <3>1, <3>2 DEF StartDownload
  <2>5. DlTypes' /\ DlFiles'
    BY <1>6, <2>1, <2>4, DownloadAssumption DEF StartDownload, callVars, ClientInv, DlTypes, DlFiles
  <2> QED
    BY <2>3, <2>5 DEF ClientInv
<1>7. CASE CancelDisconnects
  <2>1. dlc' \in Client /\ sem' \in 0 .. 1 /\ dlc'.file = dlc.file
        /\ (dlc'.state = "IDLE" <=> dlc.state = "IDLE")
        /\ (dlc.state = "IDLE" => sem' = sem)
    BY <1>1, <1>7, DisconnectFacts DEF CancelDisconnects, DoDisconnect, SemAfterDisconnect, Disconnects
  <2>2. DlTypes' /\ DlFiles'
    BY <1>7, <2>1 DEF CancelDisconnects, fotaVars, callVars, ClientInv, DlTypes, DlFiles
  <2>3. FotaTypes'
    BY <1>7 DEF CancelDisconnects, fotaVars, callVars, ClientInv, FotaTypes
  <2> QED
    BY <2>2, <2>3 DEF ClientInv
<1>8. CASE CancelTarget \/ CancelReturns
  BY <1>8 DEF CancelTarget, CancelReturns, dlVars, fotaVars, callVars, ClientInv, DlTypes, DlFiles, FotaTypes
<1>9. CASE Reboot
  <2>1. dlc' \in Client /\ dlc'.state = "IDLE"
    BY <1>2, <1>9 DEF Reboot, Client, DlStates
  <2>2. DlTypes'
    BY <1>2, <1>9, <2>1 DEF Reboot, ClientInv, DlTypes, ThreadPcs, Contexts
  <2>3. FotaTypes'
    <3>1. reports' \in Seq({"ERROR", "CANCELLED", "FINISHED"}) /\ accepted' \in Int
      BY <1>9 DEF Reboot
    <3>2. flags' \in [FlagNames -> BOOLEAN] /\ retries' \in 0 .. Retries
      BY <1>9, FotaAssumption DEF Reboot, Cleared
    <3> QED
      BY <1>9, <3>1, <3>2 DEF Reboot, FotaTypes, NoItem, ClientInv
  <2>4. DlFiles'
    BY <1>9, <2>1 DEF Reboot, DlFiles, IdlePcs, NoItem
  <2> QED
    BY <2>2, <2>3, <2>4 DEF ClientInv
<1>s. ASSUME WorkStops
      PROVE  /\ flags' \in Flags /\ error_state' = TRUE
             /\ reports' \in Seq({"ERROR", "CANCELLED", "FINISHED"})
  <2>1. Outcome(TRUE) \in {"ERROR", "CANCELLED", "FINISHED"}
    BY DEF Outcome
  <2>2. flags' \in Flags
    BY <1>1, <1>s, FlagFacts DEF WorkStops
  <2> QED
    BY <1>s, <2>1, <2>2, AppendProperties DEF WorkStops, SendEvt, ClientInv, FotaTypes
<1>n. NoItem \in [gets : BOOLEAN, uri : Uris \cup {NoUri}, from : Nat] /\ ~NoItem.gets
  BY DEF NoItem
<1>10. CASE download_with_offset
  <2>1. uri \in Uris
    BY <1>10 DEF download_with_offset, ClientInv, DlFiles, FotaTypes
  <2>2. /\ flags' \in Flags /\ reports' \in Seq({"ERROR", "CANCELLED", "FINISHED"})
        /\ error_state' \in BOOLEAN
    <3>1. CASE flags' = With({}, {"RESUME"}) /\ UNCHANGED <<error_state, reports>>
      BY <1>1, <3>1, FlagFacts DEF ClientInv, FotaTypes
    <3>2. CASE WorkStops
      BY <1>s, <3>2
    <3> QED
      BY <1>10, <3>1, <3>2 DEF download_with_offset
  <2>3. /\ item' \in [gets : BOOLEAN, uri : Uris \cup {NoUri}, from : Nat]
        /\ item'.gets => item'.uri \in Uris
    <3>1. PICK n \in Nat : n = dfu_target_offset_get(dfu)
      OBVIOUS
    <3>2. CASE item' = [gets |-> TRUE, uri |-> uri, from |-> n]
      BY <2>1, <3>2
    <3>3. CASE item' = item
      BY <3>3 DEF ClientInv, DlFiles, FotaTypes
    <3> QED
      BY <1>10, <3>1, <3>2, <3>3 DEF download_with_offset
  <2>4. overtaken' \in BOOLEAN
    BY <1>10 DEF download_with_offset, ClientInv, FotaTypes
  <2>5. /\ work' = FALSE
        /\ UNCHANGED <<dlc, sem, thr, evt, ret, rx, faults, retries, uri, closing, app, accepted>>
    BY <1>10 DEF download_with_offset, dlVars, appVars
  <2>6. FotaTypes'
    BY <2>2, <2>3, <2>4, <2>5 DEF ClientInv, FotaTypes, Flags
  <2>7. DlTypes' /\ DlFiles'
    BY <2>1, <2>3, <2>5, DownloadAssumption DEF ClientInv, DlTypes, DlFiles
  <2> QED
    BY <2>6, <2>7 DEF ClientInv
<1>11. CASE get_from_offset
  <2>1. uri \in Uris /\ item.uri \in Uris /\ item.from \in Nat
    BY <1>11 DEF get_from_offset, ClientInv, DlFiles, FotaTypes
  <2>2. /\ flags' \in Flags /\ reports' \in Seq({"ERROR", "CANCELLED", "FINISHED"})
        /\ error_state' \in BOOLEAN
    <3>1. CASE UNCHANGED <<flags, error_state, reports>>
      BY <1>1, <3>1 DEF ClientInv, FotaTypes
    <3>2. CASE WorkStops
      BY <1>s, <3>2
    <3> QED
      BY <1>11, <3>1, <3>2 DEF get_from_offset
  <2>3. dlc' \in Client /\ sem' \in 0 .. 1
        /\ (dlc'.state # "IDLE" => dlc'.file \in Uris)
        /\ (dlc'.state = "IDLE" => dlc.state = "IDLE")
    <3>1. CASE dlc' = Got(item.uri, item.from) /\ sem' = 1
      BY <1>3, <2>1, <3>1
    <3>2. CASE UNCHANGED <<dlc, sem>>
      BY <1>1, <3>2 DEF ClientInv, DlFiles
    <3> QED
      BY <1>11, <3>1, <3>2 DEF get_from_offset
  <2>4. /\ item' = NoItem
        /\ UNCHANGED <<thr, evt, ret, rx, faults, retries, uri, work, closing, overtaken, app,
                       accepted>>
    BY <1>11 DEF get_from_offset, appVars
  <2>5. FotaTypes'
    BY <1>n, <2>2, <2>4 DEF ClientInv, FotaTypes, Flags
  <2>6. DlTypes' /\ DlFiles'
    BY <1>n, <2>1, <2>3, <2>4, DownloadAssumption DEF ClientInv, DlTypes, DlFiles
  <2> QED
    BY <2>5, <2>6 DEF ClientInv
<1> QED
  BY <1>4, <1>5, <1>6, <1>7, <1>8, <1>9, <1>10, <1>11 DEF Application, WorkItem

-----------------------------------------------------------------------------
(* The DFU target: its types, and what the flash holds.                    *)

\* The counters lie within the slot.
Within(d) ==
    /\ d \in Dfu(Unit)
    /\ d.bytes_written <= Len(d.slot) /\ d.saved <= Len(d.slot)
    /\ ~SaveProgress => d.saved = 0

\* A target in use has saved no more than it has written.
Kept(d) == Within(d) /\ (d.target => d.saved <= d.bytes_written)

\* Whole buffers: how many units they hold, and what is left.
LEMMA WholeBuffers ==
    ASSUME NEW a \in Nat
    PROVE  /\ a \div StreamBufLen \in Nat
           /\ (a \div StreamBufLen) * StreamBufLen \in 0 .. a
           /\ a % StreamBufLen \in 0 .. StreamBufLen - 1
           /\ a - (a \div StreamBufLen) * StreamBufLen = a % StreamBufLen
<1>1. StreamBufLen \in Nat /\ StreamBufLen > 0
  BY DfuAssumption
<1>2. a \div StreamBufLen \in Nat /\ a % StreamBufLen \in 0 .. StreamBufLen - 1
  BY <1>1
<1>3. a = StreamBufLen * (a \div StreamBufLen) + (a % StreamBufLen)
  BY <1>1
<1> QED
  BY <1>1, <1>2, <1>3

\* The first k - 1 of the buffers that a write fills.
LEMMA EarlierBuffers ==
    ASSUME NEW a \in Nat, NEW k \in 1 .. a \div StreamBufLen
    PROVE  (k - 1) * StreamBufLen \in Nat /\ (k - 1) * StreamBufLen + StreamBufLen <= a
<1>1. /\ StreamBufLen \in Nat /\ StreamBufLen > 0
      /\ a \div StreamBufLen \in Nat
      /\ (a \div StreamBufLen) * StreamBufLen <= a
  BY WholeBuffers, DfuAssumption
<1>2. PICK q \in Nat : q = a \div StreamBufLen
  BY <1>1
<1>3. k \in 1 .. q /\ q * StreamBufLen <= a
  BY <1>1, <1>2
<1>4. k * StreamBufLen <= q * StreamBufLen
  BY <1>1, <1>2, <1>3
<1>5. (k - 1) * StreamBufLen + StreamBufLen = k * StreamBufLen /\ (k - 1) * StreamBufLen \in Nat
  BY <1>1, <1>2, <1>3
<1>6. k * StreamBufLen \in Nat /\ q * StreamBufLen \in Nat
  BY <1>1, <1>2, <1>3
<1> QED
  BY <1>3, <1>4, <1>5, <1>6

\* flash_sync: what it leaves of the target.
LEMMA SyncedFacts ==
    ASSUME NEW d \in Dfu(Unit), d.bytes_written <= Len(d.slot),
           NEW data \in Seq(Unit), NEW n \in 0 .. Len(data), NEW rest \in Seq(Unit)
    PROVE  LET e == Synced(d, data, n, rest)
           IN  /\ e \in Dfu(Unit)
               /\ e.bytes_written = d.bytes_written + n /\ Len(e.slot) = e.bytes_written
               /\ e.slot = SubSeq(d.slot, 1, d.bytes_written) \o SubSeq(data, 1, n)
               /\ e.buf = rest
               /\ e.target = d.target /\ e.id = d.id /\ e.available = d.available
               /\ e.stream_buf_bytes = d.stream_buf_bytes /\ e.saved = d.saved
               /\ e.scheduled = d.scheduled
<1>1. d.bytes_written \in Nat /\ d.slot \in Seq(Unit) /\ n \in Nat
  BY DEF Dfu
<1>2. /\ SubSeq(d.slot, 1, d.bytes_written) \in Seq(Unit)
      /\ Len(SubSeq(d.slot, 1, d.bytes_written)) = d.bytes_written
      /\ SubSeq(data, 1, n) \in Seq(Unit) /\ Len(SubSeq(data, 1, n)) = n
  BY <1>1, Part
<1>3. PICK a \in Seq(Unit), b \in Seq(Unit) :
            /\ a = SubSeq(d.slot, 1, d.bytes_written) /\ Len(a) = d.bytes_written
            /\ b = SubSeq(data, 1, n) /\ Len(b) = n
  BY <1>2
<1>4. a \o b \in Seq(Unit) /\ Len(a \o b) = d.bytes_written + n
  BY <1>3, ConcatProperties
<1>n. d.bytes_written + n \in Nat
  BY <1>1
<1>5. PICK s \in Seq(Unit), m \in Nat : s = a \o b /\ m = d.bytes_written + n
  BY <1>n, <1>4, Zenon
<1>6. Synced(d, data, n, rest) = [d EXCEPT !.slot = s, !.bytes_written = m,
                                           !.buf = rest]
  BY <1>3, <1>5 DEF Synced
<1>7. PICK e : e = [d EXCEPT !.slot = s, !.bytes_written = m, !.buf = rest]
  OBVIOUS
<1>8. /\ e \in Dfu(Unit)
      /\ e.bytes_written = m /\ e.slot = s /\ e.buf = rest
      /\ e.target = d.target /\ e.id = d.id /\ e.available = d.available
      /\ e.stream_buf_bytes = d.stream_buf_bytes /\ e.saved = d.saved
      /\ e.scheduled = d.scheduled
  BY <1>7 DEF Dfu
<1> QED
  BY <1>3, <1>4, <1>5, <1>6, <1>7, <1>8

\* What the target holds, as two sequences.
LEMMA StoredFacts ==
    ASSUME NEW d \in Dfu(Unit), d.bytes_written <= Len(d.slot)
    PROVE  /\ SubSeq(d.slot, 1, d.bytes_written) \in Seq(Unit)
           /\ Len(SubSeq(d.slot, 1, d.bytes_written)) = d.bytes_written
           /\ Stored(d) \in Seq(Unit)
           /\ Len(Stored(d)) = d.bytes_written + Len(d.buf)
<1>1. /\ d.bytes_written \in Nat /\ d.slot \in Seq(Unit) /\ d.buf \in Seq(Unit)
  BY DEF Dfu
<1>2. /\ SubSeq(d.slot, 1, d.bytes_written) \in Seq(Unit)
      /\ Len(SubSeq(d.slot, 1, d.bytes_written)) = d.bytes_written
  BY <1>1, Part
<1> QED
  BY <1>1, <1>2, ConcatProperties DEF Stored

\* flash_sync loses nothing: a part goes to the flash, the rest to the buffer.
LEMMA SyncedStored ==
    ASSUME NEW d \in Dfu(Unit), d.bytes_written <= Len(d.slot),
           NEW data \in Seq(Unit), NEW n \in 0 .. Len(data)
    PROVE  Stored(Synced(d, data, n, SubSeq(data, n + 1, Len(data))))
                = SubSeq(d.slot, 1, d.bytes_written) \o data
<1>1. n \in Nat /\ Len(data) \in Nat /\ n + 1 \in Nat \ {0}
  OBVIOUS
<1>2. SubSeq(data, n + 1, Len(data)) \in Seq(Unit) /\ SubSeq(data, 1, n) \in Seq(Unit)
  BY <1>1, Part
<1>3. PICK rest \in Seq(Unit), pre \in Seq(Unit), part \in Seq(Unit) :
            /\ rest = SubSeq(data, n + 1, Len(data))
            /\ part = SubSeq(data, 1, n)
            /\ pre = SubSeq(d.slot, 1, d.bytes_written)
  BY <1>2, StoredFacts
<1>4. PICK e : e = Synced(d, data, n, rest)
  OBVIOUS
<1>5. /\ e \in Dfu(Unit) /\ e.slot = pre \o part /\ e.buf = rest
      /\ Len(e.slot) = e.bytes_written /\ e.slot \in Seq(Unit)
  <2>1. /\ e \in Dfu(Unit) /\ e.slot = pre \o part /\ e.buf = rest
        /\ Len(e.slot) = e.bytes_written
    <3>1. LET s == Synced(d, data, n, rest)
          IN  /\ s \in Dfu(Unit) /\ s.buf = rest /\ Len(s.slot) = s.bytes_written
              /\ s.slot = SubSeq(d.slot, 1, d.bytes_written) \o SubSeq(data, 1, n)
      BY SyncedFacts, ZenonT(60)
    <3> QED
      BY <1>3, <1>4, <3>1, Zenon
  <2> QED
    BY <2>1 DEF Dfu
<1>6. SubSeq(e.slot, 1, e.bytes_written) = pre \o part
  BY <1>5, SubSeqFull
<1>7. part \o rest = data
  <2>1. SubSeq(data, 1, n) \o SubSeq(data, n + 1, Len(data)) = SubSeq(data, 1, Len(data))
    <3>1. 1 \in 1 .. Len(data) + 1 /\ n \in 1 - 1 .. Len(data) /\ Len(data) \in n .. Len(data)
      BY <1>1
    <3> QED
      BY <3>1, ConcatAdjacentSubSeq, Zenon
  <2> QED
    BY <1>3, <2>1, SubSeqFull
<1>8. (pre \o part) \o rest = pre \o data
  <2>1. (pre \o part) \o rest = pre \o (part \o rest)
    OBVIOUS
  <2> QED
    BY <1>7, <2>1, Zenon
<1> QED
  BY <1>3, <1>4, <1>5, <1>6, <1>8 DEF Stored

\* stream_flash_buffered_write.
LEMMA BufferedFacts ==
    ASSUME NEW d \in Dfu(Unit), d.bytes_written <= Len(d.slot), NEW new \in Seq(Unit)
    PROVE  LET e == BufferedWrite(d, new)
           IN  /\ e \in Dfu(Unit)
               /\ e.bytes_written >= d.bytes_written /\ Len(e.slot) = e.bytes_written
               /\ Len(e.buf) = (Len(d.buf) + Len(new)) % StreamBufLen
               /\ Stored(e) = Stored(d) \o new
               /\ e.target = d.target /\ e.id = d.id /\ e.available = d.available
               /\ e.stream_buf_bytes = d.stream_buf_bytes /\ e.saved = d.saved
               /\ e.scheduled = d.scheduled
<1>1. d.buf \in Seq(Unit) /\ d.bytes_written \in Nat
  BY DEF Dfu
<1>2. PICK data \in Seq(Unit) : data = d.buf \o new /\ Len(data) = Len(d.buf) + Len(new)
  <2>1. d.buf \o new \in Seq(Unit) /\ Len(d.buf \o new) = Len(d.buf) + Len(new)
    BY <1>1, ConcatProperties
  <2> QED
    BY <2>1
<1>3. PICK n \in 0 .. Len(data) : /\ n = (Len(data) \div StreamBufLen) * StreamBufLen
                                  /\ Len(data) - n = Len(data) % StreamBufLen
  BY WholeBuffers
<1>4. /\ SubSeq(data, n + 1, Len(data)) \in Seq(Unit)
      /\ Len(SubSeq(data, n + 1, Len(data))) = Len(data) - n
  BY Part
<1>5. BufferedWrite(d, new) = Synced(d, data, n, SubSeq(data, n + 1, Len(data)))
  BY <1>2, <1>3 DEF BufferedWrite
<1>6. Stored(BufferedWrite(d, new)) = Stored(d) \o new
  <2>1. Stored(BufferedWrite(d, new)) = SubSeq(d.slot, 1, d.bytes_written) \o data
    BY <1>5, SyncedStored
  <2>2. SubSeq(d.slot, 1, d.bytes_written) \in Seq(Unit)
    BY StoredFacts
  <2> QED
    <3>1. PICK pre \in Seq(Unit), buf \in Seq(Unit) :
                pre = SubSeq(d.slot, 1, d.bytes_written) /\ buf = d.buf
      BY <1>1, <2>2
    <3>2. (pre \o buf) \o new = pre \o (buf \o new)
      OBVIOUS
    <3> QED
      BY <1>2, <2>1, <3>1, <3>2, Zenon DEF Stored
<1>7. PICK rest \in Seq(Unit) : /\ rest = SubSeq(data, n + 1, Len(data))
                                /\ Len(rest) = Len(data) - n
  BY <1>4
<1>8. PICK e : e = Synced(d, data, n, rest)
  OBVIOUS
<1>9. /\ e \in Dfu(Unit)
      /\ e.bytes_written = d.bytes_written + n /\ Len(e.slot) = e.bytes_written
      /\ e.buf = rest
      /\ e.target = d.target /\ e.id = d.id /\ e.available = d.available
      /\ e.stream_buf_bytes = d.stream_buf_bytes /\ e.saved = d.saved
      /\ e.scheduled = d.scheduled
  BY <1>8, SyncedFacts
<1>10. e = BufferedWrite(d, new)
  BY <1>5, <1>7, <1>8
<1>11. Len(e.buf) = (Len(d.buf) + Len(new)) % StreamBufLen /\ e.bytes_written >= d.bytes_written
  BY <1>1, <1>2, <1>3, <1>7, <1>9
<1> QED
  BY <1>6, <1>9, <1>10, <1>11

\* dfu_target_mcuboot_write, which counts before it writes.
LEMMA CountFacts ==
    ASSUME NEW d \in Dfu(Unit), NEW new \in Seq(Unit)
    PROVE  LET e == CountWritten(d, new)
           IN  /\ e \in Dfu(Unit)
               /\ e.stream_buf_bytes = (d.stream_buf_bytes + Len(new)) % StreamBufLen
               /\ e.slot = d.slot /\ e.bytes_written = d.bytes_written /\ e.buf = d.buf
               /\ e.target = d.target /\ e.id = d.id /\ e.available = d.available
               /\ e.saved = d.saved /\ e.scheduled = d.scheduled
               /\ Stored(e) = Stored(d)
<1>1. PICK m \in Nat : m = (d.stream_buf_bytes + Len(new)) % StreamBufLen
  <2>1. d.stream_buf_bytes + Len(new) \in Nat
    BY DEF Dfu
  <2>2. (d.stream_buf_bytes + Len(new)) % StreamBufLen \in Nat
    <3>1. PICK a \in Nat : a = d.stream_buf_bytes + Len(new)
      BY <2>1
    <3>2. a % StreamBufLen \in 0 .. StreamBufLen - 1 /\ StreamBufLen \in Nat
      BY WholeBuffers, DfuAssumption
    <3> QED
      BY <3>1, <3>2
  <2> QED
    BY <2>2
<1>2. PICK e : e = [d EXCEPT !.stream_buf_bytes = m]
  OBVIOUS
<1>3. /\ e \in Dfu(Unit) /\ e.stream_buf_bytes = m
      /\ e.slot = d.slot /\ e.bytes_written = d.bytes_written /\ e.buf = d.buf
      /\ e.target = d.target /\ e.id = d.id /\ e.available = d.available
      /\ e.saved = d.saved /\ e.scheduled = d.scheduled
  BY <1>2 DEF Dfu
<1>4. e = CountWritten(d, new)
  BY <1>1, <1>2 DEF CountWritten
<1>5. Stored(e) = Stored(d)
  BY <1>3 DEF Stored
<1> QED
  BY <1>1, <1>3, <1>4, <1>5

\* dfu_target_write.
LEMMA WriteFacts ==
    ASSUME NEW d, Within(d), NEW new \in Seq(Unit)
    PROVE  LET e == dfu_target_write(d, new)
           IN  /\ Kept(e)
               /\ Len(e.slot) = e.bytes_written
               /\ Len(e.buf) = (Len(d.buf) + Len(new)) % StreamBufLen
               /\ e.stream_buf_bytes = (d.stream_buf_bytes + Len(new)) % StreamBufLen
               /\ Stored(e) = Stored(d) \o new
               /\ e.target = d.target /\ e.id = d.id /\ e.available = d.available
               /\ e.scheduled = d.scheduled
<1>1. PICK c \in Dfu(Unit) : 
            /\ c = CountWritten(d, new)
            /\ c.stream_buf_bytes = (d.stream_buf_bytes + Len(new)) % StreamBufLen
            /\ c.slot = d.slot /\ c.bytes_written = d.bytes_written /\ c.buf = d.buf
            /\ c.target = d.target /\ c.id = d.id /\ c.available = d.available
            /\ c.saved = d.saved /\ c.scheduled = d.scheduled
            /\ Stored(c) = Stored(d)
  BY CountFacts DEF Within
<1>2. PICK b \in Dfu(Unit) :
            /\ b = BufferedWrite(c, new)
            /\ b.bytes_written >= c.bytes_written /\ Len(b.slot) = b.bytes_written
            /\ Len(b.buf) = (Len(c.buf) + Len(new)) % StreamBufLen
            /\ Stored(b) = Stored(c) \o new
            /\ b.target = c.target /\ b.id = c.id /\ b.available = c.available
            /\ b.stream_buf_bytes = c.stream_buf_bytes /\ b.saved = c.saved
            /\ b.scheduled = c.scheduled
  <2>1. c.bytes_written <= Len(c.slot)
    BY <1>1 DEF Within
  <2> QED
    BY <2>1, BufferedFacts
<1>3. PICK e : e = store_progress(b)
  OBVIOUS
<1>4. /\ e \in Dfu(Unit) /\ e.saved = (IF SaveProgress THEN b.bytes_written ELSE b.saved)
      /\ e.slot = b.slot /\ e.bytes_written = b.bytes_written /\ e.buf = b.buf
      /\ e.target = b.target /\ e.id = b.id /\ e.available = b.available
      /\ e.stream_buf_bytes = b.stream_buf_bytes /\ e.scheduled = b.scheduled
  BY <1>3 DEF store_progress, Dfu
<1>5. Stored(e) = Stored(b)
  BY <1>4 DEF Stored
<1>6. e = dfu_target_write(d, new)
  BY <1>1, <1>2, <1>3 DEF dfu_target_write
<1>7. e.bytes_written \in Nat /\ (~SaveProgress => e.saved = 0)
  BY <1>1, <1>2, <1>4 DEF Dfu, Within
<1>8. Kept(e)
  BY <1>2, <1>4, <1>7 DEF Kept, Within
<1> QED
  BY <1>1, <1>2, <1>4, <1>5, <1>6, <1>8

\* The count kept apart from the stream agrees with it, the buffer is never
\* full, and a target that is not in use is empty.
Exact(d) ==
    /\ d.stream_buf_bytes = Len(d.buf) /\ Len(d.buf) < StreamBufLen
    /\ d.target => d.available = SlotLen
    /\ ~d.target => d.buf = <<>> /\ d.bytes_written = 0 /\ ~d.id

\* A write that fails.
LEMMA WriteFailsFacts ==
    ASSUME NEW d, Kept(d), d.target, NEW new \in Seq(Unit), NEW k \in FullBuffers(d, new)
    PROVE  LET e == WriteFails(d, new, k)
           IN  Within(e) /\ e.target /\ e.scheduled = d.scheduled
<1>1. PICK c \in Dfu(Unit) : 
            /\ c = CountWritten(d, new)
            /\ c.slot = d.slot /\ c.bytes_written = d.bytes_written /\ c.buf = d.buf
            /\ c.target = d.target /\ c.saved = d.saved /\ c.scheduled = d.scheduled
  BY CountFacts DEF Kept, Within
<1>2. PICK data \in Seq(Unit) : data = c.buf \o new /\ Len(data) = Len(d.buf) + Len(new)
  <2>1. c.buf \in Seq(Unit) /\ Len(c.buf) = Len(d.buf)
    BY <1>1 DEF Dfu
  <2>2. c.buf \o new \in Seq(Unit) /\ Len(c.buf \o new) = Len(c.buf) + Len(new)
    BY <2>1, ConcatProperties
  <2> QED
    BY <2>1, <2>2
<1>3. k \in 1 .. Len(data) \div StreamBufLen
  BY <1>2 DEF FullBuffers
<1>4. PICK n \in Nat : n = (k - 1) * StreamBufLen /\ n + StreamBufLen <= Len(data)
  BY <1>3, EarlierBuffers
<1>5. StreamBufLen \in Nat /\ n \in 0 .. Len(data)
  BY <1>4, DfuAssumption
<1>6. PICK rest \in Seq(Unit) : rest = SubSeq(data, n + 1, n + StreamBufLen)
  <2>1. SubSeq(data, n + 1, n + StreamBufLen) \in Seq(Unit)
    BY <1>4, <1>5, Part
  <2> QED
    BY <2>1
<1>7. PICK e : e = Synced(c, data, n, rest)
  OBVIOUS
<1>8. /\ e \in Dfu(Unit)
      /\ e.bytes_written = c.bytes_written + n /\ Len(e.slot) = e.bytes_written
      /\ e.target = c.target /\ e.saved = c.saved /\ e.scheduled = c.scheduled
  <2>1. c.bytes_written <= Len(c.slot)
    BY <1>1 DEF Kept, Within
  <2> QED
    BY <1>5, <1>7, <2>1, SyncedFacts
<1>9. e = WriteFails(d, new, k)
  BY <1>1, <1>2, <1>4, <1>6, <1>7 DEF WriteFails, BufferedWriteFails
<1>10. c.bytes_written \in Nat /\ c.saved \in Nat
  BY DEF Dfu
<1>11. Within(e) /\ e.target
  BY <1>1, <1>5, <1>8, <1>10 DEF Kept, Within
<1> QED
  BY <1>1, <1>8, <1>9, <1>11

\* dfu_target_init.
LEMMA InitFacts ==
    ASSUME NEW d, Within(d), NEW size \in Nat
    PROVE  LET e == dfu_target_init(d, size)
           IN  /\ Within(e) /\ e.target /\ e.slot = d.slot /\ e.scheduled = d.scheduled
               /\ d.target => e = d
               /\ ~d.target /\ ~InitFails(d, size) => e.buf = <<>>
               /\ Kept(d) /\ ~InitFails(d, size) => Kept(e)
               /\ Exact(d) /\ ~InitFails(d, size) => Exact(e)
<1>1. /\ d \in Dfu(Unit) /\ d.bytes_written \in Nat /\ d.saved \in Nat /\ d.slot \in Seq(Unit)
      /\ d.target \in BOOLEAN
  BY DEF Within, Dfu
<1>2. StreamBufLen \in Nat \ {0} /\ SlotLen \in Nat /\ <<>> \in Seq(Unit) /\ Len(<<>>) = 0
  BY DfuAssumption
<1>3. CASE d.target
  <2>1. dfu_target_init(d, size) = d
    BY <1>3 DEF dfu_target_init
  <2> QED
    BY <1>3, <2>1
<1>4. CASE ~d.target /\ InitFails(d, size)
  <2>1. PICK e : e = [d EXCEPT !.target = TRUE, !.stream_buf_bytes = 0]
    OBVIOUS
  <2>2. /\ e \in Dfu(Unit) /\ e.target /\ e.slot = d.slot /\ e.scheduled = d.scheduled
        /\ e.bytes_written = d.bytes_written /\ e.saved = d.saved
    BY <1>1, <2>1 DEF Dfu
  <2>3. e = dfu_target_init(d, size)
    BY <1>4, <2>1 DEF dfu_target_init
  <2>4. Within(e)
    BY <2>2 DEF Within
  <2> QED
    BY <1>4, <2>2, <2>3, <2>4
<1>5. CASE ~d.target /\ ~InitFails(d, size)
  <2>1. PICK m \in Nat : m = IF SaveProgress THEN d.saved ELSE 0
    BY <1>1
  <2>2. PICK e : e = [d EXCEPT !.target = TRUE, !.id = TRUE, !.stream_buf_bytes = 0,
                               !.available = SlotLen, !.buf = <<>>, !.bytes_written = m]
    OBVIOUS
  <2>3. /\ e \in Dfu(Unit) /\ e.target /\ e.slot = d.slot /\ e.scheduled = d.scheduled
        /\ e.bytes_written = m /\ e.saved = d.saved /\ e.buf = <<>>
        /\ e.stream_buf_bytes = 0 /\ e.available = SlotLen
    BY <1>1, <1>2, <2>2 DEF Dfu
  <2>4. e = dfu_target_init(d, size)
    BY <1>5, <2>1, <2>2 DEF dfu_target_init
  <2>5. Within(e) /\ Kept(e)
    BY <1>1, <2>1, <2>3 DEF Within, Kept
  <2>6. Exact(e)
    BY <1>2, <2>3 DEF Exact
  <2> QED
    BY <1>5, <2>3, <2>4, <2>5, <2>6
<1> QED
  BY <1>1, <1>3, <1>4, <1>5

\* dfu_target_reset.
LEMMA ResetFacts ==
    ASSUME NEW d, Within(d)
    PROVE  LET e == dfu_target_reset(d)
           IN  /\ Kept(e) /\ Exact(e) /\ ~e.target /\ ~e.id /\ e.saved = 0
               /\ e.slot = <<>> /\ e.scheduled = d.scheduled
<1>1. StreamBufLen \in Nat \ {0} /\ <<>> \in Seq(Unit) /\ Len(<<>>) = 0
  BY DfuAssumption
<1>2. PICK m \in Nat : m = (IF SaveProgress THEN 0 ELSE d.saved) /\ m = 0
  BY DEF Within
<1>3. PICK e : e = [d EXCEPT !.target = FALSE, !.id = FALSE, !.bytes_written = 0,
                             !.buf = <<>>, !.stream_buf_bytes = 0, !.slot = <<>>, !.saved = m]
  OBVIOUS
<1>4. /\ e \in Dfu(Unit) /\ ~e.target /\ ~e.id /\ e.saved = 0 /\ e.bytes_written = 0
      /\ e.slot = <<>> /\ e.scheduled = d.scheduled /\ e.buf = <<>> /\ e.stream_buf_bytes = 0
  BY <1>1, <1>2, <1>3 DEF Within, Dfu
<1>5. e = dfu_target_reset(d)
  BY <1>2, <1>3 DEF dfu_target_reset
<1>6. Kept(e) /\ Exact(e)
  BY <1>1, <1>4 DEF Kept, Within, Exact
<1> QED
  BY <1>4, <1>5, <1>6

\* The same when the flash fails.
LEMMA ResetFailsFacts ==
    ASSUME NEW d, Within(d)
    PROVE  LET e == ResetFails(d)
           IN  Within(e) /\ e.target
<1>1. PICK r : r = dfu_target_reset(d)
  OBVIOUS
<1>2. r \in Dfu(Unit) /\ r.saved = 0 /\ r.bytes_written = 0
  <2>1. Within(r) /\ r.saved = 0 /\ r.slot = <<>> /\ Len(<<>>) = 0
    BY <1>1, ResetFacts DEF Kept
  <2>2. r \in Dfu(Unit) /\ r.bytes_written \in Nat /\ r.bytes_written <= 0
    BY <2>1 DEF Within, Dfu
  <2> QED
    BY <2>1, <2>2
<1>3. PICK e : e = [r EXCEPT !.target = TRUE, !.slot = d.slot]
  OBVIOUS
<1>4. /\ e \in Dfu(Unit) /\ e.target /\ e.slot = d.slot /\ e.saved = 0 /\ e.bytes_written = 0
      /\ d.slot \in Seq(Unit)
  BY <1>2, <1>3 DEF Within, Dfu
<1>5. Len(d.slot) >= 0
  BY <1>4
<1>6. e = ResetFails(d)
  BY <1>1, <1>3 DEF ResetFails
<1> QED
  BY <1>4, <1>5, <1>6 DEF Within

\* dfu_target_done(false).
LEMMA AbortFacts ==
    ASSUME NEW d, Within(d)
    PROVE  LET e == DoneAborted(d)
           IN  /\ Within(e) /\ e.target = d.target /\ e.slot = d.slot
               /\ e.bytes_written = d.bytes_written /\ e.buf = d.buf
               /\ e.scheduled = d.scheduled /\ Stored(e) = Stored(d)
               /\ d.target => Kept(e)
               /\ Kept(d) => Kept(e)
               /\ Exact(d) => Exact(e)
<1>1. /\ d \in Dfu(Unit) /\ d.bytes_written \in Nat /\ d.saved \in Nat /\ d.slot \in Seq(Unit)
      /\ d.target \in BOOLEAN
  BY DEF Within, Dfu
<1>2. CASE ~d.target
  <2>1. DoneAborted(d) = d
    BY <1>2 DEF DoneAborted
  <2> QED
    BY <1>2, <2>1
<1>3. CASE d.target
  <2>1. PICK m \in Nat : m = IF SaveProgress THEN d.bytes_written ELSE d.saved
    BY <1>1
  <2>2. PICK b : b = [d EXCEPT !.saved = m]
    OBVIOUS
  <2>3. /\ b \in Dfu(Unit) /\ b.saved = m /\ b.target = d.target /\ b.slot = d.slot
        /\ b.bytes_written = d.bytes_written /\ b.buf = d.buf /\ b.scheduled = d.scheduled
        /\ b.stream_buf_bytes = d.stream_buf_bytes /\ b.available = d.available
    BY <2>2 DEF Within, Dfu
  <2>4. PICK e : e = [b EXCEPT !.id = FALSE]
    OBVIOUS
  <2>5. /\ e \in Dfu(Unit) /\ e.saved = m /\ e.target = d.target /\ e.slot = d.slot
        /\ e.bytes_written = d.bytes_written /\ e.buf = d.buf /\ e.scheduled = d.scheduled
        /\ e.stream_buf_bytes = d.stream_buf_bytes /\ e.available = d.available
    BY <2>3, <2>4 DEF Dfu
  <2>6. e = DoneAborted(d)
    BY <1>3, <2>1, <2>2, <2>4 DEF DoneAborted, store_progress
  <2>7. Stored(e) = Stored(d)
    BY <2>5 DEF Stored
  <2>8. Within(e) /\ Kept(e)
    BY <1>1, <2>1, <2>5 DEF Within, Kept
  <2>9. Exact(d) => Exact(e)
    BY <1>3, <2>5 DEF Exact
  <2> QED
    BY <2>5, <2>6, <2>7, <2>8, <2>9
<1> QED
  BY <1>1, <1>2, <1>3

\* dfu_target_done(true).
LEMMA DoneFacts ==
    ASSUME NEW d, Within(d)
    PROVE  LET e == DoneOk(d)
           IN  /\ Kept(e) /\ e.target = d.target /\ e.scheduled = d.scheduled
               /\ e.buf = <<>> /\ Len(e.slot) = e.bytes_written
               /\ e.slot = Stored(d) /\ Stored(e) = Stored(d)
               /\ Exact(d) /\ d.target => Exact(e)
<1>1. d \in Dfu(Unit) /\ d.buf \in Seq(Unit) /\ Len(d.buf) \in 0 .. Len(d.buf)
      /\ d.bytes_written <= Len(d.slot) /\ d.bytes_written \in Nat
  BY DEF Within, Dfu
<1>2. StreamBufLen \in Nat \ {0} /\ <<>> \in Seq(Unit) /\ Len(<<>>) = 0
  BY DfuAssumption
<1>3. PICK s : s = Synced(d, d.buf, Len(d.buf), <<>>)
  OBVIOUS
<1>4. /\ s \in Dfu(Unit)
      /\ Len(s.slot) = s.bytes_written
      /\ s.slot = SubSeq(d.slot, 1, d.bytes_written) \o SubSeq(d.buf, 1, Len(d.buf))
      /\ s.buf = <<>> /\ s.target = d.target /\ s.available = d.available
      /\ s.scheduled = d.scheduled
  <2>0. PICK buf \in Seq(Unit), rest \in Seq(Unit) : buf = d.buf /\ rest = <<>>
    BY <1>1, <1>2
  <2>1. PICK n \in 0 .. Len(buf) : n = Len(buf)
    OBVIOUS
  <2>2. PICK e : e = Synced(d, buf, n, rest)
    OBVIOUS
  <2>3. /\ e \in Dfu(Unit) /\ Len(e.slot) = e.bytes_written
        /\ e.slot = SubSeq(d.slot, 1, d.bytes_written) \o SubSeq(buf, 1, n)
        /\ e.buf = rest /\ e.target = d.target /\ e.available = d.available
        /\ e.scheduled = d.scheduled
    BY <1>1, <2>2, SyncedFacts, ZenonT(60)
  <2> QED
    BY <1>3, <2>0, <2>1, <2>2, <2>3, Zenon
<1>5. SubSeq(d.buf, 1, Len(d.buf)) = d.buf
  BY <1>1, SubSeqFull
<1>6. PICK e : e = [s EXCEPT !.id = FALSE, !.stream_buf_bytes = 0, !.saved = 0]
  OBVIOUS
<1>7. /\ e \in Dfu(Unit) /\ e.slot = s.slot /\ e.bytes_written = s.bytes_written
      /\ e.buf = <<>> /\ e.target = d.target /\ e.available = d.available
      /\ e.scheduled = d.scheduled /\ e.stream_buf_bytes = 0 /\ e.saved = 0
      /\ e.slot \in Seq(Unit) /\ e.bytes_written \in Nat
  BY <1>4, <1>6 DEF Dfu
<1>8. e = DoneOk(d)
  BY <1>3, <1>6 DEF DoneOk
<1>9. e.slot = Stored(d)
  BY <1>4, <1>5, <1>7 DEF Stored
<1>10. Stored(e) = Stored(d)
  <2>1. SubSeq(e.slot, 1, e.bytes_written) = e.slot
    BY <1>4, <1>7, SubSeqFull
  <2>2. e.slot \o <<>> = e.slot
    BY <1>7, ConcatEmptySeq
  <2> QED
    BY <1>7, <1>9, <2>1, <2>2 DEF Stored
<1>11. Kept(e)
  BY <1>4, <1>7 DEF Kept, Within
<1>12. Exact(d) /\ d.target => Exact(e)
  BY <1>2, <1>7 DEF Exact
<1> QED
  BY <1>4, <1>7, <1>8, <1>9, <1>10, <1>11, <1>12

\* dfu_target_done(true) when the flash fails, and dfu_target_schedule_update.
LEMMA FlushScheduleFacts ==
    ASSUME NEW d, Kept(d)
    PROVE  /\ LET e == DoneFlushFails(d)
              IN  Kept(e) /\ e.target = d.target /\ e.scheduled = d.scheduled
           /\ LET e == dfu_target_schedule_update(d)
              IN  /\ Kept(e) /\ e.target = d.target /\ e.slot = d.slot /\ e.buf = d.buf
                  /\ e.bytes_written = d.bytes_written /\ e.scheduled
                  /\ Stored(e) = Stored(d)
                  /\ Exact(d) => Exact(e)
<1>1. /\ d \in Dfu(Unit) /\ d.bytes_written \in Nat /\ d.saved \in Nat /\ d.slot \in Seq(Unit)
      /\ d.stream_buf_bytes \in Nat
  BY DEF Kept, Within, Dfu
<1>2. LET e == DoneFlushFails(d)
      IN  Kept(e) /\ e.target = d.target /\ e.scheduled = d.scheduled
  <2>1. PICK m \in Nat, n \in Nat : /\ m = IF SaveProgress THEN 0 ELSE d.stream_buf_bytes
                                    /\ n = IF SaveProgress THEN 0 ELSE d.saved
    BY <1>1
  <2>2. PICK e : e = [d EXCEPT !.id = FALSE, !.stream_buf_bytes = m, !.saved = n]
    OBVIOUS
  <2>3. /\ e \in Dfu(Unit) /\ e.saved = n /\ e.slot = d.slot /\ e.target = d.target
        /\ e.bytes_written = d.bytes_written /\ e.scheduled = d.scheduled
    BY <1>1, <2>2 DEF Dfu
  <2>4. e = DoneFlushFails(d)
    BY <2>1, <2>2 DEF DoneFlushFails
  <2>5. Kept(e)
    BY <1>1, <2>1, <2>3 DEF Kept, Within
  <2> QED
    BY <2>3, <2>4, <2>5
<1>3. PICK e : e = [d EXCEPT !.scheduled = TRUE]
  OBVIOUS
<1>4. /\ e \in Dfu(Unit) /\ e.saved = d.saved /\ e.slot = d.slot /\ e.target = d.target
      /\ e.bytes_written = d.bytes_written /\ e.buf = d.buf /\ e.scheduled
      /\ e.stream_buf_bytes = d.stream_buf_bytes /\ e.available = d.available /\ e.id = d.id
  BY <1>1, <1>3 DEF Dfu
<1>5. Kept(e) /\ Stored(e) = Stored(d) /\ (Exact(d) => Exact(e))
  BY <1>4 DEF Kept, Within, Stored, Exact
<1> QED
  BY <1>2, <1>3, <1>4, <1>5 DEF dfu_target_schedule_update

\* What a reset of the device leaves.
LEMMA RebootFacts ==
    ASSUME NEW slot \in Seq(Unit), NEW saved \in Nat, saved <= Len(slot), NEW b \in BOOLEAN,
           ~SaveProgress => saved = 0
    PROVE  LET e == DfuStart(slot, saved, b)
           IN  /\ Kept(e) /\ Exact(e) /\ ~e.target /\ e.slot = slot /\ e.saved = saved
               /\ e.scheduled = b /\ Stored(e) = <<>>
<1>1. StreamBufLen \in Nat \ {0} /\ <<>> \in Seq(Unit) /\ Len(<<>>) = 0
  BY DfuAssumption
<1>2. PICK e : e = DfuStart(slot, saved, b)
  OBVIOUS
<1>3. /\ e \in Dfu(Unit) /\ ~e.target /\ ~e.id /\ e.slot = slot /\ e.saved = saved
      /\ e.scheduled = b /\ e.bytes_written = 0 /\ e.buf = <<>> /\ e.stream_buf_bytes = 0
  BY <1>1, <1>2 DEF DfuStart, Dfu
<1>4. Stored(e) = <<>>
  <2>1. SubSeq(slot, 1, 0) = <<>>
    BY SubSeqEmpty
  <2> QED
    BY <1>3, <2>1, ConcatEmptySeq, <1>1 DEF Stored
<1>5. Kept(e) /\ Exact(e)
  BY <1>1, <1>3 DEF Kept, Within, Exact
<1> QED
  BY <1>2, <1>3, <1>4, <1>5

-----------------------------------------------------------------------------
(* Control: the state of the client, the place of the thread, the event it *)
(* calls back with, and the flags.                                         *)

\* No error is reported while a refused connection is being closed: the
\* connection made anew after "Connection: close" does not fail, nor does what
\* ends an image, the last flush of the buffer included, or its error is lost.
NoErrorWhileClosing ==
    ~ReconnectFails /\ ~DoneFails /\ (SaveProgress \/ ~FlashFails)

\* The thread is on its way to close the connection and hands over no more.
Dying(st, pc, ctx, id, rt) ==
    /\ st = "CLOSING" /\ id \in {"NONE", "DONE"}
    /\ \/ pc \in {"fragment", "loop", "end", "closing"}
       \/ pc = "partial" /\ ~rt
       \/ pc = "connect" /\ ctx = "received"

\* The thread against the state of the client and the events.
ThreadOK(st, done, pc, ctx, id) ==
    /\ st # "FINISHED" /\ (st # "IDLE" => done)
    /\ st = "IDLE" => pc \in IdlePcs
    /\ st = "CONNECTING" =>
        pc \in IdlePcs \/ (pc \in {"connect", "connect_failed"} /\ ctx = "start")
    /\ st = "DOWNLOADING" => pc \notin {"wait", "check", "closing", "connect_closed"}
    /\ id = "FRAGMENT" => pc \in {"fragment", "partial"}
    /\ id = "DONE" => pc = "end"
    /\ id = "ERROR" => pc \in {"connect_failed", "send_failed", "socket_error", "end"}
    /\ id \in {"FRAGMENT", "DONE", "ERROR"} => st # "IDLE"
    /\ id = "CLOSED" => pc \in {"wait", "connect_closed"} /\ st = "IDLE"
    /\ pc \in {"connect_failed", "connect_closed"} => ctx # "received"

\* FOTA's flags and work item against them.  dl, first, res and cl are
\* FLAG_DOWNLOADING, FLAG_FIRST_FRAGMENT, FLAG_RESUME and FLAG_CLOSED; cb is
\* how far the callback is with CLOSED, it whether the work item waits for the
\* client.
FlagsOK(st, pc, ctx, id, rt, dl, first, res, cl, wk, target, ap, cb, it) ==
    /\ st # "IDLE" \/ (id # "NONE" /\ cb \in {"none", "closed"}) => dl
    /\ wk <=> res
    /\ wk => dl /\ target
    /\ wk /\ cl => st = "IDLE" /\ (id = "NONE" \/ cb = "closed")
    /\ wk /\ ~cl => (id = "CLOSED" /\ cb = "none") \/ Dying(st, pc, ctx, id, rt)
    /\ dl /\ first => ~res /\ (cl => cb = "closed")
    /\ ap = "start" => /\ dl /\ first /\ st = "IDLE"
                       /\ id = "NONE" \/ cb \in {"stopped", "no_error"}
    /\ st # "IDLE" /\ ~first /\ ~Dying(st, pc, ctx, id, rt) => target
    /\ cb # "none" => id = "CLOSED"
    /\ cb \in {"stopped", "no_error"} => ~wk
    /\ it => dl /\ ~first /\ target /\ st = "IDLE" /\ id = "NONE" /\ ~wk

ThreadControl == ThreadOK(dlc.state, dlc.close_when_done, thr.pc, thr.ctx, evt.id)
FlagsControl ==
    FlagsOK(dlc.state, thr.pc, thr.ctx, evt.id, ret, flags["DOWNLOADING"],
            flags["FIRST_FRAGMENT"], flags["RESUME"], flags["CLOSED"], work, dfu.target, app,
            closing, item.gets)

\* The inductive invariant of the control, as long as the work item has not
\* overtaken the callback.
ControlInv ==
    /\ ClientInv /\ Kept(dfu)
    /\ ThreadControl /\ FlagsControl
    /\ Reported /\ ~overtaken

\* An event is pending or it is not.
LEMMA EventIds ==
    ASSUME DlTypes
    PROVE  /\ evt.id \in {"NONE", "FRAGMENT", "DONE", "CLOSED", "ERROR"}
           /\ evt.id = "NONE" <=> evt = NoEvt
           /\ evt.id = "FRAGMENT" => evt.data \in Seq(Unit)
BY EventFacts DEF DlTypes

\* A step of the download thread keeps the control.
LEMMA ThreadControlKept ==
    ASSUME ControlInv, NoErrorWhileClosing, DownloadThread,
           UNCHANGED <<dfu, fotaVars, appVars, reports>>
    PROVE  ThreadControl' /\ FlagsControl' /\ Reported'
<1>u. UNCHANGED <<dfu, flags, work, app, reports, accepted, closing, item>>
  BY DEF fotaVars, appVars, callVars
<1>o. Reported'
  BY <1>u DEF ControlInv, Reported, BeingReported
<1>t. /\ dlc \in Client /\ thr \in [pc : ThreadPcs, ctx : Contexts, send_request : BOOLEAN]
      /\ NoEvt.id = "NONE"
  BY EventFacts DEF ControlInv, ClientInv, DlTypes
<1>c. ThreadControl /\ FlagsControl
  BY DEF ControlInv
<1>i. evt = NoEvt \/ evt \in Event
  BY DEF ControlInv, ClientInv, DlTypes
<1> USE <1>u, <1>t, <1>c
<1>1. CASE WakeUp \/ CheckConnecting
  <2>1. /\ UNCHANGED <<dlc, evt, ret>> /\ evt.id = "NONE"
        /\ \/ thr.pc = "wait" /\ thr'.pc = "check" /\ thr'.ctx = thr.ctx
           \/ /\ thr.pc = "check" /\ thr'.pc = "connect" /\ thr'.ctx = "start"
              /\ dlc.state = "CONNECTING"
           \/ /\ thr.pc = "check" /\ thr'.pc = "loop" /\ thr'.ctx = thr.ctx
              /\ dlc.state # "CONNECTING"
    BY <1>1 DEF WakeUp, CheckConnecting, At, Goto
  <2> QED
    BY <1>o, <2>1 DEF ThreadControl, FlagsControl, ThreadOK, FlagsOK, Dying, IdlePcs
<1>3. CASE ConnectOk
  <2>1. /\ UNCHANGED <<evt, ret>> /\ evt.id = "NONE"
        /\ thr.pc = "connect" /\ thr'.pc = "loop" /\ thr'.ctx = thr.ctx
        /\ dlc'.state = (IF thr.ctx = "start" THEN "DOWNLOADING" ELSE dlc.state)
        /\ dlc'.close_when_done = dlc.close_when_done
    BY <1>3 DEF ConnectOk, At, Goto, Client
  <2> QED
    BY <1>o, <2>1 DEF ThreadControl, FlagsControl, ThreadOK, FlagsOK, Dying, IdlePcs
<1>4. CASE ConnectFails
  <2>1. /\ UNCHANGED <<dlc, ret>> /\ evt.id = "NONE" /\ evt'.id = "ERROR"
        /\ thr.pc = "connect" /\ thr'.pc = "connect_failed" /\ thr'.ctx = thr.ctx
        /\ thr.ctx # "received"
    BY <1>4, EventFacts DEF ConnectFails, At, Goto, NoErrorWhileClosing, Errors
  <2> QED
    BY <1>o, <2>1 DEF ThreadControl, FlagsControl, ThreadOK, FlagsOK, Dying, IdlePcs
<1>5. CASE ConnectCloses
  <2>1. /\ UNCHANGED ret /\ evt.id = "NONE" /\ evt'.id = "CLOSED"
        /\ thr.pc = "connect_failed" /\ thr'.pc = "connect_closed" /\ thr'.ctx = thr.ctx
        /\ dlc'.state = "IDLE"
    BY <1>5, EventFacts, ClientFacts DEF ConnectCloses, At, Goto
  <2> QED
    BY <1>o, <2>1 DEF ThreadControl, FlagsControl, ThreadOK, FlagsOK, Dying, IdlePcs
<1>6. CASE ConnectReturns
  <2>1. /\ UNCHANGED <<dlc, ret>> /\ evt.id = "NONE" /\ evt'.id = "NONE"
        /\ thr.pc = "connect_closed" /\ thr'.pc \in {"wait", "end"} /\ thr'.ctx = thr.ctx
    BY <1>6 DEF ConnectReturns, At, Goto, ThreadControl, ThreadOK
  <2> QED
    BY <1>o, <2>1 DEF ThreadControl, FlagsControl, ThreadOK, FlagsOK, Dying, IdlePcs
<1>7. CASE LeaveLoop \/ LoopRecv \/ EndDownload
  <2>1. /\ UNCHANGED <<dlc, evt, ret>> /\ evt.id = "NONE" /\ thr'.ctx = thr.ctx
        /\ \/ thr.pc = "loop" /\ dlc.state # "DOWNLOADING" /\ thr'.pc = "end"
           \/ thr.pc = "loop" /\ dlc.state = "DOWNLOADING" /\ thr'.pc = "recv"
           \/ thr.pc = "end" /\ dlc.state = "DOWNLOADING" /\ thr'.pc = "ended"
           \/ thr.pc = "end" /\ dlc.state # "DOWNLOADING" /\ thr'.pc = "closing"
    BY <1>7 DEF LeaveLoop, LoopRecv, EndDownload, At, Goto
  <2> QED
    BY <1>o, <2>1 DEF ThreadControl, FlagsControl, ThreadOK, FlagsOK, Dying, IdlePcs
<1>8. CASE SendRequest
  <2>1. /\ UNCHANGED <<evt, ret>> /\ evt.id = "NONE"
        /\ thr.pc = "loop" /\ thr'.pc = "recv" /\ thr'.ctx = thr.ctx
        /\ dlc'.state = dlc.state /\ dlc.state = "DOWNLOADING"
        /\ dlc'.close_when_done = dlc.close_when_done
    BY <1>8 DEF SendRequest, At, Goto, Client
  <2> QED
    BY <1>o, <2>1 DEF ThreadControl, FlagsControl, ThreadOK, FlagsOK, Dying, IdlePcs
<1>9. CASE SendFails
  <2>1. /\ UNCHANGED ret /\ evt.id = "NONE" /\ evt'.id = "ERROR"
        /\ thr.pc = "loop" /\ thr'.pc = "send_failed" /\ thr'.ctx = thr.ctx
        /\ dlc'.state = dlc.state /\ dlc.state = "DOWNLOADING"
        /\ dlc'.close_when_done = dlc.close_when_done
    BY <1>9, EventFacts DEF SendFails, At, Goto, Client, Errors
  <2> QED
    BY <1>o, <2>1 DEF ThreadControl, FlagsControl, ThreadOK, FlagsOK, Dying, IdlePcs
<1>10. CASE ReconnectToSend \/ AfterSocketError
  <2>1. /\ UNCHANGED <<evt, ret>> /\ evt.id = "NONE"
        /\ dlc'.state = dlc.state /\ dlc'.close_when_done = dlc.close_when_done
        /\ thr.pc \in {"send_failed", "socket_error"}
        /\ \/ thr'.pc = "end" /\ thr'.ctx = thr.ctx
           \/ thr'.pc = "connect" /\ thr'.ctx \in {"request", "socket_error"}
    BY <1>10 DEF ReconnectToSend, AfterSocketError, Reconnect, At, Goto, Client
  <2> QED
    BY <1>o, <2>1 DEF ThreadControl, FlagsControl, ThreadOK, FlagsOK, Dying, IdlePcs
<1>v. ASSUME NEW h, NEW n, Receive(h, n), UNCHANGED ret, At("recv")
      PROVE  ThreadControl' /\ FlagsControl' /\ Reported'
  <2>1. dlc'.state = dlc.state /\ dlc'.close_when_done = dlc.close_when_done
    BY <1>v DEF Receive, Received, Client
  <2>2. /\ evt.id = "NONE" /\ thr.pc = "recv" /\ thr'.ctx = thr.ctx
        /\ \/ thr'.pc = "loop" /\ evt'.id = "NONE"
           \/ thr'.pc = "fragment" /\ evt'.id = "FRAGMENT"
    BY <1>v DEF Receive, At, Goto, Fragment
  <2> QED
    BY <1>o, <1>v, <2>1, <2>2 DEF ThreadControl, FlagsControl, ThreadOK, FlagsOK, Dying, IdlePcs
<1>12. CASE RecvHeader \/ RecvData
  BY <1>12, <1>v DEF RecvHeader, RecvData
<1>14. CASE RecvBadHeader
  <2>1. /\ UNCHANGED <<dlc, ret>> /\ evt.id = "NONE" /\ evt'.id = "ERROR"
        /\ thr.pc = "recv" /\ thr'.pc = "end" /\ thr'.ctx = thr.ctx
    BY <1>14, EventFacts DEF RecvBadHeader, At, Goto, Errors
  <2> QED
    BY <1>o, <2>1 DEF ThreadControl, FlagsControl, ThreadOK, FlagsOK, Dying, IdlePcs
<1>15. CASE AfterFragment
  <2>1. /\ UNCHANGED ret /\ evt.id = "NONE" /\ thr.pc = "fragment"
        /\ dlc'.state = dlc.state /\ dlc'.close_when_done = dlc.close_when_done
        /\ \/ thr'.pc = "end" /\ thr'.ctx = thr.ctx /\ evt'.id \in {"NONE", "DONE"}
           \/ thr'.pc = "connect" /\ thr'.ctx = "received" /\ evt'.id = "NONE"
           \/ thr'.pc = "loop" /\ thr'.ctx = thr.ctx /\ evt'.id = "NONE"
    BY <1>15, EventFacts, ZenonT(60) DEF AfterFragment, Reconnect, At, Goto, Client
  <2> QED
    BY <1>o, <2>1 DEF ThreadControl, FlagsControl, ThreadOK, FlagsOK, Dying, IdlePcs
<1>16. CASE RecvFails
  <2>1. /\ UNCHANGED ret /\ evt.id = "NONE" /\ thr.pc = "recv" /\ thr'.ctx = thr.ctx
        /\ dlc'.state = dlc.state /\ dlc'.close_when_done = dlc.close_when_done
        /\ \/ thr'.pc = "partial" /\ evt'.id = "FRAGMENT"
           \/ thr'.pc = "socket_error" /\ evt'.id = "ERROR"
    BY <1>16, EventFacts DEF RecvFails, SocketError, Fragment, At, Goto, Client, Errors
  <2> QED
    BY <1>o, <2>1 DEF ThreadControl, FlagsControl, ThreadOK, FlagsOK, Dying, IdlePcs
<1>17. CASE AfterPartial
  <2>1. /\ UNCHANGED <<dlc, ret>> /\ evt.id = "NONE" /\ thr.pc = "partial" /\ thr'.ctx = thr.ctx
        /\ \/ thr'.pc = "end" /\ evt'.id = "NONE"
           \/ thr'.pc = "socket_error" /\ evt'.id = "ERROR" /\ ret
    BY <1>17, EventFacts DEF AfterPartial, SocketError, At, Goto, Errors
  <2> QED
    BY <1>o, <2>1 DEF ThreadControl, FlagsControl, ThreadOK, FlagsOK, Dying, IdlePcs
<1>20. CASE SetEnded
  <2>1. /\ UNCHANGED <<evt, ret>> /\ evt.id = "NONE"
        /\ thr.pc = "ended" /\ thr'.pc = "closing" /\ thr'.ctx = thr.ctx
    BY <1>20 DEF SetEnded, At, Goto
  <2>2. dlc.state # "IDLE" /\ dlc.close_when_done
    BY <2>1 DEF ThreadControl, ThreadOK, IdlePcs
  <2>3. dlc'.state = "CLOSING" /\ dlc'.close_when_done = dlc.close_when_done
    BY <1>20, <2>2 DEF SetEnded, SetState, Client
  <2> QED
    BY <1>o, <2>1, <2>2, <2>3 DEF ThreadControl, FlagsControl, ThreadOK, FlagsOK, Dying, IdlePcs
<1>21. CASE HandleClosing
  <2>1. /\ UNCHANGED ret /\ evt.id = "NONE"
        /\ thr.pc = "closing" /\ thr'.pc = "wait" /\ thr'.ctx = thr.ctx
        /\ \/ dlc.state = "CLOSING" /\ dlc'.state = "IDLE" /\ evt'.id = "CLOSED"
           \/ dlc.state # "CLOSING" /\ UNCHANGED <<dlc, evt>>
    BY <1>21, EventFacts, ClientFacts DEF HandleClosing, At, Goto
  <2> QED
    BY <1>o, <2>1 DEF ThreadControl, FlagsControl, ThreadOK, FlagsOK, Dying, IdlePcs
<1> QED
  BY <1>1, <1>3, <1>4, <1>5, <1>6, <1>7, <1>8, <1>9, <1>10, <1>12, <1>14, <1>15, <1>16,
     <1>17, <1>20, <1>21 DEF DownloadThread

\* What a step has to keep besides the types.
ControlKept == ThreadControl' /\ FlagsControl' /\ Reported' /\ Kept(dfu')

\* The flags a callback goes on with: the first fragment may be behind it.
GoesOnWith(f) ==
    /\ f \in Flags
    /\ f["DOWNLOADING"] = flags["DOWNLOADING"] /\ f["CLOSED"] = flags["CLOSED"]
    /\ f["FIRST_FRAGMENT"] => flags["FIRST_FRAGMENT"]
    /\ f["RESUME"] => flags["RESUME"]
    /\ evt.id = "ERROR" => f["FIRST_FRAGMENT"] = flags["FIRST_FRAGMENT"]

CallbackFrame == evt' = NoEvt /\ UNCHANGED <<thr, app, reports, accepted, closing, item>>

\* The label error_and_close.
LEMMA ErrorControl ==
    ASSUME ControlInv, evt.id \in {"FRAGMENT", "DONE", "ERROR"}, ~work,
           NEW d, Within(d), d.target \/ Kept(d), dfu.target => d.target,
           NEW f, GoesOnWith(f), ErrorAndClose(d, f), CallbackFrame
    PROVE  ControlKept
<1>1. dlc \in Client /\ sem \in 0 .. 1 /\ NoEvt.id = "NONE"
  BY EventFacts DEF ControlInv, ClientInv, DlTypes
<1>2. /\ dlc'.state = "CLOSING" /\ dlc'.close_when_done = dlc.close_when_done
      /\ dlc.state # "IDLE"
  <2>1. dlc.state # "IDLE"
    BY DEF ControlInv, ThreadControl, ThreadOK
  <2>2. dlc' = Disconnected
    BY DEF ErrorAndClose, DoDisconnect
  <2> QED
    BY <1>1, <2>1, <2>2, DisconnectFacts DEF Client
<1>3. Kept(dfu') /\ dfu'.target = d.target
  BY AbortFacts DEF ErrorAndClose
<1>4. /\ flags'["DOWNLOADING"] = flags["DOWNLOADING"] /\ flags'["CLOSED"] = flags["CLOSED"]
      /\ flags'["FIRST_FRAGMENT"] = f["FIRST_FRAGMENT"] /\ ~flags'["RESUME"]
  BY DEF ErrorAndClose, GoesOnWith, Flags, FlagNames
<1>5. ~ret' /\ ~work' /\ evt'.id = "NONE" /\ UNCHANGED <<thr, app, closing, item>>
  BY <1>1 DEF ErrorAndClose, Returns, CallbackFrame
<1>6. Reported'
  BY <1>4 DEF CallbackFrame, Reported, BeingReported, ControlInv
<1> QED
  BY <1>2, <1>3, <1>4, <1>5, <1>6 DEF ControlKept, ControlInv, ThreadControl, FlagsControl,
     ThreadOK, FlagsOK, Dying, IdlePcs, GoesOnWith

\* A fragment is written, or refused.
LEMMA WriteControl ==
    ASSUME ControlInv, evt.id = "FRAGMENT",
           NEW d, Kept(d), d.target, NEW f, GoesOnWith(f), WriteFragment(d, f), CallbackFrame
    PROVE  ControlKept
<1>1. NoEvt.id = "NONE" /\ evt.data \in Seq(Unit) /\ Within(d)
  BY EventFacts, EventIds DEF ControlInv, ClientInv, Kept
<1>2. ~work /\ ~flags["RESUME"] /\ flags["DOWNLOADING"]
  BY DEF ControlInv, FlagsControl, FlagsOK, Dying
<1>3. ASSUME NEW e, ErrorAndClose(e, f), Within(e), e.target
      PROVE  ControlKept
  BY <1>2, <1>3, ErrorControl
<1>4. CASE \E k \in FullBuffers(d, evt.data) : ErrorAndClose(WriteFails(d, evt.data, k), f)
  BY <1>1, <1>3, <1>4, WriteFailsFacts
<1>5. CASE ErrorAndClose(CountWritten(d, evt.data), f)
  <2>1. Within(CountWritten(d, evt.data)) /\ CountWritten(d, evt.data).target
    BY <1>1, CountFacts DEF Within
  <2> QED
    BY <1>3, <1>5, <2>1
<1>6. CASE /\ dfu' = dfu_target_write(d, evt.data)
           /\ flags' = f
           /\ Returns(TRUE)
           /\ NoDisconnect
           /\ UNCHANGED work
  <2>1. Kept(dfu') /\ dfu'.target
    BY <1>1, <1>6, WriteFacts
  <2>2. /\ ret' /\ ~work' /\ evt'.id = "NONE" /\ UNCHANGED <<thr, app, closing, item>> /\ dlc' = dlc
        /\ flags' = f
    BY <1>1, <1>2, <1>6 DEF Returns, NoDisconnect, CallbackFrame
  <2>3. Reported'
    BY <1>6 DEF CallbackFrame, Reported, BeingReported, ControlInv, GoesOnWith
  <2>4. ~f["RESUME"] /\ f["DOWNLOADING"]
    BY <1>2 DEF GoesOnWith, Flags
  <2> QED
    BY <1>2, <2>1, <2>2, <2>3, <2>4 DEF ControlKept, ControlInv, ThreadControl, FlagsControl,
       ThreadOK, FlagsOK, Dying, IdlePcs, GoesOnWith
<1> QED
  BY <1>4, <1>5, <1>6 DEF WriteFragment

\* The first fragment.
LEMMA FirstControl ==
    ASSUME ControlInv, evt.id = "FRAGMENT", flags["FIRST_FRAGMENT"], FirstFragment,
           CallbackFrame
    PROVE  ControlKept
<1>1. /\ flags \in Flags /\ dlc \in Client /\ sem \in 0 .. 1 /\ NoEvt.id = "NONE"
      /\ dlc.file_size \in Nat
  BY EventFacts DEF ControlInv, ClientInv, FotaTypes, DlTypes, Flags, Client
<1>2. /\ ~work /\ ~flags["RESUME"] /\ flags["DOWNLOADING"] /\ ~flags["CLOSED"]
      /\ dlc.state # "IDLE"
  BY DEF ControlInv, FlagsControl, FlagsOK, Dying, ThreadControl, ThreadOK
<1>c. closing = "none" /\ ~item.gets
  BY DEF ControlInv, FlagsControl, FlagsOK
<1>3. PICK f, g : f = With({}, {"FIRST_FRAGMENT"}) /\ g = With({}, {"FIRST_FRAGMENT", "RESUME"})
  OBVIOUS
<1>4. /\ GoesOnWith(f) /\ GoesOnWith(g) /\ ~f["FIRST_FRAGMENT"] /\ f \in Flags
  <2>1. f \in Flags /\ g \in Flags
    BY <1>1, <1>3, FlagFacts
  <2>2. /\ f["DOWNLOADING"] = flags["DOWNLOADING"] /\ f["CLOSED"] = flags["CLOSED"]
        /\ f["RESUME"] = flags["RESUME"] /\ ~f["FIRST_FRAGMENT"]
    BY <1>1, <1>3 DEF With, Flags, FlagNames
  <2>3. /\ g["DOWNLOADING"] = flags["DOWNLOADING"] /\ g["CLOSED"] = flags["CLOSED"]
        /\ ~g["RESUME"] /\ ~g["FIRST_FRAGMENT"]
    BY <1>1, <1>3 DEF With, Flags, FlagNames
  <2> QED
    BY <2>1, <2>2, <2>3 DEF GoesOnWith
<1>5. PICK size \in Nat : size = dlc.file_size
  BY <1>1
<1>6. PICK d : d = dfu_target_init(dfu, size)
  OBVIOUS
<1>7. Kept(dfu) /\ Within(dfu)
  BY DEF ControlInv, Kept
<1>8. /\ Within(d) /\ d.target
      /\ ~InitFails(dfu, size) => Kept(d)
  BY <1>6, <1>7, InitFacts
<1>9. PICK r : r = dfu_target_reset(d)
  OBVIOUS
<1>10. Kept(r) /\ Within(r)
  BY <1>8, <1>9, ResetFacts DEF Kept
<1>11. PICK again : again = dfu_target_init(r, size)
  OBVIOUS
<1>12. /\ Within(again) /\ again.target
       /\ ~InitFails(r, size) => Kept(again)
  BY <1>10, <1>11, InitFacts
<1>13. \/ ErrorAndClose(dfu, f)
       \/ ErrorAndClose(d, f)
       \/ ~InitFails(dfu, size) /\ WriteFragment(d, g)
       \/ ErrorAndClose(ResetFails(d), g)
       \/ ErrorAndClose(again, g)
       \/ ~InitFails(r, size) /\ WriteFragment(again, g)
       \/ /\ ~InitFails(dfu, size)
          /\ dfu' = d
          /\ flags' = [f EXCEPT !["RESUME"] = TRUE]
          /\ DoDisconnect
          /\ work' = TRUE
          /\ Returns(FALSE)
  BY <1>3, <1>5, <1>6, <1>9, <1>11 DEF FirstFragment
<1>14. CASE ErrorAndClose(dfu, f)
  BY <1>2, <1>4, <1>7, <1>14, ErrorControl
<1>15. CASE ErrorAndClose(d, f)
  BY <1>2, <1>4, <1>8, <1>15, ErrorControl
<1>16. CASE ~InitFails(dfu, size) /\ WriteFragment(d, g)
  BY <1>4, <1>8, <1>16, WriteControl
<1>r. CASE ErrorAndClose(ResetFails(d), g)
  BY <1>2, <1>4, <1>8, <1>r, ResetFailsFacts, ErrorControl
<1>17. CASE ErrorAndClose(again, g)
  BY <1>2, <1>4, <1>12, <1>17, ErrorControl
<1>18. CASE ~InitFails(r, size) /\ WriteFragment(again, g)
  BY <1>4, <1>12, <1>18, WriteControl
<1>19. CASE /\ ~InitFails(dfu, size)
            /\ dfu' = d
            /\ flags' = [f EXCEPT !["RESUME"] = TRUE]
            /\ DoDisconnect
            /\ work' = TRUE
            /\ Returns(FALSE)
  <2>1. /\ dlc'.state = "CLOSING" /\ dlc'.close_when_done = dlc.close_when_done
    BY <1>1, <1>2, <1>19, DisconnectFacts DEF DoDisconnect, Client
  <2>2. /\ flags'["DOWNLOADING"] /\ ~flags'["CLOSED"] /\ ~flags'["FIRST_FRAGMENT"]
        /\ flags'["RESUME"]
    BY <1>2, <1>4, <1>19 DEF GoesOnWith, Flags, FlagNames
  <2>3. /\ ~ret' /\ work' /\ evt'.id = "NONE" /\ UNCHANGED <<thr, app, closing, item>>
        /\ Kept(dfu') /\ dfu'.target
    BY <1>1, <1>8, <1>19 DEF Returns, CallbackFrame
  <2>4. Reported'
    BY <1>2, <2>2 DEF CallbackFrame, Reported, BeingReported, ControlInv
  <2> QED
    BY <1>2, <2>1, <2>2, <2>3, <2>4 DEF ControlKept, ControlInv, ThreadControl, FlagsControl,
       ThreadOK, FlagsOK, Dying, IdlePcs
<1> QED
  BY <1>13, <1>14, <1>15, <1>16, <1>r, <1>17, <1>18, <1>19

\* Every callback keeps the control.
LEMMA CallbackControl ==
    ASSUME ControlInv, NoErrorWhileClosing, DownloadCallback
    PROVE  ControlKept
<1>1. /\ flags \in Flags /\ dlc \in Client /\ sem \in 0 .. 1 /\ NoEvt.id = "NONE"
      /\ Kept(dfu) /\ Within(dfu)
  BY EventFacts DEF ControlInv, ClientInv, FotaTypes, DlTypes, Flags, Kept
<1>2. GoesOnWith(flags)
  BY <1>1 DEF GoesOnWith
<1>3. CASE OnFragment
  <2>1. evt.id = "FRAGMENT" /\ CallbackFrame
    BY <1>3 DEF OnFragment, Handles, CallbackFrame, appVars, callVars
  <2>2. CASE flags["FIRST_FRAGMENT"]
    BY <1>3, <2>1, <2>2, FirstControl DEF OnFragment
  <2>3. CASE ~flags["FIRST_FRAGMENT"]
    <3>1. dfu.target
      BY <2>1, <2>3 DEF ControlInv, FlagsControl, FlagsOK, Dying, ThreadControl, ThreadOK
    <3> QED
      BY <1>1, <1>2, <1>3, <2>1, <2>3, <3>1, WriteControl DEF OnFragment
  <2> QED
    BY <2>2, <2>3
<1>4. CASE OnDone
  <2>1. evt.id = "DONE" /\ CallbackFrame
    BY <1>4 DEF OnDone, Handles, CallbackFrame, appVars, callVars
  <2>2. ASSUME NEW d, Kept(d), d.target = dfu.target, DoneAndScheduled(d)
        PROVE  ControlKept
    <3>1. Kept(dfu') /\ dfu'.target = dfu.target
      BY <2>2, FlushScheduleFacts DEF DoneAndScheduled
    <3>2. dlc.state # "IDLE"
      BY <2>1 DEF ControlInv, ThreadControl, ThreadOK
    <3>3. dlc'.state = "CLOSING" /\ dlc'.close_when_done = dlc.close_when_done
      BY <1>1, <2>2, <3>2, DisconnectFacts DEF DoneAndScheduled, DoDisconnect, Client
    <3>4. UNCHANGED <<flags, work, thr, app, closing, item>> /\ evt'.id = "NONE"
      BY <1>1, <2>1, <2>2 DEF DoneAndScheduled, CallbackFrame
    <3>5. Reported'
      BY <2>1, <3>4 DEF CallbackFrame, Reported, BeingReported, ControlInv
    <3> QED
      BY <2>1, <3>1, <3>2, <3>3, <3>4, <3>5 DEF ControlKept, ControlInv, ThreadControl,
         FlagsControl, ThreadOK, FlagsOK, Dying, IdlePcs
  <2>3. \/ dfu.target /\ DoneAndScheduled(DoneOk(dfu))
        \/ DoneAndScheduled(DoneFlushFails(dfu))
        \/ ~dfu.target /\ ErrorAndClose(dfu, flags)
    BY <1>4 DEF OnDone, FlushErrorReturned, NoErrorWhileClosing
  <2>4. CASE DoneAndScheduled(DoneOk(dfu))
    BY <1>1, <2>2, <2>4, DoneFacts
  <2>5. CASE DoneAndScheduled(DoneFlushFails(dfu))
    BY <1>1, <2>2, <2>5, FlushScheduleFacts
  <2>6. CASE ~dfu.target /\ ErrorAndClose(dfu, flags)
    <3>1. ~work
      BY <2>6 DEF ControlInv, FlagsControl, FlagsOK
    <3> QED
      BY <1>1, <1>2, <2>1, <2>6, <3>1, ErrorControl
  <2> QED
    BY <2>3, <2>4, <2>5, <2>6
<1>5. CASE OnError
  <2>1. evt.id = "ERROR" /\ CallbackFrame
    BY <1>5 DEF OnError, Handles, CallbackFrame, appVars, callVars
  <2>2. ~work
    BY <2>1 DEF ControlInv, FlagsControl, FlagsOK, Dying
  <2>3. CASE ErrorAndClose(dfu, flags)
    BY <1>1, <1>2, <2>1, <2>2, <2>3, ErrorControl
  <2>4. CASE Returns(TRUE) /\ NoDisconnect /\ UNCHANGED <<dfu, flags, error_state, work>>
    <3>1. UNCHANGED <<dlc, dfu, flags, work, thr, app, closing, item>> /\ evt'.id = "NONE" /\ ret'
      BY <1>1, <2>1, <2>4 DEF NoDisconnect, CallbackFrame, Returns
    <3>2. Reported'
      BY <2>1, <3>1 DEF CallbackFrame, Reported, BeingReported, ControlInv
    <3> QED
      BY <2>1, <2>2, <3>1, <3>2, <1>1 DEF ControlKept, ControlInv, ThreadControl,
         FlagsControl, ThreadOK, FlagsOK, Dying, IdlePcs
  <2> QED
    BY <1>5, <2>3, <2>4 DEF OnError
<1>6. CASE ClosedCallback
  <2>1. /\ UNCHANGED <<dlc, thr, dfu, work, item, app, accepted>>
        /\ flags' \in Flags
        /\ flags'["FIRST_FRAGMENT"] = flags["FIRST_FRAGMENT"]
        /\ flags'["RESUME"] = flags["RESUME"]
    BY <1>6, ClosedEffects DEF ControlInv
  <2>2. accepted \in Int /\ Len(reports) \in Nat
    BY DEF ControlInv, ClientInv, FotaTypes
  <2>3. ThreadControl /\ FlagsControl /\ Reported
    BY DEF ControlInv
  <2>4. CASE /\ closing = "none" /\ evt.id = "CLOSED" /\ closing' = "closed"
             /\ UNCHANGED <<evt, ret, reports>>
             /\ flags'["CLOSED"] /\ flags'["DOWNLOADING"] = flags["DOWNLOADING"]
    <3>1. Reported'
      BY <2>1, <2>3, <2>4 DEF Reported, BeingReported
    <3> QED
      BY <1>1, <2>1, <2>3, <2>4, <3>1 DEF ControlKept, ThreadControl, FlagsControl, ThreadOK,
         FlagsOK, Dying, IdlePcs
  <2>5. CASE /\ closing = "closed" /\ flags["RESUME"] /\ closing' = "none"
             /\ evt' = NoEvt /\ ret' = TRUE /\ UNCHANGED <<flags, reports>>
    <3>1. Reported'
      BY <2>1, <2>3, <2>5 DEF Reported, BeingReported
    <3> QED
      BY <1>1, <2>1, <2>3, <2>5, <3>1 DEF ControlKept, ThreadControl, FlagsControl, ThreadOK,
         FlagsOK, Dying, IdlePcs
  <2>6. CASE /\ closing = "closed" /\ ~flags["RESUME"] /\ closing' = "stopped"
             /\ UNCHANGED <<evt, ret, reports>>
             /\ flags'["CLOSED"] = flags["CLOSED"] /\ ~flags'["DOWNLOADING"]
    <3>1. flags["DOWNLOADING"]
      BY <2>3, <2>6 DEF FlagsControl, FlagsOK
    <3>2. Reported'
      BY <2>1, <2>2, <2>3, <2>6, <3>1 DEF Reported, BeingReported
    <3> QED
      BY <1>1, <2>1, <2>3, <2>6, <3>1, <3>2 DEF ControlKept, ThreadControl, FlagsControl, ThreadOK,
         FlagsOK, Dying, IdlePcs
  <2>7. CASE /\ closing = "stopped" /\ closing' = "no_error"
             /\ UNCHANGED <<evt, ret, flags, reports>>
    <3>1. Reported'
      BY <2>1, <2>3, <2>7 DEF Reported, BeingReported
    <3> QED
      BY <1>1, <2>1, <2>3, <2>7, <3>1 DEF ControlKept, ThreadControl, FlagsControl, ThreadOK,
         FlagsOK, Dying, IdlePcs
  <2>8. CASE /\ closing \in {"stopped", "no_error"} /\ closing' = "none"
             /\ evt' = NoEvt /\ ret' = TRUE /\ Len(reports') = Len(reports) + 1
             /\ flags'["CLOSED"] = flags["CLOSED"]
             /\ flags'["DOWNLOADING"] = flags["DOWNLOADING"]
    <3>1. Reported'
      BY <2>1, <2>2, <2>3, <2>8 DEF Reported, BeingReported
    <3> QED
      BY <1>1, <2>1, <2>3, <2>8, <3>1 DEF ControlKept, ThreadControl, FlagsControl, ThreadOK,
         FlagsOK, Dying, IdlePcs
  <2> QED
    BY <1>6, <2>4, <2>5, <2>6, <2>7, <2>8, ClosedEffects DEF ControlInv
<1> QED
  BY <1>3, <1>4, <1>5, <1>6 DEF DownloadCallback

\* What a reset may find in the flash: the target, or the target with a
\* fragment written and its progress not stored.
LEMMA CutOffFacts ==
    ASSUME ControlInv, NEW d \in CutOff
    PROVE  /\ Kept(DfuReboot(d)) /\ Exact(DfuReboot(d)) /\ ~DfuReboot(d).target
           /\ DfuReboot(d).scheduled = dfu.scheduled
           /\ Stored(DfuReboot(d)) = <<>> /\ DfuReboot(d).slot = d.slot
           /\ \/ d = dfu
              \/ /\ evt.id = "FRAGMENT" /\ ~flags["FIRST_FRAGMENT"]
                 /\ d = BufferedWrite(dfu, evt.data) /\ ~NoRoom(dfu, evt.data)
<1>1. Kept(dfu) /\ dfu \in Dfu(Unit) /\ dfu.bytes_written <= Len(dfu.slot)
  BY DEF ControlInv, Kept, Within
<1>2. \/ d = dfu
      \/ /\ evt.id = "FRAGMENT" /\ ~flags["FIRST_FRAGMENT"]
         /\ d = BufferedWrite(dfu, evt.data) /\ ~NoRoom(dfu, evt.data)
  BY DEF CutOff
<1>3. /\ d.slot \in Seq(Unit) /\ d.saved \in Nat /\ d.saved <= Len(d.slot)
      /\ d.scheduled = dfu.scheduled /\ dfu.scheduled \in BOOLEAN
      /\ ~SaveProgress => d.saved = 0
  <2>1. CASE d = dfu
    BY <1>1, <2>1 DEF Kept, Within, Dfu
  <2>2. CASE /\ evt.id = "FRAGMENT" /\ ~flags["FIRST_FRAGMENT"]
             /\ d = BufferedWrite(dfu, evt.data)
    <3>1. dfu.target
      BY <2>2 DEF ControlInv, FlagsControl, FlagsOK, Dying, ThreadControl, ThreadOK
    <3>2. evt.data \in Seq(Unit)
      BY <2>2, EventIds DEF ControlInv, ClientInv
    <3>3. /\ d \in Dfu(Unit) /\ d.bytes_written >= dfu.bytes_written
          /\ Len(d.slot) = d.bytes_written /\ d.saved = dfu.saved
          /\ d.scheduled = dfu.scheduled
      BY <1>1, <2>2, <3>2, BufferedFacts
    <3>4. d.slot \in Seq(Unit) /\ d.saved \in Nat /\ dfu.bytes_written \in Nat
          /\ d.bytes_written \in Nat /\ dfu.scheduled \in BOOLEAN
      BY <1>1, <3>3 DEF Dfu
    <3>5. dfu.saved <= dfu.bytes_written /\ (~SaveProgress => dfu.saved = 0)
      BY <3>1, <1>1 DEF Kept, Within
    <3> QED
      BY <3>3, <3>4, <3>5
  <2> QED
    BY <1>2, <2>1, <2>2
<1>4. PICK slot \in Seq(Unit), saved \in Nat, b \in BOOLEAN :
            slot = d.slot /\ saved = d.saved /\ b = d.scheduled
  BY <1>3
<1>5. LET e == DfuStart(slot, saved, b)
      IN  /\ Kept(e) /\ Exact(e) /\ ~e.target /\ e.slot = slot /\ e.saved = saved
          /\ e.scheduled = b /\ Stored(e) = <<>>
  BY <1>3, <1>4, RebootFacts
<1>6. DfuReboot(d) = DfuStart(slot, saved, b)
  BY <1>4 DEF DfuReboot
<1> QED
  BY <1>2, <1>3, <1>4, <1>5, <1>6

\* The offset from which a download is resumed.
LEMMA OffsetType ==
    ASSUME Kept(dfu)
    PROVE  dfu_target_offset_get(dfu) \in Nat
BY DEF Kept, Within, Dfu, dfu_target_offset_get

\* The work item, the application and a reset keep the control.
LEMMA OthersControl ==
    ASSUME ControlInv,
           \/ WorkItem \/ fota_download \/ fota_download_cancel
           \/ Application \/ Reboot,
           ~overtaken'
    PROVE  ControlKept
<1>1. /\ flags \in Flags /\ dlc \in Client /\ sem \in 0 .. 1 /\ NoEvt.id = "NONE"
      /\ Kept(dfu) /\ Within(dfu) /\ uri \in Uris \cup {NoUri}
      /\ accepted \in Int /\ Len(reports) \in Nat
      /\ evt.id = "NONE" <=> evt = NoEvt
      /\ closing \in {"none", "closed", "stopped", "no_error"}
  BY EventFacts, EventIds DEF ControlInv, ClientInv, FotaTypes, DlTypes, Flags, Kept
<1>2. ThreadControl /\ FlagsControl /\ Reported
  BY DEF ControlInv
<1>3. ASSUME NEW u, NEW n
      PROVE  Got(u, n).state = "CONNECTING" /\ Got(u, n).close_when_done
  BY <1>1 DEF Got, Client
<1>4. CASE fota_download
  <2>1. /\ flags'["DOWNLOADING"] /\ flags'["FIRST_FRAGMENT"]
        /\ ~flags'["CLOSED"] /\ ~flags'["RESUME"]
    BY <1>1, <1>4 DEF fota_download, With, Flags, FlagNames
  <2>2. /\ UNCHANGED <<dlc, thr, evt, ret, dfu, work, reports, closing, item>>
        /\ app' = "start" /\ ~flags["DOWNLOADING"] /\ accepted' = accepted + 1
    BY <1>4 DEF fota_download, dlVars, callVars
  <2>3. Reported'
    BY <1>1, <1>2, <2>1, <2>2 DEF Reported, BeingReported
  <2> QED
    BY <1>1, <1>2, <2>1, <2>2, <2>3 DEF ControlKept, ThreadControl, FlagsControl, ThreadOK, FlagsOK,
       Dying, IdlePcs
<1>5. CASE fota_download_cancel
  <2>1. /\ flags'["DOWNLOADING"] = flags["DOWNLOADING"]
        /\ flags'["FIRST_FRAGMENT"] = flags["FIRST_FRAGMENT"]
        /\ flags'["CLOSED"] = flags["CLOSED"] /\ flags'["RESUME"] = flags["RESUME"]
    BY <1>1, <1>5 DEF fota_download_cancel, With, Flags, FlagNames
  <2>2. /\ UNCHANGED <<dlc, thr, evt, ret, dfu, work, reports, accepted, closing, item>>
        /\ app' = "cancel"
    BY <1>5 DEF fota_download_cancel, dlVars, callVars
  <2>3. Reported'
    BY <1>2, <2>1, <2>2 DEF Reported, BeingReported
  <2> QED
    BY <1>1, <1>2, <2>1, <2>2, <2>3 DEF ControlKept, ThreadControl, FlagsControl, ThreadOK, FlagsOK,
       Dying, IdlePcs
<1>6. CASE StartDownload
  <2>1. app = "start" /\ dlc.state = "IDLE"
    BY <1>2, <1>6 DEF StartDownload, FlagsControl, FlagsOK
  <2>2. /\ dlc' = Got(uri, 0) /\ app' = "idle"
        /\ UNCHANGED <<flags, accepted, thr, evt, ret, dfu, work, reports, closing, item>>
        /\ evt.id # "CLOSED"
    BY <1>6, <2>1 DEF StartDownload, Gets, Locked, callVars
  <2>3. Reported'
    BY <1>2, <2>2 DEF Reported, BeingReported
  <2> QED
    BY <1>1, <1>2, <1>3, <2>1, <2>2, <2>3 DEF ControlKept, ThreadControl, FlagsControl, ThreadOK,
       FlagsOK, Dying, IdlePcs
<1>7. CASE CancelDisconnects
  <2>1. /\ UNCHANGED <<flags, accepted, thr, evt, ret, dfu, work, reports, closing, item>>
        /\ app' \in {"cancel_done", "idle"}
    BY <1>7 DEF CancelDisconnects, fotaVars, callVars
  <2>2. /\ dlc'.state = (IF dlc.state = "IDLE" THEN "IDLE" ELSE "CLOSING")
        /\ dlc'.close_when_done = dlc.close_when_done
    BY <1>1, <1>7, DisconnectFacts DEF CancelDisconnects, DoDisconnect, Client
  <2>3. Reported'
    BY <1>2, <2>1 DEF Reported, BeingReported
  <2> QED
    BY <1>1, <1>2, <2>1, <2>2, <2>3 DEF ControlKept, ThreadControl, FlagsControl, ThreadOK, FlagsOK,
       Dying, IdlePcs
<1>8. CASE CancelTarget \/ CancelReturns
  <2>1. /\ UNCHANGED <<dlc, flags, accepted, thr, evt, ret, work, reports, closing, item>>
        /\ app' \in {"cancel_wait", "idle"}
        /\ dfu' = DoneAborted(dfu) \/ dfu' = dfu
    BY <1>8 DEF CancelTarget, CancelReturns, dlVars, fotaVars, callVars
  <2>2. Kept(dfu') /\ dfu'.target = dfu.target
    BY <1>1, <2>1, AbortFacts
  <2>3. Reported'
    BY <1>2, <2>1 DEF Reported, BeingReported
  <2> QED
    BY <1>1, <1>2, <2>1, <2>2, <2>3 DEF ControlKept, ThreadControl, FlagsControl, ThreadOK, FlagsOK,
       Dying, IdlePcs
<1>9. CASE Reboot
  <2>1. /\ dlc'.state = "IDLE" /\ thr'.pc = "wait" /\ thr'.ctx = "start" /\ evt'.id = "NONE"
        /\ ~work' /\ app' = "idle" /\ accepted' = 0 /\ reports' = <<>>
        /\ ~flags'["DOWNLOADING"] /\ ~flags'["RESUME"] /\ closing' = "none" /\ ~item'.gets
    BY <1>1, <1>9 DEF Reboot, Cleared, FlagNames, NoItem
  <2>2. Kept(dfu')
    BY <1>9, CutOffFacts DEF Reboot
  <2>3. Reported'
    <3>1. Len(<<>>) = 0
      OBVIOUS
    <3>2. Len(reports)' = 0 /\ accepted' = 0
      BY <2>1, <3>1, Zenon
    <3>3. /\ (IF flags["DOWNLOADING"] THEN 1 ELSE 0)' = 0
          /\ (IF BeingReported THEN 1 ELSE 0)' = 0
      BY <2>1 DEF BeingReported
    <3>4. 0 - 0 - 0 = 0
      OBVIOUS
    <3> QED
      BY <3>2, <3>3, <3>4, Zenon DEF Reported
  <2> QED
    BY <2>1, <2>2, <2>3 DEF ControlKept, ThreadControl, FlagsControl, ThreadOK, FlagsOK,
       Dying, IdlePcs
<1>10. CASE download_with_offset
  <2>1. work /\ flags["CLOSED"] /\ closing # "closed"
    BY <1>10 DEF download_with_offset
  <2>2. /\ dlc.state = "IDLE" /\ evt.id = "NONE" /\ dfu.target /\ flags["DOWNLOADING"]
        /\ closing = "none"
    BY <1>2, <2>1 DEF FlagsControl, FlagsOK
  <2>3. /\ flags' = With({}, {"RESUME"}) /\ ~work'
        /\ UNCHANGED <<dlc, thr, evt, ret, dfu, reports, app, accepted, closing>>
    BY <1>10, <2>2 DEF download_with_offset, appVars, dlVars
  <2>4. /\ flags'["DOWNLOADING"] = flags["DOWNLOADING"]
        /\ flags'["FIRST_FRAGMENT"] = flags["FIRST_FRAGMENT"]
        /\ flags'["CLOSED"] = flags["CLOSED"] /\ ~flags'["RESUME"]
    BY <1>1, <2>3 DEF With, Flags, FlagNames
  <2>5. Reported'
    BY <1>2, <2>3, <2>4 DEF Reported, BeingReported
  <2> QED
    BY <1>1, <1>2, <2>1, <2>2, <2>3, <2>4, <2>5 DEF ControlKept, ThreadControl, FlagsControl,
       ThreadOK, FlagsOK, Dying, IdlePcs
<1>11. CASE get_from_offset
  <2>1. /\ dlc.state = "IDLE" /\ evt.id = "NONE" /\ dfu.target /\ flags["DOWNLOADING"]
        /\ ~flags["FIRST_FRAGMENT"] /\ ~work /\ closing = "none"
    BY <1>2, <1>11 DEF get_from_offset, FlagsControl, FlagsOK
  <2>2. /\ dlc' = Got(item.uri, item.from) /\ item' = NoItem
        /\ UNCHANGED <<flags, work, thr, evt, ret, dfu, reports, app, accepted, closing>>
    BY <1>11, <2>1 DEF get_from_offset, Gets, appVars
  <2>3. Reported'
    BY <1>2, <2>2 DEF Reported, BeingReported
  <2>4. ~item'.gets
    BY <2>2 DEF NoItem
  <2> QED
    BY <1>1, <1>2, <1>3, <2>1, <2>2, <2>3, <2>4 DEF ControlKept, ThreadControl, FlagsControl,
       ThreadOK, FlagsOK, Dying, IdlePcs
<1> QED
  BY <1>4, <1>5, <1>6, <1>7, <1>8, <1>9, <1>10, <1>11 DEF Application, WorkItem

\* The control invariant holds at the start.
LEMMA ControlInit == FotaInit => ControlInv
<1> SUFFICES ASSUME FotaInit PROVE ControlInv
  OBVIOUS
<1>1. <<>> \in Seq(Unit) /\ NoEvt.id = "NONE" /\ Len(<<>>) = 0
  BY EventFacts
<1>2. DlTypes
  BY <1>1, DownloadAssumption DEF FotaInit, DlInit, DlTypes, Client, DlStates, ThreadPcs, Contexts
<1>3. DlFiles
  BY DEF FotaInit, DlInit, DlFiles, IdlePcs, NoItem
<1>4. FotaTypes
  <2>1. flags \in [FlagNames -> BOOLEAN] /\ retries \in 0 .. Retries
    BY FotaAssumption DEF FotaInit, Cleared
  <2>2. reports \in Seq({"ERROR", "CANCELLED", "FINISHED"}) /\ accepted \in Int
    BY DEF FotaInit
  <2> QED
    BY <2>1, <2>2 DEF FotaInit, FotaTypes, NoItem
<1>5. Kept(dfu)
  <2>0. 0 \in Nat /\ FALSE \in BOOLEAN /\ 0 <= Len(<<>>)
    BY <1>1
  <2>1. PICK s \in Seq(Unit), n \in Nat, b \in BOOLEAN :
            s = <<>> /\ n = 0 /\ b = FALSE /\ n <= Len(s)
    BY <1>1, <2>0, Zenon
  <2>2. Kept(DfuStart(s, n, b))
    BY <2>1, RebootFacts
  <2> QED
    BY <2>1, <2>2, Zenon DEF FotaInit
<1>6. ThreadControl /\ FlagsControl
  BY <1>1 DEF FotaInit, DlInit, Cleared, FlagNames, ThreadControl, FlagsControl, ThreadOK,
     FlagsOK, Dying, IdlePcs, NoItem
<1>7. Reported
  <2>1. Len(reports) = 0 /\ accepted = 0
    BY <1>1, Zenon DEF FotaInit
  <2>2. ~flags["DOWNLOADING"]
    BY DEF FotaInit, Cleared, FlagNames
  <2>3. /\ (IF flags["DOWNLOADING"] THEN 1 ELSE 0) = 0
        /\ (IF BeingReported THEN 1 ELSE 0) = 0
    BY <2>2 DEF FotaInit, BeingReported
  <2>4. 0 - 0 - 0 = 0
    OBVIOUS
  <2> QED
    BY <2>1, <2>3, <2>4, Zenon DEF Reported
<1>8. ~overtaken
  BY DEF FotaInit
<1> QED
  BY <1>2, <1>3, <1>4, <1>5, <1>6, <1>7, <1>8 DEF ControlInv, ClientInv

\* Every step keeps the control invariant, but for the work item that overtakes
\* the callback.
LEMMA ControlNext ==
    ASSUME ControlInv, NoErrorWhileClosing, [FotaNext]_vars, ~overtaken'
    PROVE  ControlInv'
<1>1. CASE DownloadStep
  <2>1. DownloadThread /\ UNCHANGED <<dfu, fotaVars, appVars, reports>>
    BY <1>1 DEF DownloadStep
  <2>2. ClientInv'
    BY <2>1, ThreadClient DEF ControlInv
  <2>3. ThreadControl' /\ FlagsControl' /\ Reported'
    BY <2>1, ThreadControlKept
  <2> QED
    BY <2>1, <2>2, <2>3 DEF ControlInv
<1>2. CASE DownloadCallback
  <2>1. ClientInv'
    BY <1>2, CallbackClient DEF ControlInv
  <2> QED
    BY <1>2, <2>1, CallbackControl DEF ControlInv, ControlKept
<1>3. CASE \/ WorkItem \/ fota_download \/ fota_download_cancel
           \/ Application \/ Reboot
  <2>1. ClientInv'
    BY <1>3, OthersClient, OffsetType DEF ControlInv
  <2> QED
    BY <1>3, <2>1, OthersControl DEF ControlInv, ControlKept
<1>4. CASE UNCHANGED vars
  <2>1. UNCHANGED <<dlc, sem, thr, evt, ret, rx, faults, dfu, flags, error_state, retries, uri,
                    work, item, closing, overtaken, app, accepted, cancels, reboots, reports>>
    BY <1>4 DEF vars, dlVars, fotaVars, appVars, callVars
  <2>2. ClientInv'
    BY <2>1 DEF ControlInv, ClientInv, DlTypes, DlFiles, FotaTypes
  <2>3. Kept(dfu') /\ ThreadControl' /\ FlagsControl'
    BY <2>1 DEF ControlInv, ThreadControl, FlagsControl
  <2>4. Reported'
    BY <2>1 DEF ControlInv, Reported, BeingReported
  <2> QED
    BY <2>2, <2>3, <2>4 DEF ControlInv
<1> QED
  BY <1>1, <1>2, <1>3, <1>4 DEF FotaNext

\* The work item's overtaking the callback is remembered.
LEMMA OvertakenStays ==
    ASSUME overtaken, [FotaNext]_vars
    PROVE  overtaken'
BY DEF FotaNext, vars, fotaVars, callVars, DownloadStep, DownloadCallback, OnFragment, OnDone,
   OnError, ClosedCallback, OnClosed, StopsUnlessResumed, TestsError, TestsCancel, WorkItem,
   download_with_offset, get_from_offset, fota_download, fota_download_cancel, Application,
   StartDownload, CancelDisconnects, CancelTarget, CancelReturns, Reboot

\* The control invariant is one of the specification until then.
LEMMA ControlInvariant == NoErrorWhileClosing => (FotaSpec => [](overtaken \/ ControlInv))
<1> SUFFICES ASSUME NoErrorWhileClosing PROVE FotaSpec => [](overtaken \/ ControlInv)
  OBVIOUS
<1>1. (overtaken \/ ControlInv) /\ [FotaNext]_vars => (overtaken \/ ControlInv)'
  BY ControlNext, OvertakenStays
<1> QED
  BY <1>1, ControlInit, PTL DEF FotaSpec

\* Every download that began is reported by exactly one event of stopped(),
\* whatever is cancelled, resumed, refused or lost with the power
\* (OneReportPerDownload), for all files, sizes of the buffers and numbers of
\* failures, where no error follows the closing of the connection, and unless
\* the work item came between the callback's setting FLAG_CLOSED and its test of
\* FLAG_RESUME.
THEOREM FotaOneReport == NoErrorWhileClosing => (FotaSpec => []OneReportPerDownload)
<1>1. overtaken \/ ControlInv => OneReportPerDownload
  BY DEF ControlInv, OneReportPerDownload
<1> QED
  BY <1>1, ControlInvariant, PTL

\* After that event the client is idle and no work item will start it again
\* (ReadyAfterReport), under the same conditions.
THEOREM FotaReadyAfterReport == NoErrorWhileClosing => (FotaSpec => []ReadyAfterReport)
<1>1. overtaken \/ ControlInv => ReadyAfterReport
  BY DEF ControlInv, FlagsControl, FlagsOK, ReadyAfterReport
<1> QED
  BY <1>1, ControlInvariant, PTL

\* What the target promises while the flash fails under it, the files do not
\* fit, the connection breaks and the power goes: the variables keep their
\* types, and neither the count of the bytes written nor the progress saved
\* for the next boot ever claims more than the slot holds, nor does the saved
\* progress run ahead of a target in use, under the same conditions.
THEOREM FotaProgressBacked ==
    NoErrorWhileClosing => (FotaSpec => [](overtaken \/ (FotaTypeOK /\ Kept(dfu))))
<1>1. ControlInv => FotaTypeOK /\ Kept(dfu)
  BY DEF ControlInv, ClientInv, FotaTypeOK, DlTypeOK, DlTypes, FotaTypes, Kept, Within
<1> QED
  BY <1>1, ControlInvariant, PTL

-----------------------------------------------------------------------------
(* Counting: the progress of the client against what the target holds.     *)

\* No write to the flash fails, nor the end of a whole image, and every file
\* fits the slot.
FlashKeepsAll ==
    ~ReconnectFails /\ ~FlashFails /\ ~DoneFails /\ \A u \in Uris : FileLen[u] <= SlotLen

\* An answer is being received.
Receiving(st, pc, send) ==
    pc \in {"recv", "fragment"} \/ (pc = "loop" /\ st = "DOWNLOADING" /\ ~send)

\* What is received ends with the file; b units are collected, n are to come.
SizesOK(st, pc, send, id, file, size, prog, b, header, n) ==
    /\ size <= SlotLen /\ \A h \in header : h.size <= SlotLen
    /\ Receiving(st, pc, send) /\ (b > 0 \/ n > 0 \/ \E h \in header : h.ok)
            => prog + n <= FileLen[file]
    /\ id = "FRAGMENT" => prog <= SlotLen

\* Where nothing is collected.
EmptyOK(st, pc, send, has, b) ==
    /\ pc = "recv" => ~send
    /\ \/ b = 0
       \/ /\ pc \notin {"connect", "connect_failed", "send_failed", "socket_error",
                        "fragment", "partial"}
          /\ st # "CONNECTING"
          /\ ~(pc = "loop" /\ st = "DOWNLOADING" /\ send)
          /\ Receiving(st, pc, send) => has

\* The progress counts what is collected and handed over, after base units.
CountOK(st, pc, ctx, id, rt, prog, b, handed, base) ==
    st # "IDLE" /\ ~Dying(st, pc, ctx, id, rt) => prog = base + b + handed

Handed == IF evt.id = "FRAGMENT" THEN Len(evt.data) ELSE 0

\* The units stored before; the first fragment is the beginning of the file.
Base == IF flags["FIRST_FRAGMENT"] THEN 0 ELSE Len(Stored(dfu))

Sizes ==
    SizesOK(dlc.state, thr.pc, thr.send_request, evt.id, dlc.file, dlc.file_size, dlc.progress,
            Len(dlc.buf), rx.header, Len(rx.data))
Emptied == EmptyOK(dlc.state, thr.pc, thr.send_request, dlc.has_header, Len(dlc.buf))
Counted ==
    CountOK(dlc.state, thr.pc, thr.ctx, evt.id, ret, dlc.progress, Len(dlc.buf), Handed, Base)

\* The work item that waits for the client goes on where the data end.
Resumes == item.gets => item.from = Len(Stored(dfu))

\* The inductive invariant of the counters.
CountInv == ControlInv /\ Exact(dfu) /\ Sizes /\ Emptied /\ Counted /\ Resumes

\* A step of the thread that moves no data: from where, to where, and with
\* which event.
Moves(st, st2, pc, pc2, ctx, ctx2, send, send2, id2, rt, whole) ==
    \/ /\ st2 = st /\ ctx2 = ctx /\ send2 = send /\ id2 = "NONE"
       /\ \/ pc = "wait" /\ pc2 = "check"
          \/ pc = "check" /\ pc2 = "loop" /\ st # "CONNECTING"
          \/ pc = "loop" /\ pc2 = "end" /\ st # "DOWNLOADING"
          \/ pc = "loop" /\ pc2 = "recv" /\ st = "DOWNLOADING" /\ ~send
          \/ pc = "end" /\ pc2 = "ended" /\ st = "DOWNLOADING"
          \/ pc = "end" /\ pc2 = "closing" /\ st # "DOWNLOADING"
          \/ pc = "connect_closed" /\ pc2 \in {"wait", "end"}
          \/ pc \in {"send_failed", "socket_error", "partial"} /\ pc2 = "end" /\ ~rt
          \/ pc = "fragment" /\ pc2 = "end" /\ ~whole
          \/ pc = "closing" /\ pc2 = "wait" /\ st # "CLOSING"
    \/ /\ st2 = st /\ id2 = "NONE"
       /\ \/ pc = "fragment" /\ pc2 = "loop" /\ ctx2 = ctx /\ ~whole /\ send2 = RangeRequests
          \/ pc = "check" /\ pc2 = "connect" /\ ctx2 = "start" /\ st = "CONNECTING"
          \/ /\ pc \in {"send_failed", "socket_error"} /\ pc2 = "connect" /\ rt
             /\ ctx2 \in {"request", "socket_error"}
          \/ pc = "fragment" /\ pc2 = "connect" /\ ctx2 = "received" /\ ~whole
    \/ /\ st2 = st /\ ctx2 = ctx /\ id2 = "ERROR"
       /\ \/ pc = "connect" /\ pc2 = "connect_failed" /\ ctx # "received"
          \/ pc = "loop" /\ pc2 = "send_failed" /\ st = "DOWNLOADING" /\ send
          \/ pc = "recv" /\ pc2 \in {"end", "socket_error"}
          \/ pc = "partial" /\ pc2 = "socket_error" /\ rt
    \/ pc = "fragment" /\ pc2 = "end" /\ st2 = st /\ ctx2 = ctx /\ id2 = "DONE" /\ whole
    \/ /\ pc = "ended" /\ pc2 = "closing" /\ st2 = "CLOSING" /\ ctx2 = ctx /\ id2 = "NONE"
    \/ /\ st2 = "IDLE" /\ ctx2 = ctx /\ id2 = "CLOSED"
       /\ \/ pc = "connect_failed" /\ pc2 = "connect_closed"
          \/ pc = "closing" /\ pc2 = "wait" /\ st = "CLOSING"
MovesOn ==
    /\ UNCHANGED <<rx, ret>> /\ evt.id = "NONE"
    /\ dlc'.buf = dlc.buf /\ dlc'.progress = dlc.progress /\ dlc'.file_size = dlc.file_size
    /\ dlc'.state # "IDLE" => dlc'.file = dlc.file
    /\ dlc'.has_header = dlc.has_header \/ thr'.pc = "send_failed"
    /\ thr'.pc = "socket_error" /\ thr.pc = "recv" => ~dlc.has_header \/ dlc.buf = <<>>
    /\ Moves(dlc.state, dlc'.state, thr.pc, thr'.pc, thr.ctx, thr'.ctx, thr.send_request,
             thr'.send_request, evt'.id, ret, dlc.progress = dlc.file_size)

\* What each step of the thread does to the data.
LEMMA ThreadEffects ==
    ASSUME CountInv, NoErrorWhileClosing, DownloadThread
    PROVE  \/ MovesOn
           \/ ConnectOk
           \/ SendRequest
           \/ RecvHeader \/ RecvData
           \/ /\ RecvFails /\ thr'.pc = "partial" /\ evt' = Fragment(dlc.buf)
              /\ dlc' = [dlc EXCEPT !.buf = <<>>] /\ dlc.has_header /\ dlc.buf # <<>>
<1>t. /\ dlc \in Client /\ thr \in [pc : ThreadPcs, ctx : Contexts, send_request : BOOLEAN]
      /\ NoEvt.id = "NONE"
  BY EventFacts DEF CountInv, ControlInv, ClientInv, DlTypes
<1>c. ThreadControl
  BY DEF CountInv, ControlInv
<1> USE <1>t
<1>1. CASE WakeUp \/ CheckConnecting
  BY <1>1 DEF WakeUp, CheckConnecting, At, Goto, MovesOn, Moves
<1>2. CASE ConnectFails
  <2>1. evt'.id = "ERROR"
    BY <1>2, EventFacts DEF ConnectFails, Errors
  <2> QED
    BY <1>2, <2>1 DEF ConnectFails, At, Goto, NoErrorWhileClosing, MovesOn, Moves
<1>3. CASE ConnectCloses
  <2>1. evt'.id = "CLOSED"
    BY <1>3, EventFacts DEF ConnectCloses
  <2> QED
    BY <1>3, <2>1 DEF ConnectCloses, Closed, Client, At, Goto, MovesOn, Moves
<1>4. CASE ConnectReturns
  BY <1>4, <1>c DEF ConnectReturns, At, Goto, ThreadControl, ThreadOK, MovesOn, Moves
<1>5. CASE LeaveLoop \/ LoopRecv \/ EndDownload
  BY <1>5 DEF LeaveLoop, LoopRecv, EndDownload, At, Goto, MovesOn, Moves
<1>6. CASE SendFails
  <2>1. evt'.id = "ERROR"
    BY <1>6, EventFacts DEF SendFails, Errors
  <2>2. dlc.buf = <<>>
    <3>1. Len(dlc.buf) = 0 /\ dlc.buf \in Seq(Unit)
      BY <1>6 DEF SendFails, At, CountInv, Emptied, EmptyOK, Client
    <3> QED
      BY <3>1, EmptySeq
  <2>3. /\ dlc'.buf = <<>> /\ dlc'.progress = dlc.progress /\ dlc'.file_size = dlc.file_size
        /\ dlc'.file = dlc.file /\ dlc'.state = dlc.state
    BY <1>6 DEF SendFails, Client
  <2> QED
    BY <1>6, <2>1, <2>2, <2>3 DEF SendFails, At, Goto, MovesOn, Moves
<1>7. CASE ReconnectToSend \/ AfterSocketError
  <2>1. /\ UNCHANGED <<rx, evt, ret>> /\ evt.id = "NONE"
        /\ dlc'.buf = dlc.buf /\ dlc'.progress = dlc.progress /\ dlc'.file_size = dlc.file_size
        /\ dlc'.file = dlc.file /\ dlc'.state = dlc.state /\ dlc'.has_header = dlc.has_header
        /\ thr.pc \in {"send_failed", "socket_error"}
        /\ \/ /\ thr'.pc = "end" /\ thr'.ctx = thr.ctx /\ ~ret
              /\ thr'.send_request = thr.send_request
           \/ thr'.pc = "connect" /\ thr'.ctx \in {"request", "socket_error"} /\ ret
    BY <1>7 DEF ReconnectToSend, AfterSocketError, Reconnect, At, Goto, Client
  <2> QED
    BY <2>1 DEF MovesOn, Moves
<1>8. CASE RecvBadHeader
  <2>1. evt'.id = "ERROR"
    BY <1>8, EventFacts DEF RecvBadHeader, Errors
  <2> QED
    BY <1>8, <2>1 DEF RecvBadHeader, At, Goto, MovesOn, Moves
<1>9. CASE AfterFragment
  <2>1. /\ UNCHANGED <<rx, ret>> /\ evt.id = "NONE" /\ thr.pc = "fragment"
        /\ dlc'.buf = dlc.buf /\ dlc'.progress = dlc.progress /\ dlc'.file_size = dlc.file_size
        /\ dlc'.file = dlc.file /\ dlc'.state = dlc.state /\ dlc'.has_header = dlc.has_header
        /\ \/ /\ thr'.pc = "end" /\ thr'.ctx = thr.ctx /\ evt'.id = "DONE"
              /\ dlc.progress = dlc.file_size
           \/ /\ thr'.pc = "end" /\ thr'.ctx = thr.ctx /\ evt'.id = "NONE"
              /\ thr'.send_request = thr.send_request
              /\ dlc.progress # dlc.file_size
           \/ /\ thr'.pc = "connect" /\ thr'.ctx = "received" /\ evt'.id = "NONE"
              /\ dlc.progress # dlc.file_size
           \/ /\ thr'.pc = "loop" /\ thr'.ctx = thr.ctx /\ evt'.id = "NONE"
              /\ dlc.progress # dlc.file_size /\ thr'.send_request = RangeRequests
    BY <1>9, EventFacts, ZenonT(60) DEF AfterFragment, Reconnect, At, Goto, Client
  <2> QED
    BY <2>1 DEF MovesOn, Moves
<1>10. CASE RecvFails
  <2>1. CASE /\ dlc.has_header /\ dlc.buf # <<>>
             /\ evt' = Fragment(dlc.buf)
             /\ dlc' = [dlc EXCEPT !.buf = <<>>]
             /\ Goto("partial")
    BY <1>10, <2>1 DEF Goto
  <2>2. CASE /\ ~(dlc.has_header /\ dlc.buf # <<>>)
             /\ \E e \in {"ECONNRESET", "ETIMEDOUT"} : SocketError(e)
             /\ UNCHANGED dlc
    <3>1. evt'.id = "ERROR" /\ Goto("socket_error")
      BY <2>2, EventFacts DEF SocketError, Errors
    <3> QED
      BY <1>10, <2>2, <3>1 DEF RecvFails, At, Goto, MovesOn, Moves
  <2> QED
    BY <1>10, <2>1, <2>2 DEF RecvFails
<1>11. CASE AfterPartial
  <2>1. /\ thr'.ctx = thr.ctx /\ thr'.send_request = thr.send_request
        /\ \/ thr'.pc = "end" /\ evt'.id = "NONE" /\ ~ret
           \/ thr'.pc = "socket_error" /\ evt'.id = "ERROR" /\ ret
    BY <1>11, EventFacts DEF AfterPartial, SocketError, At, Goto, Errors
  <2> QED
    BY <1>11, <2>1 DEF AfterPartial, At, MovesOn, Moves
<1>12. CASE SetEnded
  <2>1. dlc.state # "IDLE" /\ dlc.close_when_done
    BY <1>12, <1>c DEF SetEnded, At, ThreadControl, ThreadOK, IdlePcs
  <2>2. /\ dlc'.state = "CLOSING" /\ dlc'.buf = dlc.buf /\ dlc'.progress = dlc.progress
        /\ dlc'.file_size = dlc.file_size /\ dlc'.file = dlc.file
        /\ dlc'.has_header = dlc.has_header
    BY <1>12, <2>1 DEF SetEnded, SetState, Client
  <2> QED
    BY <1>12, <2>2 DEF SetEnded, At, Goto, MovesOn, Moves
<1>13. CASE HandleClosing
  <2>1. CASE dlc.state = "CLOSING"
    <3>1. evt'.id = "CLOSED" /\ dlc' = Closed(dlc)
      BY <1>13, <2>1, EventFacts DEF HandleClosing
    <3> QED
      BY <1>13, <2>1, <3>1 DEF HandleClosing, Closed, Client, At, Goto, MovesOn, Moves
  <2>2. CASE dlc.state # "CLOSING"
    BY <1>13, <2>2 DEF HandleClosing, At, Goto, MovesOn, Moves
  <2> QED
    BY <2>1, <2>2
<1> QED
  BY <1>1, <1>2, <1>3, <1>4, <1>5, <1>6, <1>7, <1>8, <1>9, <1>10, <1>11, <1>12, <1>13
  DEF DownloadThread

\* What the server sends ends with the file.
LEMMA ServerFacts ==
    ASSUME ClientInv, dlc.state # "IDLE", ServerSends
    PROVE  \E close \in BOOLEAN, n \in Nat :
            /\ rx'.header = {[ok |-> dlc.progress + 1 <= FileLen[dlc.file],
                              size |-> FileLen[dlc.file], close |-> close]}
            /\ rx'.data = SubSeq(File(dlc.file), dlc.progress + 1, dlc.progress + n)
            /\ Len(rx'.data) = n
            /\ dlc.progress + n <= FileLen[dlc.file] \/ n = 0
<1>1. /\ dlc.file \in Uris /\ dlc.progress \in Nat /\ FragSize \in Nat \ {0}
      /\ RangeRequests \in BOOLEAN
  BY DownloadAssumption DEF ClientInv, DlTypes, DlFiles, Client
<1>2. PICK len \in Nat \ {0}, file \in Seq(Unit) :
            len = FileLen[dlc.file] /\ file = File(dlc.file) /\ Len(file) = len
  BY <1>1, FileFacts
<1>3. PICK last \in Int : 
            /\ last = IF RangeRequests THEN Min({dlc.progress + FragSize, len}) ELSE len
            /\ last <= len /\ (dlc.progress < len => last > dlc.progress)
            /\ dlc.progress >= len => last <= dlc.progress
  <2>1. dlc.progress + FragSize \in Int /\ len \in Int
    BY <1>1
  <2> QED
    BY <1>1, <2>1, MinOfTwo
<1>4. PICK close \in BOOLEAN :
            rx' = [header |-> {[ok |-> dlc.progress + 1 <= len, size |-> len, close |-> close]},
                   data |-> SubSeq(file, dlc.progress + 1, last)]
  BY <1>2, <1>3 DEF ServerSends
<1>5. PICK m \in Nat \ {0} : m = dlc.progress + 1
  BY <1>1
<1>6. PICK n \in Nat : n = IF m <= last THEN last - m + 1 ELSE 0
  <2>1. (IF m <= last THEN last - m + 1 ELSE 0) \in Nat
    BY <1>3, <1>5
  <2> QED
    BY <2>1, Zenon
<1>7. Len(SubSeq(file, m, last)) = n
  BY <1>2, <1>3, <1>5, <1>6, Part
<1>8. SubSeq(file, m, last) = SubSeq(file, m, dlc.progress + n)
  <2>1. CASE m <= last
    <3>1. dlc.progress + n = last
      BY <1>1, <1>3, <1>5, <1>6, <2>1, SMTT(60)
    <3> QED
      BY <3>1, Zenon
  <2>2. CASE ~(m <= last)
    <3>1. n = 0 /\ last < m /\ dlc.progress + n < m /\ dlc.progress + n \in Int
      BY <1>1, <1>3, <1>5, <1>6, <2>2
    <3>2. SubSeq(file, m, last) = <<>> /\ SubSeq(file, m, dlc.progress + n) = <<>>
      BY <1>2, <1>3, <3>1, SubSeqEmpty
    <3> QED
      BY <3>2
  <2> QED
    BY <2>1, <2>2
<1>9. dlc.progress + n <= len \/ n = 0
  BY <1>1, <1>3, <1>5, <1>6
<1> QED
  BY <1>2, <1>4, <1>5, <1>7, <1>8, <1>9

\* What recv() returns is collected, and handed over when it is a fragment.
LEMMA ReceiveFacts ==
    ASSUME ClientInv, NEW h \in Header, NEW n \in 0 .. Len(rx.data), Receive(h, n), At("recv")
    PROVE  \E c \in Seq(Unit), size \in Nat :
            /\ c = dlc.buf \o SubSeq(rx.data, 1, n) /\ Len(c) = Len(dlc.buf) + n
            /\ size = (IF dlc.file_size = 0 THEN h.size ELSE dlc.file_size)
            /\ dlc'.state = dlc.state /\ dlc'.file = dlc.file /\ dlc'.file_size = size
            /\ dlc'.progress = dlc.progress + n /\ dlc'.has_header
            /\ rx'.header = {} /\ rx'.data = SubSeq(rx.data, n + 1, Len(rx.data))
            /\ Len(rx'.data) = Len(rx.data) - n
            /\ thr'.ctx = thr.ctx /\ thr'.send_request = thr.send_request
            /\ \/ /\ thr'.pc = "fragment" /\ evt' = Fragment(c) /\ dlc'.buf = <<>>
                  /\ evt'.id = "FRAGMENT" /\ evt'.data = c
               \/ thr'.pc = "loop" /\ evt' = NoEvt /\ dlc'.buf = c /\ evt'.id = "NONE"
<1>1. /\ dlc \in Client /\ dlc.buf \in Seq(Unit) /\ rx.data \in Seq(Unit) /\ Len(rx.data) \in Nat
      /\ thr \in [pc : ThreadPcs, ctx : Contexts, send_request : BOOLEAN]
      /\ h.size \in Nat /\ dlc.file_size \in Nat /\ Len(dlc.buf) \in Nat
  BY DEF ClientInv, DlTypes, Client, Header
<1>2. PICK t \in Seq(Unit) : t = SubSeq(rx.data, 1, n) /\ Len(t) = n
  <2>1. SubSeq(rx.data, 1, n) \in Seq(Unit) /\ Len(SubSeq(rx.data, 1, n)) = n
    BY <1>1, Part
  <2> QED
    BY <2>1
<1>3. PICK m \in Nat \ {0}, l \in Nat : m = n + 1 /\ l = Len(rx.data)
  <2>1. n + 1 \in Nat \ {0}
    BY <1>1
  <2> QED
    BY <1>1, <2>1, Zenon
<1>4. Len(SubSeq(rx.data, n + 1, Len(rx.data))) = Len(rx.data) - n
  <2>1. Len(SubSeq(rx.data, m, l)) = IF m <= l THEN l - m + 1 ELSE 0
    BY <1>1, <1>3, Part
  <2> QED
    BY <1>1, <1>3, <2>1
<1>5. PICK c \in Seq(Unit) : c = dlc.buf \o t /\ Len(c) = Len(dlc.buf) + n
  <2>0. PICK b \in Seq(Unit) : b = dlc.buf
    BY <1>1
  <2>1. b \o t \in Seq(Unit) /\ Len(b \o t) = Len(b) + n
    BY <1>2, ConcatProperties
  <2> QED
    BY <2>0, <2>1, Zenon
<1>6. PICK size \in Nat : size = IF dlc.file_size = 0 THEN h.size ELSE dlc.file_size
  BY <1>1
<1>7. PICK r : r = Received(h, n)
  OBVIOUS
<1>8. /\ r.state = dlc.state /\ r.file = dlc.file /\ r.file_size = size /\ r.buf = c
      /\ r.progress = dlc.progress + n /\ r.has_header /\ r \in Client
  <2>1. PICK p \in Nat, b \in BOOLEAN :
            p = dlc.progress + n /\ b = (dlc.connection_close \/ h.close)
    BY <1>1, SMTT(60) DEF Client, Header
  <2>2. r = [dlc EXCEPT !.has_header = TRUE, !.file_size = size, !.connection_close = b,
                        !.buf = c, !.progress = p]
    BY <1>2, <1>5, <1>6, <1>7, <2>1 DEF Received
  <2> QED
    BY <1>1, <2>1, <2>2 DEF Client
<1>9. /\ rx'.header = {} /\ rx'.data = SubSeq(rx.data, n + 1, Len(rx.data))
      /\ \/ dlc' = [r EXCEPT !.buf = <<>>] /\ evt' = Fragment(c) /\ Goto("fragment")
         \/ dlc' = r /\ evt' = NoEvt /\ Goto("loop")
  BY <1>7, <1>8 DEF Receive
<1>10. CASE dlc' = [r EXCEPT !.buf = <<>>] /\ evt' = Fragment(c) /\ Goto("fragment")
  <2>1. /\ dlc'.state = dlc.state /\ dlc'.file = dlc.file /\ dlc'.file_size = size
        /\ dlc'.progress = dlc.progress + n /\ dlc'.has_header /\ dlc'.buf = <<>>
    BY <1>8, <1>10 DEF Client
  <2>2. /\ thr'.ctx = thr.ctx /\ thr'.send_request = thr.send_request /\ thr'.pc = "fragment"
    BY <1>1, <1>10 DEF Goto
  <2>3. evt'.id = "FRAGMENT" /\ evt'.data = c
    BY <1>10, EventFacts
  <2> QED
    BY <1>2, <1>4, <1>5, <1>6, <1>9, <1>10, <2>1, <2>2, <2>3
<1>11. CASE dlc' = r /\ evt' = NoEvt /\ Goto("loop")
  <2>1. /\ thr'.ctx = thr.ctx /\ thr'.send_request = thr.send_request /\ thr'.pc = "loop"
    BY <1>1, <1>11 DEF Goto
  <2>2. evt'.id = "NONE"
    BY <1>11, EventFacts
  <2> QED
    BY <1>2, <1>4, <1>5, <1>6, <1>8, <1>9, <1>11, <2>1, <2>2
<1> QED
  BY <1>9, <1>10, <1>11

\* What a step has to keep besides the control.
CountKept == Exact(dfu') /\ Sizes' /\ Emptied' /\ Counted'

\* A step of the download thread keeps the counters.
LEMMA ThreadCounts ==
    ASSUME CountInv, FlashKeepsAll, DownloadThread,
           UNCHANGED <<dfu, fotaVars, appVars, reports>>
    PROVE  CountKept
<1>c. ClientInv /\ ControlInv /\ ThreadControl
  BY DEF CountInv, ControlInv
<1>t. /\ dlc \in Client /\ thr \in [pc : ThreadPcs, ctx : Contexts, send_request : BOOLEAN]
      /\ NoEvt.id = "NONE" /\ rx.header \subseteq Header /\ rx.data \in Seq(Unit)
      /\ rx \in [header : SUBSET Header, data : Seq(Unit)]
  BY <1>c, EventFacts DEF ClientInv, DlTypes
<1>n. /\ Len(dlc.buf) \in Nat /\ Len(rx.data) \in Nat /\ dlc.progress \in Nat
      /\ dlc.file_size \in Nat /\ dlc.buf \in Seq(Unit) /\ SlotLen \in Nat
  BY <1>t, DfuAssumption DEF Client
<1>s. Sizes /\ Emptied /\ Counted
  BY DEF CountInv
<1>d. Exact(dfu') /\ Base' = Base
  BY DEF CountInv, fotaVars, Base
<1>f. \A u \in Uris : FileLen[u] \in Nat \ {0} /\ FileLen[u] <= SlotLen
  BY FileFacts DEF FlashKeepsAll
<1>l. Len(<<>>) = 0 /\ Base \in Nat
  <2>1. Stored(dfu) \in Seq(Unit)
    BY StoredFacts DEF CountInv, ControlInv, Kept, Within
  <2> QED
    BY <2>1 DEF Base
<1>e. NoErrorWhileClosing
  BY DEF FlashKeepsAll, NoErrorWhileClosing
<1>i. dlc.state # "IDLE" => dlc.file \in Uris
  BY <1>c DEF ClientInv, DlFiles
<1>1. CASE MovesOn
  <2>1. /\ evt.id = "NONE" /\ rx' = rx /\ ret' = ret
        /\ Len(dlc.buf)' = Len(dlc.buf) /\ dlc'.progress = dlc.progress
        /\ dlc'.file_size = dlc.file_size
    BY <1>1 DEF MovesOn
  <2>2. Moves(dlc.state, dlc'.state, thr.pc, thr'.pc, thr.ctx, thr'.ctx, thr.send_request,
              thr'.send_request, evt'.id, ret, dlc.progress = dlc.file_size)
    BY <1>1 DEF MovesOn
  <2>3. Handed = 0 /\ Handed' = 0
    BY <2>1, <2>2 DEF Handed, Moves
  <2>4. Counted'
    BY <1>c, <1>s, <1>d, <1>n, <2>1, <2>2, <2>3 DEF Moves, Counted, CountOK, Dying,
       ThreadControl, ThreadOK, IdlePcs
  <2>5. Emptied'
    BY <1>1, <1>c, <1>s, <1>n, <1>l, <2>1, <2>2 DEF Moves, MovesOn, Emptied, EmptyOK, Receiving,
       ThreadControl, ThreadOK, IdlePcs
  <2>6. Sizes'
    BY <1>1, <1>c, <1>s, <1>n, <2>1, <2>2 DEF Moves, MovesOn, Sizes, SizesOK, Receiving,
       ThreadControl, ThreadOK, IdlePcs
  <2> QED
    BY <1>d, <2>4, <2>5, <2>6 DEF CountKept
<1>2. CASE ConnectOk
  <2>1. /\ evt.id = "NONE" /\ evt' = evt /\ ret' = ret /\ thr.pc = "connect" /\ thr'.pc = "loop"
        /\ thr'.ctx = thr.ctx /\ thr'.send_request
        /\ dlc'.state = (IF thr.ctx = "start" THEN "DOWNLOADING" ELSE dlc.state)
        /\ dlc'.buf = dlc.buf /\ dlc'.progress = dlc.progress
        /\ dlc'.file_size = dlc.file_size
        /\ rx'.header = {} /\ rx'.data = <<>>
    BY <1>2, <1>t DEF ConnectOk, At, Client
  <2>2. Len(dlc.buf) = 0
    BY <1>s, <2>1 DEF Emptied, EmptyOK
  <2>3. Handed = 0 /\ Handed' = 0
    BY <2>1 DEF Handed
  <2>4. Counted'
    BY <1>c, <1>s, <1>d, <1>n, <2>1, <2>3 DEF Counted, CountOK, Dying,
       ThreadControl, ThreadOK, IdlePcs
  <2>5. Emptied' /\ Sizes'
    BY <1>n, <1>s, <1>l, <2>1, <2>2 DEF Emptied, EmptyOK, Sizes, SizesOK, Receiving
  <2> QED
    BY <1>d, <2>4, <2>5 DEF CountKept
<1>3. CASE SendRequest
  <2>1. /\ evt.id = "NONE" /\ evt' = evt /\ ret' = ret /\ thr.pc = "loop" /\ thr'.pc = "recv"
        /\ thr'.ctx = thr.ctx /\ ~thr'.send_request /\ thr.send_request
        /\ dlc'.state = dlc.state /\ dlc.state = "DOWNLOADING" /\ dlc'.file = dlc.file
        /\ dlc'.buf = <<>> /\ dlc'.progress = dlc.progress
        /\ dlc'.file_size = dlc.file_size
    BY <1>3, <1>t DEF SendRequest, At, Client
  <2>2. Len(dlc.buf) = 0 /\ Len(dlc.buf)' = 0
    BY <1>s, <1>l, <2>1 DEF Emptied, EmptyOK
  <2>3. Handed = 0 /\ Handed' = 0
    BY <2>1 DEF Handed
  <2>4. Counted'
    BY <1>s, <1>d, <1>n, <2>1, <2>2, <2>3 DEF Counted, CountOK, Dying
  <2>5. PICK close \in BOOLEAN, n \in Nat :
            /\ rx'.header = {[ok |-> dlc.progress + 1 <= FileLen[dlc.file],
                              size |-> FileLen[dlc.file], close |-> close]}
            /\ Len(rx'.data) = n
            /\ dlc.progress + n <= FileLen[dlc.file] \/ n = 0
    BY <1>c, <1>3, <2>1, ServerFacts DEF SendRequest
  <2>6. PICK len \in Nat : len = FileLen[dlc.file] /\ len <= SlotLen
    BY <1>f, <1>i, <2>1
  <2>7. \A h \in rx'.header : h.size = len /\ (h.ok => dlc.progress + n <= len)
    <3>1. \A h \in rx'.header : /\ h.size = FileLen[dlc.file]
                                /\ h.ok = (dlc.progress + 1 <= FileLen[dlc.file])
      BY <2>5
    <3>2. \A h \in rx'.header : h.ok => dlc.progress + 1 <= FileLen[dlc.file]
      BY <3>1, Zenon
    <3>3. dlc.progress + 1 <= FileLen[dlc.file] => dlc.progress + n <= FileLen[dlc.file]
      BY <1>n, <2>5, <2>6
    <3> QED
      BY <2>6, <3>1, <3>2, <3>3, Zenon
  <2>8. Sizes'
    BY <1>n, <1>s, <2>1, <2>2, <2>5, <2>6, <2>7 DEF Sizes, SizesOK
  <2>9. Emptied'
    BY <2>1, <2>2 DEF Emptied, EmptyOK
  <2> QED
    BY <1>d, <2>4, <2>8, <2>9 DEF CountKept
<1>4. ASSUME NEW h \in Header, NEW n \in 0 .. Len(rx.data), Receive(h, n), At("recv"),
             UNCHANGED ret, h.size <= SlotLen, n > 0 \/ \E g \in rx.header : g.ok
      PROVE  CountKept
  <2>1. PICK c \in Seq(Unit), size \in Nat :
            /\ c = dlc.buf \o SubSeq(rx.data, 1, n) /\ Len(c) = Len(dlc.buf) + n
            /\ size = (IF dlc.file_size = 0 THEN h.size ELSE dlc.file_size)
            /\ dlc'.state = dlc.state /\ dlc'.file = dlc.file /\ dlc'.file_size = size
            /\ dlc'.progress = dlc.progress + n /\ dlc'.has_header
            /\ rx'.header = {} /\ rx'.data = SubSeq(rx.data, n + 1, Len(rx.data))
            /\ Len(rx'.data) = Len(rx.data) - n
            /\ thr'.ctx = thr.ctx /\ thr'.send_request = thr.send_request
            /\ \/ /\ thr'.pc = "fragment" /\ evt' = Fragment(c) /\ dlc'.buf = <<>>
                  /\ evt'.id = "FRAGMENT" /\ evt'.data = c
               \/ thr'.pc = "loop" /\ evt' = NoEvt /\ dlc'.buf = c /\ evt'.id = "NONE"
    BY <1>4, <1>c, ReceiveFacts, Zenon
  <2>2. thr.pc = "recv" /\ evt.id = "NONE" /\ ret' = ret /\ dlc.state # "IDLE" /\ n \in Nat
    BY <1>4, <1>t, <1>c DEF At, ThreadControl, ThreadOK, IdlePcs
  <2>3. dlc.progress + Len(rx.data) <= FileLen[dlc.file]
    BY <1>4, <1>s, <1>n, <2>2 DEF Sizes, SizesOK, Receiving
  <2>4. PICK len \in Nat : len = FileLen[dlc.file] /\ len <= SlotLen
    BY <1>f, <1>i, <2>2
  <2>5. Handed = 0 /\ Handed' + Len(dlc.buf)' = Len(dlc.buf) + n
    <3>1. Handed = 0
      BY <2>2 DEF Handed
    <3>2. CASE thr'.pc = "fragment" /\ evt'.id = "FRAGMENT" /\ evt'.data = c /\ dlc'.buf = <<>>
      <4>1. Handed' = Len(c) /\ Len(dlc.buf)' = 0
        BY <1>l, <3>2 DEF Handed
      <4> QED
        BY <1>n, <2>1, <2>2, <3>1, <4>1
    <3>3. CASE thr'.pc = "loop" /\ dlc'.buf = c /\ evt'.id = "NONE"
      <4>1. Handed' = 0 /\ Len(dlc.buf)' = Len(c)
        BY <3>3 DEF Handed
      <4> QED
        BY <1>n, <2>1, <2>2, <3>1, <4>1
    <3> QED
      BY <2>1, <3>2, <3>3
  <2>6. dlc.progress = Base + Len(dlc.buf)
    BY <1>s, <1>n, <1>l, <2>2, <2>5 DEF Counted, CountOK, Dying
  <2>7. Handed' \in Nat /\ Len(dlc.buf)' \in Nat
    BY <1>l, <2>1 DEF Handed
  <2>8. Counted'
    <3>0. PICK x \in Nat, y \in Nat : x = Handed' /\ y = Len(dlc.buf)'
      BY <2>7, Zenon
    <3>1. (dlc.progress = Base + Len(dlc.buf) + Handed)'
      <4>1. x + y = Len(dlc.buf) + n /\ dlc'.progress = dlc.progress + n
        BY <2>1, <2>5, <3>0
      <4>2. dlc'.progress = Base + y + x
        BY <1>n, <1>l, <2>2, <2>6, <4>1, SMTT(60)
      <4> QED
        BY <1>d, <3>0, <4>2
    <3> QED
      BY <3>1 DEF Counted, CountOK
  <2>9. Sizes'
    BY <1>4, <1>s, <1>n, <2>1, <2>2, <2>3, <2>4, SMTT(60) DEF Sizes, SizesOK
  <2>10. Emptied'
    BY <1>c, <1>s, <1>l, <2>1, <2>2 DEF Emptied, EmptyOK, ThreadControl, ThreadOK, IdlePcs
  <2> QED
    BY <1>d, <2>8, <2>9, <2>10 DEF CountKept
<1>5. CASE RecvHeader
  <2>1. PICK h \in rx.header, n \in 0 .. Len(rx.data) : h.ok /\ Receive(h, n)
    BY <1>5 DEF RecvHeader
  <2>2. h \in Header /\ h.size <= SlotLen
    BY <1>t, <1>s, <2>1 DEF Sizes, SizesOK
  <2> QED
    BY <1>4, <1>5, <2>1, <2>2 DEF RecvHeader
<1>6. CASE RecvData
  <2>1. PICK n \in 1 .. Min({Len(rx.data), DlBufSize - Len(dlc.buf)}) :
            Receive([ok |-> TRUE, size |-> 0, close |-> FALSE], n)
    BY <1>6 DEF RecvData
  <2>2. DlBufSize - Len(dlc.buf) \in Int
    BY <1>n, DownloadAssumption
  <2>3. n \in 0 .. Len(rx.data) /\ n > 0
    <3>1. PICK x \in Int, y \in Int : x = Len(rx.data) /\ y = DlBufSize - Len(dlc.buf)
      <4>1. Len(rx.data) \in Int
        BY <1>n
      <4> QED
        BY <2>2, <4>1, Zenon
    <3>2. PICK m \in Int : m = Min({x, y}) /\ m = (IF x <= y THEN x ELSE y)
      BY MinOfTwo
    <3>3. n \in 1 .. m
      BY <2>1, <3>1, <3>2
    <3>4. n \in 0 .. x /\ n > 0
      BY <3>2, <3>3
    <3> QED
      BY <3>1, <3>4
  <2>4. PICK h \in Header : h = [ok |-> TRUE, size |-> 0, close |-> FALSE] /\ h.size <= SlotLen
    <3>1. /\ [ok |-> TRUE, size |-> 0, close |-> FALSE] \in Header
          /\ [ok |-> TRUE, size |-> 0, close |-> FALSE].size <= SlotLen
      BY <1>n DEF Header
    <3> QED
      BY <3>1, Zenon
  <2> QED
    BY <1>4, <1>6, <2>1, <2>3, <2>4 DEF RecvData
<1>7. CASE /\ RecvFails /\ thr'.pc = "partial" /\ evt' = Fragment(dlc.buf)
           /\ dlc' = [dlc EXCEPT !.buf = <<>>] /\ dlc.has_header /\ dlc.buf # <<>>
  <2>1. /\ evt.id = "NONE" /\ ret' = ret /\ thr.pc = "recv" /\ rx' = rx
        /\ dlc'.state = dlc.state /\ dlc'.file = dlc.file
        /\ dlc'.buf = <<>> /\ dlc'.progress = dlc.progress
        /\ dlc'.file_size = dlc.file_size
    BY <1>7, <1>t DEF RecvFails, At, Client
  <2>2. evt'.id = "FRAGMENT" /\ evt'.data = dlc.buf /\ thr'.pc = "partial"
    BY <1>7, <1>n, EventFacts
  <2>3. Handed = 0 /\ Handed' = Len(dlc.buf) /\ Len(dlc.buf)' = 0 /\ Len(dlc.buf) > 0
    <3>1. Len(dlc.buf) # 0
      BY <1>7, <1>n, EmptySeq
    <3> QED
      BY <1>l, <1>n, <2>1, <2>2, <3>1 DEF Handed
  <2>4. dlc.state # "IDLE"
    BY <1>c, <2>1 DEF ThreadControl, ThreadOK, IdlePcs
  <2>5. dlc.progress <= SlotLen
    <3>1. dlc.progress + Len(rx.data) <= FileLen[dlc.file]
      BY <1>s, <1>n, <2>1, <2>3 DEF Sizes, SizesOK, Receiving
    <3> QED
      BY <1>f, <1>i, <1>n, <2>4, <3>1
  <2>6. Counted'
    BY <1>s, <1>d, <1>n, <1>l, <2>1, <2>2, <2>3, <2>4 DEF Counted, CountOK, Dying
  <2>7. Emptied' /\ Sizes'
    BY <1>s, <1>n, <2>1, <2>2, <2>3, <2>5 DEF Emptied, EmptyOK, Sizes, SizesOK, Receiving
  <2> QED
    BY <1>d, <2>6, <2>7 DEF CountKept
<1> QED
  BY <1>1, <1>2, <1>3, <1>5, <1>6, <1>7, <1>e, ThreadEffects

\* The types that the counters need.
LEMMA CountTypes ==
    ASSUME CountInv
    PROVE  /\ ControlInv /\ ClientInv /\ ThreadControl /\ FlagsControl /\ Kept(dfu) /\ Within(dfu)
           /\ Sizes /\ Emptied /\ Counted /\ Exact(dfu)
           /\ dlc \in Client /\ sem \in 0 .. 1 /\ NoEvt.id = "NONE" /\ flags \in Flags
           /\ Len(dlc.buf) \in Nat /\ Len(rx.data) \in Nat /\ dlc.progress \in Nat
           /\ dlc.file_size \in Nat /\ SlotLen \in Nat
           /\ Stored(dfu) \in Seq(Unit) /\ Len(Stored(dfu)) \in Nat
<1>1. /\ ControlInv /\ ClientInv /\ ThreadControl /\ FlagsControl /\ Kept(dfu) /\ Within(dfu)
      /\ Sizes /\ Emptied /\ Counted /\ Exact(dfu)
  BY DEF CountInv, ControlInv, Kept
<1>2. /\ dlc \in Client /\ sem \in 0 .. 1 /\ NoEvt.id = "NONE" /\ flags \in Flags
      /\ rx.data \in Seq(Unit)
  BY <1>1, EventFacts DEF ClientInv, DlTypes, FotaTypes, Flags
<1>3. /\ Len(dlc.buf) \in Nat /\ Len(rx.data) \in Nat /\ dlc.progress \in Nat
      /\ dlc.file_size \in Nat /\ SlotLen \in Nat
  BY <1>2, DfuAssumption DEF Client
<1>4. Stored(dfu) \in Seq(Unit) /\ Len(Stored(dfu)) \in Nat
  BY <1>1, StoredFacts DEF Within
<1> QED
  BY <1>1, <1>2, <1>3, <1>4

\* disconnect() changes the state of the client and nothing else.
LEMMA ClosingClient ==
    ASSUME dlc \in Client, sem \in 0 .. 1, dlc.state # "IDLE", DoDisconnect
    PROVE  /\ dlc'.state = "CLOSING" /\ dlc'.buf = dlc.buf /\ dlc'.progress = dlc.progress
           /\ dlc'.file_size = dlc.file_size /\ dlc'.file = dlc.file
           /\ dlc'.has_header = dlc.has_header
<1>1. dlc' = [dlc EXCEPT !.state = "CLOSING"]
  BY DEF DoDisconnect, Disconnected, SetState
<1> QED
  BY <1>1 DEF Client

\* The label error_and_close keeps the counters.
LEMMA ErrorCounts ==
    ASSUME CountInv, evt.id \in {"FRAGMENT", "DONE", "ERROR"},
           NEW d, Within(d), Exact(d), evt.id = "ERROR" => Stored(d) = Stored(dfu),
           NEW f, GoesOnWith(f), ErrorAndClose(d, f), CallbackFrame, UNCHANGED rx
    PROVE  CountKept
<1> USE CountTypes
<1>1. dlc.state # "IDLE"
  BY DEF ThreadControl, ThreadOK
<1>2. /\ dlc'.state = "CLOSING" /\ dlc'.buf = dlc.buf /\ dlc'.progress = dlc.progress
      /\ dlc'.file_size = dlc.file_size /\ dlc'.file = dlc.file
      /\ dlc'.has_header = dlc.has_header
  BY <1>1, ClosingClient DEF ErrorAndClose
<1>3. Exact(dfu') /\ Stored(dfu') = Stored(d)
  BY AbortFacts DEF ErrorAndClose
<1>4. ~ret' /\ evt'.id = "NONE" /\ thr' = thr /\ rx' = rx
  BY DEF ErrorAndClose, Returns, CallbackFrame
<1>5. flags'["FIRST_FRAGMENT"] = f["FIRST_FRAGMENT"]
  BY DEF ErrorAndClose, GoesOnWith, Flags, FlagNames
<1>6. CASE evt.id \in {"FRAGMENT", "DONE"}
  <2>1. Counted'
    BY <1>2, <1>4, <1>6 DEF Counted, CountOK, Dying, ThreadControl, ThreadOK
  <2>2. Sizes' /\ Emptied'
    BY <1>2, <1>4, <1>6 DEF Sizes, SizesOK, Emptied, EmptyOK, Receiving, ThreadControl, ThreadOK
  <2> QED
    BY <1>3, <2>1, <2>2 DEF CountKept
<1>7. CASE evt.id = "ERROR"
  <2>1. Base' = Base
    BY <1>3, <1>5, <1>7 DEF Base, GoesOnWith
  <2>2. Handed = 0 /\ Handed' = 0
    BY <1>4, <1>7 DEF Handed
  <2>3. Counted'
    BY <1>1, <1>2, <1>4, <1>7, <2>1, <2>2 DEF Counted, CountOK, Dying
  <2>4. Sizes' /\ Emptied'
    BY <1>2, <1>4, <1>7 DEF Sizes, SizesOK, Emptied, EmptyOK, Receiving, ThreadControl, ThreadOK
  <2> QED
    BY <1>3, <2>3, <2>4 DEF CountKept
<1> QED
  BY <1>6, <1>7

\* A fragment is written; the slot has room for it.
LEMMA WriteCounts ==
    ASSUME CountInv, FlashKeepsAll, evt.id = "FRAGMENT",
           NEW d, Kept(d), Exact(d), d.target,
           dlc.progress = Len(Stored(d)) + Len(evt.data),
           NEW f, GoesOnWith(f), ~f["FIRST_FRAGMENT"], WriteFragment(d, f), CallbackFrame,
           UNCHANGED rx
    PROVE  /\ CountKept
           /\ dfu' = dfu_target_write(d, evt.data) /\ flags' = f /\ UNCHANGED dlc /\ ret'
<1> USE CountTypes
<1>1. evt.data \in Seq(Unit) /\ Within(d) /\ Len(evt.data) \in Nat
  BY EventIds DEF ClientInv, Kept
<1>2. /\ Stored(d) \in Seq(Unit) /\ Len(Stored(d)) = d.bytes_written + Len(d.buf)
      /\ Len(d.buf) \in Nat /\ d.bytes_written \in Nat /\ d.stream_buf_bytes = Len(d.buf)
  BY <1>1, StoredFacts DEF Within, Dfu, Exact
<1>3. dlc.progress <= SlotLen
  BY DEF Sizes, SizesOK
<1>4. ~NoRoom(d, evt.data)
  <2>1. d.bytes_written + Len(d.buf) + Len(evt.data) <= SlotLen
    BY <1>1, <1>2, <1>3
  <2>2. d.available = SlotLen
    BY DEF Exact
  <2>3. d.bytes_written + Len(d.buf) + Len(evt.data) \in Nat
    BY <1>1, <1>2
  <2> QED
    BY <2>1, <2>2, <2>3 DEF NoRoom
<1>5. /\ dfu' = dfu_target_write(d, evt.data) /\ flags' = f /\ ret' /\ UNCHANGED <<dlc, sem>>
  BY <1>4 DEF WriteFragment, FlashKeepsAll, Returns, NoDisconnect
<1>6. PICK e : e = dfu_target_write(d, evt.data)
  OBVIOUS
<1>7. /\ Kept(e) /\ Len(e.buf) = (Len(d.buf) + Len(evt.data)) % StreamBufLen
      /\ e.stream_buf_bytes = (d.stream_buf_bytes + Len(evt.data)) % StreamBufLen
      /\ Stored(e) = Stored(d) \o evt.data
      /\ e.target = d.target /\ e.available = d.available
  BY <1>1, <1>6, WriteFacts
<1>8. Exact(e)
  <2>1. PICK m \in Nat, k \in Nat, l \in Nat \ {0} :
            m = Len(d.buf) /\ k = Len(evt.data) /\ l = StreamBufLen
    BY <1>1, <1>2, DfuAssumption, Zenon
  <2>2. (Len(d.buf) + Len(evt.data)) % StreamBufLen < StreamBufLen
    <3>1. (m + k) % l < l
      OBVIOUS
    <3> QED
      BY <2>1, <3>1, Zenon
  <2> QED
    BY <1>2, <1>7, <2>2 DEF Exact
<1>9. Len(Stored(e)) = dlc.progress
  BY <1>1, <1>2, <1>7, ConcatProperties, SMTT(60)
<1>10. evt'.id = "NONE" /\ thr' = thr
  BY DEF CallbackFrame
<1>11. Handed' = 0 /\ Base' = dlc.progress /\ Len(dlc.buf)' = 0
  <2>1. Len(dlc.buf) = 0
    BY DEF Emptied, EmptyOK, ThreadControl, ThreadOK
  <2> QED
    BY <1>5, <1>6, <1>9, <1>10, <2>1 DEF Handed, Base
<1>12. Counted'
  BY <1>5, <1>11 DEF Counted, CountOK
<1>13. Sizes' /\ Emptied'
  BY <1>5, <1>10, <1>11 DEF Sizes, SizesOK, Emptied, EmptyOK, Receiving, ThreadControl, ThreadOK
<1> QED
  BY <1>5, <1>6, <1>8, <1>12, <1>13 DEF CountKept

\* The first fragment keeps the counters.
LEMMA FirstCounts ==
    ASSUME CountInv, FlashKeepsAll, evt.id = "FRAGMENT", flags["FIRST_FRAGMENT"], FirstFragment,
           CallbackFrame, UNCHANGED rx
    PROVE  CountKept
<1> USE CountTypes
<1>1. dlc.state # "IDLE" /\ Len(dlc.buf) = 0 /\ evt.data \in Seq(Unit) /\ Len(evt.data) \in Nat
  <2>1. evt.data \in Seq(Unit)
    BY EventIds DEF ClientInv
  <2> QED
    BY <2>1 DEF Emptied, EmptyOK, ThreadControl, ThreadOK
<1>2. dlc.progress = Len(evt.data)
  <2>1. Base = 0 /\ Handed = Len(evt.data)
    BY DEF Base, Handed
  <2> QED
    BY <1>1, <2>1 DEF Counted, CountOK, Dying
<1>3. PICK f, g : f = With({}, {"FIRST_FRAGMENT"}) /\ g = With({}, {"FIRST_FRAGMENT", "RESUME"})
  OBVIOUS
<1>4. GoesOnWith(f) /\ GoesOnWith(g) /\ ~f["FIRST_FRAGMENT"] /\ ~g["FIRST_FRAGMENT"]
  <2>1. f \in Flags /\ g \in Flags
    BY <1>3, FlagFacts
  <2>2. /\ f["DOWNLOADING"] = flags["DOWNLOADING"] /\ f["CLOSED"] = flags["CLOSED"]
        /\ f["RESUME"] = flags["RESUME"] /\ ~f["FIRST_FRAGMENT"]
    BY <1>3 DEF With, Flags, FlagNames
  <2>3. /\ g["DOWNLOADING"] = flags["DOWNLOADING"] /\ g["CLOSED"] = flags["CLOSED"]
        /\ ~g["RESUME"] /\ ~g["FIRST_FRAGMENT"]
    BY <1>3 DEF With, Flags, FlagNames
  <2> QED
    BY <2>1, <2>2, <2>3 DEF GoesOnWith
<1>5. PICK size \in Nat : size = dlc.file_size /\ size <= SlotLen
  BY DEF Sizes, SizesOK
<1>6. ~InitFails(dfu, size)
  BY <1>5 DEF InitFails, Exact
<1>7. PICK d : d = dfu_target_init(dfu, size)
  OBVIOUS
<1>8. Kept(d) /\ Within(d) /\ Exact(d) /\ d.target
  BY <1>6, <1>7, InitFacts
<1>9. PICK r : r = dfu_target_reset(d)
  OBVIOUS
<1>10. Kept(r) /\ Within(r) /\ Exact(r) /\ ~r.target /\ ~r.id /\ r.slot = <<>>
  BY <1>8, <1>9, ResetFacts DEF Kept
<1>11. ~InitFails(r, size)
  BY <1>5, <1>10 DEF InitFails
<1>12. PICK again : again = dfu_target_init(r, size)
  OBVIOUS
<1>13. Kept(again) /\ Within(again) /\ Exact(again) /\ again.target /\ again.buf = <<>>
       /\ again.slot = <<>>
  BY <1>10, <1>11, <1>12, InitFacts
<1>14. Len(Stored(again)) = 0
  <2>1. again \in Dfu(Unit) /\ again.bytes_written <= Len(again.slot) /\ Len(<<>>) = 0
    BY <1>13 DEF Within
  <2>2. Len(Stored(again)) = again.bytes_written + Len(again.buf) /\ again.bytes_written \in Nat
    BY <2>1, StoredFacts DEF Dfu
  <2> QED
    BY <1>13, <2>1, <2>2
<1>15. dfu_target_offset_get(d) = 0 => Len(Stored(d)) = 0
  <2>1. Len(Stored(d)) = d.bytes_written + Len(d.buf)
    BY <1>8, StoredFacts DEF Within
  <2> QED
    BY <1>8, <2>1 DEF dfu_target_offset_get, Exact
<1>16. \/ ErrorAndClose(dfu, f)
       \/ dfu_target_offset_get(d) = 0 /\ WriteFragment(d, g)
       \/ WriteFragment(again, g)
       \/ dfu' = d /\ DoDisconnect /\ Returns(FALSE)
  BY <1>3, <1>5, <1>6, <1>7, <1>9, <1>11, <1>12 DEF FirstFragment, FlashKeepsAll
<1>17. CASE ErrorAndClose(dfu, f)
  BY <1>4, <1>17, ErrorCounts
<1>18. CASE dfu_target_offset_get(d) = 0 /\ WriteFragment(d, g)
  <2>1. dlc.progress = Len(Stored(d)) + Len(evt.data)
    BY <1>1, <1>2, <1>15, <1>18
  <2> QED
    BY <1>4, <1>8, <1>18, <2>1, WriteCounts
<1>19. CASE WriteFragment(again, g)
  <2>1. dlc.progress = Len(Stored(again)) + Len(evt.data)
    BY <1>1, <1>2, <1>14
  <2> QED
    BY <1>4, <1>13, <1>19, <2>1, WriteCounts
<1>20. CASE dfu' = d /\ DoDisconnect /\ Returns(FALSE)
  <2>1. /\ dlc'.state = "CLOSING" /\ dlc'.buf = dlc.buf /\ dlc'.progress = dlc.progress
        /\ dlc'.file_size = dlc.file_size /\ dlc'.file = dlc.file
        /\ dlc'.has_header = dlc.has_header
    BY <1>1, <1>20, ClosingClient
  <2>2. ~ret' /\ evt'.id = "NONE" /\ thr' = thr /\ rx' = rx
    BY <1>20 DEF Returns, CallbackFrame
  <2>3. Counted'
    BY <2>1, <2>2 DEF Counted, CountOK, Dying, ThreadControl, ThreadOK
  <2>4. Sizes' /\ Emptied'
    BY <2>1, <2>2 DEF Sizes, SizesOK, Emptied, EmptyOK, Receiving, ThreadControl, ThreadOK
  <2> QED
    BY <1>8, <1>20, <2>3, <2>4 DEF CountKept
<1> QED
  BY <1>16, <1>17, <1>18, <1>19, <1>20

\* Every callback keeps the counters.
LEMMA CallbackCounts ==
    ASSUME CountInv, FlashKeepsAll, DownloadCallback
    PROVE  CountKept
<1> USE CountTypes
<1>1. GoesOnWith(flags)
  BY DEF GoesOnWith
<1>2. CASE OnFragment
  <2>1. evt.id = "FRAGMENT" /\ CallbackFrame /\ rx' = rx
    BY <1>2 DEF OnFragment, Handles, CallbackFrame, appVars, callVars
  <2>2. CASE flags["FIRST_FRAGMENT"]
    BY <1>2, <2>1, <2>2, FirstCounts DEF OnFragment
  <2>3. CASE ~flags["FIRST_FRAGMENT"]
    <3>1. dfu.target /\ Len(dlc.buf) = 0 /\ dlc.state # "IDLE"
      BY <2>1, <2>3 DEF FlagsControl, FlagsOK, Dying, ThreadControl, ThreadOK, Emptied, EmptyOK
    <3>2. Len(evt.data) \in Nat
      BY <2>1, EventIds DEF ClientInv
    <3>3. Base = Len(Stored(dfu)) /\ Handed = Len(evt.data)
      BY <2>1, <2>3 DEF Base, Handed
    <3>4. dlc.progress = Len(Stored(dfu)) + Len(evt.data)
      BY <2>1, <3>1, <3>2, <3>3 DEF Counted, CountOK, Dying
    <3>5. WriteFragment(dfu, flags)
      BY <1>2, <2>3 DEF OnFragment
    <3> QED
      BY <1>1, <2>1, <2>3, <3>1, <3>4, <3>5, WriteCounts
  <2> QED
    BY <2>2, <2>3
<1>3. CASE OnDone
  <2>1. evt.id = "DONE" /\ CallbackFrame /\ rx' = rx
    BY <1>3 DEF OnDone, Handles, CallbackFrame, appVars, callVars
  <2>2. \/ dfu.target /\ DoneAndScheduled(DoneOk(dfu))
        \/ ErrorAndClose(dfu, flags)
    BY <1>3 DEF OnDone, FlashKeepsAll
  <2>3. CASE dfu.target /\ DoneAndScheduled(DoneOk(dfu))
    <3>1. PICK d : d = DoneOk(dfu)
      OBVIOUS
    <3>2. Kept(d) /\ Exact(d)
      BY <2>3, <3>1, DoneFacts
    <3>3. Exact(dfu')
      BY <2>3, <3>1, <3>2, FlushScheduleFacts DEF DoneAndScheduled
    <3>4. dlc.state # "IDLE" /\ thr.pc = "end"
      BY <2>1 DEF ThreadControl, ThreadOK
    <3>5. /\ dlc'.state = "CLOSING" /\ dlc'.buf = dlc.buf /\ dlc'.progress = dlc.progress
          /\ dlc'.file_size = dlc.file_size /\ dlc'.file = dlc.file
          /\ dlc'.has_header = dlc.has_header
      BY <2>3, <3>4, ClosingClient DEF DoneAndScheduled
    <3>6. evt'.id = "NONE" /\ thr' = thr
      BY <2>1 DEF CallbackFrame
    <3>7. Counted'
      BY <3>4, <3>5, <3>6 DEF Counted, CountOK, Dying
    <3>8. Sizes' /\ Emptied'
      BY <2>1, <3>4, <3>5, <3>6 DEF Sizes, SizesOK, Emptied, EmptyOK, Receiving
    <3> QED
      BY <3>3, <3>7, <3>8 DEF CountKept
  <2>4. CASE ErrorAndClose(dfu, flags)
    BY <1>1, <2>1, <2>4, ErrorCounts
  <2> QED
    BY <2>2, <2>3, <2>4
<1>4. CASE OnError
  <2>1. evt.id = "ERROR" /\ CallbackFrame /\ rx' = rx
    BY <1>4 DEF OnError, Handles, CallbackFrame, appVars, callVars
  <2>2. CASE ErrorAndClose(dfu, flags)
    BY <1>1, <2>1, <2>2, ErrorCounts
  <2>3. CASE NoDisconnect /\ UNCHANGED <<dfu, flags>>
    <3>1. evt'.id = "NONE" /\ thr' = thr /\ dlc' = dlc
      BY <2>1, <2>3 DEF CallbackFrame, NoDisconnect
    <3>2. Handed = 0 /\ Handed' = 0 /\ Base' = Base
      BY <2>1, <2>3, <3>1 DEF Handed, Base
    <3>3. Counted'
      BY <2>1, <3>1, <3>2 DEF Counted, CountOK, Dying
    <3>4. Sizes' /\ Emptied' /\ Exact(dfu')
      BY <2>1, <2>3, <3>1 DEF Sizes, SizesOK, Emptied
    <3> QED
      BY <3>3, <3>4 DEF CountKept
  <2> QED
    BY <1>4, <2>2, <2>3 DEF OnError
<1>5. CASE ClosedCallback
  <2>1. /\ UNCHANGED <<dlc, thr, dfu, rx>>
        /\ evt.id = "CLOSED" /\ evt'.id # "FRAGMENT"
    BY <1>5, ClosedEffects DEF FlagsControl, FlagsOK
  <2>2. dlc.state = "IDLE"
    BY <2>1 DEF ThreadControl, ThreadOK
  <2>3. Counted'
    BY <2>1, <2>2 DEF Counted, CountOK
  <2>4. Sizes' /\ Emptied' /\ Exact(dfu')
    BY <2>1 DEF Sizes, SizesOK, Emptied
  <2> QED
    BY <2>3, <2>4 DEF CountKept
<1> QED
  BY <1>2, <1>3, <1>4, <1>5 DEF DownloadCallback

\* The application, the work item and a reset keep the counters.
LEMMA OthersCounts ==
    ASSUME CountInv, FlashKeepsAll,
           WorkItem \/ fota_download \/ fota_download_cancel \/ Application \/ Reboot,
           ~overtaken'
    PROVE  CountKept
<1> USE CountTypes
<1>e. Len(<<>>) = 0
  OBVIOUS
<1>1. CASE fota_download
  <2>1. /\ UNCHANGED <<dlc, thr, evt, ret, rx, dfu>> /\ ~flags["DOWNLOADING"]
    BY <1>1 DEF fota_download, dlVars
  <2>2. dlc.state = "IDLE"
    BY <2>1 DEF FlagsControl, FlagsOK
  <2>3. Counted' /\ Sizes' /\ Emptied' /\ Exact(dfu')
    BY <2>1, <2>2 DEF Counted, CountOK, Sizes, SizesOK, Emptied
  <2> QED
    BY <2>3 DEF CountKept
<1>2. CASE fota_download_cancel
  <2>1. UNCHANGED <<dlc, thr, evt, ret, rx, dfu>> /\ flags' = With({"CANCEL"}, {})
    BY <1>2 DEF fota_download_cancel, dlVars
  <2>2. flags'["FIRST_FRAGMENT"] = flags["FIRST_FRAGMENT"]
    BY <2>1 DEF With, Flags, FlagNames
  <2>3. Handed' = Handed /\ Base' = Base
    BY <2>1, <2>2 DEF Handed, Base
  <2>4. Counted' /\ Sizes' /\ Emptied' /\ Exact(dfu')
    BY <2>1, <2>3 DEF Counted, Sizes, Emptied
  <2> QED
    BY <2>4 DEF CountKept
<1>g. ASSUME NEW from \in Nat, NEW u, dlc.state = "IDLE", evt.id = "NONE", dlc' = Got(u, from),
             UNCHANGED <<thr, evt, ret, rx, dfu>>, Base' = from
      PROVE  CountKept
  <2>1. /\ dlc'.state = "CONNECTING" /\ dlc'.buf = <<>> /\ dlc'.progress = from
        /\ dlc'.file_size = 0
    BY <1>g DEF Got, Client
  <2>2. thr.pc \in IdlePcs
    BY <1>g DEF ThreadControl, ThreadOK
  <2>3. Handed' = 0
    BY <1>g DEF Handed
  <2>4. Counted'
    BY <1>g, <1>e, <2>1, <2>3 DEF Counted, CountOK
  <2>5. Sizes' /\ Emptied'
    BY <1>g, <1>e, <2>1, <2>2 DEF Sizes, SizesOK, Emptied, EmptyOK, Receiving, IdlePcs
  <2> QED
    BY <1>g, <2>4, <2>5 DEF CountKept
<1>d. ASSUME DoDisconnect, UNCHANGED <<thr, evt, ret, rx, dfu>>,
             dlc.state # "IDLE" => Base' = Base
      PROVE  CountKept
  <2>1. CASE dlc.state = "IDLE"
    <3>1. dlc' = dlc
      BY <1>d, <2>1 DEF DoDisconnect, Disconnected, SetState
    <3> QED
      BY <1>d, <2>1, <3>1 DEF CountKept, Counted, CountOK, Sizes, SizesOK, Emptied
  <2>2. CASE dlc.state # "IDLE"
    <3>1. /\ dlc'.state = "CLOSING" /\ dlc'.buf = dlc.buf /\ dlc'.progress = dlc.progress
          /\ dlc'.file_size = dlc.file_size /\ dlc'.file = dlc.file
          /\ dlc'.has_header = dlc.has_header
      BY <1>d, <2>2, ClosingClient
    <3>2. Handed' = Handed
      BY <1>d DEF Handed
    <3>3. Counted'
      BY <1>d, <2>2, <3>1, <3>2 DEF Counted, CountOK, Dying, ThreadControl, ThreadOK
    <3>4. Sizes' /\ Emptied'
      BY <1>d, <3>1 DEF Sizes, SizesOK, Emptied, EmptyOK, Receiving
    <3> QED
      BY <1>d, <3>3, <3>4 DEF CountKept
  <2> QED
    BY <2>1, <2>2
<1>3. CASE StartDownload
  <2>1. /\ flags["FIRST_FRAGMENT"] /\ dlc.state = "IDLE" /\ evt.id = "NONE" /\ flags["DOWNLOADING"]
    BY <1>3 DEF StartDownload, Locked, FlagsControl, FlagsOK
  <2>2. dlc' = Got(uri, 0) /\ UNCHANGED <<thr, evt, ret, rx, dfu, flags>>
    BY <1>3, <2>1 DEF StartDownload, Gets
  <2>3. Base' = 0
    BY <2>1, <2>2 DEF Base
  <2> QED
    BY <1>g, <2>1, <2>2, <2>3
<1>4. CASE CancelDisconnects
  <2>1. DoDisconnect /\ UNCHANGED <<thr, evt, ret, rx, dfu, flags>>
    BY <1>4 DEF CancelDisconnects, fotaVars
  <2> QED
    BY <1>d, <2>1 DEF Base
<1>5. CASE CancelTarget
  <2>1. dfu' = DoneAborted(dfu) /\ UNCHANGED <<dlc, thr, evt, ret, rx, flags>>
    BY <1>5 DEF CancelTarget, dlVars, fotaVars
  <2>2. Exact(dfu') /\ Stored(dfu') = Stored(dfu)
    BY <2>1, AbortFacts
  <2>3. Base' = Base /\ Handed' = Handed
    BY <2>1, <2>2 DEF Base, Handed
  <2> QED
    BY <2>1, <2>2, <2>3 DEF CountKept, Counted, Sizes, Emptied
<1>6. CASE CancelReturns
  <2>1. UNCHANGED <<dlc, thr, evt, ret, rx, flags, dfu>>
    BY <1>6 DEF CancelReturns, dlVars, fotaVars
  <2>2. Base' = Base /\ Handed' = Handed
    BY <2>1 DEF Base, Handed
  <2> QED
    BY <2>1, <2>2 DEF CountKept, Counted, Sizes, Emptied
<1>7. CASE Reboot
  <2>1. /\ dlc'.state = "IDLE" /\ dlc'.buf = <<>> /\ dlc'.file_size = 0 /\ thr'.pc = "wait"
        /\ evt' = NoEvt /\ rx'.header = {} /\ rx'.data = <<>>
    BY <1>7 DEF Reboot
  <2>2. Exact(dfu')
    BY <1>7, CutOffFacts DEF Reboot
  <2>3. Counted' /\ Sizes' /\ Emptied'
    BY <1>e, <2>1 DEF Counted, CountOK, Sizes, SizesOK, Emptied, EmptyOK, Receiving
  <2> QED
    BY <2>2, <2>3 DEF CountKept
<1>8. CASE download_with_offset
  <2>1. work /\ flags["CLOSED"] /\ closing # "closed" /\ UNCHANGED <<dlc, thr, evt, ret, rx, dfu>>
    BY <1>8 DEF download_with_offset, dlVars
  <2>2. dlc.state = "IDLE" /\ evt.id = "NONE"
    BY <2>1 DEF FlagsControl, FlagsOK
  <2>3. Counted' /\ Sizes' /\ Emptied' /\ Exact(dfu')
    BY <2>1, <2>2 DEF Counted, CountOK, Sizes, SizesOK, Emptied
  <2> QED
    BY <2>3 DEF CountKept
<1>9. CASE get_from_offset
  <2>1. /\ dlc.state = "IDLE" /\ evt.id = "NONE" /\ ~flags["FIRST_FRAGMENT"] /\ item.gets
    BY <1>9 DEF get_from_offset, FlagsControl, FlagsOK
  <2>2. /\ dlc' = Got(item.uri, item.from) /\ UNCHANGED <<thr, evt, ret, rx, dfu, flags>>
    BY <1>9, <2>1 DEF get_from_offset, Gets
  <2>3. item.from = Len(Stored(dfu)) /\ item.from \in Nat
    BY <2>1 DEF CountInv, Resumes
  <2>4. Base' = item.from
    BY <2>1, <2>2, <2>3 DEF Base
  <2> QED
    BY <1>g, <2>1, <2>2, <2>3, <2>4
<1> QED
  BY <1>1, <1>2, <1>3, <1>4, <1>5, <1>6, <1>7, <1>8, <1>9 DEF Application, WorkItem

\* Every step keeps where the work item goes on.
LEMMA ResumesNext ==
    ASSUME CountInv, FotaNext
    PROVE  Resumes'
<1> USE CountTypes
<1>r. Resumes
  BY DEF CountInv
<1>1. CASE DownloadStep
  <2>1. UNCHANGED <<dfu, item>>
    BY <1>1 DEF DownloadStep, fotaVars, callVars
  <2> QED
    BY <1>r, <2>1 DEF Resumes
<1>2. CASE OnFragment \/ OnDone \/ OnError
  <2>1. evt.id \in {"FRAGMENT", "DONE", "ERROR"} /\ item' = item
    BY <1>2 DEF OnFragment, OnDone, OnError, Handles, callVars
  <2>2. ~item.gets
    BY <2>1 DEF FlagsControl, FlagsOK
  <2> QED
    BY <2>1, <2>2 DEF Resumes
<1>3. CASE ClosedCallback
  <2>1. UNCHANGED <<dfu, item>>
    BY <1>3, ClosedEffects
  <2> QED
    BY <1>r, <2>1 DEF Resumes
<1>4. CASE download_with_offset
  <2>1. dfu_target_offset_get(dfu) = Len(Stored(dfu)) \/ ~dfu.target
    BY StoredFacts DEF dfu_target_offset_get, Exact, Within
  <2>2. dfu' = dfu
    BY <1>4 DEF download_with_offset
  <2>3. CASE dfu.target
    <3>1. item'.from = Len(Stored(dfu))
      BY <1>4, <2>1, <2>3 DEF download_with_offset
    <3> QED
      BY <2>2, <3>1 DEF Resumes
  <2>4. CASE ~dfu.target
    <3>1. item' = item
      BY <1>4, <2>4 DEF download_with_offset
    <3> QED
      BY <1>r, <2>2, <3>1 DEF Resumes
  <2> QED
    BY <2>3, <2>4
<1>5. CASE get_from_offset \/ Reboot
  BY <1>5 DEF get_from_offset, Reboot, NoItem, Resumes
<1>6. CASE \/ fota_download \/ fota_download_cancel \/ StartDownload
           \/ CancelDisconnects \/ CancelReturns
  <2>1. UNCHANGED <<dfu, item>>
    BY <1>6 DEF fota_download, fota_download_cancel, StartDownload, CancelDisconnects,
       CancelReturns, fotaVars, callVars
  <2> QED
    BY <1>r, <2>1 DEF Resumes
<1>7. CASE CancelTarget
  <2>1. dfu' = DoneAborted(dfu) /\ item' = item
    BY <1>7 DEF CancelTarget, fotaVars, callVars
  <2>2. Stored(dfu') = Stored(dfu)
    BY <2>1, AbortFacts
  <2> QED
    BY <1>r, <2>1, <2>2 DEF Resumes
<1> QED
  BY <1>1, <1>2, <1>3, <1>4, <1>5, <1>6, <1>7
  DEF FotaNext, DownloadCallback, WorkItem, Application

\* The counters hold at the start.
LEMMA CountInit == FotaInit => CountInv
<1> SUFFICES ASSUME FotaInit PROVE CountInv
  OBVIOUS
<1>1. ControlInv
  BY ControlInit
<1>2. /\ dlc.state = "IDLE" /\ dlc.buf = <<>> /\ dlc.file_size = 0 /\ thr.pc = "wait"
      /\ evt.id = "NONE" /\ rx.header = {} /\ rx.data = <<>> /\ Len(<<>>) = 0
      /\ dfu.target = FALSE /\ dfu.buf = <<>> /\ dfu.bytes_written = 0 /\ dfu.id = FALSE
      /\ dfu.stream_buf_bytes = 0
  BY DEF FotaInit, DlInit, NoEvt, DfuStart
<1>3. Exact(dfu)
  BY <1>2, DfuAssumption DEF Exact
<1>4. Counted /\ Sizes /\ Emptied
  BY <1>2, DfuAssumption DEF Counted, CountOK, Sizes, SizesOK, Emptied, EmptyOK, Receiving
<1>5. Resumes
  BY DEF FotaInit, NoItem, Resumes
<1> QED
  BY <1>1, <1>3, <1>4, <1>5 DEF CountInv

\* Every step keeps the invariant of the counters.
LEMMA CountNext ==
    ASSUME CountInv, FlashKeepsAll, [FotaNext]_vars, ~overtaken'
    PROVE  CountInv'
<1>1. ControlInv'
  BY ControlNext DEF CountInv, FlashKeepsAll, NoErrorWhileClosing
<1>2. CASE FotaNext
  <2>1. CountKept
    BY <1>2, ThreadCounts, CallbackCounts, OthersCounts DEF FotaNext, DownloadStep
  <2> QED
    BY <1>1, <1>2, <2>1, ResumesNext DEF CountKept, CountInv
<1>3. CASE UNCHANGED vars
  <2>1. UNCHANGED <<dlc, thr, evt, ret, rx, dfu, flags, item>>
    BY <1>3 DEF vars, dlVars, fotaVars, callVars
  <2>2. Base' = Base /\ Handed' = Handed
    BY <2>1 DEF Base, Handed
  <2> QED
    BY <1>1, <2>1, <2>2 DEF CountInv, Counted, Sizes, Emptied, Resumes
<1> QED
  BY <1>2, <1>3

\* The invariant of the counters is one of the specification, until the work
\* item overtakes the callback.
LEMMA CountInvariant == FlashKeepsAll => (FotaSpec => [](overtaken \/ CountInv))
<1> SUFFICES ASSUME FlashKeepsAll PROVE FotaSpec => [](overtaken \/ CountInv)
  OBVIOUS
<1>1. (overtaken \/ CountInv) /\ [FotaNext]_vars => (overtaken \/ CountInv)'
  BY CountNext, OvertakenStays
<1> QED
  BY <1>1, CountInit, PTL DEF FotaSpec

\* The offset from which a download is resumed is where the data of the target
\* end, and the variables have their types (OffsetIsEnd), for all files that
\* fit the slot, sizes of the buffers and numbers of network failures, resets
\* and cancelled downloads, as long as no write to the flash fails and the work
\* item has not overtaken the callback.
THEOREM FotaOffsetIsEnd == FlashKeepsAll => (FotaSpec => [](overtaken \/ OffsetIsEnd))
<1>1. CountInv => OffsetIsEnd
  <2> SUFFICES ASSUME CountInv PROVE OffsetIsEnd
    OBVIOUS
  <2> USE CountTypes
  <2>1. FotaTypeOK
    BY DEF FotaTypeOK, DlTypeOK, ClientInv, DlTypes, FotaTypes, Within
  <2>2. dfu_target_offset_get(dfu) = Len(Stored(dfu))
    BY StoredFacts DEF dfu_target_offset_get, Exact, Within
  <2> QED
    BY <2>1, <2>2 DEF OffsetIsEnd
<1> QED
  BY <1>1, CountInvariant, PTL

-----------------------------------------------------------------------------
(* Contents: one image, and FOTA as an implementation of FotaImage.        *)

TheImage == File(TheFile)
ImageLen == FileLen[TheFile]

\* There is one file, which takes more than a fragment, and FlashKeepsAll.
OneImage == FlashKeepsAll /\ Uris = {TheFile} /\ DlBufSize < ImageLen

\* The units of s are those of the image that come after the first a.
PartAt(s, a) ==
    /\ s \in Seq(Unit) /\ a \in Nat /\ a + Len(s) <= ImageLen
    /\ \A i \in 1 .. Len(s) : s[i] = TheImage[a + i]

\* The image is a sequence of units.
LEMMA ImageFacts ==
    ASSUME OneImage
    PROVE  /\ TheFile \in Uris /\ \A u \in Uris : u = TheFile
           /\ ImageLen \in Nat \ {0} /\ TheImage \in Seq(Unit) /\ Len(TheImage) = ImageLen
           /\ PartAt(TheImage, 0) /\ DlBufSize \in Nat /\ DlBufSize < ImageLen
<1>1. TheFile \in Uris /\ \A u \in Uris : u = TheFile
  BY DEF OneImage
<1>2. ImageLen \in Nat \ {0} /\ TheImage \in Seq(Unit) /\ Len(TheImage) = ImageLen
  BY <1>1, FileFacts DEF ImageLen, TheImage
<1>3. PartAt(TheImage, 0)
  BY <1>2 DEF PartAt
<1> QED
  BY <1>1, <1>2, <1>3, DownloadAssumption DEF OneImage

\* The beginning and the end of a part, and nothing.
LEMMA PartOfPart ==
    ASSUME NEW s, NEW a, PartAt(s, a), NEW n \in 0 .. Len(s), ImageLen \in Nat
    PROVE  /\ PartAt(SubSeq(s, 1, n), a) /\ Len(SubSeq(s, 1, n)) = n
           /\ PartAt(SubSeq(s, n + 1, Len(s)), a + n)
           /\ Len(SubSeq(s, n + 1, Len(s))) = Len(s) - n
<1>1. s \in Seq(Unit) /\ a \in Nat /\ a + Len(s) <= ImageLen /\ Len(s) \in Nat /\ n \in Nat
  BY DEF PartAt
<1>2. PICK m \in Nat \ {0}, l \in Nat : m = n + 1 /\ l = Len(s)
  <2>1. n + 1 \in Nat \ {0}
    BY <1>1
  <2> QED
    BY <1>1, <2>1, Zenon
<1>3. PICK p \in Seq(Unit) : /\ p = SubSeq(s, 1, n) /\ Len(p) = n
                             /\ \A i \in 1 .. n : p[i] = s[i]
  <2>1. /\ SubSeq(s, 1, n) \in Seq(Unit) /\ Len(SubSeq(s, 1, n)) = n
        /\ \A i \in 1 .. n - 1 + 1 : SubSeq(s, 1, n)[i] = s[1 + i - 1]
    BY <1>1, Part
  <2>2. \A i \in 1 .. n : i \in 1 .. n - 1 + 1 /\ 1 + i - 1 = i
    BY <1>1
  <2> QED
    BY <2>1, <2>2, Zenon
<1>4. PICK q \in Seq(Unit) : /\ q = SubSeq(s, m, l) /\ Len(q) = Len(s) - n
                             /\ \A i \in 1 .. Len(s) - n : q[i] = s[n + i]
  <2>1. /\ SubSeq(s, m, l) \in Seq(Unit)
        /\ Len(SubSeq(s, m, l)) = IF m <= l THEN l - m + 1 ELSE 0
        /\ \A i \in 1 .. l - m + 1 : SubSeq(s, m, l)[i] = s[m + i - 1]
    BY <1>1, <1>2, Part
  <2>2. PICK q \in Seq(Unit) : q = SubSeq(s, m, l)
    BY <2>1
  <2>3. Len(q) = Len(s) - n
    BY <1>1, <1>2, <2>1, <2>2
  <2>4. \A i \in 1 .. Len(s) - n : q[i] = s[n + i]
    <3> SUFFICES ASSUME NEW i \in 1 .. Len(s) - n PROVE q[i] = s[n + i]
      OBVIOUS
    <3>1. i \in 1 .. l - m + 1 /\ m + i - 1 = n + i
      BY <1>1, <1>2
    <3> QED
      BY <2>1, <2>2, <3>1
  <2> QED
    BY <2>2, <2>3, <2>4
<1>5. PartAt(p, a)
  BY <1>1, <1>3 DEF PartAt
<1>6. PartAt(q, a + n)
  <2>1. \A i \in 1 .. Len(q) : q[i] = TheImage[(a + n) + i]
    <3> SUFFICES ASSUME NEW i \in 1 .. Len(q) PROVE q[i] = TheImage[(a + n) + i]
      OBVIOUS
    <3>1. n + i \in 1 .. Len(s) /\ a + (n + i) = (a + n) + i
      BY <1>1, <1>4
    <3>2. s[n + i] = TheImage[a + (n + i)]
      BY <3>1 DEF PartAt
    <3> QED
      BY <1>4, <3>1, <3>2
  <2>2. a + n \in Nat /\ (a + n) + Len(q) <= ImageLen
    BY <1>1, <1>4
  <2> QED
    BY <2>1, <2>2 DEF PartAt
<1> QED
  BY <1>2, <1>3, <1>4, <1>5, <1>6

\* Nothing is a part, anywhere.
LEMMA NoPart ==
    ASSUME NEW a \in Nat, ImageLen \in Nat, a <= ImageLen
    PROVE  PartAt(<<>>, a)
<1>1. <<>> \in Seq(Unit) /\ Len(<<>>) = 0
  OBVIOUS
<1> QED
  BY <1>1 DEF PartAt

\* Parts that follow each other.
LEMMA PartsJoin ==
    ASSUME NEW s, NEW t, NEW a, NEW b, PartAt(s, a), PartAt(t, b), b = a + Len(s)
    PROVE  PartAt(s \o t, a) /\ Len(s \o t) = Len(s) + Len(t)
<1>1. /\ s \in Seq(Unit) /\ t \in Seq(Unit) /\ a \in Nat /\ Len(s) \in Nat /\ Len(t) \in Nat
      /\ b + Len(t) <= ImageLen
  BY DEF PartAt
<1>2. /\ s \o t \in Seq(Unit) /\ Len(s \o t) = Len(s) + Len(t)
      /\ \A i \in 1 .. Len(s) + Len(t) : (s \o t)[i] = IF i <= Len(s) THEN s[i] ELSE t[i - Len(s)]
  BY <1>1, ConcatProperties
<1>3. ASSUME NEW i \in 1 .. Len(s) + Len(t)
      PROVE  (s \o t)[i] = TheImage[a + i]
  <2>1. CASE i <= Len(s)
    <3>1. i \in 1 .. Len(s)
      BY <1>1, <2>1
    <3>2. s[i] = TheImage[a + i]
      BY <3>1 DEF PartAt
    <3> QED
      BY <1>2, <2>1, <3>2
  <2>2. CASE ~(i <= Len(s))
    <3>1. PICK j \in 1 .. Len(t) : j = i - Len(s) /\ b + j = a + i
      <4>1. i - Len(s) \in 1 .. Len(t) /\ b + (i - Len(s)) = a + i
        BY <1>1, <2>2
      <4> QED
        BY <4>1, Zenon
    <3>2. t[j] = TheImage[b + j]
      BY DEF PartAt
    <3> QED
      BY <1>2, <2>2, <3>1, <3>2
  <2> QED
    BY <2>1, <2>2
<1>4. a + Len(s \o t) <= ImageLen
  BY <1>1, <1>2
<1> QED
  BY <1>1, <1>2, <1>3, <1>4 DEF PartAt

\* A part is known by where it begins and how long it is.
LEMMA PartIs ==
    ASSUME NEW s, NEW a, PartAt(s, a), NEW t, PartAt(t, a), Len(s) = Len(t)
    PROVE  s = t
<1>1. s \in Seq(Unit) /\ t \in Seq(Unit)
  BY DEF PartAt
<1>2. \A i \in 1 .. Len(s) : s[i] = t[i]
  BY DEF PartAt
<1> QED
  BY <1>1, <1>2, SeqEqual

\* A range of the image.
LEMMA ImagePart ==
    ASSUME OneImage, NEW p \in Nat, NEW n \in Nat, p + n <= ImageLen
    PROVE  PartAt(SubSeq(TheImage, p + 1, p + n), p)
<1>1. /\ ImageLen \in Nat /\ TheImage \in Seq(Unit) /\ Len(TheImage) = ImageLen
  BY ImageFacts
<1>2. PICK m \in Nat \ {0}, q \in Nat : m = p + 1 /\ q = p + n /\ q <= ImageLen
  <2>1. p + 1 \in Nat \ {0} /\ p + n \in Nat
    OBVIOUS
  <2> QED
    BY <2>1, Zenon
<1>3. PICK s : s = SubSeq(TheImage, m, q)
  OBVIOUS
<1>4. /\ s \in Seq(Unit) /\ Len(s) = (IF m <= q THEN q - m + 1 ELSE 0)
      /\ \A i \in 1 .. q - m + 1 : s[i] = TheImage[m + i - 1]
  BY <1>1, <1>2, <1>3, Part
<1>5. Len(s) = n
  BY <1>2, <1>4
<1>6. ASSUME NEW i \in 1 .. n PROVE s[i] = TheImage[p + i]
  <2>1. i \in 1 .. q - m + 1 /\ m + i - 1 = p + i
    BY <1>2
  <2> QED
    BY <1>4, <2>1
<1>7. PartAt(s, p)
  BY <1>4, <1>5, <1>6 DEF PartAt
<1> QED
  BY <1>2, <1>3, <1>7

\* The thread is on its way to close the connection, and the end of the file
\* will not be reported.
Lost(st, pc, ctx, id, rt, whole) ==
    Dying(st, pc, ctx, id, rt) /\ id = "NONE" /\ (pc = "fragment" => ~whole)
FollowOK(st, pc, ctx, id, rt, whole, prog, b, handed, base) ==
    st # "IDLE" /\ ~Lost(st, pc, ctx, id, rt, whole) => prog = base + b + handed

\* What is received is the image from the progress on.
ToComeOK(receiving, pc, header, data, prog, size, b) ==
    /\ receiving => /\ PartAt(data, prog)
                    /\ header = {} => size = ImageLen
                    /\ header # {} => b = 0
    /\ pc = "fragment" => header = {}

\* The first fragment, and the end.
FirstOK(st, pc, id, first, prog, b) ==
    /\ st # "IDLE" /\ pc = "fragment" /\ id = "NONE" => ~first
    /\ id = "DONE" => ~first /\ prog = ImageLen /\ b = 0

\* The whole image is in the flash.
Whole(d) == d.target /\ d.buf = <<>> /\ SubSeq(d.slot, 1, d.bytes_written) = TheImage

\* A scheduled image is whole, and nothing will reset the target.
MarkOK(d, dl, first, new, u) ==
    d.scheduled => Whole(d) /\ (dl /\ first => ~new) /\ u = TheFile

\* The flash and the target hold the beginning of the image.
Holds(d) == PartAt(d.slot, 0) /\ PartAt(Stored(d), 0)

Collected ==
    /\ dlc.progress <= ImageLen
    /\ PartAt(dlc.buf, dlc.progress - Len(dlc.buf)) /\ Len(dlc.buf) <= DlBufSize
    /\ dlc.file_size \in {0, ImageLen} /\ \A h \in rx.header : h.size = ImageLen
HandedOver ==
    evt.id = "FRAGMENT" =>
        PartAt(evt.data, dlc.progress - Len(evt.data)) /\ Len(evt.data) <= DlBufSize
ToCome ==
    ToComeOK(Receiving(dlc.state, thr.pc, thr.send_request), thr.pc, rx.header, rx.data,
             dlc.progress, dlc.file_size, Len(dlc.buf))
Firsts ==
    FirstOK(dlc.state, thr.pc, evt.id, flags["FIRST_FRAGMENT"], dlc.progress, Len(dlc.buf))
Followed ==
    FollowOK(dlc.state, thr.pc, thr.ctx, evt.id, ret, dlc.progress = dlc.file_size,
             dlc.progress, Len(dlc.buf), Handed, Base)
Marked ==
    MarkOK(dfu, flags["DOWNLOADING"], flags["FIRST_FRAGMENT"], flags["NEW_URI"], uri)

\* The inductive invariant of the contents, and what a step has to keep of it.
DataInv == Collected /\ HandedOver /\ ToCome /\ Firsts /\ Followed
ImageInv == CountInv /\ Holds(dfu) /\ Marked /\ DataInv

\* A step of the download thread keeps the contents.
LEMMA ThreadImage ==
    ASSUME ImageInv, OneImage, DownloadThread, UNCHANGED <<dfu, fotaVars, appVars, reports>>
    PROVE  DataInv'
<1>c. CountInv /\ Collected /\ HandedOver /\ ToCome /\ Firsts /\ Followed
  BY DEF ImageInv, DataInv
<1>n. /\ ClientInv /\ ThreadControl /\ Emptied
      /\ dlc \in Client /\ NoEvt.id = "NONE"
      /\ Len(dlc.buf) \in Nat /\ Len(rx.data) \in Nat /\ dlc.progress \in Nat
      /\ dlc.file_size \in Nat /\ Len(Stored(dfu)) \in Nat
      /\ TheFile \in Uris /\ (\A u \in Uris : u = TheFile)
      /\ ImageLen \in Nat /\ ImageLen # 0 /\ DlBufSize \in Nat
  BY <1>c, CountTypes, ImageFacts
<1> USE <1>n
<1>t. /\ thr \in [pc : ThreadPcs, ctx : Contexts, send_request : BOOLEAN]
      /\ rx.header \subseteq Header /\ rx.data \in Seq(Unit)
      /\ rx \in [header : SUBSET Header, data : Seq(Unit)]
      /\ dlc.buf \in Seq(Unit)
  BY <1>c DEF ClientInv, DlTypes, Client
<1>d. Base' = Base /\ flags' = flags /\ Base \in Nat
  BY <1>c DEF fotaVars, Base
<1>l. Len(<<>>) = 0
  OBVIOUS
<1>e. NoErrorWhileClosing
  BY DEF OneImage, FlashKeepsAll, NoErrorWhileClosing
<1>i. dlc.state # "IDLE" => dlc.file = TheFile
  BY <1>c DEF ClientInv, DlFiles
<1>1. CASE MovesOn
  <2>1. /\ evt.id = "NONE" /\ rx' = rx /\ ret' = ret
        /\ dlc'.buf = dlc.buf /\ dlc'.progress = dlc.progress
        /\ dlc'.file_size = dlc.file_size
    BY <1>1 DEF MovesOn
  <2>2. Moves(dlc.state, dlc'.state, thr.pc, thr'.pc, thr.ctx, thr'.ctx, thr.send_request,
              thr'.send_request, evt'.id, ret, dlc.progress = dlc.file_size)
    BY <1>1 DEF MovesOn
  <2>3. Handed = 0 /\ Handed' = 0 /\ evt'.id # "FRAGMENT"
    BY <2>1, <2>2 DEF Handed, Moves
  <2>4. PICK whole \in BOOLEAN : whole <=> dlc.progress = dlc.file_size
    <3>1. CASE dlc.progress = dlc.file_size
      BY <3>1
    <3>2. CASE dlc.progress # dlc.file_size
      BY <3>2
    <3> QED
      BY <3>1, <3>2
  <2>5. Followed'
    BY <1>c, <1>d, <2>1, <2>2, <2>3, <2>4 DEF Moves, Followed, FollowOK, Lost, Dying,
       ThreadControl, ThreadOK, IdlePcs
  <2>6. Collected' /\ HandedOver'
    BY <1>c, <2>1, <2>3 DEF Collected, HandedOver
  <2>7. ToCome'
    <3>1. /\ Receiving(dlc.state, thr.pc, thr.send_request)'
                => Receiving(dlc.state, thr.pc, thr.send_request)
          /\ thr'.pc # "fragment"
      BY <2>2 DEF Moves, Receiving, ThreadControl, ThreadOK
    <3> QED
      BY <1>c, <2>1, <3>1 DEF ToCome, ToComeOK
  <2>8. Firsts'
    <3>1. thr'.pc # "fragment"
      BY <2>2 DEF Moves
    <3>2. CASE evt'.id = "DONE"
      <4>1. thr.pc = "fragment" /\ dlc.progress = dlc.file_size
        BY <2>2, <3>2 DEF Moves
      <4>2. dlc.state # "IDLE" /\ Len(dlc.buf) = 0
        BY <1>c, <4>1 DEF ThreadControl, ThreadOK, IdlePcs, Emptied, EmptyOK
      <4>3. dlc.file_size = ImageLen /\ ~flags["FIRST_FRAGMENT"]
        BY <1>c, <2>1, <4>1, <4>2 DEF ToCome, ToComeOK, Receiving, Firsts, FirstOK
      <4> QED
        BY <1>d, <2>1, <3>1, <4>1, <4>2, <4>3 DEF Firsts, FirstOK
    <3>3. CASE evt'.id # "DONE"
      BY <3>1, <3>3 DEF Firsts, FirstOK
    <3> QED
      BY <3>2, <3>3
  <2> QED
    BY <2>5, <2>6, <2>7, <2>8 DEF DataInv
<1>2. CASE ConnectOk
  <2>1. /\ evt.id = "NONE" /\ evt' = evt /\ ret' = ret /\ thr.pc = "connect" /\ thr'.pc = "loop"
        /\ thr'.ctx = thr.ctx /\ thr'.send_request
        /\ dlc'.state = (IF thr.ctx = "start" THEN "DOWNLOADING" ELSE dlc.state)
        /\ dlc'.buf = dlc.buf /\ dlc'.progress = dlc.progress
        /\ dlc'.file_size = dlc.file_size
        /\ rx'.header = {} /\ rx'.data = <<>>
    BY <1>2, <1>c, <1>t DEF ConnectOk, At, Client
  <2>2. Handed = 0 /\ Handed' = 0
    BY <2>1 DEF Handed
  <2>3. Followed'
    BY <1>c, <1>d, <2>1, <2>2 DEF Followed, FollowOK, Lost, Dying, ThreadControl, ThreadOK, IdlePcs
  <2>4. Collected' /\ HandedOver' /\ ToCome' /\ Firsts'
    BY <1>c, <2>1 DEF Collected, HandedOver, ToCome, ToComeOK, Firsts, FirstOK, Receiving
  <2> QED
    BY <2>3, <2>4 DEF DataInv
<1>3. CASE SendRequest
  <2>1. /\ evt.id = "NONE" /\ evt' = evt /\ ret' = ret /\ thr.pc = "loop" /\ thr'.pc = "recv"
        /\ thr'.ctx = thr.ctx /\ ~thr'.send_request /\ thr.send_request
        /\ dlc'.state = dlc.state /\ dlc.state = "DOWNLOADING" /\ dlc'.file = dlc.file
        /\ dlc'.buf = <<>> /\ dlc'.progress = dlc.progress
        /\ dlc'.file_size = dlc.file_size
    BY <1>3, <1>c, <1>t DEF SendRequest, At, Client
  <2>2. Len(dlc.buf) = 0 /\ Len(dlc.buf)' = 0
    BY <1>c, <1>l, <2>1 DEF Emptied, EmptyOK
  <2>3. Handed = 0 /\ Handed' = 0
    BY <2>1 DEF Handed
  <2>4. Followed'
    BY <1>c, <1>d, <2>1, <2>2, <2>3 DEF Followed, FollowOK, Lost, Dying
  <2>5. PICK close \in BOOLEAN, n \in Nat :
            /\ rx'.header = {[ok |-> dlc.progress + 1 <= FileLen[dlc.file],
                              size |-> FileLen[dlc.file], close |-> close]}
            /\ rx'.data = SubSeq(File(dlc.file), dlc.progress + 1, dlc.progress + n)
            /\ Len(rx'.data) = n
            /\ dlc.progress + n <= FileLen[dlc.file] \/ n = 0
    BY <1>c, <1>3, <2>1, ServerFacts DEF SendRequest
  <2>6. /\ rx'.data = SubSeq(TheImage, dlc.progress + 1, dlc.progress + n)
        /\ dlc.progress + n <= ImageLen
        /\ rx'.header # {} /\ \A h \in rx'.header : h.size = ImageLen
    <3>1. dlc.file = TheFile /\ FileLen[dlc.file] = ImageLen /\ File(dlc.file) = TheImage
      BY <1>i, <2>1 DEF TheImage, ImageLen
    <3>2. dlc.progress + n <= ImageLen
      BY <1>c, <2>5, <3>1 DEF Collected
    <3>3. rx'.header # {} /\ \A h \in rx'.header : h.size = ImageLen
      BY <2>5, <3>1
    <3> QED
      BY <2>5, <3>1, <3>2, <3>3, Zenon
  <2>7. PartAt(rx'.data, dlc.progress)
    BY <2>6, ImagePart
  <2>8. PartAt(<<>>, dlc.progress)
    BY <1>c, NoPart DEF Collected
  <2>9. Collected' /\ HandedOver' /\ ToCome' /\ Firsts'
    BY <1>c, <1>l, <2>1, <2>2, <2>6, <2>7, <2>8
    DEF Collected, HandedOver, ToCome, ToComeOK, Firsts, FirstOK, Receiving
  <2> QED
    BY <2>4, <2>9 DEF DataInv
<1>4. ASSUME NEW h \in Header, NEW n \in 0 .. Len(rx.data), Receive(h, n), At("recv"),
             UNCHANGED ret, rx.header # {} => h.size = ImageLen, Len(dlc.buf) + n <= DlBufSize
      PROVE  DataInv'
  <2>1. PICK c \in Seq(Unit), size \in Nat :
            /\ c = dlc.buf \o SubSeq(rx.data, 1, n) /\ Len(c) = Len(dlc.buf) + n
            /\ size = (IF dlc.file_size = 0 THEN h.size ELSE dlc.file_size)
            /\ dlc'.state = dlc.state /\ dlc'.file = dlc.file /\ dlc'.file_size = size
            /\ dlc'.progress = dlc.progress + n /\ dlc'.has_header
            /\ rx'.header = {} /\ rx'.data = SubSeq(rx.data, n + 1, Len(rx.data))
            /\ Len(rx'.data) = Len(rx.data) - n
            /\ thr'.ctx = thr.ctx /\ thr'.send_request = thr.send_request
            /\ \/ /\ thr'.pc = "fragment" /\ evt' = Fragment(c) /\ dlc'.buf = <<>>
                  /\ evt'.id = "FRAGMENT" /\ evt'.data = c
               \/ thr'.pc = "loop" /\ evt' = NoEvt /\ dlc'.buf = c /\ evt'.id = "NONE"
    BY <1>4, <1>c, ReceiveFacts, Zenon
  <2>2. thr.pc = "recv" /\ evt.id = "NONE" /\ ret' = ret /\ dlc.state # "IDLE" /\ n \in Nat
    BY <1>4, <1>c, <1>t DEF At, ThreadControl, ThreadOK, IdlePcs
  <2>3. PartAt(rx.data, dlc.progress)
    BY <1>c, <2>2 DEF ToCome, ToComeOK, Receiving
  <2>4. /\ PartAt(SubSeq(rx.data, 1, n), dlc.progress) /\ Len(SubSeq(rx.data, 1, n)) = n
        /\ PartAt(rx'.data, dlc.progress + n)
    <3>1. /\ PartAt(SubSeq(rx.data, 1, n), dlc.progress) /\ Len(SubSeq(rx.data, 1, n)) = n
          /\ PartAt(SubSeq(rx.data, n + 1, Len(rx.data)), dlc.progress + n)
      BY <2>3, PartOfPart
    <3> QED
      BY <2>1, <3>1, Zenon
  <2>5. PICK a \in Nat : a = dlc.progress - Len(dlc.buf) /\ PartAt(dlc.buf, a)
    BY <1>c DEF Collected, PartAt
  <2>6. PartAt(c, a) /\ dlc.progress = a + Len(dlc.buf)
    <3>1. dlc.progress = a + Len(dlc.buf)
      BY <1>c, <2>5
    <3> QED
      BY <2>1, <2>4, <2>5, <3>1, PartsJoin
  <2>7. dlc'.progress - Len(c) = a
    <3>1. PICK x \in Nat : x = Len(dlc.buf)
      OBVIOUS
    <3>2. dlc'.progress = (a + x) + n /\ Len(c) = x + n
      BY <2>1, <2>6, <3>1
    <3> QED
      BY <2>2, <3>2
  <2>8. size = ImageLen
    BY <1>4, <1>c, <2>1, <2>2 DEF Collected, ToCome, ToComeOK, Receiving
  <2>9. dlc'.progress <= ImageLen /\ dlc'.progress \in Nat /\ PartAt(<<>>, dlc'.progress)
    <3>1. dlc'.progress <= ImageLen /\ dlc'.progress \in Nat
      BY <1>c, <2>1, <2>2, <2>4 DEF PartAt
    <3> QED
      BY <3>1, NoPart
  <2>10. Handed = 0 /\ dlc.progress = Base + Len(dlc.buf)
    <3>1. Handed = 0
      BY <2>2 DEF Handed
    <3> QED
      BY <1>c, <1>d, <2>2, <3>1 DEF Followed, FollowOK, Lost, Dying
  <2>11. dlc'.progress = Base + Len(c)
    <3>1. PICK x \in Nat : x = Len(dlc.buf)
      OBVIOUS
    <3>2. dlc'.progress = (Base + x) + n /\ Len(c) = x + n
      BY <2>1, <2>10, <3>1
    <3> QED
      BY <1>d, <2>2, <3>2
  <2>12. CASE thr'.pc = "fragment" /\ evt'.id = "FRAGMENT" /\ evt'.data = c /\ dlc'.buf = <<>>
    <3>1. Handed' = Len(c) /\ Len(dlc.buf)' = 0
      BY <1>l, <2>12 DEF Handed
    <3>2. (dlc.progress = Base + Len(dlc.buf) + Handed)'
      <4>1. Base + 0 + Len(c) = Base + Len(c)
        BY <1>d, <2>1
      <4> QED
        BY <1>d, <2>11, <3>1, <4>1
    <3>3. Followed'
      BY <3>2 DEF Followed, FollowOK
    <3>4. Collected'
      <4>1. PartAt(dlc'.buf, dlc'.progress - Len(dlc'.buf))
        <5>1. dlc'.progress - 0 = dlc'.progress
          BY <2>9
        <5> QED
          BY <1>l, <2>9, <2>12, <5>1
      <4> QED
        BY <1>c, <1>l, <2>1, <2>8, <2>9, <2>12, <4>1 DEF Collected
    <3>5. HandedOver'
      BY <1>4, <2>1, <2>6, <2>7, <2>12 DEF HandedOver
    <3>6. ToCome'
      BY <2>1, <2>4, <2>8, <2>12 DEF ToCome, ToComeOK
    <3>7. Firsts'
      BY <2>12 DEF Firsts, FirstOK
    <3> QED
      BY <3>3, <3>4, <3>5, <3>6, <3>7 DEF DataInv
  <2>13. CASE thr'.pc = "loop" /\ dlc'.buf = c /\ evt'.id = "NONE"
    <3>1. Handed' = 0
      BY <2>13 DEF Handed
    <3>0. (dlc.progress = Base + Len(dlc.buf) + Handed)'
      <4>1. Base + Len(c) + 0 = Base + Len(c)
        BY <1>d, <2>1
      <4> QED
        BY <1>d, <2>11, <2>13, <3>1, <4>1
    <3>2. Followed'
      BY <3>0 DEF Followed, FollowOK
    <3>3. Collected' /\ HandedOver' /\ ToCome' /\ Firsts'
      BY <1>4, <1>l, <2>1, <2>4, <2>6, <2>7, <2>8, <2>9, <2>13
      DEF Collected, HandedOver, ToCome, ToComeOK, Firsts, FirstOK
    <3> QED
      BY <3>2, <3>3 DEF DataInv
  <2> QED
    BY <2>1, <2>12, <2>13
<1>5. CASE RecvHeader
  <2>1. PICK h \in rx.header, n \in 0 .. Len(rx.data) : n <= DlBufSize /\ Receive(h, n)
    BY <1>5 DEF RecvHeader
  <2>2. h \in Header /\ h.size = ImageLen
    BY <1>t, <1>c, <2>1 DEF Collected
  <2>3. Len(dlc.buf) = 0
    BY <1>5, <1>c, <2>1 DEF RecvHeader, At, ToCome, ToComeOK, Receiving
  <2>4. Len(dlc.buf) + n <= DlBufSize
    BY <2>1, <2>3
  <2> QED
    BY <1>4, <1>5, <2>1, <2>2, <2>4 DEF RecvHeader
<1>6. CASE RecvData
  <2>1. PICK n \in 1 .. Min({Len(rx.data), DlBufSize - Len(dlc.buf)}) :
            Receive([ok |-> TRUE, size |-> 0, close |-> FALSE], n)
    BY <1>6 DEF RecvData
  <2>2. DlBufSize - Len(dlc.buf) \in Int
    BY <1>c
  <2>3. n \in 0 .. Len(rx.data) /\ n <= DlBufSize - Len(dlc.buf)
    <3>1. PICK x \in Int, y \in Int : x = Len(rx.data) /\ y = DlBufSize - Len(dlc.buf)
      <4>1. Len(rx.data) \in Int
        OBVIOUS
      <4> QED
        BY <2>2, <4>1, Zenon
    <3>2. PICK m \in Int : m = Min({x, y}) /\ m = (IF x <= y THEN x ELSE y)
      BY MinOfTwo
    <3>3. n \in 1 .. m
      BY <2>1, <3>1, <3>2
    <3>4. n \in 0 .. x /\ n <= y
      BY <3>2, <3>3
    <3> QED
      BY <3>1, <3>4
  <2>4. Len(dlc.buf) + n <= DlBufSize
    BY <1>c, <2>3
  <2>5. PICK h \in Header : h = [ok |-> TRUE, size |-> 0, close |-> FALSE]
    <3>1. [ok |-> TRUE, size |-> 0, close |-> FALSE] \in Header
      BY DEF Header
    <3> QED
      BY <3>1, Zenon
  <2> QED
    BY <1>4, <1>6, <2>1, <2>3, <2>4, <2>5 DEF RecvData
<1>7. CASE /\ RecvFails /\ thr'.pc = "partial" /\ evt' = Fragment(dlc.buf)
           /\ dlc' = [dlc EXCEPT !.buf = <<>>] /\ dlc.has_header /\ dlc.buf # <<>>
  <2>1. /\ evt.id = "NONE" /\ ret' = ret /\ thr.pc = "recv" /\ rx' = rx
        /\ dlc'.state = dlc.state /\ dlc'.file = dlc.file
        /\ dlc'.buf = <<>> /\ dlc'.progress = dlc.progress
        /\ dlc'.file_size = dlc.file_size
    BY <1>7, <1>c, <1>t DEF RecvFails, At, Client
  <2>2. evt'.id = "FRAGMENT" /\ evt'.data = dlc.buf /\ thr'.pc = "partial"
    BY <1>7, <1>t, EventFacts
  <2>3. Handed = 0 /\ Handed' = Len(dlc.buf) /\ Len(dlc.buf)' = 0
    BY <1>l, <2>1, <2>2 DEF Handed
  <2>4. dlc.state # "IDLE"
    BY <1>c, <2>1 DEF ThreadControl, ThreadOK, IdlePcs
  <2>5. Followed'
    BY <1>c, <1>d, <2>1, <2>2, <2>3, <2>4 DEF Followed, FollowOK, Lost, Dying
  <2>6. PartAt(<<>>, dlc.progress)
    BY <1>c, NoPart DEF Collected
  <2>7. Collected' /\ HandedOver' /\ ToCome' /\ Firsts'
    BY <1>c, <1>l, <2>1, <2>2, <2>3, <2>6
    DEF Collected, HandedOver, ToCome, ToComeOK, Firsts, FirstOK, Receiving
  <2> QED
    BY <2>5, <2>7 DEF DataInv
<1> QED
  BY <1>1, <1>2, <1>3, <1>5, <1>6, <1>7, <1>c, <1>e, ThreadEffects

\* A target with nothing in its buffer holds what the flash holds.
LEMMA SlotPart ==
    ASSUME OneImage, NEW d, Within(d), PartAt(d.slot, 0), d.buf = <<>>
    PROVE  /\ PartAt(Stored(d), 0) /\ Stored(d) = SubSeq(d.slot, 1, d.bytes_written)
           /\ Len(Stored(d)) = d.bytes_written
<1>1. d.bytes_written \in 0 .. Len(d.slot) /\ d.slot \in Seq(Unit) /\ ImageLen \in Nat
  BY ImageFacts DEF Within, Dfu
<1>2. PICK s : s = SubSeq(d.slot, 1, d.bytes_written)
  OBVIOUS
<1>3. PartAt(s, 0) /\ Len(s) = d.bytes_written
  BY <1>1, <1>2, PartOfPart
<1>4. s \in Seq(Unit)
  BY <1>3 DEF PartAt
<1>5. s \o <<>> = s
  BY <1>4
<1>6. Stored(d) = s
  BY <1>2, <1>5 DEF Stored
<1> QED
  BY <1>2, <1>3, <1>6

\* What is written is a beginning of what is held.
LEMMA StoredSlot ==
    ASSUME OneImage, NEW d \in Dfu(Unit), PartAt(Stored(d), 0), Len(d.slot) = d.bytes_written
    PROVE  PartAt(d.slot, 0)
<1>1. d.slot \in Seq(Unit) /\ d.buf \in Seq(Unit) /\ Len(d.slot) \in Nat
  BY DEF Dfu
<1>2. SubSeq(d.slot, 1, Len(d.slot)) = d.slot
  <2>1. PICK s \in Seq(Unit), n \in Nat : s = d.slot /\ n = Len(s)
    BY <1>1
  <2>2. SubSeq(s, 1, Len(s)) = s
    OBVIOUS
  <2> QED
    BY <2>1, <2>2
<1>3. Stored(d) = d.slot \o d.buf
  BY <1>2 DEF Stored
<1>4. /\ Len(Stored(d)) = Len(d.slot) + Len(d.buf) /\ Len(d.buf) \in Nat
      /\ \A i \in 1 .. Len(d.slot) : Stored(d)[i] = d.slot[i]
  <2>1. /\ Len(d.slot \o d.buf) = Len(d.slot) + Len(d.buf) /\ Len(d.buf) \in Nat
        /\ \A i \in 1 .. Len(d.slot) + Len(d.buf) :
                (d.slot \o d.buf)[i] = IF i <= Len(d.slot) THEN d.slot[i] ELSE d.buf[i - Len(d.slot)]
    <3>1. PICK s \in Seq(Unit), t \in Seq(Unit) : s = d.slot /\ t = d.buf
      BY <1>1
    <3>2. /\ Len(s \o t) = Len(s) + Len(t) /\ Len(t) \in Nat
          /\ \A i \in 1 .. Len(s) + Len(t) :
                (s \o t)[i] = IF i <= Len(s) THEN s[i] ELSE t[i - Len(s)]
      BY ConcatProperties
    <3> QED
      BY <3>1, <3>2
  <2>2. \A i \in 1 .. Len(d.slot) : i \in 1 .. Len(d.slot) + Len(d.buf) /\ i <= Len(d.slot)
    BY <1>1, <2>1
  <2> QED
    BY <1>3, <2>1, <2>2, Zenon
<1>5. \A i \in 1 .. Len(d.slot) : i \in 1 .. Len(Stored(d))
  BY <1>1, <1>4
<1>6. \A i \in 1 .. Len(d.slot) : d.slot[i] = TheImage[0 + i]
  BY <1>4, <1>5 DEF PartAt
<1>7. 0 + Len(d.slot) <= ImageLen
  <2>1. 0 + Len(Stored(d)) <= ImageLen /\ ImageLen \in Int
    BY ImageFacts DEF PartAt
  <2> QED
    BY <1>1, <1>4, <2>1
<1> QED
  BY <1>1, <1>6, <1>7 DEF PartAt

\* A scheduled image is all that the target holds.
LEMMA WholeHeld ==
    ASSUME OneImage, NEW d, Within(d), Whole(d)
    PROVE  Stored(d) = TheImage /\ Len(Stored(d)) = ImageLen
<1>1. TheImage \in Seq(Unit) /\ Len(TheImage) = ImageLen
  BY ImageFacts
<1>2. TheImage \o <<>> = TheImage
  BY <1>1
<1> QED
  BY <1>1, <1>2 DEF Stored, Whole

\* A fragment that follows what is held is written.
LEMMA WriteHolds ==
    ASSUME OneImage, NEW d, Within(d), Exact(d), d.target, Holds(d),
           d.scheduled => Whole(d), NEW new, PartAt(new, Len(Stored(d)))
    PROVE  LET e == dfu_target_write(d, new)
           IN  /\ Holds(e) /\ e.scheduled = d.scheduled /\ (e.scheduled => Whole(e))
               /\ Len(Stored(e)) = Len(Stored(d)) + Len(new)
<1>1. /\ new \in Seq(Unit) /\ ImageLen \in Nat /\ Stored(d) \in Seq(Unit)
      /\ Len(Stored(d)) \in Nat /\ PartAt(Stored(d), 0) /\ Len(new) \in Nat
      /\ Len(Stored(d)) + Len(new) <= ImageLen /\ Len(d.buf) \in Nat
  BY ImageFacts DEF PartAt, Holds, Within, Dfu
<1>2. PICK e : e = dfu_target_write(d, new)
  OBVIOUS
<1>3. /\ Within(e) /\ Len(e.slot) = e.bytes_written
      /\ Len(e.buf) = (Len(d.buf) + Len(new)) % StreamBufLen
      /\ Stored(e) = Stored(d) \o new /\ e.target = d.target /\ e.scheduled = d.scheduled
  BY <1>1, <1>2, WriteFacts DEF Kept
<1>4. Len(Stored(d)) = 0 + Len(Stored(d))
  BY <1>1
<1>5. PartAt(Stored(d) \o new, 0) /\ Len(Stored(d) \o new) = Len(Stored(d)) + Len(new)
  BY <1>1, <1>4, PartsJoin
<1>6. Holds(e)
  BY <1>3, <1>5, StoredSlot DEF Holds, Within
<1>7. ASSUME d.scheduled PROVE Whole(e)
  <2>1. Len(Stored(d)) = ImageLen /\ d.buf = <<>> /\ Len(<<>>) = 0
    BY <1>7, WholeHeld DEF Whole
  <2>2. Len(new) = 0 /\ Len(d.buf) + Len(new) = 0
    BY <1>1, <2>1
  <2>3. 0 % StreamBufLen = 0
    BY DfuAssumption
  <2>4. Len(e.buf) = 0 /\ e.buf \in Seq(Unit)
    BY <1>3, <2>2, <2>3 DEF Within, Dfu
  <2>5. e.buf = <<>>
    BY <2>4, EmptySeq
  <2>6. PartAt(Stored(e), 0) /\ Stored(e) = SubSeq(e.slot, 1, e.bytes_written)
    BY <1>3, <1>6, <2>5, SlotPart DEF Holds
  <2>7. Len(Stored(e)) = Len(TheImage)
    BY <1>1, <1>3, <1>5, <2>1, <2>2, ImageFacts
  <2>8. Stored(e) = TheImage
    BY <2>6, <2>7, PartIs, ImageFacts
  <2> QED
    BY <1>3, <2>5, <2>6, <2>8 DEF Whole
<1> QED
  BY <1>2, <1>3, <1>5, <1>6, <1>7

\* What a step leaves of the contents; an image is scheduled when it is whole.
Schedules ==
    dfu'.scheduled = dfu.scheduled \/ (dfu'.scheduled /\ Stored(dfu) = TheImage)
ImageKept == Holds(dfu') /\ Marked' /\ DataInv' /\ Schedules

\* The facts about the contents that the steps need.
LEMMA ImageTypes ==
    ASSUME ImageInv, OneImage
    PROVE  /\ CountInv /\ Holds(dfu) /\ Marked /\ Collected /\ HandedOver /\ ToCome
           /\ Firsts /\ Followed /\ FlashKeepsAll
           /\ TheFile \in Uris /\ (\A u \in Uris : u = TheFile)
           /\ ImageLen \in Nat /\ ImageLen # 0 /\ DlBufSize \in Nat /\ DlBufSize < ImageLen
           /\ PartAt(Stored(dfu), 0) /\ Len(Stored(dfu)) <= ImageLen
<1>1. /\ CountInv /\ Holds(dfu) /\ Marked /\ Collected /\ HandedOver /\ ToCome
      /\ Firsts /\ Followed /\ FlashKeepsAll /\ PartAt(Stored(dfu), 0)
  BY DEF ImageInv, DataInv, OneImage, Holds
<1>2. Len(Stored(dfu)) <= ImageLen
  BY <1>1, CountTypes DEF PartAt
<1> QED
  BY <1>1, <1>2, ImageFacts

\* What is received stays when the client is told to close.
LEMMA ClosingImage ==
    ASSUME ImageInv, OneImage, dlc.state # "IDLE", DoDisconnect, UNCHANGED <<thr, rx>>,
           evt' = evt \/ evt'.id = "NONE", Firsts', Followed'
    PROVE  DataInv'
<1> USE ImageTypes, CountTypes
<1>1. /\ dlc'.state = "CLOSING" /\ dlc'.buf = dlc.buf /\ dlc'.progress = dlc.progress
      /\ dlc'.file_size = dlc.file_size
  BY ClosingClient
<1>2. Collected' /\ HandedOver'
  BY <1>1 DEF Collected, HandedOver
<1>3. ToCome'
  BY <1>1 DEF ToCome, ToComeOK, Receiving
<1> QED
  BY <1>2, <1>3 DEF DataInv

\* The label error_and_close.  A fragment is refused only if it is the first.
LEMMA ErrorImage ==
    ASSUME ImageInv, OneImage, evt.id \in {"FRAGMENT", "ERROR"},
           evt.id = "FRAGMENT" => dlc.progress # ImageLen,
           NEW d, Within(d), Exact(d), Holds(d), d.scheduled = dfu.scheduled,
           d.scheduled => Whole(d), evt.id = "ERROR" => Stored(d) = Stored(dfu),
           NEW f, GoesOnWith(f), f["NEW_URI"] = flags["NEW_URI"],
           evt.id = "FRAGMENT" => ~f["FIRST_FRAGMENT"],
           ErrorAndClose(d, f), CallbackFrame, UNCHANGED <<rx, uri>>
    PROVE  ImageKept
<1> USE ImageTypes, CountTypes
<1>1. thr.pc # "fragment" \/ evt.id = "FRAGMENT"
  BY DEF ThreadControl, ThreadOK
<1>s. dlc.state # "IDLE"
  BY DEF ThreadControl, ThreadOK
<1>2. /\ dlc'.state = "CLOSING" /\ dlc'.buf = dlc.buf /\ dlc'.progress = dlc.progress
      /\ dlc'.file_size = dlc.file_size /\ DoDisconnect
  BY <1>s, ClosingClient DEF ErrorAndClose
<1>3. /\ dfu'.target = d.target /\ dfu'.slot = d.slot /\ dfu'.bytes_written = d.bytes_written
      /\ dfu'.buf = d.buf /\ dfu'.scheduled = d.scheduled /\ Stored(dfu') = Stored(d)
  BY AbortFacts DEF ErrorAndClose
<1>4. ~ret' /\ evt'.id = "NONE" /\ thr' = thr /\ rx' = rx
  BY DEF ErrorAndClose, Returns, CallbackFrame
<1>5. /\ flags'["FIRST_FRAGMENT"] = f["FIRST_FRAGMENT"] /\ flags'["NEW_URI"] = f["NEW_URI"]
      /\ flags'["DOWNLOADING"] = f["DOWNLOADING"]
  BY DEF ErrorAndClose, GoesOnWith, Flags, FlagNames
<1>6. Holds(dfu') /\ Schedules
  BY <1>3 DEF Holds, Schedules
<1>7. Marked'
  <2>1. dfu'.scheduled => Whole(dfu')
    BY <1>3 DEF Whole
  <2> QED
    BY <1>3, <1>5, <2>1 DEF Marked, MarkOK, GoesOnWith
<1>8. Firsts'
  BY <1>1, <1>4, <1>5 DEF Firsts, FirstOK
<1>9. Followed'
  <2>1. CASE evt.id = "FRAGMENT"
    <3>1. thr.pc \in {"fragment", "partial"}
      BY <2>1 DEF ThreadControl, ThreadOK
    <3>2. thr.pc = "fragment" => dlc.progress # dlc.file_size
      BY <2>1 DEF ToCome, ToComeOK, Receiving
    <3> QED
      BY <1>2, <1>4, <3>1, <3>2 DEF Followed, FollowOK, Lost, Dying
  <2>2. CASE evt.id = "ERROR"
    <3>1. Base' = Base
      BY <1>3, <1>5, <2>2 DEF Base, GoesOnWith
    <3>2. Handed = 0 /\ Handed' = 0
      BY <1>4, <2>2 DEF Handed
    <3> QED
      BY <1>s, <1>2, <2>2, <3>1, <3>2 DEF Followed, FollowOK, Lost
  <2> QED
    BY <2>1, <2>2
<1>10. DataInv'
  BY <1>s, <1>2, <1>4, <1>8, <1>9, ClosingImage
<1> QED
  BY <1>6, <1>7, <1>10 DEF ImageKept

\* A fragment is written.
LEMMA WriteImage ==
    ASSUME ImageInv, OneImage, evt.id = "FRAGMENT",
           NEW d, Kept(d), Exact(d), d.target, Holds(d), d.scheduled = dfu.scheduled,
           d.scheduled => Whole(d),
           dlc.progress = Len(Stored(d)) + Len(evt.data),
           NEW f, GoesOnWith(f), ~f["FIRST_FRAGMENT"], WriteFragment(d, f), CallbackFrame,
           UNCHANGED <<rx, uri>>
    PROVE  ImageKept
<1> USE ImageTypes, CountTypes
<1>1. dfu' = dfu_target_write(d, evt.data) /\ flags' = f /\ UNCHANGED dlc /\ ret'
  BY WriteCounts
<1>2. /\ Within(d) /\ Len(evt.data) \in Nat /\ Len(Stored(d)) \in Nat
  <2>1. evt.data \in Seq(Unit) /\ Within(d)
    BY EventIds DEF ClientInv, Kept
  <2>2. Stored(d) \in Seq(Unit)
    BY <2>1, StoredFacts DEF Within
  <2> QED
    BY <2>1, <2>2
<1>3. PartAt(evt.data, Len(Stored(d)))
  <2>1. dlc.progress - Len(evt.data) = Len(Stored(d))
    BY <1>2
  <2> QED
    BY <2>1 DEF HandedOver
<1>4. /\ Holds(dfu') /\ dfu'.scheduled = d.scheduled /\ (dfu'.scheduled => Whole(dfu'))
      /\ Len(Stored(dfu')) = dlc.progress
  BY <1>1, <1>2, <1>3, WriteHolds
<1>5. evt'.id = "NONE" /\ thr' = thr /\ rx' = rx /\ dlc' = dlc
  BY <1>1 DEF CallbackFrame
<1>6. Marked' /\ Schedules
  BY <1>1, <1>4 DEF Marked, MarkOK, Schedules
<1>7. Handed' = 0 /\ Base' = dlc.progress /\ Len(dlc.buf)' = 0
  <2>1. Len(dlc.buf) = 0
    BY DEF Emptied, EmptyOK, ThreadControl, ThreadOK
  <2> QED
    BY <1>1, <1>4, <1>5, <2>1 DEF Handed, Base
<1>8. Followed'
  BY <1>5, <1>7 DEF Followed, FollowOK
<1>9. Collected' /\ HandedOver' /\ ToCome' /\ Firsts'
  BY <1>1, <1>5 DEF Collected, HandedOver, ToCome, Firsts, FirstOK
<1> QED
  BY <1>4, <1>6, <1>8, <1>9 DEF ImageKept, DataInv

\* The first fragment keeps the contents: an image that is scheduled is not
\* touched, as a file that is not new is not begun again.
LEMMA FirstImage ==
    ASSUME ImageInv, OneImage, evt.id = "FRAGMENT", flags["FIRST_FRAGMENT"], FirstFragment,
           CallbackFrame, UNCHANGED <<rx, uri>>
    PROVE  ImageKept
<1> USE ImageTypes, CountTypes
<1>1. dlc.state # "IDLE" /\ Len(dlc.buf) = 0 /\ evt.data \in Seq(Unit) /\ Len(evt.data) \in Nat
  <2>1. evt.data \in Seq(Unit)
    BY EventIds DEF ClientInv
  <2> QED
    BY <2>1 DEF Emptied, EmptyOK, ThreadControl, ThreadOK
<1>2. dlc.progress = Len(evt.data) /\ dlc.progress # ImageLen
  <2>1. Base = 0 /\ Handed = Len(evt.data)
    BY DEF Base, Handed
  <2>2. dlc.progress = Len(evt.data)
    BY <1>1, <2>1 DEF Counted, CountOK, Dying
  <2> QED
    BY <1>1, <2>2 DEF HandedOver
<1>3. PICK f, g : f = With({}, {"FIRST_FRAGMENT"}) /\ g = With({}, {"FIRST_FRAGMENT", "RESUME"})
  OBVIOUS
<1>4. /\ GoesOnWith(f) /\ GoesOnWith(g) /\ ~f["FIRST_FRAGMENT"] /\ ~g["FIRST_FRAGMENT"]
      /\ f["NEW_URI"] = flags["NEW_URI"] /\ f \in Flags
  <2>1. f \in Flags /\ g \in Flags
    BY <1>3, FlagFacts
  <2>2. /\ f["DOWNLOADING"] = flags["DOWNLOADING"] /\ f["CLOSED"] = flags["CLOSED"]
        /\ f["RESUME"] = flags["RESUME"] /\ ~f["FIRST_FRAGMENT"]
        /\ f["NEW_URI"] = flags["NEW_URI"]
    BY <1>3 DEF With, Flags, FlagNames
  <2>3. /\ g["DOWNLOADING"] = flags["DOWNLOADING"] /\ g["CLOSED"] = flags["CLOSED"]
        /\ ~g["RESUME"] /\ ~g["FIRST_FRAGMENT"]
    BY <1>3 DEF With, Flags, FlagNames
  <2> QED
    BY <2>1, <2>2, <2>3 DEF GoesOnWith
<1>5. PICK size \in Nat : size = dlc.file_size /\ size <= SlotLen
  BY DEF Sizes, SizesOK
<1>6. ~InitFails(dfu, size)
  BY <1>5 DEF InitFails, Exact
<1>7. PICK d : d = dfu_target_init(dfu, size)
  OBVIOUS
<1>8. /\ Kept(d) /\ Within(d) /\ Exact(d) /\ d.target /\ d.slot = dfu.slot
      /\ d.scheduled = dfu.scheduled /\ (dfu.target => d = dfu) /\ (~dfu.target => d.buf = <<>>)
  BY <1>6, <1>7, InitFacts
<1>9. dfu.scheduled => Whole(dfu) /\ ~flags["NEW_URI"] /\ dfu.target
  <2>1. flags["DOWNLOADING"]
    BY DEF FlagsControl, FlagsOK
  <2> QED
    BY <2>1 DEF Marked, MarkOK, Whole
<1>10. Holds(d) /\ (d.scheduled => Whole(d))
  <2>1. CASE dfu.target
    BY <1>8, <1>9, <2>1
  <2>2. CASE ~dfu.target
    <3>1. PartAt(d.slot, 0)
      BY <1>8 DEF Holds
    <3>2. PartAt(Stored(d), 0)
      BY <1>8, <2>2, <3>1, SlotPart
    <3> QED
      BY <1>8, <1>9, <2>2, <3>1, <3>2 DEF Holds
  <2> QED
    BY <2>1, <2>2
<1>11. PICK r : r = dfu_target_reset(d)
  OBVIOUS
<1>12. /\ Kept(r) /\ Within(r) /\ Exact(r) /\ ~r.target /\ ~r.id /\ r.slot = <<>>
       /\ r.scheduled = d.scheduled
  BY <1>8, <1>11, ResetFacts DEF Kept
<1>13. ~InitFails(r, size)
  BY <1>5, <1>12 DEF InitFails
<1>14. PICK again : again = dfu_target_init(r, size)
  OBVIOUS
<1>15. /\ Kept(again) /\ Within(again) /\ Exact(again) /\ again.target /\ again.buf = <<>>
       /\ again.slot = <<>> /\ again.scheduled = dfu.scheduled
  BY <1>8, <1>12, <1>13, <1>14, InitFacts
<1>16. Len(Stored(again)) = 0 /\ Holds(again)
  <2>1. again.bytes_written <= 0 /\ again.bytes_written \in Nat
    <3>1. again.bytes_written <= Len(again.slot) /\ again.bytes_written \in Nat /\ Len(<<>>) = 0
      BY <1>15 DEF Within, Dfu
    <3> QED
      BY <1>15, <3>1
  <2>2. PartAt(again.slot, 0)
    BY <1>15, NoPart
  <2>3. PartAt(Stored(again), 0) /\ Len(Stored(again)) = again.bytes_written
    BY <1>15, <2>2, SlotPart
  <2> QED
    BY <2>1, <2>2, <2>3 DEF Holds
<1>17. dfu_target_offset_get(d) = Len(Stored(d)) /\ Len(Stored(d)) \in Nat
  <2>1. Len(Stored(d)) = d.bytes_written + Len(d.buf) /\ Stored(d) \in Seq(Unit)
    BY <1>8, StoredFacts DEF Within
  <2> QED
    BY <1>8, <2>1 DEF dfu_target_offset_get, Exact
<1>18. \/ ErrorAndClose(dfu, f)
       \/ dfu_target_offset_get(d) = 0 /\ WriteFragment(d, g)
       \/ flags["NEW_URI"] /\ WriteFragment(again, g)
       \/ /\ dfu' = d /\ DoDisconnect /\ Returns(FALSE)
          /\ flags' = [f EXCEPT !["RESUME"] = TRUE]
  BY <1>3, <1>5, <1>6, <1>7, <1>11, <1>13, <1>14 DEF FirstFragment, OneImage, FlashKeepsAll
<1>19. CASE ErrorAndClose(dfu, f)
  BY <1>2, <1>4, <1>9, <1>19, ErrorImage
<1>20. CASE dfu_target_offset_get(d) = 0 /\ WriteFragment(d, g)
  <2>1. dlc.progress = Len(Stored(d)) + Len(evt.data)
    BY <1>1, <1>2, <1>17, <1>20
  <2> QED
    BY <1>4, <1>8, <1>10, <1>20, <2>1, WriteImage
<1>21. CASE flags["NEW_URI"] /\ WriteFragment(again, g)
  <2>1. dlc.progress = Len(Stored(again)) + Len(evt.data)
    BY <1>1, <1>2, <1>16
  <2> QED
    BY <1>4, <1>9, <1>15, <1>16, <1>21, <2>1, WriteImage
<1>22. CASE /\ dfu' = d /\ DoDisconnect /\ Returns(FALSE)
            /\ flags' = [f EXCEPT !["RESUME"] = TRUE]
  <2>1. /\ dlc'.state = "CLOSING" /\ dlc'.buf = dlc.buf /\ dlc'.progress = dlc.progress
        /\ dlc'.file_size = dlc.file_size
    BY <1>1, <1>22, ClosingClient
  <2>2. ~ret' /\ evt'.id = "NONE" /\ thr' = thr /\ rx' = rx
    BY <1>22 DEF Returns, CallbackFrame
  <2>3. ~flags'["FIRST_FRAGMENT"]
    BY <1>4, <1>22 DEF Flags, FlagNames
  <2>4. Firsts'
    BY <2>2, <2>3 DEF Firsts, FirstOK
  <2>5. Followed'
    <3>1. thr.pc \in {"fragment", "partial"}
      BY DEF ThreadControl, ThreadOK
    <3>2. thr.pc = "fragment" => dlc.progress # dlc.file_size
      BY <1>2 DEF ToCome, ToComeOK, Receiving
    <3> QED
      BY <2>1, <2>2, <3>1, <3>2 DEF Followed, FollowOK, Lost, Dying
  <2>6. DataInv'
    BY <1>1, <1>22, <2>2, <2>4, <2>5, ClosingImage
  <2>7. Holds(dfu') /\ Schedules
    BY <1>8, <1>10, <1>22 DEF Schedules
  <2>8. Marked'
    BY <1>8, <1>10, <1>22, <2>3 DEF Marked, MarkOK
  <2> QED
    BY <2>6, <2>7, <2>8 DEF ImageKept
<1> QED
  BY <1>18, <1>19, <1>20, <1>21, <1>22

\* Every callback keeps the contents.
LEMMA CallbackImage ==
    ASSUME ImageInv, OneImage, DownloadCallback
    PROVE  ImageKept
<1> USE ImageTypes, CountTypes
<1>1. GoesOnWith(flags)
  BY DEF GoesOnWith
<1>w. dfu.scheduled => Whole(dfu)
  BY DEF Marked, MarkOK
<1>2. CASE OnFragment
  <2>1. evt.id = "FRAGMENT" /\ CallbackFrame /\ rx' = rx /\ uri' = uri
    BY <1>2 DEF OnFragment, Handles, CallbackFrame, appVars, callVars
  <2>2. CASE flags["FIRST_FRAGMENT"]
    BY <1>2, <2>1, <2>2, FirstImage DEF OnFragment
  <2>3. CASE ~flags["FIRST_FRAGMENT"]
    <3>1. dfu.target /\ Len(dlc.buf) = 0 /\ dlc.state # "IDLE"
      BY <2>1, <2>3 DEF FlagsControl, FlagsOK, Dying, ThreadControl, ThreadOK, Emptied, EmptyOK
    <3>2. Len(evt.data) \in Nat
      BY <2>1, EventIds DEF ClientInv
    <3>3. Base = Len(Stored(dfu)) /\ Handed = Len(evt.data)
      BY <2>1, <2>3 DEF Base, Handed
    <3>4. dlc.progress = Len(Stored(dfu)) + Len(evt.data)
      BY <2>1, <3>1, <3>2, <3>3 DEF Counted, CountOK, Dying
    <3>5. WriteFragment(dfu, flags)
      BY <1>2, <2>3 DEF OnFragment
    <3> QED
      BY <1>1, <1>w, <2>1, <2>3, <3>1, <3>4, <3>5, WriteImage
  <2> QED
    BY <2>2, <2>3
<1>3. CASE OnDone
  <2>1. /\ evt.id = "DONE" /\ evt'.id = "NONE" /\ thr' = thr /\ rx' = rx /\ uri' = uri
    BY <1>3 DEF OnDone, Handles
  <2>2. /\ ~flags["FIRST_FRAGMENT"] /\ dlc.progress = ImageLen /\ Len(dlc.buf) = 0
        /\ dlc.state # "IDLE" /\ thr.pc = "end"
    BY <2>1 DEF Firsts, FirstOK, ThreadControl, ThreadOK
  <2>3. Base = Len(Stored(dfu)) /\ Handed = 0
    BY <2>1, <2>2 DEF Base, Handed
  <2>4. dlc.progress = Len(Stored(dfu))
    BY <2>1, <2>2, <2>3 DEF Followed, FollowOK, Lost
  <2>5. Stored(dfu) = TheImage
    BY <2>2, <2>4, PartIs, ImageFacts
  <2>6. dfu.target
    <3>1. Len(Stored(dfu)) = dfu.bytes_written + Len(dfu.buf)
      BY StoredFacts DEF Within
    <3>2. dfu.buf = <<>> /\ dfu.bytes_written = 0 => Len(Stored(dfu)) = 0
      <4>1. Len(<<>>) = 0
        OBVIOUS
      <4> QED
        BY <3>1, <4>1
    <3> QED
      BY <2>2, <2>4, <3>2 DEF Exact
  <2>7. DoneAndScheduled(DoneOk(dfu))
    BY <1>3, <2>6 DEF OnDone, FlashKeepsAll
  <2>8. PICK d : d = DoneOk(dfu)
    OBVIOUS
  <2>9. /\ Kept(d) /\ Exact(d) /\ d.target /\ d.buf = <<>> /\ d.slot = TheImage
        /\ Stored(d) = TheImage
    BY <2>5, <2>6, <2>8, DoneFacts
  <2>10. /\ dfu'.target /\ dfu'.slot = TheImage /\ dfu'.buf = <<>> /\ dfu'.scheduled
         /\ dfu'.bytes_written = d.bytes_written /\ Stored(dfu') = TheImage /\ Within(dfu')
    BY <2>7, <2>8, <2>9, FlushScheduleFacts DEF DoneAndScheduled, Kept
  <2>11. Holds(dfu') /\ Whole(dfu') /\ Schedules
    <3>1. PartAt(dfu'.slot, 0) /\ PartAt(Stored(dfu'), 0)
      BY <2>10, ImageFacts
    <3>2. Stored(dfu') = SubSeq(dfu'.slot, 1, dfu'.bytes_written)
      BY <2>10, <3>1, SlotPart
    <3> QED
      BY <2>5, <2>10, <3>1, <3>2 DEF Holds, Whole, Schedules
  <2>12. /\ dlc'.buf = dlc.buf /\ dlc'.progress = dlc.progress /\ flags' = flags /\ DoDisconnect
    BY <2>2, <2>7, ClosingClient DEF DoneAndScheduled
  <2>13. Marked'
    <3>1. uri = TheFile
      BY <2>2 DEF ClientInv, DlFiles, FotaTypes
    <3> QED
      BY <2>1, <2>2, <2>11, <2>12, <3>1 DEF Marked, MarkOK
  <2>14. Followed'
    <3>1. Base' = Len(Stored(dfu)) /\ Handed' = 0
      BY <2>1, <2>2, <2>5, <2>10, <2>12 DEF Base, Handed
    <3> QED
      BY <2>2, <2>4, <2>12, <3>1 DEF Followed, FollowOK
  <2>15. Firsts'
    BY <2>1, <2>2 DEF Firsts, FirstOK
  <2>16. DataInv'
    BY <2>1, <2>2, <2>12, <2>14, <2>15, ClosingImage
  <2> QED
    BY <2>11, <2>13, <2>16 DEF ImageKept
<1>4. CASE OnError
  <2>1. evt.id = "ERROR" /\ CallbackFrame /\ rx' = rx /\ uri' = uri
    BY <1>4 DEF OnError, Handles, CallbackFrame, appVars, callVars
  <2>2. CASE ErrorAndClose(dfu, flags)
    BY <1>1, <1>w, <2>1, <2>2, ErrorImage
  <2>3. CASE NoDisconnect /\ UNCHANGED <<dfu, flags>>
    <3>1. evt'.id = "NONE" /\ thr' = thr /\ dlc' = dlc
      BY <2>1, <2>3 DEF CallbackFrame, NoDisconnect
    <3>2. Handed = 0 /\ Handed' = 0 /\ Base' = Base
      BY <2>1, <2>3, <3>1 DEF Handed, Base
    <3>3. Followed'
      BY <2>1, <3>1, <3>2 DEF Followed, FollowOK, Lost
    <3>4. Collected' /\ HandedOver' /\ ToCome' /\ Firsts'
      BY <2>1, <2>3, <3>1 DEF Collected, HandedOver, ToCome, Firsts, FirstOK, ThreadControl, ThreadOK
    <3>5. Holds(dfu') /\ Marked' /\ Schedules
      BY <2>1, <2>3 DEF Marked, Schedules
    <3> QED
      BY <3>3, <3>4, <3>5 DEF ImageKept, DataInv
  <2> QED
    BY <1>4, <2>2, <2>3 DEF OnError
<1>5. CASE ClosedCallback
  <2>1. /\ UNCHANGED <<dlc, thr, dfu, rx, uri>>
        /\ evt.id = "CLOSED" /\ evt'.id \notin {"FRAGMENT", "DONE"}
    BY <1>5, ClosedEffects DEF FlagsControl, FlagsOK
  <2>2. dlc.state = "IDLE"
    BY <2>1 DEF ThreadControl, ThreadOK
  <2>3. /\ flags'["FIRST_FRAGMENT"] = flags["FIRST_FRAGMENT"]
        /\ flags'["NEW_URI"] = flags["NEW_URI"]
        /\ flags'["DOWNLOADING"] => flags["DOWNLOADING"]
    BY <1>5, ClosedEffects
  <2>4. Collected' /\ HandedOver' /\ ToCome' /\ Firsts' /\ Followed'
    BY <2>1, <2>2 DEF Collected, HandedOver, ToCome, Firsts, FirstOK, Followed, FollowOK
  <2>5. Holds(dfu') /\ Marked' /\ Schedules
    BY <2>1, <2>3 DEF Marked, MarkOK, Schedules
  <2> QED
    BY <2>4, <2>5 DEF ImageKept, DataInv
<1> QED
  BY <1>2, <1>3, <1>4, <1>5 DEF DownloadCallback

\* The application, the work item and a reset keep the contents.
LEMMA OthersImage ==
    ASSUME ImageInv, OneImage,
           WorkItem \/ fota_download \/ fota_download_cancel \/ Application \/ Reboot,
           ~overtaken'
    PROVE  ImageKept
<1> USE ImageTypes, CountTypes
<1>e. Len(<<>>) = 0 /\ 0 - 0 = 0
  OBVIOUS
<1>m. ASSUME UNCHANGED <<dfu, uri>>,
             flags'["DOWNLOADING"] /\ flags'["FIRST_FRAGMENT"]
                => /\ flags["DOWNLOADING"] /\ flags["FIRST_FRAGMENT"]
                   /\ flags'["NEW_URI"] = flags["NEW_URI"]
      PROVE  Holds(dfu') /\ Marked' /\ Schedules
  BY <1>m DEF Marked, MarkOK, Schedules
<1>1. CASE fota_download
  <2>1. /\ UNCHANGED <<dlc, thr, evt, ret, rx, dfu>> /\ ~flags["DOWNLOADING"]
    BY <1>1 DEF fota_download, dlVars
  <2>2. dlc.state = "IDLE" /\ evt.id \notin {"FRAGMENT", "DONE"}
    BY <2>1 DEF FlagsControl, FlagsOK, ThreadControl, ThreadOK
  <2>3. Collected' /\ HandedOver' /\ ToCome' /\ Firsts' /\ Followed'
    BY <2>1, <2>2 DEF Collected, HandedOver, ToCome, Firsts, FirstOK, Followed, FollowOK
  <2>4. PICK u \in Uris :
            /\ uri' = u
            /\ flags' = [With({"DOWNLOADING", "FIRST_FRAGMENT"}, {"CLOSED", "RESUME"})
                            EXCEPT !["NEW_URI"] = (u # uri)]
    BY <1>1 DEF fota_download
  <2>5. uri' = TheFile /\ (flags'["NEW_URI"] => u # uri)
    <3>1. "NEW_URI" \in DOMAIN With({"DOWNLOADING", "FIRST_FRAGMENT"}, {"CLOSED", "RESUME"})
      BY DEF With, FlagNames
    <3>2. flags'["NEW_URI"] = (u # uri)
      BY <2>4, <3>1
    <3> QED
      BY <2>4, <3>2
  <2>6. Marked'
    BY <2>1, <2>4, <2>5 DEF Marked, MarkOK
  <2> QED
    BY <2>1, <2>3, <2>6 DEF ImageKept, DataInv, Schedules
<1>2. CASE fota_download_cancel
  <2>1. UNCHANGED <<dlc, thr, evt, ret, rx, dfu, uri>> /\ flags' = With({"CANCEL"}, {})
    BY <1>2 DEF fota_download_cancel, dlVars
  <2>2. /\ flags'["FIRST_FRAGMENT"] = flags["FIRST_FRAGMENT"]
        /\ flags'["NEW_URI"] = flags["NEW_URI"] /\ flags'["DOWNLOADING"] = flags["DOWNLOADING"]
    BY <2>1 DEF With, Flags, FlagNames
  <2>3. Handed' = Handed /\ Base' = Base
    BY <2>1, <2>2 DEF Handed, Base
  <2>4. Collected' /\ HandedOver' /\ ToCome' /\ Firsts' /\ Followed'
    BY <2>1, <2>2, <2>3 DEF Collected, HandedOver, ToCome, Firsts, Followed
  <2> QED
    BY <1>m, <2>1, <2>2, <2>4 DEF ImageKept, DataInv
<1>g. ASSUME NEW from \in Nat, NEW u, from <= ImageLen, dlc.state = "IDLE", evt.id = "NONE",
             dlc' = Got(u, from), UNCHANGED <<thr, evt, ret, rx>>, Base' = from
      PROVE  DataInv'
  <2>1. /\ dlc'.state = "CONNECTING" /\ dlc'.buf = <<>> /\ dlc'.progress = from
        /\ dlc'.file_size = 0
    BY <1>g DEF Got, Client
  <2>2. thr.pc \in IdlePcs
    BY <1>g DEF ThreadControl, ThreadOK
  <2>3. Handed' = 0
    BY <1>g DEF Handed
  <2>4. Followed'
    BY <1>g, <1>e, <2>1, <2>3 DEF Followed, FollowOK
  <2>5. Collected'
    <3>1. PartAt(<<>>, from) /\ from - 0 = from
      BY <1>g, NoPart
    <3> QED
      BY <1>g, <1>e, <2>1, <3>1 DEF Collected
  <2>6. HandedOver' /\ ToCome' /\ Firsts'
    BY <1>g, <2>1, <2>2 DEF HandedOver, ToCome, ToComeOK, Firsts, FirstOK, Receiving, IdlePcs
  <2> QED
    BY <2>4, <2>5, <2>6 DEF DataInv
<1>3. CASE StartDownload
  <2>1. /\ flags["FIRST_FRAGMENT"] /\ dlc.state = "IDLE" /\ evt.id = "NONE" /\ flags["DOWNLOADING"]
    BY <1>3 DEF StartDownload, Locked, FlagsControl, FlagsOK
  <2>2. dlc' = Got(uri, 0) /\ UNCHANGED <<thr, evt, ret, rx, dfu, flags, uri>>
    BY <1>3, <2>1 DEF StartDownload, Gets
  <2>3. Base' = 0
    BY <2>1, <2>2 DEF Base
  <2> QED
    BY <1>g, <1>m, <2>1, <2>2, <2>3 DEF ImageKept
<1>4. CASE CancelDisconnects
  <2>1. DoDisconnect /\ UNCHANGED <<thr, evt, ret, rx, dfu, flags, uri>>
    BY <1>4 DEF CancelDisconnects, fotaVars
  <2>2. Handed' = Handed /\ Base' = Base
    BY <2>1 DEF Handed, Base
  <2>3. CASE dlc.state = "IDLE"
    <3>1. dlc' = dlc
      BY <2>1, <2>3 DEF DoDisconnect, Disconnected, SetState
    <3>2. DataInv'
      BY <2>1, <2>2, <3>1 DEF DataInv, Collected, HandedOver, ToCome, Firsts, Followed
    <3> QED
      BY <1>m, <2>1, <3>2 DEF ImageKept
  <2>4. CASE dlc.state # "IDLE"
    <3>1. /\ dlc'.state = "CLOSING" /\ dlc'.buf = dlc.buf /\ dlc'.progress = dlc.progress
          /\ dlc'.file_size = dlc.file_size
      BY <2>1, <2>4, ClosingClient
    <3>2. Followed'
      BY <2>1, <2>2, <2>4, <3>1 DEF Followed, FollowOK, Lost, Dying
    <3>3. Firsts'
      BY <2>1, <2>4, <3>1 DEF Firsts, FirstOK
    <3>4. DataInv'
      BY <2>1, <2>4, <3>2, <3>3, ClosingImage
    <3> QED
      BY <1>m, <2>1, <3>4 DEF ImageKept
  <2> QED
    BY <2>3, <2>4
<1>5. CASE CancelTarget
  <2>1. dfu' = DoneAborted(dfu) /\ UNCHANGED <<dlc, thr, evt, ret, rx, flags, uri>>
    BY <1>5 DEF CancelTarget, dlVars, fotaVars
  <2>2. /\ dfu'.target = dfu.target /\ dfu'.slot = dfu.slot /\ dfu'.buf = dfu.buf
        /\ dfu'.bytes_written = dfu.bytes_written /\ dfu'.scheduled = dfu.scheduled
        /\ Stored(dfu') = Stored(dfu)
    BY <2>1, AbortFacts
  <2>3. Base' = Base /\ Handed' = Handed
    BY <2>1, <2>2 DEF Base, Handed
  <2>4. DataInv'
    BY <2>1, <2>3 DEF DataInv, Collected, HandedOver, ToCome, Firsts, Followed
  <2>5. Holds(dfu') /\ Marked' /\ Schedules
    BY <2>1, <2>2 DEF Holds, Marked, MarkOK, Whole, Schedules
  <2> QED
    BY <2>4, <2>5 DEF ImageKept
<1>6. CASE CancelReturns
  <2>1. UNCHANGED <<dlc, thr, evt, ret, rx, flags, dfu, uri>>
    BY <1>6 DEF CancelReturns, dlVars, fotaVars
  <2>2. Base' = Base /\ Handed' = Handed
    BY <2>1 DEF Base, Handed
  <2>3. DataInv'
    BY <2>1, <2>2 DEF DataInv, Collected, HandedOver, ToCome, Firsts, Followed
  <2> QED
    BY <1>m, <2>1, <2>3 DEF ImageKept
<1>7. CASE Reboot
  <2>1. /\ dlc'.state = "IDLE" /\ dlc'.buf = <<>> /\ dlc'.file_size = 0 /\ thr'.pc = "wait"
        /\ evt' = NoEvt /\ rx'.header = {} /\ rx'.data = <<>> /\ dlc'.progress = 0
        /\ ~dfu.scheduled
    BY <1>7 DEF Reboot
  <2>2. PartAt(<<>>, 0)
    BY NoPart
  <2>3. DataInv'
    BY <1>e, <2>1, <2>2 DEF DataInv, Collected, HandedOver, ToCome, ToComeOK, Receiving, Firsts,
       FirstOK, Followed, FollowOK
  <2>4. PICK d \in CutOff : dfu' = DfuReboot(d)
    BY <1>7 DEF Reboot
  <2>5. /\ dfu'.scheduled = dfu.scheduled /\ Stored(dfu') = <<>> /\ dfu'.slot = d.slot
        /\ \/ d = dfu
           \/ /\ evt.id = "FRAGMENT" /\ ~flags["FIRST_FRAGMENT"]
              /\ d = BufferedWrite(dfu, evt.data)
    BY <2>4, CutOffFacts
  <2>6. PartAt(d.slot, 0)
    <3>1. CASE d = dfu
      BY <3>1 DEF Holds
    <3>2. CASE /\ evt.id = "FRAGMENT" /\ ~flags["FIRST_FRAGMENT"]
               /\ d = BufferedWrite(dfu, evt.data)
      <4>1. evt.data \in Seq(Unit) /\ Len(evt.data) \in Nat
        BY <3>2, EventIds DEF ClientInv
      <4>2. Len(dlc.buf) = 0 /\ dlc.state # "IDLE"
        BY <3>2 DEF ThreadControl, ThreadOK, Emptied, EmptyOK
      <4>3. Base = Len(Stored(dfu)) /\ Handed = Len(evt.data)
        BY <3>2 DEF Base, Handed
      <4>4. dlc.progress = Len(Stored(dfu)) + Len(evt.data)
        BY <3>2, <4>1, <4>2, <4>3 DEF Counted, CountOK, Dying
      <4>5. PartAt(evt.data, Len(Stored(dfu)))
        <5>1. dlc.progress - Len(evt.data) = Len(Stored(dfu))
          BY <4>1, <4>4
        <5> QED
          BY <3>2, <5>1 DEF HandedOver
      <4>6. Len(Stored(dfu)) = 0 + Len(Stored(dfu))
        OBVIOUS
      <4>7. PartAt(Stored(dfu) \o evt.data, 0)
        BY <4>5, <4>6, PartsJoin
      <4>8. d \in Dfu(Unit) /\ Len(d.slot) = d.bytes_written /\ Stored(d) = Stored(dfu) \o evt.data
        BY <3>2, <4>1, BufferedFacts DEF Within
      <4> QED
        BY <4>7, <4>8, StoredSlot
    <3> QED
      BY <2>5, <3>1, <3>2
  <2>7. Holds(dfu') /\ Marked' /\ Schedules
    BY <2>1, <2>2, <2>5, <2>6 DEF Holds, Marked, MarkOK, Schedules
  <2> QED
    BY <2>3, <2>7 DEF ImageKept
<1>8. CASE download_with_offset
  <2>1. /\ work /\ flags["CLOSED"] /\ closing # "closed"
        /\ UNCHANGED <<dlc, thr, evt, ret, rx, dfu, uri>>
    BY <1>8 DEF download_with_offset, dlVars
  <2>2. /\ dlc.state = "IDLE" /\ evt.id = "NONE" /\ dfu.target /\ flags["DOWNLOADING"]
    BY <2>1 DEF FlagsControl, FlagsOK
  <2>3. flags' = With({}, {"RESUME"})
    BY <1>8, <2>2 DEF download_with_offset
  <2>4. /\ flags'["FIRST_FRAGMENT"] = flags["FIRST_FRAGMENT"]
        /\ flags'["NEW_URI"] = flags["NEW_URI"]
    BY <2>3 DEF With, Flags, FlagNames
  <2>5. Collected' /\ HandedOver' /\ ToCome' /\ Firsts' /\ Followed'
    BY <2>1, <2>2 DEF Collected, HandedOver, ToCome, Firsts, FirstOK, Followed, FollowOK
  <2> QED
    BY <1>m, <2>1, <2>2, <2>4, <2>5 DEF ImageKept, DataInv
<1>9. CASE get_from_offset
  <2>1. /\ dlc.state = "IDLE" /\ evt.id = "NONE" /\ ~flags["FIRST_FRAGMENT"] /\ item.gets
    BY <1>9 DEF get_from_offset, FlagsControl, FlagsOK
  <2>2. /\ dlc' = Got(item.uri, item.from)
        /\ UNCHANGED <<thr, evt, ret, rx, dfu, flags, uri>>
    BY <1>9, <2>1 DEF get_from_offset, Gets
  <2>3. item.from = Len(Stored(dfu)) /\ item.from \in Nat /\ item.from <= ImageLen
    BY <2>1 DEF ImageInv, CountInv, Resumes
  <2>4. Base' = item.from
    BY <2>1, <2>2, <2>3 DEF Base
  <2> QED
    BY <1>g, <1>m, <2>1, <2>2, <2>3, <2>4 DEF ImageKept
<1> QED
  BY <1>1, <1>2, <1>3, <1>4, <1>5, <1>6, <1>7, <1>8, <1>9 DEF Application, WorkItem

\* The contents hold at the start.
LEMMA ContentsInit == OneImage /\ FotaInit => ImageInv
<1> SUFFICES ASSUME OneImage, FotaInit PROVE ImageInv
  OBVIOUS
<1>1. CountInv
  BY CountInit
<1>2. /\ dlc.state = "IDLE" /\ dlc.buf = <<>> /\ dlc.file_size = 0 /\ thr.pc = "wait"
      /\ evt.id = "NONE" /\ rx.header = {} /\ rx.data = <<>> /\ Len(<<>>) = 0
      /\ dlc.progress = 0 /\ dfu.slot = <<>> /\ dfu.scheduled = FALSE /\ dfu.buf = <<>>
  BY DEF FotaInit, DlInit, NoEvt, DfuStart
<1>3. PartAt(<<>>, 0) /\ ImageLen \in Nat /\ DlBufSize \in Nat /\ 0 - 0 = 0
  BY NoPart, ImageFacts
<1>4. Holds(dfu)
  BY <1>1, <1>2, <1>3, SlotPart, CountTypes DEF Holds
<1>5. Marked /\ DataInv
  BY <1>2, <1>3 DEF Marked, MarkOK, DataInv, Collected, HandedOver, ToCome, ToComeOK, Receiving,
     Firsts, FirstOK, Followed, FollowOK
<1> QED
  BY <1>1, <1>4, <1>5 DEF ImageInv

\* Every step keeps the contents.
LEMMA ContentsNext ==
    ASSUME ImageInv, OneImage, [FotaNext]_vars, ~overtaken'
    PROVE  ImageInv' /\ ImageKept
<1>1. CountInv'
  BY CountNext DEF ImageInv, OneImage
<1>2. ASSUME DownloadStep PROVE ImageKept
  <2>1. DataInv'
    BY <1>2, ThreadImage DEF DownloadStep
  <2>2. UNCHANGED <<dfu, flags, uri>>
    BY <1>2 DEF DownloadStep, fotaVars
  <2>3. Holds(dfu') /\ Marked' /\ Schedules
    BY <2>2 DEF ImageInv, Marked, Schedules
  <2> QED
    BY <2>1, <2>3 DEF ImageKept
<1>3. ASSUME FotaNext, ~DownloadStep PROVE ImageKept
  BY <1>3, CallbackImage, OthersImage DEF FotaNext
<1>4. ASSUME UNCHANGED vars PROVE ImageKept
  <2>1. UNCHANGED <<dlc, thr, evt, ret, rx, dfu, flags, uri>>
    BY <1>4 DEF vars, dlVars, fotaVars
  <2>2. Base' = Base /\ Handed' = Handed
    BY <2>1 DEF Base, Handed
  <2>3. DataInv'
    BY <2>1, <2>2 DEF ImageInv, DataInv, Collected, HandedOver, ToCome, Firsts, Followed
  <2>4. Holds(dfu') /\ Marked' /\ Schedules
    BY <2>1 DEF ImageInv, Marked, Schedules
  <2> QED
    BY <2>3, <2>4 DEF ImageKept
<1>5. ImageKept
  BY <1>2, <1>3, <1>4
<1> QED
  BY <1>1, <1>5 DEF ImageInv, ImageKept

\* The contents are an invariant of the specification, until the work item
\* overtakes the callback.
LEMMA ImageInvariant == OneImage => (FotaSpec => [](overtaken \/ ImageInv))
<1> SUFFICES ASSUME OneImage PROVE FotaSpec => [](overtaken \/ ImageInv)
  OBVIOUS
<1>1. (overtaken \/ ImageInv) /\ [FotaNext]_vars => (overtaken \/ ImageInv)'
  BY ContentsNext, OvertakenStays
<1>2. FotaInit => ImageInv
  BY ContentsInit
<1> QED
  BY <1>1, <1>2, PTL DEF FotaSpec

\* Whether it did is one or the other.
LEMMA OvertakenType == FotaSpec => [](overtaken \in BOOLEAN)
<1>1. FotaInit => overtaken \in BOOLEAN
  BY DEF FotaInit
<1>2. overtaken \in BOOLEAN /\ [FotaNext]_vars => (overtaken \in BOOLEAN)'
  <2> SUFFICES ASSUME overtaken \in BOOLEAN, [FotaNext]_vars PROVE overtaken' \in BOOLEAN
    OBVIOUS
  <2>1. overtaken' = overtaken \/ overtaken' = (overtaken \/ closing = "closed")
    BY DEF FotaNext, vars, fotaVars, callVars, DownloadStep, DownloadCallback, OnFragment, OnDone,
       OnError, ClosedCallback, OnClosed, StopsUnlessResumed, TestsError, TestsCancel, WorkItem,
       download_with_offset, get_from_offset, fota_download, fota_download_cancel, Application,
       StartDownload, CancelDisconnects, CancelTarget, CancelReturns, Reboot
  <2> QED
    BY <2>1
<1> QED
  BY <1>1, <1>2, PTL DEF FotaSpec

\* What is held is the beginning of the image, all of it once it is scheduled.
LEMMA HeldFacts ==
    ASSUME OneImage, NEW d, Within(d), Holds(d), d.scheduled => Whole(d),
           NEW h, h = IF d.scheduled THEN SubSeq(d.slot, 1, d.bytes_written) ELSE Stored(d)
    PROVE  /\ h = Stored(d) /\ PartAt(h, 0) /\ Len(h) \in 0 .. ImageLen
           /\ d.scheduled \in BOOLEAN /\ (d.scheduled => h = TheImage)
           /\ h = SubSeq(TheImage, 1, Len(h))
<1>1. d.scheduled => h = Stored(d) /\ h = TheImage
  BY WholeHeld DEF Whole
<1>2. h = Stored(d) /\ d.scheduled \in BOOLEAN
  BY <1>1 DEF Within, Dfu
<1>3. PartAt(h, 0) /\ Len(h) \in 0 .. ImageLen /\ Len(h) \in Nat
  <2>1. PartAt(h, 0) /\ ImageLen \in Nat
    BY <1>2, ImageFacts DEF Holds
  <2>2. h \in Seq(Unit) /\ 0 + Len(h) <= ImageLen
    BY <2>1 DEF PartAt
  <2>3. Len(h) \in Nat
    BY <2>2
  <2> QED
    BY <2>1, <2>2, <2>3
<1>4. h = SubSeq(TheImage, 1, Len(h))
  <2>1. PICK n \in Nat : n = Len(h) /\ 0 + n <= ImageLen
    <3>1. 0 + Len(h) <= ImageLen
      BY <1>3 DEF PartAt
    <3> QED
      BY <1>3, <3>1, Zenon
  <2>2. PartAt(SubSeq(TheImage, 0 + 1, 0 + n), 0)
    BY <2>1, ImagePart
  <2>3. 0 + 1 = 1 /\ 0 + n = n
    OBVIOUS
  <2>4. PICK s : s = SubSeq(TheImage, 1, n) /\ PartAt(s, 0)
    BY <2>2, <2>3
  <2>5. Len(s) = n
    <3>1. /\ TheImage \in Seq(Unit) /\ n \in 0 .. Len(TheImage) /\ ImageLen \in Nat
          /\ PartAt(TheImage, 0)
      <4>1. /\ TheImage \in Seq(Unit) /\ ImageLen \in Nat /\ Len(TheImage) = ImageLen
            /\ PartAt(TheImage, 0)
        BY ImageFacts
      <4>2. n \in 0 .. ImageLen
        <5>1. n <= ImageLen
          BY <2>1, <2>3
        <5> QED
          BY <4>1, <5>1
      <4> QED
        BY <4>1, <4>2
    <3> QED
      BY <2>4, <3>1, PartOfPart
  <2> QED
    BY <1>3, <2>1, <2>4, <2>5, PartIs
<1> QED
  BY <1>1, <1>2, <1>3, <1>4

\* A step is one of FotaImage, or changes nothing there.
LEMMA ImageStep ==
    ASSUME ImageInv, ImageInv', ImageKept, OneImage
    PROVE  [FotaImage!ImageNext]_<<Held, dfu.scheduled, overtaken>>
<1>1. /\ PartAt(Held, 0) /\ Len(Held) \in 0 .. ImageLen
      /\ dfu.scheduled \in BOOLEAN /\ (dfu.scheduled => Held = TheImage)
      /\ Held = Stored(dfu)
  <2>1. Within(dfu) /\ Holds(dfu) /\ (dfu.scheduled => Whole(dfu))
    BY DEF ImageInv, CountInv, ControlInv, Kept, Marked, MarkOK
  <2> QED
    BY <2>1, HeldFacts DEF Held
<1>2. PICK h : /\ h = Held' /\ PartAt(h, 0) /\ Len(h) \in 0 .. ImageLen
               /\ dfu'.scheduled \in BOOLEAN /\ (dfu'.scheduled => h = TheImage)
               /\ h = SubSeq(TheImage, 1, Len(h))
  <2>1. Within(dfu') /\ Holds(dfu') /\ (dfu'.scheduled => Whole(dfu'))
    BY DEF ImageInv, CountInv, ControlInv, Kept, Marked, MarkOK
  <2>2. PICK d : d = dfu'
    OBVIOUS
  <2>3. PICK h : /\ h = Held'
                 /\ h = IF d.scheduled THEN SubSeq(d.slot, 1, d.bytes_written) ELSE Stored(d)
    BY <2>2 DEF Held
  <2>4. /\ PartAt(h, 0) /\ Len(h) \in 0 .. ImageLen
        /\ d.scheduled \in BOOLEAN /\ (d.scheduled => h = TheImage)
        /\ h = SubSeq(TheImage, 1, Len(h))
    BY <2>1, <2>2, <2>3, HeldFacts
  <2> QED
    BY <2>2, <2>3, <2>4
<1>3. ImageLen \in Nat /\ Len(TheImage) = ImageLen /\ TheImage = File(TheFile)
  BY ImageFacts DEF TheImage
<1>o. overtaken' = overtaken
  <2>1. /\ overtaken \in BOOLEAN /\ overtaken' \in BOOLEAN /\ ~overtaken /\ ~overtaken'
    BY DEF ImageInv, CountInv, ControlInv, ClientInv, FotaTypes
  <2> QED
    BY <2>1, Zenon
<1>4. CASE dfu.scheduled /\ dfu'.scheduled
  <2>1. UNCHANGED <<Held, dfu.scheduled, overtaken>>
    BY <1>1, <1>2, <1>4, <1>o
  <2> QED
    BY <2>1
<1>5. CASE ~dfu.scheduled /\ dfu'.scheduled
  <2>1. Held = TheImage /\ Held' = TheImage /\ dfu'.scheduled = TRUE
    BY <1>1, <1>2, <1>5 DEF ImageKept, Schedules
  <2> QED
    BY <1>3, <1>o, <2>1 DEF FotaImage!ImageNext, FotaImage!Mark
<1>6. CASE ~dfu.scheduled /\ ~dfu'.scheduled
  <2>1. dfu'.scheduled = dfu.scheduled
    BY <1>1, <1>2, <1>6
  <2>2. CASE Len(Held) <= Len(h)
    <3>1. Len(h) \in Len(Held) .. Len(TheImage)
      BY <1>1, <1>2, <1>3, <2>2
    <3> QED
      BY <1>2, <1>3, <1>6, <1>o, <2>1, <3>1 DEF FotaImage!ImageNext, FotaImage!Extend, FotaImage!Prefix
  <2>3. CASE ~(Len(Held) <= Len(h))
    <3>1. PICK n \in 0 .. Len(Held) : n = Len(h)
      <4>1. Len(h) \in 0 .. Len(Held)
        BY <1>1, <1>2, <1>3, <2>3
      <4> QED
        BY <4>1, Zenon
    <3>2. PartAt(SubSeq(Held, 1, n), 0) /\ Len(SubSeq(Held, 1, n)) = n
      BY <1>1, <1>3, PartOfPart
    <3>3. Held' = SubSeq(Held, 1, n)
      BY <1>2, <3>1, <3>2, PartIs
    <3> QED
      BY <1>6, <1>o, <2>1, <3>3 DEF FotaImage!ImageNext, FotaImage!CutBack
  <2> QED
    BY <2>2, <2>3
<1>7. CASE dfu.scheduled /\ ~dfu'.scheduled
  BY <1>1, <1>2, <1>7 DEF ImageKept, Schedules
<1> QED
  BY <1>4, <1>5, <1>6, <1>7

\* FOTA implements FotaImage (ImplementsFotaImage): with one image that takes
\* more than a fragment, and a flash that keeps what is written, the target
\* holds at all times a beginning of the image, whatever connections, resets and
\* cancelled downloads there were, schedules it for MCUboot only when it is
\* whole, and does not touch it after that, until the work item overtakes the
\* callback.
THEOREM FotaImplementsImage == OneImage => (FotaSpec => ImplementsFotaImage)
<1> SUFFICES ASSUME OneImage PROVE FotaSpec => ImplementsFotaImage
  OBVIOUS
<1>1. FotaInit => FotaImage!ImageInit
  <2> SUFFICES ASSUME FotaInit PROVE FotaImage!ImageInit
    OBVIOUS
  <2>1. dfu.scheduled = FALSE /\ dfu.buf = <<>> /\ dfu.slot = <<>> /\ dfu.bytes_written = 0
    BY DEF FotaInit, DfuStart
  <2>2. Stored(dfu) = <<>>
    <3>1. ImageInv
      BY ContentsInit
    <3>2. Len(Stored(dfu)) = 0 /\ Stored(dfu) \in Seq(Unit)
      BY <2>1, <3>1, SlotPart, ImageTypes, CountTypes DEF Holds
    <3> QED
      BY <3>2, EmptySeq
  <2> QED
    BY <2>1, <2>2 DEF FotaImage!ImageInit, Held, FotaInit
<1>2. /\ (overtaken \/ ImageInv) /\ (overtaken \/ ImageInv)'
      /\ (overtaken \in BOOLEAN)'
      /\ [FotaNext]_vars
      => [FotaImage!ImageNext]_<<Held, dfu.scheduled, overtaken>>
  <2>1. ASSUME overtaken', overtaken' \in BOOLEAN PROVE FotaImage!ImageNext
    <3>1. overtaken' = TRUE
      BY <2>1, Zenon
    <3> QED
      BY <3>1 DEF FotaImage!ImageNext, FotaImage!Race
  <2>2. ASSUME ~overtaken', overtaken \/ ImageInv, (overtaken \/ ImageInv)', [FotaNext]_vars
        PROVE  [FotaImage!ImageNext]_<<Held, dfu.scheduled, overtaken>>
    <3>1. ImageInv /\ ImageInv'
      BY <2>2, OvertakenStays
    <3> QED
      BY <2>2, <3>1, ContentsNext, ImageStep
  <2> QED
    BY <2>1, <2>2
<1>3. FotaSpec => [](overtaken \/ ImageInv) /\ [](overtaken \in BOOLEAN)
  BY ImageInvariant, OvertakenType, PTL
<1> QED
  BY <1>1, <1>2, <1>3, PTL DEF FotaSpec, ImplementsFotaImage, FotaImage!ImageSpec

\* With one image the target never holds anything but a beginning of it
\* (StoredIsPrefix): that a resumed download may append to another file takes a
\* second URI, or that the work item overtakes the callback.
THEOREM FotaStoredIsPrefix == OneImage => (FotaSpec => [](overtaken \/ StoredIsPrefix))
<1>1. OneImage /\ ImageInv => StoredIsPrefix
  <2> SUFFICES ASSUME OneImage, ImageInv PROVE StoredIsPrefix
    OBVIOUS
  <2>1. Within(dfu) /\ Holds(dfu) /\ (dfu.scheduled => Whole(dfu)) /\ TheFile \in Uris
    BY ImageFacts DEF ImageInv, CountInv, ControlInv, Kept, Marked, MarkOK
  <2>2. /\ Held = Stored(dfu) /\ Len(Held) \in 0 .. ImageLen
        /\ Held = SubSeq(TheImage, 1, Len(Held))
    BY <2>1, HeldFacts DEF Held
  <2> QED
    BY <2>1, <2>2 DEF StoredIsPrefix, TheImage, ImageLen
<1> SUFFICES ASSUME OneImage PROVE FotaSpec => [](overtaken \/ StoredIsPrefix)
  OBVIOUS
<1>2. overtaken \/ ImageInv => overtaken \/ StoredIsPrefix
  BY <1>1
<1> QED
  BY <1>2, ImageInvariant, PTL
=============================================================================
