-------------------------------- MODULE Qos --------------------------------
(***************************************************************************)
(* The Quality of Service library, lib/qos/qos.c: a list of messages that   *)
(* wait for an acknowledgment, and a delayed work item that notifies them   *)
(* again and gives up on those notified often enough.  What a call does     *)
(* under ctx_lock is one step.  The events are what the application's       *)
(* handler is called with; it frees a message's buffer when the message is  *)
(* removed.                                                                 *)
(*                                                                          *)
(* External to the repository: the work item's states in Zephyr's kernel.   *)
(***************************************************************************)
EXTENDS Naturals, Sequences, FiniteSets

CONSTANTS
    Threads,        \* the application's threads
    Calls,          \* the pairs of a thread and a call it makes
    PendingMax,     \* CONFIG_QOS_PENDING_MESSAGES_MAX
    NotifiedMax,    \* CONFIG_QOS_MESSAGE_NOTIFIED_COUNT_MAX
    Cooperative,    \* CONFIG_SYSTEM_WORKQUEUE_PRIORITY < 0: no thread runs
                    \* between what the work handler does and its return
    MaxMessages,    \* bound: messages added
    MaxNotifyAll    \* bound: calls of qos_message_notify_all

CallNames == {"add", "remove", "notify_all", "remove_all", "timer_reset"}

ASSUME QosAssumption ==
    /\ Calls \subseteq Threads \X CallNames
    /\ PendingMax \in Nat /\ NotifiedMax \in Nat
    /\ Cooperative \in BOOLEAN
    /\ MaxMessages \in Nat /\ MaxNotifyAll \in Nat

VARIABLES
    pending,    \* pending_list: the messages and their notified_count (their
                \* order decides only whose callback comes first)
    timer,      \* timeout_handler_work is waiting for its time
    queued,     \* ... is in the queue
    handler,    \* ... is running: "none", "started", "done" (the list is
                \* handled and the lock released)
    resetting,  \* threads between the two halves of qos_message_remove_all
    stopped,    \* history: the application stopped the timer, and has added
                \* no message since
    events,     \* history: per message, the events notified
    notifies    \* counter of the bound

qosVars == <<pending, timer, queued, handler, resetting, stopped, events,
             notifies>>

Message(id, count) == [id |-> id, notified_count |-> count]

QosInit ==
    /\ pending = {}
    /\ timer = FALSE /\ queued = FALSE /\ handler = "none"
    /\ resetting = {} /\ stopped = FALSE
    /\ events = <<>>
    /\ notifies = 0

-----------------------------------------------------------------------------
\* k_work_delayable_is_pending: waiting, queued or running.
Busy == timer \/ queued \/ handler # "none"

\* k_work_cancel_delayable: a handler that runs is not stopped.
CancelWork == timer' = FALSE /\ queued' = FALSE

\* notify_event, for each message of some.
Notify(ids, e) == [i \in DOMAIN events |-> IF i \in ids THEN Append(events[i], e) ELSE events[i]]
Ids(list) == {m.id : m \in list}
Counted(list) == {Message(m.id, m.notified_count + 1) : m \in list}

May(t, call) ==
    /\ <<t, call>> \in Calls
    /\ t \notin resetting
    /\ Cooperative => handler # "done"

-----------------------------------------------------------------------------
(* qos_message_add: a message that needs no acknowledgment is notified and *)
(* removed at once, one that does not fit the list is only removed.        *)
StartTimer ==
    /\ timer' = (timer \/ (~Busy /\ pending' # {}))
    /\ stopped' = FALSE
    /\ UNCHANGED queued

\* The next message takes a free entry and counts as notified.
list_append ==
    /\ Cardinality(pending) < PendingMax
    /\ pending' = pending \cup {Message(Len(events) + 1, 1)}

qos_message_add(t) ==
    /\ May(t, "add") /\ Len(events) < MaxMessages
    /\ \/ /\ events' = Append(events, <<"NEW", "REMOVED">>)
          /\ UNCHANGED pending
          /\ StartTimer
       \/ /\ list_append
          /\ events' = Append(events, <<"NEW">>)
          /\ StartTimer
       \/ /\ Cardinality(pending) = PendingMax
          /\ events' = Append(events, <<"REMOVED">>)
          /\ UNCHANGED <<pending, timer, queued, stopped>>
    /\ UNCHANGED <<handler, resetting, notifies>>

list_remove(id) ==
    /\ events' = Notify({id}, "REMOVED")
    /\ pending' = {m \in pending : m.id # id}

\* A plausible error: the timer is stopped although messages are left.
RemoveStopsTimer(t) ==
    /\ May(t, "remove")
    /\ \E id \in Ids(pending) : list_remove(id)
    /\ CancelWork
    /\ UNCHANGED <<handler, resetting, stopped, notifies>>
\* qos_message_remove of a message that is pending; it fails for any other.
qos_message_remove(t) ==
    /\ May(t, "remove")
    /\ \E id \in Ids(pending) : list_remove(id)
    /\ IF pending' = {} THEN CancelWork ELSE UNCHANGED <<timer, queued>>
    /\ UNCHANGED <<handler, resetting, stopped, notifies>>

qos_message_notify_all(t) ==
    /\ May(t, "notify_all") /\ notifies < MaxNotifyAll
    /\ notifies' = notifies + 1
    /\ pending' = Counted(pending)
    /\ events' = Notify(Ids(pending), "EXPIRED")
    /\ UNCHANGED <<timer, queued, handler, resetting, stopped>>

\* qos_message_remove_all releases the lock before it stops the timer.
qos_message_remove_all(t) ==
    /\ May(t, "remove_all")
    /\ events' = Notify(Ids(pending), "REMOVED")
    /\ pending' = {}
    /\ resetting' = resetting \cup {t}
    /\ UNCHANGED <<timer, queued, handler, stopped, notifies>>

RemoveAllResets(t) ==
    /\ t \in resetting
    /\ Cooperative => handler # "done"
    /\ CancelWork
    /\ resetting' = resetting \ {t}
    /\ UNCHANGED <<pending, handler, stopped, events, notifies>>

qos_timer_reset(t) ==
    /\ May(t, "timer_reset")
    /\ CancelWork
    /\ stopped' = TRUE
    /\ UNCHANGED <<pending, handler, resetting, events, notifies>>

-----------------------------------------------------------------------------
(* The work item.                                                          *)
TimerExpires ==
    /\ timer
    /\ timer' = FALSE /\ queued' = TRUE
    /\ UNCHANGED <<pending, handler, resetting, stopped, events, notifies>>

WorkStarts ==
    /\ queued /\ handler = "none"
    /\ queued' = FALSE /\ handler' = "started"
    /\ UNCHANGED <<pending, timer, resetting, stopped, events, notifies>>

\* A plausible error: a message is given up and stays in the list.
TimeoutKeeps ==
    LET over == {m \in pending : m.notified_count >= NotifiedMax}
        left == {m \in pending : m.notified_count < NotifiedMax}
    IN  /\ handler = "started"
        /\ handler' = "done"
        /\ pending' = Counted(pending)
        /\ events' = [i \in DOMAIN events |->
                        events[i] \o (IF i \in Ids(over) THEN <<"REMOVED">> ELSE <<>>)
                                  \o (IF i \in Ids(left) THEN <<"EXPIRED">> ELSE <<>>)]
        /\ timer' = (timer \/ pending # {})
        /\ UNCHANGED <<queued, resetting, stopped, notifies>>
\* A plausible error: the work is not scheduled again after a removal.
TimeoutStops ==
    LET over == {m \in pending : m.notified_count >= NotifiedMax}
        left == {m \in pending : m.notified_count < NotifiedMax}
    IN  /\ handler = "started"
        /\ handler' = "done"
        /\ pending' = Counted(left)
        /\ events' = [i \in DOMAIN events |->
                        events[i] \o (IF i \in Ids(over) THEN <<"REMOVED">> ELSE <<>>)
                                  \o (IF i \in Ids(left) THEN <<"EXPIRED">> ELSE <<>>)]
        /\ timer' = (timer \/ (over = {} /\ left # {}))
        /\ UNCHANGED <<queued, resetting, stopped, notifies>>
\* timeout_handler_work_fn, under the lock.
timeout_handler_work_fn ==
    LET over == {m \in pending : m.notified_count >= NotifiedMax}
        left == {m \in pending : m.notified_count < NotifiedMax}
    IN  /\ handler = "started"
        /\ handler' = "done"
        /\ pending' = Counted(left)
        /\ events' = [i \in DOMAIN events |->
                        events[i] \o (IF i \in Ids(over) THEN <<"REMOVED">> ELSE <<>>)
                                  \o (IF i \in Ids(left) THEN <<"EXPIRED">> ELSE <<>>)]
        /\ timer' = (timer \/ left # {})
        /\ UNCHANGED <<queued, resetting, stopped, notifies>>

WorkReturns ==
    /\ handler = "done"
    /\ handler' = "none"
    /\ UNCHANGED <<pending, timer, queued, resetting, stopped, events, notifies>>

WorkItem == TimerExpires \/ WorkStarts \/ timeout_handler_work_fn \/ WorkReturns

QosNext ==
    \/ WorkItem
    \/ \E t \in Threads :
        \/ qos_message_add(t) \/ qos_message_remove(t) \/ qos_message_notify_all(t)
        \/ qos_message_remove_all(t) \/ RemoveAllResets(t) \/ qos_timer_reset(t)

QosSpec == QosInit /\ [][QosNext]_qosVars

\* The timer expires and the work queue is served.
QosFairSpec == QosSpec /\ WF_qosVars(WorkItem)

-----------------------------------------------------------------------------
\* The variables have their types; the list never holds more than it has room.
QosTypeOK ==
    /\ pending \subseteq [id : DOMAIN events, notified_count : Nat]
    /\ Cardinality(pending) <= PendingMax
    /\ timer \in BOOLEAN /\ queued \in BOOLEAN
    /\ handler \in {"none", "started", "done"}
    /\ resetting \subseteq Threads /\ stopped \in BOOLEAN
    /\ events \in Seq(Seq({"NEW", "EXPIRED", "REMOVED"}))

\* The variables have their types, and the list holds no more than it has room
\* for.  Every message ever added is pending or was reported as removed, exactly
\* once and as the last that is heard of it: its buffer is freed once,
\* and not used afterwards.
Removed(i) == {k \in DOMAIN events[i] : events[i][k] = "REMOVED"}
RemovedOnceAndLast ==
    /\ QosTypeOK
    /\ \A i \in DOMAIN events :
        IF i \in Ids(pending) THEN Removed(i) = {}
        ELSE Removed(i) = {Len(events[i])}

\* While messages are pending the timer is running, unless the application
\* stopped it: the caller is "notified periodically" (qos_message_add against
\* the work item and the other calls).
TimerArmed == pending # {} => Busy \/ stopped

\* The library does not keep a message for ever: it is acknowledged, or given
\* up after enough notifications, unless the application stops the timer.
MessagesEnd ==
    \A i \in 1 .. MaxMessages :
        i \in Ids(pending) ~> i \notin Ids(pending) \/ stopped
=============================================================================
