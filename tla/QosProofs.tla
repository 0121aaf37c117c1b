----------------------------- MODULE QosProofs -----------------------------
(***************************************************************************)
(* Theorems about the Quality of Service library (Qos), for every set of   *)
(* threads and of calls they make, every size of the list and every number *)
(* of notifications.                                                       *)
(***************************************************************************)
EXTENDS Qos, FiniteSetTheorems, TLAPS

Event == {"NEW", "EXPIRED", "REMOVED"}

RemovedIn(s) == {k \in DOMAIN s : s[k] = "REMOVED"}

(* A message is in one entry of the list at most; the others it was removed  *)
(* from for good.                                                           *)
ListInv ==
    /\ QosTypeOK
    /\ IsFiniteSet(pending)
    /\ \A m, n \in pending : m.id = n.id => m = n
    /\ \A i \in DOMAIN events : i \in Ids(pending) => RemovedIn(events[i]) = {}
    /\ \A i \in DOMAIN events : i \notin Ids(pending) => RemovedIn(events[i]) = {Len(events[i])}

(* An event more: "REMOVED" is then the last, any other changes nothing.    *)
LEMMA OneMoreEvent ==
    ASSUME NEW s \in Seq(Event), NEW e \in Event
    PROVE  /\ Append(s, e) \in Seq(Event) /\ Len(Append(s, e)) = Len(s) + 1
           /\ e = "REMOVED" /\ RemovedIn(s) = {} =>
                  RemovedIn(Append(s, e)) = {Len(Append(s, e))}
           /\ e # "REMOVED" => RemovedIn(Append(s, e)) = RemovedIn(s)
<1> DEFINE t == Append(s, e)
<1>1. /\ t \in Seq(Event) /\ Len(t) = Len(s) + 1 /\ Len(s) \in Nat
      /\ DOMAIN t = 1 .. Len(s) + 1 /\ DOMAIN s = 1 .. Len(s)
      /\ \A k \in 1 .. Len(s) : t[k] = s[k]
      /\ t[Len(s) + 1] = e
  OBVIOUS
<1> HIDE DEF t
<1>2. e # "REMOVED" => RemovedIn(t) = RemovedIn(s)
  BY <1>1 DEF RemovedIn
<1>3. e = "REMOVED" /\ RemovedIn(s) = {} => RemovedIn(t) = {Len(t)}
  BY <1>1 DEF RemovedIn
<1> QED BY <1>1, <1>2, <1>3 DEF t

(* The report of its removal is the last event of a message.               *)
LEMMA LastEvent ==
    ASSUME NEW s \in Seq(Event), RemovedIn(s) = {}
    PROVE  RemovedIn(Append(s, "REMOVED")) = {Len(Append(s, "REMOVED"))}
BY OneMoreEvent DEF Event

(* The events of a message that is added.                                  *)
LEMMA FirstEvents ==
    /\ <<"NEW">> \in Seq(Event) /\ RemovedIn(<<"NEW">>) = {}
    /\ <<"REMOVED">> \in Seq(Event) /\ RemovedIn(<<"REMOVED">>) = {Len(<<"REMOVED">>)}
    /\ <<"NEW", "REMOVED">> \in Seq(Event)
    /\ RemovedIn(<<"NEW", "REMOVED">>) = {Len(<<"NEW", "REMOVED">>)}
<1>1. <<"NEW">> \in Seq(Event) /\ RemovedIn(<<"NEW">>) = {}
  BY DEF Event, RemovedIn
<1>2. <<"REMOVED">> \in Seq(Event) /\ RemovedIn(<<"REMOVED">>) = {Len(<<"REMOVED">>)}
  BY DEF Event, RemovedIn
<1>3. /\ <<"NEW", "REMOVED">> \in Seq(Event)
      /\ RemovedIn(<<"NEW", "REMOVED">>) = {Len(<<"NEW", "REMOVED">>)}
  BY DEF Event, RemovedIn
<1> QED BY <1>1, <1>2, <1>3

(* notify_event keeps the types, and is heard by the messages named only.   *)
LEMMA NotifyTypes ==
    ASSUME QosTypeOK, NEW ids, NEW e \in Event, events' = Notify(ids, e)
    PROVE  /\ events' \in Seq(Seq(Event)) /\ DOMAIN events' = DOMAIN events
           /\ \A i \in DOMAIN events : i \in ids => events'[i] = Append(events[i], e)
           /\ \A i \in DOMAIN events : i \notin ids => events'[i] = events[i]
           /\ \A i \in DOMAIN events : events[i] \in Seq(Event)
<1>1. events \in Seq(Seq(Event))
  BY DEF QosTypeOK, Event
<1>2. \A i \in DOMAIN events : events[i] \in Seq(Event)
  BY <1>1
<1>3. DOMAIN events = 1 .. Len(events) /\ Len(events) \in Nat
  BY <1>1
<1>4. /\ DOMAIN events' = DOMAIN events
      /\ \A i \in DOMAIN events : i \in ids => events'[i] = Append(events[i], e)
      /\ \A i \in DOMAIN events : i \notin ids => events'[i] = events[i]
  BY DEF Notify
<1>5. \A i \in DOMAIN events : events'[i] \in Seq(Event)
  BY <1>2, <1>4
<1>6. events' \in [1 .. Len(events) -> Seq(Event)]
  BY <1>3, <1>5 DEF Notify
<1> QED BY <1>2, <1>3, <1>4, <1>6

(* A sublist is no longer than the list.                                   *)
LEMMA Sublist ==
    ASSUME ListInv, NEW S \in SUBSET pending
    PROVE  IsFiniteSet(S) /\ Cardinality(S) <= PendingMax
<1>1. IsFiniteSet(pending) /\ Cardinality(pending) <= PendingMax
  BY DEF ListInv, QosTypeOK
<1>2. IsFiniteSet(S) /\ Cardinality(S) <= Cardinality(pending)
  BY <1>1, FS_Subset
<1>3. Cardinality(S) \in Nat /\ Cardinality(pending) \in Nat
  BY <1>1, <1>2, FS_CardinalityType
<1> QED BY <1>1, <1>2, <1>3, QosAssumption

(* Counting a notification of each of some messages makes the list no       *)
(* longer, and keeps which messages are on it.                              *)
LEMMA CountedList ==
    ASSUME ListInv, NEW S \in SUBSET pending
    PROVE  /\ IsFiniteSet(Counted(S)) /\ Cardinality(Counted(S)) <= PendingMax
           /\ Counted(S) \subseteq [id : DOMAIN events, notified_count : Nat]
           /\ Ids(Counted(S)) = Ids(S)
           /\ \A m, n \in Counted(S) : m.id = n.id => m = n
<1> DEFINE f == [m \in S |-> Message(m.id, m.notified_count + 1)]
<1>1. IsFiniteSet(S) /\ Cardinality(S) <= PendingMax
  BY Sublist
<1>2. f \in Surjection(S, Counted(S))
  BY DEF Surjection, Counted
<1>3. IsFiniteSet(Counted(S)) /\ Cardinality(Counted(S)) <= Cardinality(S)
  BY <1>1, <1>2, FS_Surjection
<1>4. Cardinality(S) \in Nat /\ Cardinality(Counted(S)) \in Nat
  BY <1>1, <1>3, FS_CardinalityType
<1>5. Cardinality(Counted(S)) <= PendingMax
  BY <1>1, <1>3, <1>4, QosAssumption
<1>6. \A m \in S : m \in [id : DOMAIN events, notified_count : Nat]
  BY DEF ListInv, QosTypeOK
<1>7. \A m \in S : /\ Message(m.id, m.notified_count + 1)
                          \in [id : DOMAIN events, notified_count : Nat]
                   /\ Message(m.id, m.notified_count + 1).id = m.id
  BY <1>6 DEF Message
<1>8. Counted(S) \subseteq [id : DOMAIN events, notified_count : Nat]
  BY <1>7 DEF Counted
<1>9. Ids(Counted(S)) = Ids(S)
  BY <1>7 DEF Counted, Ids
<1>10. \A m, n \in Counted(S) : m.id = n.id => m = n
  <2> SUFFICES ASSUME NEW m \in Counted(S), NEW n \in Counted(S), m.id = n.id
               PROVE  m = n
    OBVIOUS
  <2>1. PICK x \in S : m = Message(x.id, x.notified_count + 1)
    BY DEF Counted
  <2>2. PICK y \in S : n = Message(y.id, y.notified_count + 1)
    BY DEF Counted
  <2>3. x.id = y.id
    BY <1>7, <2>1, <2>2
  <2>4. x = y
    BY <2>3 DEF ListInv
  <2> QED BY <2>1, <2>2, <2>4
<1> QED BY <1>3, <1>5, <1>8, <1>9, <1>10

-----------------------------------------------------------------------------
\* Every call and the work item keep the list.

\* The variables that the list does not depend on.
OtherTypes ==
    /\ timer \in BOOLEAN /\ queued \in BOOLEAN
    /\ handler \in {"none", "started", "done"}
    /\ resetting \subseteq Threads /\ stopped \in BOOLEAN

(* The steps that touch neither the list nor the events.                   *)
LEMMA QuietList ==
    ASSUME ListInv, UNCHANGED <<pending, events>>, OtherTypes'
    PROVE  ListInv'
BY DEF ListInv, QosTypeOK, OtherTypes, Ids

(* A message that is added gets an entry, or is removed at once.           *)
LEMMA AddKeepsList ==
    ASSUME ListInv, NEW t \in Threads, qos_message_add(t)
    PROVE  ListInv'
<1> DEFINE n == Len(events) + 1
<1>1. /\ events \in Seq(Seq(Event)) /\ Len(events) \in Nat
      /\ pending \subseteq [id : DOMAIN events, notified_count : Nat]
      /\ DOMAIN events = 1 .. Len(events)
  BY DEF ListInv, QosTypeOK, Event
<1>2. PICK e \in {<<"NEW", "REMOVED">>, <<"NEW">>, <<"REMOVED">>} :
          /\ events' = Append(events, e)
          /\ \/ pending' = pending /\ RemovedIn(e) = {Len(e)}
             \/ list_append /\ RemovedIn(e) = {}
  BY FirstEvents DEF qos_message_add
<1>3. e \in Seq(Event)
  BY FirstEvents
<1>4. /\ events' \in Seq(Seq(Event)) /\ DOMAIN events' = 1 .. n
      /\ \A i \in DOMAIN events : events'[i] = events[i]
      /\ events'[n] = e /\ n \notin DOMAIN events
      /\ \A i \in DOMAIN events' : i \in DOMAIN events \/ i = n
      /\ n \in DOMAIN events' /\ DOMAIN events \subseteq DOMAIN events'
  BY <1>1, <1>2, <1>3
<1>5. OtherTypes'
  BY DEF ListInv, QosTypeOK, OtherTypes, qos_message_add, StartTimer
<1>6. n \notin Ids(pending)
  BY <1>1, <1>4 DEF Ids
<1>7. CASE pending' = pending /\ RemovedIn(e) = {Len(e)}
  <2>1. QosTypeOK'
    BY <1>1, <1>4, <1>5, <1>7 DEF ListInv, QosTypeOK, OtherTypes, Event
  <2>2. Ids(pending') = Ids(pending)
    BY <1>7
  <2> HIDE DEF n
  <2> QED BY <1>2, <1>4, <1>6, <1>7, <2>1, <2>2 DEF ListInv
<1>8. CASE list_append /\ RemovedIn(e) = {}
  <2> DEFINE m == Message(n, 1)
  <2>1. pending' = pending \cup {m} /\ Cardinality(pending) < PendingMax
    BY <1>8 DEF list_append
  <2>2. m \in [id : {n}, notified_count : Nat] /\ m.id = n
    BY DEF Message
  <2>3. IsFiniteSet(pending') /\ Cardinality(pending') <= PendingMax
    <3>1. IsFiniteSet(pending) /\ Cardinality(pending) \in Nat
      BY FS_CardinalityType DEF ListInv
    <3>2. /\ IsFiniteSet(pending \cup {m})
          /\ Cardinality(pending \cup {m}) \in {Cardinality(pending), Cardinality(pending) + 1}
      BY <3>1, FS_AddElement
    <3> QED BY <2>1, <3>1, <3>2, QosAssumption
  <2>4. pending' \subseteq [id : DOMAIN events', notified_count : Nat]
    BY <1>1, <1>4, <2>1, <2>2
  <2>5. QosTypeOK'
    BY <1>4, <1>5, <2>3, <2>4 DEF QosTypeOK, OtherTypes, Event
  <2>6. Ids(pending') = Ids(pending) \cup {n}
    BY <2>1, <2>2 DEF Ids
  <2>7. \A x, y \in pending' : x.id = y.id => x = y
    <3>1. \A x \in pending : x.id # n
      BY <1>6 DEF Ids
    <3> QED BY <2>1, <2>2, <3>1 DEF ListInv
  <2> HIDE DEF n, m
  <2> QED BY <1>2, <1>4, <1>6, <1>8, <2>3, <2>5, <2>6, <2>7 DEF ListInv
<1> QED BY <1>2, <1>7, <1>8

(* Removing a message reports it, and takes it off the list.               *)
LEMMA RemoveKeepsList ==
    ASSUME ListInv, NEW t \in Threads, qos_message_remove(t)
    PROVE  ListInv'
<1>1. PICK id \in Ids(pending) : list_remove(id)
  BY DEF qos_message_remove
<1>2. events' = Notify({id}, "REMOVED") /\ pending' = {m \in pending : m.id # id}
  BY <1>1 DEF list_remove
<1>3. /\ events' \in Seq(Seq(Event)) /\ DOMAIN events' = DOMAIN events
      /\ \A i \in DOMAIN events : i = id => events'[i] = Append(events[i], "REMOVED")
      /\ \A i \in DOMAIN events : i # id => events'[i] = events[i]
      /\ \A i \in DOMAIN events : events[i] \in Seq(Event)
  BY <1>2, NotifyTypes, ZenonT(60) DEF ListInv, Event
<1>4. IsFiniteSet(pending') /\ Cardinality(pending') <= PendingMax
  BY <1>2, Sublist
<1>5. OtherTypes'
  BY DEF ListInv, QosTypeOK, OtherTypes, qos_message_remove, CancelWork
<1>6. QosTypeOK'
  BY <1>2, <1>3, <1>4, <1>5 DEF ListInv, QosTypeOK, OtherTypes, Event
<1>7. Ids(pending') = Ids(pending) \ {id}
  BY <1>2 DEF Ids
<1>8. \A i \in DOMAIN events : i = id => RemovedIn(events'[i]) = {Len(events'[i])}
  <2>1. \A i \in DOMAIN events : i = id => RemovedIn(events[i]) = {}
    BY <1>1 DEF ListInv
  <2> QED BY <1>3, <2>1, LastEvent
<1>9. \A m, n \in pending' : m.id = n.id => m = n
  BY <1>2 DEF ListInv
<1> QED BY <1>3, <1>4, <1>6, <1>7, <1>8, <1>9 DEF ListInv

(* Notifying the messages again is not removing them.                      *)
LEMMA NotifyAllKeepsList ==
    ASSUME ListInv, NEW t \in Threads, qos_message_notify_all(t)
    PROVE  ListInv'
<1>1. events' = Notify(Ids(pending), "EXPIRED") /\ pending' = Counted(pending)
  BY DEF qos_message_notify_all
<1>2. /\ events' \in Seq(Seq(Event)) /\ DOMAIN events' = DOMAIN events
      /\ \A i \in DOMAIN events : i \in Ids(pending) => events'[i] = Append(events[i], "EXPIRED")
      /\ \A i \in DOMAIN events : i \notin Ids(pending) => events'[i] = events[i]
      /\ \A i \in DOMAIN events : events[i] \in Seq(Event)
  BY <1>1, NotifyTypes DEF ListInv, Event
<1>3. /\ IsFiniteSet(pending') /\ Cardinality(pending') <= PendingMax
      /\ pending' \subseteq [id : DOMAIN events, notified_count : Nat]
      /\ Ids(pending') = Ids(pending)
      /\ \A m, n \in pending' : m.id = n.id => m = n
  BY <1>1, CountedList
<1>4. OtherTypes'
  BY DEF ListInv, QosTypeOK, OtherTypes, qos_message_notify_all
<1>5. QosTypeOK'
  BY <1>2, <1>3, <1>4 DEF QosTypeOK, OtherTypes, Event
<1>6. \A i \in DOMAIN events : i \in Ids(pending) => RemovedIn(events'[i]) = {}
  BY <1>2, OneMoreEvent, ZenonT(60) DEF ListInv, Event
<1> QED BY <1>2, <1>3, <1>5, <1>6 DEF ListInv

(* Removing all messages reports each of them.                             *)
LEMMA RemoveAllKeepsList ==
    ASSUME ListInv, NEW t \in Threads, qos_message_remove_all(t)
    PROVE  ListInv'
<1>1. events' = Notify(Ids(pending), "REMOVED") /\ pending' = {}
  BY DEF qos_message_remove_all
<1>2. /\ events' \in Seq(Seq(Event)) /\ DOMAIN events' = DOMAIN events
      /\ \A i \in DOMAIN events : i \in Ids(pending) => events'[i] = Append(events[i], "REMOVED")
      /\ \A i \in DOMAIN events : i \notin Ids(pending) => events'[i] = events[i]
      /\ \A i \in DOMAIN events : events[i] \in Seq(Event)
  BY <1>1, NotifyTypes DEF ListInv, Event
<1>3. IsFiniteSet(pending') /\ Cardinality(pending') <= PendingMax /\ Ids(pending') = {}
  BY <1>1, Sublist DEF Ids
<1>4. OtherTypes'
  BY DEF ListInv, QosTypeOK, OtherTypes, qos_message_remove_all
<1>5. QosTypeOK'
  BY <1>1, <1>2, <1>3, <1>4 DEF QosTypeOK, OtherTypes, Event
<1>6. \A i \in DOMAIN events : RemovedIn(events'[i]) = {Len(events'[i])}
  <2> SUFFICES ASSUME NEW i \in DOMAIN events
               PROVE  RemovedIn(events'[i]) = {Len(events'[i])}
    OBVIOUS
  <2>1. CASE i \in Ids(pending)
    BY <1>2, <2>1, LastEvent DEF ListInv
  <2>2. CASE i \notin Ids(pending)
    BY <1>2, <2>2 DEF ListInv
  <2> QED BY <2>1, <2>2
<1> QED BY <1>1, <1>2, <1>3, <1>5, <1>6 DEF ListInv

(* The work item gives up a message or notifies it, never both.            *)
LEMMA TimeoutKeepsList ==
    ASSUME ListInv, timeout_handler_work_fn
    PROVE  ListInv'
<1> DEFINE over == {m \in pending : m.notified_count >= NotifiedMax}
           left == {m \in pending : m.notified_count < NotifiedMax}
<1>1. /\ pending' = Counted(left)
      /\ events' = [i \in DOMAIN events |->
                      events[i] \o (IF i \in Ids(over) THEN <<"REMOVED">> ELSE <<>>)
                                \o (IF i \in Ids(left) THEN <<"EXPIRED">> ELSE <<>>)]
      /\ OtherTypes'
  BY DEF ListInv, QosTypeOK, OtherTypes, timeout_handler_work_fn
<1>2. /\ events \in Seq(Seq(Event)) /\ Len(events) \in Nat
      /\ DOMAIN events = 1 .. Len(events)
      /\ \A i \in DOMAIN events : events[i] \in Seq(Event)
  BY DEF ListInv, QosTypeOK, Event
<1>3. Ids(pending) = Ids(over) \cup Ids(left) /\ Ids(over) \cap Ids(left) = {}
  <2>1. \A m \in pending : m.notified_count \in Nat
    BY DEF ListInv, QosTypeOK
  <2>2. pending = over \cup left /\ over \cap left = {}
    BY <2>1, QosAssumption
  <2>3. Ids(pending) = Ids(over) \cup Ids(left)
    BY <2>2 DEF Ids
  <2>4. \A m \in over, n \in left : m.id # n.id
    BY <2>2 DEF ListInv
  <2> HIDE DEF over, left
  <2> QED BY <2>3, <2>4 DEF Ids
<1>4. /\ IsFiniteSet(pending') /\ Cardinality(pending') <= PendingMax
      /\ pending' \subseteq [id : DOMAIN events, notified_count : Nat]
      /\ Ids(pending') = Ids(left)
      /\ \A m, n \in pending' : m.id = n.id => m = n
  <2>1. left \in SUBSET pending
    OBVIOUS
  <2> HIDE DEF left
  <2> QED BY <1>1, <2>1, CountedList
<1> HIDE DEF over, left
<1>5. ASSUME NEW i \in DOMAIN events
      PROVE  /\ events'[i] \in Seq(Event)
             /\ i \in Ids(over) => events'[i] = Append(events[i], "REMOVED")
             /\ i \in Ids(left) => events'[i] = Append(events[i], "EXPIRED")
             /\ i \notin Ids(pending) => events'[i] = events[i]
  <2>0. events[i] \in Seq(Event)
    BY <1>2
  <2>1. CASE i \in Ids(over)
    <3>1. events'[i] = events[i] \o <<"REMOVED">> \o <<>>
      BY <1>1, <1>3, <2>1
    <3>2. events'[i] = Append(events[i], "REMOVED")
      BY <2>0, <3>1 DEF Event
    <3> QED BY <1>3, <2>0, <2>1, <3>2 DEF Event
  <2>2. CASE i \in Ids(left)
    <3>1. events'[i] = events[i] \o <<>> \o <<"EXPIRED">>
      BY <1>1, <1>3, <2>2
    <3>2. events'[i] = Append(events[i], "EXPIRED")
      BY <2>0, <3>1 DEF Event
    <3> QED BY <1>3, <2>0, <2>2, <3>2 DEF Event
  <2>3. CASE i \notin Ids(pending)
    <3>1. events'[i] = events[i] \o <<>> \o <<>>
      BY <1>1, <1>3, <2>3
    <3>2. events'[i] = events[i]
      BY <2>0, <3>1
    <3> QED BY <1>3, <2>0, <2>3, <3>2
  <2> QED BY <1>3, <2>1, <2>2, <2>3
<1>6. DOMAIN events' = DOMAIN events /\ events' \in Seq(Seq(Event))
  <2>1. DOMAIN events' = DOMAIN events
    BY <1>1
  <2>2. events' \in [1 .. Len(events) -> Seq(Event)]
    BY <1>1, <1>2, <1>5
  <2>3. ASSUME NEW n \in Nat, NEW f \in [1 .. n -> Seq(Event)]
        PROVE  f \in Seq(Seq(Event))
    OBVIOUS
  <2> QED BY <1>2, <2>1, <2>2, <2>3
<1>7. QosTypeOK'
  BY <1>1, <1>4, <1>6 DEF QosTypeOK, OtherTypes, Event
<1>8. \A i \in DOMAIN events : i \in Ids(left) => RemovedIn(events'[i]) = {}
  BY <1>2, <1>3, <1>5, OneMoreEvent DEF ListInv, Event
<1>9. \A i \in DOMAIN events : i \notin Ids(left) => RemovedIn(events'[i]) = {Len(events'[i])}
  <2> SUFFICES ASSUME NEW i \in DOMAIN events, i \notin Ids(left)
               PROVE  RemovedIn(events'[i]) = {Len(events'[i])}
    OBVIOUS
  <2>1. CASE i \in Ids(over)
    <3>1. events'[i] = Append(events[i], "REMOVED") /\ events[i] \in Seq(Event)
      BY <1>2, <1>5, <2>1
    <3>2. RemovedIn(events[i]) = {}
      BY <1>3, <2>1 DEF ListInv
    <3> QED BY <3>1, <3>2, LastEvent
  <2>2. CASE i \notin Ids(over)
    <3>1. i \notin Ids(pending)
      BY <1>3, <2>2
    <3> QED BY <1>5, <3>1 DEF ListInv
  <2> QED BY <2>1, <2>2
<1> QED BY <1>4, <1>6, <1>7, <1>8, <1>9 DEF ListInv

(* Every step keeps the invariant of the list.                             *)
LEMMA ListNext == ListInv /\ [QosNext]_qosVars => ListInv'
<1> SUFFICES ASSUME ListInv, [QosNext]_qosVars PROVE ListInv'
  OBVIOUS
<1>0. OtherTypes
  BY DEF ListInv, QosTypeOK, OtherTypes
<1>1. CASE TimerExpires \/ WorkStarts \/ WorkReturns
  BY <1>0, <1>1, QuietList DEF OtherTypes, TimerExpires, WorkStarts, WorkReturns
<1>2. CASE timeout_handler_work_fn
  BY <1>2, TimeoutKeepsList
<1>3. ASSUME NEW t \in Threads,
             qos_message_add(t) \/ qos_message_remove(t) \/ qos_message_notify_all(t)
                 \/ qos_message_remove_all(t)
      PROVE  ListInv'
  BY <1>3, AddKeepsList, RemoveKeepsList, NotifyAllKeepsList, RemoveAllKeepsList
<1>4. ASSUME NEW t \in Threads, RemoveAllResets(t) \/ qos_timer_reset(t)
      PROVE  ListInv'
  BY <1>0, <1>4, QuietList DEF OtherTypes, RemoveAllResets, qos_timer_reset, CancelWork
<1>5. CASE UNCHANGED qosVars
  BY <1>0, <1>5, QuietList DEF OtherTypes, qosVars
<1> QED BY <1>1, <1>2, <1>3, <1>4, <1>5 DEF QosNext, WorkItem

(* The list is sound from the start.                                       *)
LEMMA ListInit == QosInit => ListInv
<1> SUFFICES ASSUME QosInit PROVE ListInv
  OBVIOUS
<1>1. IsFiniteSet(pending) /\ Cardinality(pending) = 0
  BY FS_EmptySet DEF QosInit
<1>2. /\ pending = {} /\ events = <<>> /\ DOMAIN events = {}
      /\ events \in Seq(Seq({"NEW", "EXPIRED", "REMOVED"}))
  BY DEF QosInit
<1>3. Cardinality(pending) <= PendingMax
  BY <1>1, QosAssumption
<1>4. /\ timer \in BOOLEAN /\ queued \in BOOLEAN /\ stopped \in BOOLEAN
      /\ handler \in {"none", "started", "done"} /\ resetting \subseteq Threads
  BY DEF QosInit
<1>5. QosTypeOK
  BY <1>2, <1>3, <1>4 DEF QosTypeOK
<1> QED BY <1>1, <1>2, <1>5 DEF ListInv

(* The invariant of the list.                                              *)
LEMMA ListInvariant == QosSpec => []ListInv
BY ListInit, ListNext, PTL DEF QosSpec

(* Every message is reported as removed once, as the last that is heard of  *)
(* it, when it leaves the list of pending messages, for any threads that    *)
(* call the library in any way; the list never outgrows its room.           *)
THEOREM QosRemovedOnceAndLast == QosSpec => []RemovedOnceAndLast
<1>1. ListInv => RemovedOnceAndLast
  BY DEF ListInv, RemovedOnceAndLast, Removed, RemovedIn
<1> QED BY <1>1, ListInvariant, PTL

-----------------------------------------------------------------------------
\* The timer.

\* A handler that is done is not counted on: messages are waiting for the
\* timer.  Between the halves of qos_message_remove_all there are none.
TimerInv ==
    /\ pending # {} => timer \/ queued \/ handler = "started" \/ stopped
    /\ resetting # {} => pending = {}
    /\ \A t \in resetting : <<t, "remove_all">> \in Calls

(* On a cooperative work queue, and with one thread only that both adds     *)
(* messages and removes them all, pending messages always have a timer,     *)
(* unless the application stopped it.                                       *)
THEOREM QosTimerArmed ==
    ASSUME Cooperative,
           \A t, u \in Threads : <<t, "remove_all">> \in Calls /\ <<u, "add">> \in Calls => t = u
    PROVE  QosSpec => []TimerArmed
<1>1. QosInit => TimerInv
  BY DEF QosInit, TimerInv
<1>2. ListInv /\ TimerInv /\ [QosNext]_qosVars => TimerInv'
  <2> SUFFICES ASSUME ListInv, TimerInv, [QosNext]_qosVars PROVE TimerInv'
    OBVIOUS
  <2>0. resetting \subseteq Threads /\ handler \in {"none", "started", "done"}
    BY DEF ListInv, QosTypeOK
  <2>1. CASE TimerExpires \/ WorkStarts \/ WorkReturns
    BY <2>1 DEF TimerInv, TimerExpires, WorkStarts, WorkReturns
  <2>2. CASE timeout_handler_work_fn
    <3>1. (pending' # {} => timer') /\ (pending = {} => pending' = {}) /\ UNCHANGED resetting
      BY <2>2 DEF timeout_handler_work_fn, Counted
    <3> QED BY <3>1 DEF TimerInv
  <2>3. ASSUME NEW t \in Threads, qos_message_add(t)
        PROVE  TimerInv'
    <3>1. resetting = {}
      BY <2>0, <2>3 DEF TimerInv, qos_message_add, May
    <3>2. handler # "done" /\ UNCHANGED <<handler, resetting>>
      BY <2>3 DEF qos_message_add, May
    <3>3. CASE StartTimer
      BY <2>0, <3>1, <3>2, <3>3 DEF TimerInv, StartTimer, Busy
    <3>4. CASE UNCHANGED <<pending, timer, queued, stopped>>
      BY <3>1, <3>2, <3>4 DEF TimerInv
    <3> QED BY <2>3, <3>3, <3>4 DEF qos_message_add
  <2>4. ASSUME NEW t \in Threads, qos_message_remove(t)
        PROVE  TimerInv'
    BY <2>4 DEF TimerInv, qos_message_remove, list_remove, CancelWork
  <2>5. ASSUME NEW t \in Threads, qos_message_notify_all(t)
        PROVE  TimerInv'
    BY <2>5 DEF TimerInv, qos_message_notify_all, Counted
  <2>6. ASSUME NEW t \in Threads, qos_message_remove_all(t)
        PROVE  TimerInv'
    BY <2>6 DEF TimerInv, qos_message_remove_all, May
  <2>7. ASSUME NEW t \in Threads, RemoveAllResets(t)
        PROVE  TimerInv'
    BY <2>7 DEF TimerInv, RemoveAllResets, CancelWork
  <2>8. ASSUME NEW t \in Threads, qos_timer_reset(t)
        PROVE  TimerInv'
    BY <2>8 DEF TimerInv, qos_timer_reset, CancelWork
  <2>9. CASE UNCHANGED qosVars
    BY <2>9 DEF TimerInv, qosVars
  <2> QED BY <2>1, <2>2, <2>3, <2>4, <2>5, <2>6, <2>7, <2>8, <2>9 DEF QosNext, WorkItem
<1>3. TimerInv => TimerArmed
  BY DEF TimerInv, TimerArmed, Busy
<1> QED BY <1>1, <1>2, <1>3, ListInvariant, PTL DEF QosSpec

=============================================================================
