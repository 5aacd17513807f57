------------------------- MODULE WatchDeliveryProofs -------------------------
(***************************************************************************)
(* Proofs about what the watch operations deliver.                         *)
(*                                                                         *)
(* The inductive invariant is built in layers, each preserved by a step    *)
(* from a state that satisfies it and the layers below:                    *)
(*   TypeInv, MemInv   in WatchRegistryProofs;                             *)
(*   Exclusive         the C library has the address of a watcher for that *)
(*                     watcher only, unless the call is aliased;           *)
(*   Phases            what each phase of close leaves to be done;         *)
(*   Ordered           the answer to a call is queued once, before any     *)
(*                     event for its watch, and until it is delivered the  *)
(*                     watcher is in _watches or its call has the lock;    *)
(*   Waiting           a watcher that can be found has had no event;       *)
(*   Delivered         the safety properties themselves.                   *)
(***************************************************************************)
EXTENDS WatchRegistryProofs

(* Addresses.  While the watcher of a call that is not aliased exists, the *)
(* C library has its address for that call only.  And what each phase of   *)
(* close leaves to be done.                                                *)

Exclusive == \A c \in live \ aliased : \A d \in Remembered : addr[d] = addr[c] => d = c

Phases ==
  /\ handle # "open" => pending = {} /\ \A c \in Call : pc[c] # "sent"
  /\ handle \in {"closing", "failed"} => lock = NoCall
  /\ handle \in {"null", "failed"} => queue = <<>> /\ held = NoCall
  /\ handle = "null" => \A a \in Addr : watches[a] = NoCall
  /\ handle # "null" => l_watches = {}
  /\ \A i \in 1..Len(queue) : queue[i].raw = "ZCLOSING" => handle # "open"

(* What the C library has the address of: calls that have been sent.      *)
LEMMA RememberedTypes ==
  ASSUME TypeInv
  PROVE  Remembered \subseteq {c \in Call : pc[c] \in {"sent", "returned"}}
<1>1. queue \in Seq(Entry)
  BY DEF TypeInv, TypeOK
<1>2. DOMAIN queue = 1..Len(queue)
  BY <1>1
<1>3. ASSUME NEW c \in Remembered PROVE c \in Call /\ pc[c] \in {"sent", "returned"}
  <2>1. c \in pending \union active \/ \E i \in 1..Len(queue) : c \in queue[i].ws
    BY <1>2 DEF Remembered
  <2> QED
    BY <2>1, QueueTypes, Zenon DEF TypeInv, TypeOK, Known
<1> QED
  BY <1>3

(* The C library learns addresses only from the requests made to it.       *)
LEMMA NothingNew ==
  ASSUME TypeInv', pending' \subseteq Remembered, active' \subseteq Remembered,
         \A i \in 1..Len(queue') : queue'[i].ws \subseteq Remembered
  PROVE  Remembered' \subseteq Remembered
<1>1. DOMAIN queue' = 1..Len(queue')
  BY DEF TypeInv, TypeOK
<1>2. Remembered' = pending' \union active' \union UNION {queue'[i].ws : i \in DOMAIN queue'}
  BY DEF Remembered
<1> QED
  BY <1>1, <1>2

(* Every step keeps the addresses of watchers apart: a watcher that gets   *)
(* one that the C library has is aliased.                                  *)
LEMMA NextExclusive ==
  ASSUME TypeInv, TypeInv', MemInv, Exclusive, [Next]_vars
  PROVE  Exclusive'
<1> USE DEF Exclusive
<1>a. ASSUME live' \subseteq live, addr' = addr, aliased' = aliased, Remembered' \subseteq Remembered PROVE Exclusive'
  BY <1>a
<1>b. Remembered \subseteq {c \in Call : pc[c] \in {"sent", "returned"}}
  BY RememberedTypes
<1>c. /\ queue \in Seq(Entry) /\ queue' \in Seq(Entry)
      /\ pending \subseteq Remembered /\ active \subseteq Remembered
      /\ \A i \in 1..Len(queue) : queue[i].ws \subseteq Remembered
  <2>1. queue \in Seq(Entry) /\ queue' \in Seq(Entry)
    BY DEF TypeInv, TypeOK
  <2>2. DOMAIN queue = 1..Len(queue)
    BY <2>1
  <2> QED
    BY <2>1, <2>2 DEF Remembered
<1>d. ASSUME UNCHANGED <<pending, active, queue>> PROVE Remembered' = Remembered
  BY <1>d DEF Remembered
<1>1. ASSUME NEW c \in Call, NEW k, begin_watch(c, k) PROVE Exclusive'
  <2>1. PICK a \in Addr : /\ addr' = [addr EXCEPT ![c] = a]
                          /\ aliased' = IF \E d \in Remembered : addr[d] = a THEN aliased \union {c} ELSE aliased
    BY <1>1, Zenon DEF begin_watch
  <2>2. pc[c] = "idle" /\ live' = live \union {c} /\ UNCHANGED <<pending, active, queue>>
    BY <1>1, Zenon DEF begin_watch, library
  <2>3. Remembered' = Remembered /\ c \notin Remembered
    BY <2>2, <1>b, <1>d
  <2>4. addr \in [Call -> Addr \union {NoAddr}] /\ live \subseteq Call /\ Remembered \subseteq Call
    BY <1>b DEF TypeInv, TypeOK
  <2>5. ASSUME NEW x \in live' \ aliased', NEW d \in Remembered, addr'[d] = addr'[x] PROVE d = x
    <3>1. d # c /\ addr'[d] = addr[d]
      BY <2>1, <2>3, <2>4
    <3>2. CASE x = c
      BY <2>1, <2>4, <2>5, <3>1, <3>2
    <3>3. CASE x # c
      <4>1. x \in live \ aliased /\ addr'[x] = addr[x]
        BY <2>1, <2>2, <2>4, <3>3
      <4> QED
        BY <2>5, <3>1, <4>1, Zenon
    <3> QED
      BY <3>2, <3>3
  <2> QED
    BY <2>3, <2>5
<1>2. ASSUME NEW c \in Call, zoo_accepts(c) PROVE Exclusive'
  <2>1. /\ pc[c] = "locked" /\ pending' = pending \union {c}
        /\ UNCHANGED <<live, addr, aliased, active, queue>>
    BY <1>2, Zenon DEF zoo_accepts
  <2>2. Remembered' = Remembered \union {c}
    BY <2>1 DEF Remembered
  <2>3. c \in live /\ \A x \in live : addr[x] = addr[c] => x = c
    BY <2>1 DEF MemInv, Owned
  <2> QED
    BY <2>1, <2>2, <2>3
<1>3. ASSUME NEW c \in Call, zoo_refuses(c) \/ emplace_watch(c) PROVE Exclusive'
  <2>1. live' \subseteq live /\ UNCHANGED <<addr, aliased, pending, active, queue>>
    BY <1>3, Zenon DEF zoo_refuses, emplace_watch, library
  <2> QED
    BY <2>1, <1>a, <1>d
<1>4. CASE IOThread
  <2>1. live' = live /\ addr' = addr /\ aliased' = aliased
    BY <1>4, IOSteps, Zenon DEF userVars
  <2>2. ASSUME NEW e \in Entry, NEW q \in Seq(Entry), NEW q2, NEW p2, NEW ac2,
               \A i \in 1..Len(q) : q[i].ws \subseteq Remembered,
               PushAnswer(e, q, pending, active, q2, p2, ac2) \/ (p2 = pending /\ PushNotice(e, q, active, q2, ac2))
        PROVE  /\ p2 \subseteq Remembered /\ ac2 \subseteq Remembered
               /\ \A i \in 1..Len(q2) : q2[i].ws \subseteq Remembered
    <3>1. /\ q2 = Push(q, e) /\ e.ws \subseteq Remembered
          /\ p2 \subseteq Remembered /\ ac2 \subseteq Remembered
      BY <1>c, <2>2 DEF PushAnswer, PushNotice
    <3> QED
      BY <2>2, <3>1, PushTypes, Zenon
  <2>3. /\ pending' \subseteq Remembered /\ active' \subseteq Remembered
        /\ \A i \in 1..Len(queue') : queue'[i].ws \subseteq Remembered
    <3>1. CASE \E e \in Entry : PushAnswer(e, queue, pending, active, queue', pending', active')
      BY <3>1, <2>2, <1>c, Zenon
    <3>2. CASE pending' = pending /\ \E e \in Entry : PushNotice(e, queue, active, queue', active')
      BY <3>2, <2>2, <1>c, Zenon
    <3>3. ASSUME NEW n \in Entry, NEW e \in Entry, NEW q \in Seq(Entry),
                 PushNotice(n, queue, active, q, active),
                 PushAnswer(e, q, pending, active, queue', pending', active')
          PROVE  /\ pending' \subseteq Remembered /\ active' \subseteq Remembered
                 /\ \A i \in 1..Len(queue') : queue'[i].ws \subseteq Remembered
      <4>1. \A i \in 1..Len(q) : q[i].ws \subseteq Remembered
        BY <3>3, <2>2, <1>c, Zenon
      <4> QED
        BY <3>3, <4>1, <2>2, Zenon
    <3> QED
      BY <1>4, <3>1, <3>2, <3>3, IOSteps, Zenon
  <2> QED
    BY <2>1, <2>3, <1>a, NothingNew, Zenon
<1>5. ASSUME UNCHANGED <<pending, active>>, live' \subseteq live, UNCHANGED <<addr, aliased>>,
             (\E c, types : Dispatch(c, types)) \/ NextEntry
      PROVE  Exclusive'
  <2>1. ASSUME NEW c, NEW types, Dispatch(c, types), NEW i \in 1..Len(queue')
        PROVE  queue'[i].ws \subseteq Remembered
    <3>1. /\ Len(queue') = Len(queue) /\ Len(queue) \in Nat /\ queue'[1].ws = queue[1].ws \ {c}
          /\ \A j \in 2..Len(queue) : queue'[j] = queue[j]
      BY <2>1, <1>c, DispatchQueue, Zenon
    <3>2. i \in 1..Len(queue) /\ (i = 1 \/ i \in 2..Len(queue))
      BY <3>1
    <3> QED
      BY <3>1, <3>2, <1>c
  <2>2. ASSUME NextEntry, NEW i \in 1..Len(queue') PROVE queue'[i].ws \subseteq Remembered
    <3>1. queue'[i] = queue[i + 1] /\ Len(queue') = Len(queue) - 1 /\ Len(queue) \in Nat
      BY <2>2, <1>c, TailEntry, Zenon DEF NextEntry
    <3>2. i + 1 \in 1..Len(queue)
      BY <3>1
    <3> QED
      BY <3>1, <3>2, <1>c
  <2> QED
    BY <1>5, <2>1, <2>2, <1>a, <1>c, NothingNew, Zenon
<1>6. CASE CompletionThread
  <2>1. ASSUME NEW c \in Call, deliver_raw(c) \/ try_extract_watch(c) PROVE Exclusive'
    BY <2>1, <1>5, Zenon DEF deliver_raw, try_extract_watch, userVars, library
  <2>2. CASE NextEntry
    BY <2>2, <1>5, Zenon DEF NextEntry, userVars, library
  <2>3. CASE deliver_watch
    <3>1. live' \subseteq live /\ UNCHANGED <<addr, aliased, pending, active, queue>>
      BY <2>3, Zenon DEF deliver_watch, userVars, library
    <3> QED
      BY <3>1, <1>a, <1>d
  <2> QED
    BY <1>6, <2>1, <2>2, <2>3, Zenon DEF CompletionThread
<1>7. CASE zookeeper_close
  <2> DEFINE e == entry("answer", pending, "ZCLOSING")
  <2>1. "ZCLOSING" \in RawCode /\ pending \subseteq Call
    BY DEF RawCode, error_code, TypeInv, TypeOK
  <2>2. e \in Entry /\ e.ws = pending
    BY <2>1, EntryType, Zenon DEF Entry, entry
  <2>3. /\ queue' = Push(queue, e) /\ pending' = {} /\ active' = active
        /\ live' = live /\ addr' = addr /\ aliased' = aliased
    BY <1>7, Zenon DEF zookeeper_close, userVars
  <2> HIDE DEF e
  <2>4. \A i \in 1..Len(queue') : queue'[i].ws \subseteq Remembered
    BY <2>2, <2>3, <1>c, PushTypes, Zenon
  <2>5. pending' \subseteq Remembered
    BY <2>3
  <2> QED
    BY <2>3, <2>4, <2>5, <1>a, <1>c, NothingNew, Zenon
<1>8. CASE close_throws \/ close_extract \/ (\E c \in Call : close_deliver(c)) \/ UNCHANGED vars
  <2>1. live' \subseteq live /\ UNCHANGED <<addr, aliased, pending, active, queue>>
    BY <1>8, Zenon DEF close_throws, close_extract, close_deliver, vars, userVars, library
  <2> QED
    BY <2>1, <1>a, <1>d
<1> QED
  BY <1>1, <1>2, <1>3, <1>4, <1>6, <1>7, <1>8, Zenon DEF Next, User, watch, watch_children, watch_exists, Close

(* A queue without ZCLOSING keeps that when another entry is queued.       *)
LEMMA PushOther ==
  ASSUME NEW e \in Entry, e.raw # "ZCLOSING",
         NEW q \in Seq(Entry), \A i \in 1..Len(q) : q[i].raw # "ZCLOSING"
  PROVE  \A i \in 1..Len(Push(q, e)) : Push(q, e)[i].raw # "ZCLOSING"
<1>1. ASSUME NEW i \in 1..(Len(q) + 1) PROVE i \in 1..Len(q) \/ i = Len(q) + 1
  OBVIOUS
<1> QED
  BY <1>1, AppendEntry DEF Push

(* The phases of close follow each other, and only zookeeper_close queues  *)
(* ZCLOSING.                                                               *)
LEMMA NextPhases ==
  ASSUME TypeInv, MemInv, Phases, [Next]_vars
  PROVE  Phases'
<1> USE RegistryAssumption DEF TypeInv, TypeOK, Phases
<1>a. ASSUME UNCHANGED <<pc, lock, watches, handle, l_watches, held, pending, queue>> PROVE Phases'
  BY <1>a, Zenon
<1>1. ASSUME NEW c \in Call, User(c) PROVE Phases'
  <2>1. CASE \E k \in Kind : begin_watch(c, k)
    <3>1. /\ handle \in {"open", "null"} /\ pc' = [pc EXCEPT ![c] = "locked"]
          /\ UNCHANGED <<watches, handle, l_watches, held, pending, queue>>
      BY <2>1, Zenon DEF begin_watch, library
    <3>2. \A d \in Call : pc'[d] = "sent" => pc[d] = "sent"
      BY <3>1, Zenon
    <3> QED
      BY <3>1, <3>2, Zenon
  <2>2. CASE zoo_accepts(c)
    BY <2>2, Zenon DEF zoo_accepts
  <2>3. CASE zoo_refuses(c)
    BY <2>3, Zenon DEF zoo_refuses, library
  <2>4. CASE emplace_watch(c)
    <3>1. handle = "open"
      BY <2>4 DEF emplace_watch
    <3> QED
      BY <2>4, <3>1, Zenon DEF emplace_watch, library
  <2> QED
    BY <1>1, <2>1, <2>2, <2>3, <2>4, Zenon DEF User, watch, watch_children, watch_exists, Kind
<1>3. CASE IOThread
  <2>1. handle = "open" /\ UNCHANGED <<pc, lock, watches, handle, l_watches, held>>
    BY <1>3, IOSteps, Zenon DEF userVars
  <2>2. \A i \in 1..Len(queue) : queue[i].raw # "ZCLOSING"
    BY <2>1, Zenon
  <2>3. \A e \in Notice : e.raw # "ZCLOSING"
    BY Zenon DEF Notice, RawState
  <2>4. \A i \in 1..Len(queue') : queue'[i].raw # "ZCLOSING"
    <3>1. CASE \E e \in Entry : /\ PushAnswer(e, queue, pending, active, queue', pending', active')
                                /\ Truthful(e, active')
      <4>1. PICK e \in Entry : queue' = Push(queue, e) /\ e.raw # "ZCLOSING"
        BY <3>1, Zenon DEF PushAnswer, Truthful
      <4> QED
        BY <4>1, <2>2, PushOther, Zenon
    <3>2. CASE \E e \in Entry : PushNotice(e, queue, active, queue', active')
      <4>1. PICK e \in Entry : queue' = Push(queue, e) /\ e.raw # "ZCLOSING"
        BY <3>2, <2>3, Zenon DEF PushNotice
      <4> QED
        BY <4>1, <2>2, PushOther, Zenon
    <3>3. CASE \E n, e \in Entry, q \in Seq(Entry) :
                 /\ PushNotice(n, queue, active, q, active)
                 /\ PushAnswer(e, q, pending, active, queue', pending', active')
                 /\ Truthful(e, active')
      <4>1. PICK n \in Entry, e \in Entry, q \in Seq(Entry) :
                 /\ PushNotice(n, queue, active, q, active)
                 /\ PushAnswer(e, q, pending, active, queue', pending', active')
                 /\ Truthful(e, active')
        BY <3>3, Zenon
      <4>2. \A i \in 1..Len(q) : q[i].raw # "ZCLOSING"
        <5>1. q = Push(queue, n) /\ n.raw # "ZCLOSING"
          BY <4>1, <2>3, Zenon DEF PushNotice
        <5> QED
          BY <4>1, <5>1, <2>2, PushOther, Zenon
      <4>3. queue' = Push(q, e) /\ e.raw # "ZCLOSING"
        BY <4>1, Zenon DEF PushAnswer, Truthful
      <4> QED
        BY <4>1, <4>2, <4>3, PushOther, Zenon
    <3> QED
      BY <1>3, <3>1, <3>2, <3>3, IOSteps, Zenon
  <2> QED
    BY <2>1, <2>4, Zenon
<1>4. ASSUME NEW c \in Call, NEW types, Dispatch(c, types)
      PROVE  handle \in {"open", "closing"} /\ \A i \in 1..Len(queue') : queue'[i].raw = "ZCLOSING" => handle # "open"
  <2>1. /\ queue # <<>> /\ Len(queue') = Len(queue) /\ Len(queue) \in Nat \ {0} /\ queue'[1].raw = queue[1].raw
        /\ \A i \in 2..Len(queue) : queue'[i] = queue[i]
    BY <1>4, DispatchQueue, Zenon DEF Dispatch
  <2>2. ASSUME NEW i \in 1..Len(queue') PROVE queue'[i].raw = queue[i].raw
    BY <2>1
  <2> QED
    BY <2>1, <2>2, Zenon
<1>5. CASE NextEntry
  <2>1. /\ queue # <<>> /\ Len(queue') = Len(queue) - 1 /\ Len(queue) \in Nat
        /\ \A i \in 1..Len(queue') : queue'[i] = queue[i + 1]
    BY <1>5, TailEntry, Zenon DEF NextEntry
  <2>a. ASSUME NEW i \in 1..Len(queue') PROVE i + 1 \in 1..Len(queue)
    <3> HIDE DEF TypeInv, TypeOK, Phases
    <3> QED
      BY <2>1
  <2>2. \A i \in 1..Len(queue') : queue'[i].raw = "ZCLOSING" => handle # "open"
    BY <2>1, <2>a, Zenon
  <2> QED
    BY <1>5, <2>1, <2>2, Zenon DEF NextEntry, userVars, library
<1>6. ASSUME NEW c \in Call, deliver_raw(c) PROVE Phases'
  BY <1>6, <1>4, Zenon DEF deliver_raw, userVars, library
<1>7. ASSUME NEW c \in Call, try_extract_watch(c) PROVE Phases'
  BY <1>7, <1>4, Zenon DEF try_extract_watch, userVars, library
<1>8. CASE deliver_watch
  BY <1>8, Zenon DEF deliver_watch, userVars, library
<1>9. CASE zookeeper_close
  <2>1. handle' = "closing" /\ pending' = {} /\ lock = NoCall
    BY <1>9, Zenon DEF zookeeper_close
  <2>2. \A c \in Call : pc[c] # "sent"
    BY <2>1 DEF MemInv, Owned
  <2> QED
    BY <1>9, <2>1, <2>2, Zenon DEF zookeeper_close, userVars
<1>10. CASE close_throws
  <2>1. held = NoCall
    BY <1>10, Zenon DEF close_throws, Known
  <2> QED
    BY <1>10, <2>1, Zenon DEF close_throws, userVars, library
<1>11. CASE close_extract
  <2>1. held = NoCall
    BY <1>11, Zenon DEF close_extract, Known
  <2> QED
    BY <1>11, <2>1, Zenon DEF close_extract, userVars, library
<1>12. ASSUME NEW c \in Call, close_deliver(c) PROVE Phases'
  BY <1>12 DEF close_deliver, userVars, library
<1>13. CASE UNCHANGED vars
  BY <1>13, <1>a, Zenon DEF vars, userVars, library
<1> QED
  BY <1>1, <1>3, <1>5, <1>6, <1>7, <1>8, <1>9, <1>10, <1>11, <1>12, <1>13, Zenon DEF Next, CompletionThread, Close

Waiting ==
  /\ \A c \in Call : pc[c] # "returned" => event[c] = NoEvent
  /\ \A a \in Addr : watches[a] # NoCall => event[watches[a]] = NoEvent
  /\ \A c \in Call : c \in l_watches \/ c = held => event[c] = NoEvent

Delivered ==
  /\ NoDanglingWatcher
  /\ ClosedOnlyByClose
  /\ NoLostWatch
  /\ handle = "open" => ArmedIn(queue, active)
  /\ WatchIsArmed

-----------------------------------------------------------------------------
(* deliver_raw for a call without an answer finds the watcher of the       *)
(* request, and finds it alive: _watches or the call in progress still     *)
(* owns it.  A call that has its answer already, or whose watcher is gone, *)
(* is aliased, and so is the watcher found in its place.                   *)
LEMMA AnswerFindsWatcher ==
  ASSUME TypeInv, MemInv, Exclusive, Ordered, NEW c \in Call, deliver_raw(c)
  PROVE  /\ Head(queue) \in Answer
         /\ pc[c] \in {"sent", "returned"}
         /\ data[c] = "none" => /\ deliver_data(c, outcome_of(kind[c], Head(queue).raw))
                                /\ UNCHANGED dangling
                                /\ pc[c] = "sent" \/ watches[addr[c]] = c
         /\ data[c] # "none" => /\ c \in aliased
                                /\ dangling' \subseteq dangling \union {c}
                                /\ \A d \in Call \ aliased : data'[d] = data[d]
                                /\ \A d \in Call : data[d] # "none" => data'[d] # "none"
<1> USE RegistryAssumption DEF TypeInv, TypeOK
<1> DEFINE there == {t \in live : addr[t] = addr[c] /\ kind[t] = kind[c]}
           o == outcome_of(kind[c], Head(queue).raw)
<1>1. Dispatch(c, {"answer"}) /\ held = NoCall
  BY Zenon DEF deliver_raw, Dispatch
<1>2. Len(queue) \in Nat \ {0} /\ queue[1] \in Entry /\ Head(queue) = queue[1]
  BY <1>1, DispatchQueue, Zenon
<1>3. Head(queue) \in Answer /\ pc[c] \in {"sent", "returned"} /\ addr[c] \in Addr /\ c \in Remembered
  <2>1. c \in queue[1].ws /\ queue[1].type = "answer"
    BY <1>1, <1>2 DEF Dispatch
  <2>2. Head(queue) \in Answer
    BY <1>2, <2>1 DEF Entry, Answer, Notice
  <2>3. 1 \in 1..Len(queue) /\ 1 \in DOMAIN queue
    BY <1>2
  <2>4. pc[c] \in {"sent", "returned"} /\ addr[c] \in Addr
    BY <2>1, <2>3 DEF Known
  <2>5. c \in Remembered
    BY <2>1, <2>3, Zenon DEF Remembered
  <2> QED
    BY <2>2, <2>4, <2>5
<1>4. \/ \E t \in there : deliver_data(t, o) /\ UNCHANGED dangling
      \/ there = {} /\ dangling' = dangling \union {c} /\ UNCHANGED data
  BY Zenon DEF deliver_raw
<1> HIDE DEF o
<1>5. ASSUME data[c] = "none"
      PROVE  deliver_data(c, o) /\ UNCHANGED dangling /\ (pc[c] = "sent" \/ watches[addr[c]] = c)
  <2>1. pc[c] = "sent" \/ watches[addr[c]] = c
    BY <1>1, <1>3, <1>5 DEF Ordered
  <2>2. c \in live
    BY <1>3, <2>1 DEF MemInv, Owned, MapMatchesMemory
  <2>3. \A t \in live : addr[t] = addr[c] => t = c
    BY <2>2, Zenon DEF MemInv, Owned
  <2>4. there = {c}
    BY <2>2, <2>3, Zenon
  <2> QED
    BY <1>4, <2>1, <2>4, Zenon
<1>6. ASSUME data[c] # "none"
      PROVE  /\ c \in aliased
             /\ dangling' \subseteq dangling \union {c}
             /\ \A d \in Call \ aliased : data'[d] = data[d]
             /\ \A d \in Call : data[d] # "none" => data'[d] # "none"
  <2>1. c \in aliased
    <3>1. seen[c] = "none"
      BY <1>1, AnswerTaken, Zenon DEF Ordered
    <3> QED
      BY <3>1, <1>6 DEF seen
  <2>2. \A t \in there : t \in aliased /\ t \in Call
    BY <1>3, <2>1, Zenon DEF Exclusive
  <2>3. dangling' \subseteq dangling \union {c}
    BY <1>4
  <2>4. CASE UNCHANGED data
    BY <2>1, <2>3, <2>4
  <2>5. CASE \E t \in there : deliver_data(t, o)
    <3>1. PICK t \in there : deliver_data(t, o)
      BY <2>5
    <3>2. t \in aliased /\ data' = [data EXCEPT ![t] = IF data[t] = "none" THEN o ELSE data[t]]
      BY <3>1, <2>2, Zenon DEF deliver_data
    <3>3. \A d \in Call \ aliased : data'[d] = data[d]
      BY <3>2
    <3>4. \A d \in Call : data[d] # "none" => data'[d] # "none"
      BY <3>2
    <3> QED
      BY <2>1, <2>3, <3>3, <3>4
  <2> QED
    BY <1>4, <2>4, <2>5, Zenon
<1> QED
  BY <1>3, <1>5, <1>6 DEF o

(* try_extract_watch finds the watcher of the watch, whose answer has been *)
(* delivered, or none, or an aliased one.                                  *)
LEMMA EventFindsWatcher ==
  ASSUME TypeInv, MemInv, Exclusive, Ordered, NEW c \in Call, try_extract_watch(c)
  PROVE  /\ addr[c] \in Addr
         /\ pc[c] = "returned"
         /\ data[c] # "none"
         /\ held = NoCall
         /\ watches[addr[c]] \in {c, NoCall} \union aliased
         /\ held' = watches[addr[c]]
         /\ watches' = [watches EXCEPT ![addr[c]] = NoCall]
<1> USE RegistryAssumption DEF TypeInv, TypeOK
<1>1. Dispatch(c, {"session", "node"}) /\ held = NoCall /\ lock = NoCall
  BY DEF try_extract_watch, Dispatch
<1>2. Len(queue) \in Nat \ {0} /\ queue[1] \in Entry /\ Head(queue) = queue[1]
  BY <1>1, DispatchQueue, Zenon
<1>3. pc[c] \in {"sent", "returned"} /\ addr[c] \in Addr /\ c \in Remembered
  <2>1. c \in queue[1].ws /\ 1 \in 1..Len(queue) /\ 1 \in DOMAIN queue
    BY <1>1, <1>2 DEF Dispatch
  <2>2. pc[c] \in {"sent", "returned"}
    BY <2>1, Zenon DEF Known
  <2>3. c \in Remembered
    BY <2>1, Zenon DEF Remembered
  <2> QED
    BY <2>2, <2>3 DEF Known
<1>4. pc[c] = "returned"
  BY <1>1, <1>3 DEF MemInv, Owned
<1>5. ~AskedIn(queue, pending, c)
  BY <1>1, NoticeTaken, Zenon DEF Ordered
<1>6. data[c] # "none"
  BY <1>3, <1>5 DEF Ordered
<1>7. watches[addr[c]] # NoCall => addr[watches[addr[c]]] = addr[c] /\ watches[addr[c]] \in live
  BY <1>3, Zenon DEF MemInv, MapMatchesMemory
<1>8. watches[addr[c]] \in {c, NoCall} \union aliased
  BY <1>3, <1>7, Zenon DEF Exclusive
<1> QED
  BY <1>1, <1>3, <1>4, <1>6, <1>8, Zenon DEF try_extract_watch

(* The watchers delivered by deliver_watch and close have had their data,  *)
(* so that deliver_event sets the event only, unless they are aliased.     *)
LEMMA EventOnly ==
  ASSUME TypeInv, Ordered, NEW c \in Call, c \in l_watches \/ c = held, NEW ev, deliver_event(c, ev)
  PROVE  /\ \A d \in Call \ aliased : data'[d] = data[d]
         /\ data'[c] # "none" /\ \A d \in Call \ {c} : data'[d] = data[d]
         /\ event' = [event EXCEPT ![c] = IF @ = NoEvent THEN ev ELSE @]
<1>1. data \in [Call -> ErrorCode \union {"none"}]
  BY DEF TypeInv, TypeOK
<1>2. data' = [data EXCEPT ![c] = IF data[c] = "none" THEN "closed" ELSE data[c]]
  BY DEF deliver_event, deliver_data
<1>3. data'[c] # "none" /\ \A d \in Call \ {c} : data'[d] = data[d]
  BY <1>1, <1>2
<1>4. c \notin aliased => data'[c] = data[c]
  <2>1. c \notin aliased => data[c] # "none"
    BY DEF Ordered
  <2> QED
    BY <1>1, <1>2, <2>1
<1> QED
  BY <1>3, <1>4 DEF deliver_event

(* Every step keeps the order, and keeps the watcher of a request that is  *)
(* not answered where its answer will find it.                             *)
LEMMA NextOrdered ==
  ASSUME TypeInv, MemInv, Exclusive, Phases, Ordered, [Next]_vars
  PROVE  Ordered'
<1> USE RegistryAssumption DEF TypeInv, TypeOK, Ordered
<1>s. ASSUME aliased' = aliased, \A c \in Call \ aliased : data'[c] = data[c] PROVE seen' = seen
  BY <1>s DEF seen
<1>a. ASSUME UNCHANGED <<pc, addr, watches, data, aliased>>,
             InOrder(queue', pending', active', seen),
             \A c : AskedIn(queue, pending, c) => AskedIn(queue', pending', c),
             l_watches' \subseteq l_watches, held' = held
      PROVE  Ordered'
  <2>1. seen' = seen
    BY <1>a, <1>s, Zenon
  <2> QED
    BY <1>a, <2>1, Zenon
<1>1. ASSUME NEW c \in Call, NEW k, begin_watch(c, k) PROVE Ordered'
  <2>1. UNCHANGED <<queue, pending, active, data, watches, held, l_watches>> /\ pc[c] = "idle"
        /\ pc' = [pc EXCEPT ![c] = "locked"] /\ \A d \in Call \ {c} : addr'[d] = addr[d]
    BY <1>1, Zenon DEF begin_watch, library, futures
  <2>2. aliased' = aliased \/ aliased' = aliased \union {c}
    BY <1>1, Zenon DEF begin_watch
  <2>3. seen' = seen
    BY <2>1, <2>2 DEF seen
  <2>4. InOrder(queue', pending', active', seen')
    BY <2>1, <2>3, Zenon
  <2> QED
    BY <2>1, <2>2, <2>4
<1>2. ASSUME NEW c \in Call, zoo_accepts(c) PROVE Ordered'
  <2>1. /\ UNCHANGED <<queue, active, data, watches, held, l_watches, addr, aliased>> /\ pc[c] = "locked"
        /\ pc' = [pc EXCEPT ![c] = "sent"] /\ pending' = pending \union {c}
    BY <1>2, Zenon DEF zoo_accepts, futures
  <2>2. seen[c] = "none" /\ c \notin active /\ \A i \in 1..Len(queue) : c \notin queue[i].ws
    BY <2>1, Zenon DEF Known, seen
  <2>3. InOrder(queue, pending', active, seen)
    BY <2>1, <2>2 DEF InOrder
  <2>4. \A d : AskedIn(queue, pending, d) \/ d = c => AskedIn(queue, pending', d)
    BY <2>1, Zenon DEF AskedIn
  <2>5. seen' = seen
    BY <2>1, <1>s, Zenon
  <2> QED
    BY <2>1, <2>3, <2>4, <2>5, Zenon
<1>3. ASSUME NEW c \in Call, zoo_refuses(c) PROVE Ordered'
  <2>1. /\ UNCHANGED <<queue, pending, active, watches, held, l_watches, addr, aliased>> /\ pc[c] = "locked"
        /\ pc' = [pc EXCEPT ![c] = "returned"]
    BY <1>3, Zenon DEF zoo_refuses, library
  <2>2. PICK rc \in RawCode : deliver_data(c, error_code_from_raw(rc))
    BY <1>3, Zenon DEF zoo_refuses
  <2>3. data'[c] # "none" /\ \A d \in Call \ {c} : data'[d] = data[d]
    BY <2>1, <2>2, ErrorCodeType, NoneIsNoCode DEF deliver_data
  <2>4. c \notin pending /\ \A i \in 1..Len(queue) : c \notin queue[i].ws
    BY <2>1, Zenon DEF Known
  <2>5. \A i \in 1..Len(queue) : queue[i].ws \subseteq Call
    BY QueueTypes, Zenon
  <2>6. \A d \in Call \ {c} : seen'[d] = seen[d]
    BY <2>1, <2>3 DEF seen
  <2>7. InOrder(queue, pending, active, seen')
    <3>1. \A d \in pending : seen'[d] = seen[d]
      BY <2>4, <2>6, Zenon
    <3>2. ASSUME NEW i \in 1..Len(queue), NEW d \in queue[i].ws PROVE seen'[d] = seen[d]
      <4> HIDE DEF TypeInv, TypeOK
      <4>1. d \in Call /\ d # c
        BY <2>4, <2>5
      <4> QED
        BY <2>6, <4>1
    <3>3. \A d \in pending : seen'[d] = "none" /\ d \notin active /\ \A i \in 1..Len(queue) : d \notin queue[i].ws
      BY <3>1, Zenon DEF InOrder
    <3>4. ASSUME NEW i \in 1..Len(queue), queue[i].type = "answer", NEW d \in queue[i].ws
          PROVE  /\ seen[d] = "none"
                 /\ \A j \in 1..Len(queue) : d \in queue[j].ws /\ j # i => j > i /\ queue[j].type # "answer"
      BY <3>4 DEF InOrder
    <3>5. \A i \in 1..Len(queue) : queue[i].type = "answer" =>
            \A d \in queue[i].ws :
              /\ seen'[d] = "none"
              /\ \A j \in 1..Len(queue) : d \in queue[j].ws /\ j # i => j > i /\ queue[j].type # "answer"
      BY <3>2, <3>4, Zenon
    <3> QED
      BY <3>3, <3>5, Zenon DEF InOrder
  <2>8. c # held
    BY <2>1 DEF MemInv, Owned
  <2> QED
    BY <2>1, <2>3, <2>7, <2>8
<1>4. ASSUME NEW c \in Call, emplace_watch(c) PROVE Ordered'
  <2>0. pc[c] = "sent" /\ addr[c] \in Addr
    BY <1>4, Zenon DEF emplace_watch, Known
  <2>1. addr[c] \in Addr /\ watches[addr[c]] = NoCall
    BY <2>0 DEF MemInv, Owned, MapMatchesMemory
  <2>2. /\ UNCHANGED <<queue, pending, active, data, held, l_watches, addr, aliased>> /\ pc[c] = "sent"
        /\ pc' = [pc EXCEPT ![c] = "returned"] /\ watches' = [watches EXCEPT ![addr[c]] = c]
    BY <1>4, <2>1, Zenon DEF emplace_watch, library, futures
  <2>3. ASSUME NEW d \in Call, watches[addr[d]] = d, pc[d] # "idle" PROVE watches'[addr[d]] = d
    <3>1. addr[d] \in Addr /\ addr[d] # addr[c]
      BY <2>1, <2>3, Zenon DEF Known
    <3> QED
      BY <2>1, <2>2, <2>3, <3>1, Zenon
  <2>4. watches'[addr[c]] = c
    BY <2>1, <2>2
  <2>5. seen' = seen
    BY <2>2, <1>s, Zenon
  <2>6. InOrder(queue', pending', active', seen')
    BY <2>2, <2>5, Zenon
  <2> QED
    BY <2>2, <2>3, <2>4, <2>6
<1>5. CASE IOThread
  BY <1>5, <1>a, IOOrder, IOSteps, Zenon DEF userVars, futures
<1>6. CASE NextEntry
  BY <1>6, <1>a, EntryDropped, Zenon DEF NextEntry, userVars, futures, library
<1>7. ASSUME NEW c \in Call, deliver_raw(c) PROVE Ordered'
  <2>1. /\ UNCHANGED <<pending, active, watches, held, l_watches, addr, pc, aliased>>
        /\ Dispatch(c, {"answer"})
    BY <1>7, Zenon DEF deliver_raw, library, userVars
  <2>2. /\ Head(queue) \in Answer
        /\ pc[c] \in {"sent", "returned"}
        /\ data[c] = "none" => deliver_data(c, outcome_of(kind[c], Head(queue).raw))
        /\ data[c] # "none" => /\ c \in aliased
                               /\ \A d \in Call \ aliased : data'[d] = data[d]
                               /\ \A d \in Call : data[d] # "none" => data'[d] # "none"
    BY <1>7, AnswerFindsWatcher, Zenon
  <2>3. outcome_of(kind[c], Head(queue).raw) # "none"
    BY <2>2, OutcomeType DEF Answer
  <2>4. /\ data'[c] # "none"
        /\ \A d \in Call \ aliased : d # c => data'[d] = data[d]
        /\ \A d \in Call : data[d] # "none" => data'[d] # "none"
    <3>1. CASE data[c] = "none"
      BY <2>2, <2>3, <3>1, Zenon DEF deliver_data
    <3>2. CASE data[c] # "none"
      BY <2>2, <3>2
    <3> QED
      BY <3>1, <3>2
  <2>5. \A d \in Call \ {c} : seen'[d] = seen[d]
    BY <2>1, <2>4 DEF seen
  <2>6. InOrder(queue', pending, active, seen')
    BY <2>1, <2>5, AnswerTaken, Zenon
  <2>7. \A d : d # c /\ AskedIn(queue, pending, d) => AskedIn(queue', pending, d)
    BY <2>1, AnswerTaken, Zenon
  <2>8. \A d \in Call \ aliased : pc'[d] \in {"idle", "locked"} => data'[d] = "none"
    BY <2>1, <2>2, <2>4
  <2> QED
    BY <2>1, <2>4, <2>6, <2>7, <2>8
<1>8. ASSUME NEW c \in Call, try_extract_watch(c) PROVE Ordered'
  <2>1. /\ UNCHANGED <<pending, active, l_watches, addr, pc, data, aliased>>
        /\ Dispatch(c, {"session", "node"})
    BY <1>8, Zenon DEF try_extract_watch, library, userVars, futures
  <2>2. /\ addr[c] \in Addr /\ data[c] # "none" /\ pc[c] = "returned" /\ held = NoCall
        /\ watches[addr[c]] \in {c, NoCall} \union aliased /\ held' = watches[addr[c]]
        /\ watches' = [watches EXCEPT ![addr[c]] = NoCall]
    BY <1>8, EventFindsWatcher
  <2>3. InOrder(queue', pending, active, seen) /\ \A d : AskedIn(queue, pending, d) => AskedIn(queue', pending, d)
    BY <2>1, NoticeTaken, Zenon
  <2>4. ASSUME NEW d \in Call, pc[d] # "idle", watches[addr[d]] = d
        PROVE  watches'[addr[d]] = d \/ held' = d
    <3>1. addr[d] \in Addr
      BY <2>4, Zenon DEF Known
    <3> QED
      BY <2>2, <2>4, <3>1, Zenon
  <2>5. seen' = seen
    BY <2>1, <1>s, Zenon
  <2>6. \A d \in Call \ aliased : d = held' => data[d] # "none"
    BY <2>2
  <2>7. InOrder(queue', pending', active', seen')
    BY <2>1, <2>3, <2>5, Zenon
  <2>8. held # NoCall => FALSE
    BY <2>2
  <2> QED
    BY <2>1, <2>3, <2>4, <2>6, <2>7, <2>8
<1>9. CASE deliver_watch
  <2>1. held \in Call /\ \E ev : deliver_event(held, ev)
    BY <1>9 DEF deliver_watch
  <2>2. /\ \A d \in Call \ aliased : data'[d] = data[d]
        /\ data'[held] # "none" /\ \A d \in Call \ {held} : data'[d] = data[d]
    BY <2>1, EventOnly, Zenon
  <2>3. UNCHANGED <<pc, addr, watches, queue, pending, active, l_watches, aliased>> /\ held' = NoCall
    BY <1>9, Zenon DEF deliver_watch, userVars, library
  <2>4. seen' = seen
    BY <2>2, <2>3, <1>s, Zenon
  <2>5. InOrder(queue', pending', active', seen')
    BY <2>3, <2>4, Zenon
  <2>6. \A d \in Call : data[d] # "none" => data'[d] # "none"
    BY <2>2, Zenon
  <2> QED
    BY <2>1, <2>2, <2>3, <2>5, <2>6, Zenon
<1>10. CASE zookeeper_close
  BY <1>10, <1>a, CloseOrder, Zenon DEF zookeeper_close, userVars, futures
<1>11. CASE close_throws
  BY <1>11, <1>a DEF close_throws, userVars, futures, library
<1>12. CASE close_extract
  <2>1. pending = {} /\ queue = <<>> /\ held = NoCall
    BY <1>12, Zenon DEF close_extract, Phases, Known
  <2>2. \A c : ~AskedIn(queue, pending, c)
    <3> HIDE DEF TypeInv, TypeOK, Ordered
    <3> QED
      BY <2>1 DEF AskedIn
  <2>3. \A c \in Call : pc[c] \in {"sent", "returned"} => data[c] # "none"
    BY <2>2, Zenon
  <2>4. \A a \in Addr : watches[a] # NoCall => pc[watches[a]] \in {"sent", "returned"}
    BY DEF MemInv, Owned, MapMatchesMemory
  <2>5. /\ UNCHANGED <<pc, addr, data, queue, pending, active, held, aliased>>
        /\ l_watches' = {watches[a] : a \in Addr} \ {NoCall}
    BY <1>12, Zenon DEF close_extract, userVars, futures, library
  <2>6. \A c \in l_watches' : data[c] # "none"
    BY <2>3, <2>4, <2>5
  <2>7. seen' = seen
    BY <2>5, <1>s, Zenon
  <2>8. InOrder(queue', pending', active', seen')
    BY <2>5, <2>7, Zenon
  <2> QED
    BY <2>1, <2>3, <2>5, <2>6, <2>8
<1>13. ASSUME NEW c \in Call, close_deliver(c) PROVE Ordered'
  <2>1. c \in l_watches /\ \E ev : deliver_event(c, ev)
    BY <1>13, Zenon DEF close_deliver
  <2>2. data' = data
    <3>1. data[c] # "none"
      BY <2>1
    <3> QED
      BY <2>1, <3>1 DEF deliver_event, deliver_data
  <2> QED
    BY <1>13, <2>2, <1>a, Zenon DEF close_deliver, userVars, library
<1>14. CASE UNCHANGED vars
  BY <1>14, <1>a, Zenon DEF vars, userVars, futures, library
<1>15. ASSUME NEW c \in Call, User(c) PROVE Ordered'
  BY <1>15, <1>1, <1>2, <1>3, <1>4, Zenon DEF User, watch, watch_children, watch_exists
<1> QED
  BY <1>5, <1>6, <1>7, <1>8, <1>9, <1>10, <1>11, <1>12, <1>13, <1>14, <1>15, Zenon DEF Next, CompletionThread, Close

(* An event is delivered as the watcher becomes unreachable, by            *)
(* deliver_watch or by close, and never twice.                             *)
LEMMA NextWaiting ==
  ASSUME TypeInv, MemInv, Exclusive, Phases, Ordered, Waiting, [Next]_vars
  PROVE  Waiting'
<1> USE RegistryAssumption DEF TypeInv, TypeOK, Waiting
<1>a. ASSUME UNCHANGED <<pc, watches, event, l_watches, held>> PROVE Waiting'
  BY <1>a, Zenon
<1>1. ASSUME NEW c \in Call, User(c) PROVE Waiting'
  <2>1. CASE \E k \in Kind : begin_watch(c, k)
    BY <2>1 DEF begin_watch, futures
  <2>2. CASE zoo_accepts(c)
    BY <2>2, Zenon DEF zoo_accepts, futures
  <2>3. CASE zoo_refuses(c)
    <3>1. UNCHANGED <<watches, event, l_watches, held>> /\ pc' = [pc EXCEPT ![c] = "returned"]
      BY <2>3, Zenon DEF zoo_refuses
    <3> QED
      BY <3>1, Zenon
  <2>4. CASE emplace_watch(c)
    <3>1. pc[c] = "sent" /\ event[c] = NoEvent
      BY <2>4, Zenon DEF emplace_watch
    <3> QED
      BY <2>4, <3>1 DEF emplace_watch, futures
  <2> QED
    BY <1>1, <2>1, <2>2, <2>3, <2>4, Zenon DEF User, watch, watch_children, watch_exists, Kind
<1>2. CASE IOThread
  BY <1>2, <1>a, IOSteps, Zenon DEF userVars, futures
<1>3. ASSUME NEW c \in Call, deliver_raw(c) PROVE Waiting'
  BY <1>3, <1>a, Zenon DEF deliver_raw, userVars
<1>4. ASSUME NEW c \in Call, try_extract_watch(c) PROVE Waiting'
  <2>1. /\ addr[c] \in Addr /\ held' = watches[addr[c]]
        /\ watches' = [watches EXCEPT ![addr[c]] = NoCall]
    BY <1>4, EventFindsWatcher, Zenon
  <2> QED
    BY <1>4, <2>1 DEF try_extract_watch, userVars, futures
<1>5. CASE deliver_watch
  <2>1. /\ held \in Call /\ held' = NoCall /\ UNCHANGED <<pc, watches, l_watches>>
        /\ \A c \in Call \ {held} : event'[c] = event[c]
    BY <1>5, Zenon DEF deliver_watch, deliver_event, userVars
  <2>2. /\ held \notin l_watches /\ \A a \in Addr : watches[a] # held
        /\ pc[held] = "returned"
    BY <2>1 DEF MemInv, Owned, MapMatchesMemory
  <2> QED
    BY <2>1, <2>2
<1>6. CASE close_extract
  <2>1. /\ UNCHANGED <<pc, event, held>> /\ watches' = [a \in Addr |-> NoCall]
        /\ l_watches' = {watches[a] : a \in Addr} \ {NoCall}
    BY <1>6, Zenon DEF close_extract, userVars, futures
  <2>2. \A c \in Call : c \in l_watches' => event[c] = NoEvent
    BY <2>1
  <2> QED
    BY <2>1, <2>2
<1>7. ASSUME NEW c \in Call, close_deliver(c) PROVE Waiting'
  <2>1. /\ l_watches' = l_watches \ {c} /\ UNCHANGED <<pc, watches, held>>
        /\ \A d \in Call \ {c} : event'[d] = event[d]
    BY <1>7, Zenon DEF close_deliver, deliver_event, userVars
  <2>2. /\ c \in l_watches /\ \A a \in Addr : watches[a] # c
        /\ pc[c] = "returned" /\ held # c
    BY <1>7 DEF close_deliver, MemInv, Owned, MapMatchesMemory
  <2> QED
    BY <2>1, <2>2
<1>8. CASE NextEntry \/ zookeeper_close \/ close_throws \/ UNCHANGED vars
  BY <1>8, <1>a, Zenon DEF NextEntry, zookeeper_close, close_throws, vars, userVars, futures
<1> QED
  BY <1>1, <1>2, <1>3, <1>4, <1>5, <1>6, <1>7, <1>8, Zenon DEF Next, CompletionThread, Close

(* Every step keeps the safety properties, given the layers below.         *)
LEMMA NextDelivered ==
  ASSUME TypeInv, MemInv, Exclusive, Phases, Ordered, Waiting, Delivered, [Next]_vars
  PROVE  Delivered'
<1> USE RegistryAssumption DEF TypeInv, TypeOK, NoDanglingWatcher, ClosedOnlyByClose, NoLostWatch
<1> DEFINE Armed == \A c \in Call \ aliased : data[c] = "ok" /\ event[c] = NoEvent /\ handle = "open" =>
                      c \in active \/ held = c \/ NoticedIn(queue, c)
<1>0. Armed <=> WatchIsArmed
  BY DEF WatchIsArmed, NoticedIn
<1>00. Armed' <=> WatchIsArmed'
  BY Zenon DEF WatchIsArmed, NoticedIn
<1>b. ASSUME kind' = kind, ArmedIn(queue', active') PROVE ArmedIn(queue, active)'
  BY <1>b, Zenon DEF ArmedIn, NoticedIn
<1>c. \A c \in Call : pc[c] # "idle" => addr[c] \in Addr
  BY Zenon DEF Known
<1>d. \A c \in Call \ aliased : data[c] # "none" => pc[c] \in {"sent", "returned"} /\ addr[c] \in Addr
  BY <1>c, Zenon DEF Ordered
<1>e. ASSUME UNCHANGED <<pc, kind, addr, watches, data, event, handle, l_watches, held, dangling, aliased>>,
             handle = "open" =>
               /\ \A c : c \in active \/ NoticedIn(queue, c) => c \in active' \/ NoticedIn(queue', c)
               /\ ArmedIn(queue, active) => ArmedIn(queue', active')
      PROVE  Delivered'
  <2>1. NoDanglingWatcher' /\ ClosedOnlyByClose' /\ NoLostWatch'
    BY <1>e DEF Delivered
  <2>2. Armed'
    BY <1>e, <1>0, Zenon DEF Delivered
  <2>3. handle' = "open" => ArmedIn(queue, active)'
    BY <1>e, <1>b, Zenon DEF Delivered
  <2> QED
    BY <2>1, <2>2, <2>3, <1>00, Zenon DEF Delivered
<1>1. ASSUME NEW c \in Call, NEW k, begin_watch(c, k) PROVE Delivered'
  <2>1. /\ UNCHANGED <<watches, data, event, handle, l_watches, held, dangling, active, queue>>
        /\ pc[c] = "idle" /\ (c \notin aliased => data[c] = "none") /\ pc' = [pc EXCEPT ![c] = "locked"]
        /\ aliased \subseteq aliased'
        /\ \A d \in Call \ {c} : addr'[d] = addr[d] /\ kind'[d] = kind[d]
    BY <1>1, Zenon DEF begin_watch, library, futures, Ordered
  <2>2. NoDanglingWatcher' /\ ClosedOnlyByClose' /\ NoLostWatch'
    BY <2>1, Zenon DEF Delivered
  <2>3. Armed'
    BY <2>1, <1>0, Zenon DEF Delivered
  <2>4. handle' = "open" => ArmedIn(queue, active)'
    <3>1. ASSUME NEW i \in 1..Len(queue), NEW d \in queue[i].ws PROVE d # c /\ d \in Call
      <4>1. pc[d] # "idle"
        BY Zenon DEF Known
      <4> QED
        BY <2>1, <4>1, QueueTypes, Zenon
    <3> QED
      <4> SUFFICES ASSUME handle = "open", NEW i \in 1..Len(queue), queue[i].type = "answer",
                          NEW d \in queue[i].ws, outcome_of(kind'[d], queue[i].raw) = "ok"
                   PROVE  d \in active \/ NoticedIn(queue, d)
        BY <2>1, Zenon DEF ArmedIn, NoticedIn
      <4>1. kind'[d] = kind[d]
        BY <2>1, <3>1, Zenon
      <4> QED
        BY <4>1, Zenon DEF Delivered, ArmedIn
  <2> QED
    BY <2>2, <2>3, <2>4, <1>00, Zenon DEF Delivered
<1>2. ASSUME NEW c \in Call, zoo_accepts(c) PROVE Delivered'
  <2>1. /\ UNCHANGED <<kind, addr, watches, data, event, handle, l_watches, held, dangling, aliased, active, queue>>
        /\ pc' = [pc EXCEPT ![c] = "sent"]
    BY <1>2, Zenon DEF zoo_accepts, futures
  <2>2. NoDanglingWatcher' /\ ClosedOnlyByClose' /\ NoLostWatch'
    BY <2>1, Zenon DEF Delivered
  <2>3. Armed'
    BY <2>1, <1>0, Zenon DEF Delivered
  <2>4. handle' = "open" => ArmedIn(queue, active)'
    BY <2>1, <1>b, Zenon DEF Delivered
  <2> QED
    BY <2>2, <2>3, <2>4, <1>00, Zenon DEF Delivered
<1>3. ASSUME NEW c \in Call, zoo_refuses(c) PROVE Delivered'
  <2>1. /\ UNCHANGED <<kind, addr, watches, event, handle, l_watches, held, dangling, aliased, active, queue>>
        /\ pc[c] = "locked" /\ pc' = [pc EXCEPT ![c] = "returned"]
    BY <1>3, Zenon DEF zoo_refuses, library
  <2>2. PICK rc \in {"ZBADARGUMENTS", "ZINVALIDSTATE", "ZMARSHALLINGERROR"} : deliver_data(c, error_code_from_raw(rc))
    BY <1>3, Zenon DEF zoo_refuses
  <2>3. error_code_from_raw(rc) # "ok" /\ error_code_from_raw(rc) # "closed"
    BY RefusalCodes, Zenon
  <2>4. c \notin aliased => data[c] = "none"
    BY <2>1, Zenon DEF Ordered
  <2>5. (c \notin aliased => data'[c] # "ok" /\ data'[c] # "closed") /\ \A d \in Call \ {c} : data'[d] = data[d]
    BY <2>2, <2>3, <2>4, Zenon DEF deliver_data
  <2>6. NoDanglingWatcher' /\ ClosedOnlyByClose' /\ NoLostWatch'
    BY <2>1, <2>5, Zenon DEF Delivered
  <2>7. Armed'
    BY <2>1, <2>5, <1>0, Zenon DEF Delivered
  <2>8. handle' = "open" => ArmedIn(queue, active)'
    BY <2>1, <1>b, Zenon DEF Delivered
  <2> QED
    BY <2>6, <2>7, <2>8, <1>00, Zenon DEF Delivered
<1>4. ASSUME NEW c \in Call, emplace_watch(c) PROVE Delivered'
  <2>0. pc[c] = "sent" /\ addr[c] \in Addr
    BY <1>4, <1>c, Zenon DEF emplace_watch
  <2>1. watches[addr[c]] = NoCall
    BY <2>0 DEF MemInv, Owned, MapMatchesMemory
  <2>2. /\ UNCHANGED <<kind, addr, data, event, handle, l_watches, held, dangling, aliased, active, queue>>
        /\ pc' = [pc EXCEPT ![c] = "returned"] /\ watches' = [watches EXCEPT ![addr[c]] = c]
    BY <1>4, <2>1, Zenon DEF emplace_watch, library, futures
  <2>3. ASSUME NEW d \in Call \ aliased, data[d] = "ok", watches[addr[d]] = d PROVE watches'[addr[d]] = d
    BY <2>0, <2>1, <2>2, <2>3, <1>d, Zenon
  <2>4. watches'[addr[c]] = c
    BY <2>0, <2>2
  <2>5. NoDanglingWatcher' /\ ClosedOnlyByClose'
    BY <2>2 DEF Delivered
  <2>6. NoLostWatch'
    BY <2>2, <2>3, <2>4, Zenon DEF Delivered
  <2>7. Armed'
    BY <2>2, <1>0 DEF Delivered
  <2>8. handle' = "open" => ArmedIn(queue, active)'
    BY <2>2, <1>b, Zenon DEF Delivered
  <2> QED
    BY <2>5, <2>6, <2>7, <2>8, <1>00, Zenon DEF Delivered
<1>5. CASE IOThread
  <2>1. UNCHANGED <<pc, kind, addr, watches, data, event, handle, l_watches, held, dangling, aliased>>
    BY <1>5, IOSteps, Zenon DEF userVars, futures
  <2> QED
    BY <1>5, <2>1, <1>e, IOOrder, Zenon DEF Ordered
<1>6. CASE NextEntry
  <2>1. UNCHANGED <<pc, kind, addr, watches, data, event, handle, l_watches, held, dangling, aliased, active>>
    BY <1>6, Zenon DEF NextEntry, userVars, futures, library
  <2> QED
    BY <1>6, <2>1, <1>e, EntryDropped, Zenon DEF Ordered
<1>7. ASSUME NEW c \in Call, deliver_raw(c) PROVE Delivered'
  <2>1. /\ UNCHANGED <<kind, addr, pc, event, handle, active, watches, held, l_watches, aliased>>
        /\ Dispatch(c, {"answer"})
    BY <1>7, Zenon DEF deliver_raw, library, userVars
  <2> DEFINE o == outcome_of(kind[c], Head(queue).raw)
  <2>2. /\ Head(queue) \in Answer
        /\ data[c] = "none" => /\ deliver_data(c, o)
                               /\ dangling' = dangling
                               /\ pc[c] = "sent" \/ watches[addr[c]] = c
        /\ data[c] # "none" => /\ c \in aliased
                               /\ dangling' \subseteq dangling \union {c}
                               /\ \A d \in Call \ aliased : data'[d] = data[d]
    BY <1>7, AnswerFindsWatcher, Zenon
  <2>3. o = "closed" => handle # "open"
    <3>1. o = "closed" => Head(queue).raw = "ZCLOSING"
      BY <2>2, OutcomeType, Zenon DEF Answer
    <3>2. Head(queue) = queue[1] /\ Len(queue) \in Nat \ {0}
      BY <2>1, DispatchQueue, Zenon
    <3>3. 1 \in 1..Len(queue)
      BY <3>2
    <3> QED
      BY <3>1, <3>2, <3>3 DEF Phases
  <2>4. /\ \A d : NoticedIn(queue, d) => NoticedIn(queue', d)
        /\ ArmedIn(queue, active) => ArmedIn(queue', active)
        /\ o = "ok" /\ ArmedIn(queue, active) => c \in active \/ NoticedIn(queue', c)
    BY <2>1, AnswerTaken, Zenon DEF Ordered
  <2> HIDE DEF o
  <2>5. /\ c \notin aliased => data'[c] = o /\ (pc[c] = "sent" \/ watches[addr[c]] = c)
        /\ \A d \in Call \ aliased : d # c => data'[d] = data[d]
    <3>1. CASE data[c] = "none"
      BY <2>2, <3>1, Zenon DEF deliver_data
    <3>2. CASE data[c] # "none"
      BY <2>2, <3>2, Zenon
    <3> QED
      BY <3>1, <3>2, Zenon
  <2>6. NoDanglingWatcher'
    <3>1. dangling' \subseteq dangling \union aliased
      BY <2>2, Zenon
    <3> QED
      BY <2>1, <3>1 DEF Delivered
  <2>7. ClosedOnlyByClose' /\ NoLostWatch'
    BY <2>1, <2>3, <2>5, Zenon DEF Delivered
  <2>8. Armed'
    BY <2>1, <2>4, <2>5, <1>0, Zenon DEF Delivered
  <2>9. handle' = "open" => ArmedIn(queue, active)'
    BY <2>1, <2>4, <1>b, Zenon DEF Delivered
  <2> QED
    BY <2>6, <2>7, <2>8, <2>9, <1>00, Zenon DEF Delivered
<1>8. ASSUME NEW c \in Call, try_extract_watch(c) PROVE Delivered'
  <2>1. /\ UNCHANGED <<kind, addr, pc, data, event, handle, active, l_watches, dangling, aliased>>
        /\ Dispatch(c, {"session", "node"})
    BY <1>8 DEF try_extract_watch, library, userVars, futures
  <2>2. /\ addr[c] \in Addr /\ pc[c] = "returned" /\ held = NoCall
        /\ held' = watches[addr[c]]
        /\ watches' = [watches EXCEPT ![addr[c]] = NoCall]
    BY <1>8, EventFindsWatcher, Zenon
  <2>3. /\ \A d : d # c /\ NoticedIn(queue, d) => NoticedIn(queue', d)
        /\ ArmedIn(queue, active) => ArmedIn(queue', active)
    BY <2>1, NoticeTaken, Zenon DEF Ordered
  <2>4. ASSUME NEW d \in Call \ aliased, data[d] = "ok", watches[addr[d]] = d
        PROVE  watches'[addr[d]] = d \/ held' = d
    BY <2>2, <2>4, <1>d, Zenon
  <2>5. NoDanglingWatcher' /\ ClosedOnlyByClose'
    BY <2>1 DEF Delivered
  <2>6. NoLostWatch'
    BY <2>1, <2>2, <2>4, Zenon DEF Delivered
  <2>7. c \notin aliased /\ data[c] = "ok" /\ event[c] = NoEvent /\ handle = "open" => held' = c
    BY <2>2, Zenon DEF Delivered, Phases
  <2>8. Armed'
    BY <2>1, <2>2, <2>3, <2>7, <1>0, Zenon DEF Delivered
  <2>9. handle' = "open" => ArmedIn(queue, active)'
    BY <2>1, <2>3, <1>b, Zenon DEF Delivered
  <2> QED
    BY <2>5, <2>6, <2>8, <2>9, <1>00, Zenon DEF Delivered
<1>9. ASSUME NEW c \in Call, NEW ev, ev # NoEvent, deliver_event(c, ev), c \in l_watches \/ c = held,
             held' \in {held, NoCall}, held' # held => c = held,
             l_watches' = l_watches \ {c},
             UNCHANGED <<kind, addr, pc, handle, watches, dangling, aliased, active, queue>>
      PROVE  Delivered'
  <2>0. /\ \A d \in Call \ aliased : data'[d] = data[d]
        /\ event' = [event EXCEPT ![c] = IF @ = NoEvent THEN ev ELSE @]
    BY <1>9, EventOnly, Zenon
  <2>1. /\ \A d \in Call \ aliased : data'[d] = data[d]
        /\ event'[c] # NoEvent /\ \A d \in Call \ {c} : event'[d] = event[d]
    BY <1>9, <2>0, Zenon
  <2>2. NoDanglingWatcher' /\ ClosedOnlyByClose'
    BY <1>9, <2>1, Zenon DEF Delivered
  <2>3. NoLostWatch'
    BY <1>9, <2>1 DEF Delivered
  <2>4. Armed'
    BY <1>9, <2>1, <1>0, Zenon DEF Delivered
  <2>5. handle' = "open" => ArmedIn(queue, active)'
    BY <1>9, <1>b, Zenon DEF Delivered
  <2> QED
    BY <2>2, <2>3, <2>4, <2>5, <1>00, Zenon DEF Delivered
<1>10. CASE deliver_watch
  <2> DEFINE ev == [type |-> Head(queue).type, state |-> state_from_raw(Head(queue).raw)]
  <2>1. held \in Call /\ held \notin l_watches /\ deliver_event(held, ev) /\ Head(queue) \in Notice
    BY <1>10, Zenon DEF deliver_watch, Known, MemInv, Owned
  <2>2. ev # NoEvent
    BY <2>1, Zenon DEF Notice, NoEvent
  <2>3. UNCHANGED <<kind, addr, pc, handle, watches, l_watches, dangling, aliased, active, queue>> /\ held' = NoCall
    BY <1>10, Zenon DEF deliver_watch, userVars, library
  <2>4. l_watches' = l_watches \ {held}
    BY <2>1, <2>3
  <2> HIDE DEF ev
  <2> QED
    BY <2>1, <2>2, <2>3, <2>4, <1>9, Zenon
<1>11. ASSUME NEW c \in Call, close_deliver(c) PROVE Delivered'
  <2> DEFINE ev == [type |-> "session", state |-> "closed"]
  <2>1. ev # NoEvent /\ deliver_event(c, ev) /\ c \in l_watches
    BY <1>11, Zenon DEF close_deliver, NoEvent
  <2>2. UNCHANGED <<kind, addr, pc, handle, watches, held, dangling, aliased, active, queue>> /\ l_watches' = l_watches \ {c}
    BY <1>11, Zenon DEF close_deliver, userVars, library
  <2> HIDE DEF ev
  <2> QED
    BY <2>1, <2>2, <1>9, Zenon
<1>12. CASE zookeeper_close \/ close_throws \/ close_extract
  <2>1. /\ UNCHANGED <<kind, addr, pc, data, event, held, dangling, aliased>> /\ handle' # "open"
    BY <1>12, Zenon DEF zookeeper_close, close_throws, close_extract, userVars, futures
  <2>2. \A c \in Call \ aliased : data[c] = "ok" /\ watches[addr[c]] = c => watches'[addr[c]] = c \/ c \in l_watches'
    <3>1. CASE zookeeper_close \/ close_throws
      BY <3>1, Zenon DEF zookeeper_close, close_throws
    <3>2. CASE close_extract
      BY <3>2, <1>d DEF close_extract
    <3> QED
      BY <1>12, <3>1, <3>2, Zenon
  <2>3. l_watches \subseteq l_watches'
    BY <1>12, Zenon DEF zookeeper_close, close_throws, close_extract, Phases
  <2>4. NoDanglingWatcher' /\ ClosedOnlyByClose'
    BY <2>1, Zenon DEF Delivered
  <2>5. NoLostWatch'
    BY <2>1, <2>2, <2>3, Zenon DEF Delivered
  <2> QED
    BY <2>1, <2>4, <2>5 DEF Delivered, WatchIsArmed
<1>13. CASE UNCHANGED vars
  <2>1. UNCHANGED <<pc, kind, addr, watches, data, event, handle, l_watches, held, dangling, aliased, active, queue>>
    BY <1>13 DEF vars, userVars, futures, library
  <2> QED
    BY <2>1, <1>e, Zenon
<1>14. ASSUME NEW c \in Call, User(c) PROVE Delivered'
  BY <1>14, <1>1, <1>2, <1>3, <1>4, Zenon DEF User, watch, watch_children, watch_exists
<1> QED
  BY <1>5, <1>6, <1>7, <1>8, <1>10, <1>11, <1>12, <1>13, <1>14, Zenon DEF Next, CompletionThread, Close

-----------------------------------------------------------------------------
(* The theorems. *)

IndInv == TypeInv /\ MemInv /\ Exclusive /\ Phases /\ Ordered /\ Waiting /\ Delivered

(* A new connection satisfies the invariant. *)
LEMMA InitInd == Init => IndInv
<1> SUFFICES ASSUME Init PROVE IndInv
  OBVIOUS
<1> USE RegistryAssumption DEF Init
<1>0. Len(queue) = 0 /\ 1..Len(queue) = {}
  OBVIOUS
<1>1. Exclusive /\ Waiting
  BY DEF Exclusive, Waiting
<1>2. Phases
  BY <1>0 DEF Phases
<1>3. Ordered
  BY <1>0 DEF Ordered, InOrder, seen
<1>4. Delivered
  BY <1>0 DEF Delivered, NoDanglingWatcher, ClosedOnlyByClose, NoLostWatch, ArmedIn, WatchIsArmed
<1> QED
  BY <1>1, <1>2, <1>3, <1>4, InitTypes, InitMemory, Zenon DEF IndInv

(* Every step keeps the invariant. *)
LEMMA NextInd ==
  ASSUME IndInv, [Next]_vars
  PROVE  IndInv'
BY NextTypes, NextMemory, NextExclusive, NextPhases, NextOrdered, NextWaiting, NextDelivered, Zenon DEF IndInv

(* When close is over, nobody waits: the queue is empty, so every answer   *)
(* was delivered, and so is close's copy of _watches, where a watch that   *)
(* has had no event would be.                                              *)
LEMMA IndSettles == IndInv => CloseSettlesAll
<1> SUFFICES ASSUME IndInv, handle = "null", l_watches = {}, NEW c \in Call, pc[c] = "returned"
             PROVE  data[c] # "none" /\ (data[c] = "ok" /\ c \notin aliased => event[c] # NoEvent)
  BY DEF CloseSettlesAll
<1> USE RegistryAssumption DEF IndInv
<1>1. /\ pending = {} /\ queue = <<>> /\ held = NoCall
      /\ \A a \in Addr : watches[a] = NoCall
  BY Zenon DEF Phases
<1>2. ~AskedIn(queue, pending, c)
  BY <1>1 DEF AskedIn
<1>3. data[c] # "none"
  BY <1>2, Zenon DEF Ordered
<1>4. addr[c] \in Addr
  BY DEF TypeInv, Known
<1>5. data[c] = "ok" /\ c \notin aliased => event[c] # NoEvent
  BY <1>1, <1>4, Zenon DEF Delivered, NoLostWatch
<1> QED
  BY <1>3, <1>5, Zenon

(* The invariant holds for ever.                                           *)
LEMMA AlwaysInd == Spec => []IndInv
<1>1. IndInv /\ [Next]_vars => IndInv'
  BY NextInd, Zenon
<1> QED
  BY <1>1, InitInd, PTL DEF Spec

(* deliver_raw, which has no reference to the watcher whose address it is  *)
(* given, runs on a watcher that was freed only for a call whose watcher   *)
(* got an address that the C library still had for an earlier one.         *)
THEOREM NoUseAfterFree == Spec => []NoDanglingWatcher
<1>1. IndInv => NoDanglingWatcher
  BY Zenon DEF IndInv, Delivered
<1> QED
  BY <1>1, AlwaysInd, PTL

(* While the connection is open no answer is settled with the error        *)
(* closed, except of such a call.                                          *)
THEOREM ClosedMeansClosed == Spec => []ClosedOnlyByClose
<1>1. IndInv => ClosedOnlyByClose
  BY Zenon DEF IndInv, Delivered
<1> QED
  BY <1>1, AlwaysInd, PTL

(* No watch is lost between _watches, deliver_watch and close, except of   *)
(* such a call.                                                            *)
THEOREM WatchesAreKept == Spec => []NoLostWatch
<1>1. IndInv => NoLostWatch
  BY DEF IndInv, Delivered
<1> QED
  BY <1>1, AlwaysInd, PTL

(* While the connection is open, a watch whose caller waits for the event  *)
(* is known to the C library, or its event is queued or being delivered,   *)
(* except of such a call.                                                  *)
THEOREM WatchesStayArmed == Spec => []WatchIsArmed
<1>1. IndInv => WatchIsArmed
  BY DEF IndInv, Delivered
<1> QED
  BY <1>1, AlwaysInd, PTL

(* When close has returned, every answer is settled, of aliased calls too, *)
(* and every watch of another call has had its event.                      *)
THEOREM CloseLeavesNobody == Spec => []CloseSettlesAll
BY IndSettles, AlwaysInd, PTL

-----------------------------------------------------------------------------
(* WatchRegistry implements WatchContract: seen through the futures, every *)
(* step of the machinery is a step the contract allows, or none.           *)

(* The variables of the contract; its answer is seen. *)
accepted == {c \in Call \ aliased : pc[c] \in {"sent", "returned"}}
next     == [c \in Call |-> IF c \notin aliased /\ data[c] = "ok" THEN event[c] ELSE NoEvent]
phase    == IF handle = "open" THEN "open"
            ELSE IF handle = "null" /\ l_watches = {} THEN "closed"
            ELSE "closing"

(* A new connection has no call, no answer and no event. *)
LEMMA InitContract == Init => Contract!Init
<1> SUFFICES ASSUME Init PROVE Contract!Init
  OBVIOUS
<1>1. accepted = {} /\ next = [c \in Call |-> NoEvent] /\ phase = "open" /\ seen = [c \in Call |-> "none"]
  BY DEF Init, accepted, next, phase, seen
<1> QED
  BY <1>1 DEF Contract!Init, accepted, next, phase, seen

(* A step that changes none of what the caller sees. *)
LEMMA Unseen ==
  ASSUME accepted' = accepted, seen' = seen, next' = next, phase' = phase
  PROVE  UNCHANGED Contract!vars
BY DEF Contract!vars, accepted, next, phase, seen

(* A step leaves the contract's variables alone if it leaves pc, the       *)
(* handle, close's copy and the promises of calls that are not aliased     *)
(* alone.                                                                  *)
LEMMA UnseenVars ==
  ASSUME UNCHANGED <<pc, handle, l_watches, event, aliased>>, \A c \in Call \ aliased : data'[c] = data[c]
  PROVE  UNCHANGED Contract!vars
<1>1. accepted' = accepted /\ seen' = seen /\ next' = next /\ phase' = phase
  BY DEF accepted, next, phase, seen
<1> QED
  BY <1>1, Unseen

AllDone == \A c \in accepted : seen[c] # "none" /\ (seen[c] = "ok" => next[c] # NoEvent)

(* When close is over every call is settled. *)
Over == phase = "closed" => AllDone

(* The end of close: every call is settled. *)
LEMMA AllSettled == IndInv => Over
<1> SUFFICES ASSUME IndInv, phase = "closed" PROVE AllDone
  BY DEF Over
<1>1. handle = "null" /\ l_watches = {}
  BY DEF phase
<1>2. \A c \in Call : pc[c] # "sent"
  BY <1>1 DEF IndInv, Phases
<1>3. CloseSettlesAll
  BY IndSettles
<1> QED
  BY <1>1, <1>2, <1>3 DEF CloseSettlesAll, accepted, next, seen, AllDone

(* The contract's view of a step that gives the event ev to the watcher c. *)
LEMMA EventStep ==
  ASSUME IndInv, Over', NEW c \in Call, NEW ev \in Event, deliver_event(c, ev), c \in l_watches \/ c = held,
         UNCHANGED <<pc, handle, aliased>>, l_watches' = l_watches \ {c},
         ev.state = "closed" => phase = "closing"
  PROVE  [Contract!Next]_(Contract!vars)
<1>0. phase' = "closed" => AllDone'
  BY DEF Over
<1> USE DEF IndInv, TypeInv, TypeOK
<1>1. (\A d \in Call \ aliased : data'[d] = data[d]) /\ event' = [event EXCEPT ![c] = ev]
  <2>1. (\A d \in Call \ aliased : data'[d] = data[d]) /\ event' = [event EXCEPT ![c] = IF @ = NoEvent THEN ev ELSE @]
    BY EventOnly
  <2>2. event[c] = NoEvent
    BY DEF Waiting
  <2> QED
    BY <2>1, <2>2
<1>2. accepted' = accepted /\ seen' = seen
  BY <1>1 DEF accepted, seen
<1>3. phase' = phase \/ (phase = "closing" /\ phase' = "closed")
  BY Zenon DEF phase, Phases
<1>4. CASE c \notin aliased /\ data[c] = "ok"
  <2>1. next' = [next EXCEPT ![c] = ev] /\ next[c] = NoEvent
    <3>1. event[c] = NoEvent
      BY DEF Waiting
    <3>2. next[c] = NoEvent
      BY <3>1 DEF next
    <3>3. next' = [d \in Call |-> IF d \notin aliased /\ data[d] = "ok" THEN event'[d] ELSE NoEvent]
      BY <1>1 DEF next
    <3>4. \A d \in Call : next'[d] = IF d = c THEN ev ELSE next[d]
      BY <1>1, <1>4, <3>3 DEF next
    <3>5. next' \in [Call -> Event \union {NoEvent}] /\ next \in [Call -> Event \union {NoEvent}]
      BY <1>1, <3>3 DEF next
    <3> QED
      BY <3>2, <3>4, <3>5
  <2>2. seen[c] = "ok"
    BY <1>4 DEF seen
  <2>3. Contract!Fire(c)
    BY <1>2, <1>3, <2>1, <2>2, <1>0, Zenon
       DEF AllDone, Contract!Fire, Contract!Settled, Contract!IsClosed, accepted, next, phase, seen
  <2> QED
    BY <2>3 DEF Contract!Next
<1>5. CASE c \in aliased \/ data[c] # "ok"
  <2>1. next' = next
    BY <1>1, <1>5 DEF next
  <2>2. CASE phase' = phase
    BY <1>2, <2>1, <2>2, Unseen
  <2>3. CASE phase = "closing" /\ phase' = "closed"
    <3>1. AllDone'
      BY <2>3, <1>0
    <3>2. AllDone
      BY <3>1, <1>2, <2>1, Zenon DEF AllDone
    <3>3. Contract!EndClose
      BY <1>2, <2>1, <2>3, <3>2, Zenon DEF AllDone, Contract!EndClose, Contract!Settled, accepted, next, phase, seen
    <3> QED
      BY <3>3 DEF Contract!Next
  <2> QED
    BY <1>3, <2>2, <2>3
<1> QED
  BY <1>4, <1>5

(* Every step is a step of the contract, or is not seen. *)
LEMMA NextContract ==
  ASSUME IndInv, Over', [Next]_vars
  PROVE  [Contract!Next]_(Contract!vars)
<1> USE RegistryAssumption
<1>0. /\ TypeInv /\ MemInv /\ Exclusive /\ Phases /\ Ordered /\ Waiting /\ Delivered
      /\ pc \in [Call -> {"idle", "locked", "sent", "returned"}]
      /\ data \in [Call -> ErrorCode \union {"none"}]
      /\ event \in [Call -> Event \union {NoEvent}]
      /\ kind \in [Call -> Kind]
      /\ held \in Call \union {NoCall}
      /\ queue \in Seq(Entry)
  BY Zenon DEF IndInv, TypeInv, TypeOK
<1>1. ASSUME NEW c \in Call, NEW k, begin_watch(c, k) PROVE UNCHANGED Contract!vars
  <2>1. /\ UNCHANGED <<data, event, handle, l_watches>> /\ pc[c] = "idle" /\ pc' = [pc EXCEPT ![c] = "locked"]
        /\ aliased' = aliased \/ aliased' = aliased \union {c}
    BY <1>1 DEF begin_watch, futures
  <2>2. c \notin aliased => data[c] = "none"
    BY <2>1, <1>0 DEF Ordered
  <2>3. accepted' = accepted
    BY <2>1, <1>0 DEF accepted
  <2>4. seen' = seen /\ next' = next /\ phase' = phase
    BY <2>1, <2>2, <1>0 DEF seen, next, phase
  <2> QED
    BY <2>3, <2>4, Unseen
<1>2. ASSUME NEW c \in Call, zoo_accepts(c) PROVE Contract!Accept(c) \/ UNCHANGED Contract!vars
  <2>1. /\ UNCHANGED <<data, event, handle, l_watches, aliased>> /\ handle = "open"
        /\ pc[c] = "locked" /\ pc' = [pc EXCEPT ![c] = "sent"]
    BY <1>2 DEF zoo_accepts, futures
  <2>2. seen' = seen /\ next' = next /\ phase' = phase /\ phase = "open"
    BY <2>1 DEF seen, next, phase
  <2>3. CASE c \in aliased
    <3>1. accepted' = accepted
      BY <2>1, <2>3, <1>0 DEF accepted
    <3> QED
      BY <2>2, <3>1, Unseen
  <2>4. CASE c \notin aliased
    <3>1. accepted' = accepted \union {c} /\ c \notin accepted
      BY <2>1, <2>4, <1>0 DEF accepted
    <3> QED
      BY <2>2, <3>1 DEF Contract!Accept, accepted, next, phase, seen
  <2> QED
    BY <2>3, <2>4
<1>3. ASSUME NEW c \in Call, zoo_refuses(c) PROVE Contract!Refuse(c) \/ UNCHANGED Contract!vars
  <2>1. /\ UNCHANGED <<event, handle, l_watches, aliased>>
        /\ pc[c] = "locked" /\ pc' = [pc EXCEPT ![c] = "returned"]
    BY <1>3 DEF zoo_refuses
  <2>2. PICK rc \in {"ZBADARGUMENTS", "ZINVALIDSTATE", "ZMARSHALLINGERROR"} : deliver_data(c, error_code_from_raw(rc))
    BY <1>3 DEF zoo_refuses
  <2> DEFINE e == error_code_from_raw(rc)
  <2>3. e \in ErrorCode \ {"ok", "closed"}
    <3>1. rc \in RawCode
      BY DEF RawCode, error_code, UnnamedRaw
    <3> QED
      BY <3>1, ErrorCodeType, RefusalCodes
  <2>4. c \notin aliased => data[c] = "none"
    BY <2>1, <1>0, Zenon DEF Ordered
  <2>5. deliver_data(c, e)
    BY <2>2
  <2> HIDE DEF e
  <2>6. data' = [data EXCEPT ![c] = IF data[c] = "none" THEN e ELSE data[c]]
    BY <2>5, <1>0 DEF deliver_data
  <2>7. CASE c \in aliased
    <3>1. accepted' = accepted
      BY <2>1, <2>7, <1>0 DEF accepted
    <3>2. seen' = seen /\ next' = next /\ phase' = phase
      BY <2>1, <2>6, <2>7, <1>0 DEF seen, next, phase
    <3> QED
      BY <3>1, <3>2, Unseen
  <2>8. CASE c \notin aliased
    <3>1. accepted' = accepted \union {c} /\ c \notin accepted
      BY <2>1, <2>8, <1>0 DEF accepted
    <3>2. data' = [data EXCEPT ![c] = e]
      BY <2>4, <2>6, <2>8, Zenon
    <3>3. next' = next /\ phase' = phase
      BY <2>1, <2>3, <2>4, <2>8, <3>2, <1>0 DEF next, phase
    <3>4. seen' = [seen EXCEPT ![c] = e]
      BY <2>1, <2>8, <3>2, <1>0, Zenon DEF seen
    <3> QED
      BY <2>3, <3>1, <3>3, <3>4, Zenon DEF Contract!Refuse, accepted, next, phase, seen
  <2> QED
    BY <2>7, <2>8
<1>4. ASSUME NEW c \in Call, emplace_watch(c) PROVE UNCHANGED Contract!vars
  <2>1. UNCHANGED <<data, event, handle, l_watches, aliased>> /\ pc[c] = "sent" /\ pc' = [pc EXCEPT ![c] = "returned"]
    BY <1>4 DEF emplace_watch, futures
  <2>2. accepted' = accepted
    BY <2>1, <1>0 DEF accepted
  <2>3. seen' = seen /\ next' = next /\ phase' = phase
    BY <2>1 DEF seen, next, phase
  <2> QED
    BY <2>2, <2>3, Unseen
<1>5. CASE IOThread
  BY <1>0, <1>5, IOSteps, UnseenVars DEF userVars, futures
<1>6. CASE NextEntry \/ (\E c \in Call : try_extract_watch(c)) \/ UNCHANGED vars
  BY <1>6, UnseenVars DEF NextEntry, try_extract_watch, vars, userVars, futures
<1>7. ASSUME NEW c \in Call, deliver_raw(c) PROVE Contract!Settle(c) \/ UNCHANGED Contract!vars
  <2> DEFINE e == outcome_of(kind[c], Head(queue).raw)
  <2>1. /\ UNCHANGED <<pc, event, handle, l_watches, aliased>> /\ Dispatch(c, {"answer"})
    BY <1>7, Zenon DEF deliver_raw, userVars
  <2>2. /\ Head(queue) \in Answer
        /\ pc[c] \in {"sent", "returned"}
        /\ data[c] = "none" => deliver_data(c, e) /\ (pc[c] = "sent" \/ watches[addr[c]] = c)
        /\ data[c] # "none" => c \in aliased /\ \A d \in Call \ aliased : data'[d] = data[d]
    BY <1>0, <1>7, AnswerFindsWatcher
  <2>3. e \in ErrorCode /\ (e = "closed" => Head(queue).raw = "ZCLOSING")
    BY <1>0, <2>2, OutcomeType DEF Answer
  <2>4. Head(queue) = queue[1] /\ Len(queue) \in Nat \ {0} /\ queue # <<>>
    BY <1>0, <2>1, DispatchQueue DEF Dispatch
  <2>5. e = "closed" => phase = "closing"
    <3>1. 1 \in 1..Len(queue)
      BY <2>4
    <3> QED
      BY <1>0, <2>3, <2>4, <3>1 DEF Phases, phase
  <2> HIDE DEF e
  <2>6. data[c] = "none" => data' = [data EXCEPT ![c] = e]
    BY <1>0, <2>2 DEF deliver_data
  <2>7. CASE c \in aliased
    <3>1. \A d \in Call \ aliased : data'[d] = data[d]
      BY <1>0, <2>2, <2>6, <2>7
    <3> QED
      BY <2>1, <3>1, UnseenVars
  <2>8. CASE c \notin aliased
    <3>1. data[c] = "none" /\ data' = [data EXCEPT ![c] = e]
      BY <2>2, <2>6, <2>8
    <3>2. event[c] = NoEvent
      <4>1. addr[c] \in Addr
        BY <1>0, <2>2, Zenon DEF TypeInv, Known
      <4> QED
        BY <1>0, <2>2, <3>1, <4>1, Zenon DEF Waiting
    <3>3. accepted' = accepted /\ c \in accepted /\ phase' = phase
      BY <2>1, <2>2, <2>8 DEF accepted, phase
    <3>4. next' = next
      BY <1>0, <2>1, <3>1, <3>2 DEF next
    <3>5. seen' = [seen EXCEPT ![c] = e] /\ seen[c] = "none"
      BY <1>0, <2>1, <2>8, <3>1, Zenon DEF seen
    <3> QED
      BY <2>3, <2>5, <3>3, <3>4, <3>5, Zenon DEF Contract!Settle, accepted, next, phase, seen
  <2> QED
    BY <2>7, <2>8
<1>8. CASE deliver_watch
  <2> DEFINE ev == [type |-> Head(queue).type, state |-> state_from_raw(Head(queue).raw)]
  <2>1. held \in Call /\ held \notin l_watches /\ deliver_event(held, ev) /\ Head(queue) \in Notice
    BY <1>0, <1>8, Zenon DEF deliver_watch, TypeInv, Known, MemInv, Owned
  <2>2. ev \in Event
    BY <2>1, EventType
  <2>3. ev.state # "closed"
    BY <2>1 DEF Notice, RawState, state_from_raw, state
  <2>4. UNCHANGED <<pc, handle, aliased>> /\ l_watches' = l_watches \ {held}
    BY <1>8, <2>1 DEF deliver_watch, userVars
  <2> HIDE DEF ev
  <2> QED
    BY <2>1, <2>2, <2>3, <2>4, EventStep
<1>9. ASSUME NEW c \in Call, close_deliver(c) PROVE [Contract!Next]_(Contract!vars)
  <2> DEFINE ev == [type |-> "session", state |-> "closed"]
  <2>1. ev \in Event /\ deliver_event(c, ev) /\ c \in l_watches
    BY <1>9 DEF close_deliver, Event
  <2>2. UNCHANGED <<pc, handle, aliased>> /\ l_watches' = l_watches \ {c}
    BY <1>9 DEF close_deliver, userVars
  <2>3. phase = "closing"
    BY <1>0, <2>1, Zenon DEF Phases, phase
  <2> HIDE DEF ev
  <2> QED
    BY <2>1, <2>2, <2>3, EventStep
<1>10. CASE zookeeper_close
  <2>1. UNCHANGED <<pc, data, event, l_watches, aliased>> /\ handle = "open" /\ handle' = "closing"
    BY <1>10 DEF zookeeper_close, userVars, futures
  <2>2. accepted' = accepted /\ seen' = seen /\ next' = next /\ phase = "open" /\ phase' = "closing"
    BY <2>1 DEF accepted, next, phase, seen
  <2> QED
    BY <2>2 DEF Contract!Next, Contract!BeginClose, accepted, next, phase, seen
<1>11. CASE close_throws
  <2>1. UNCHANGED <<pc, data, event, l_watches, aliased>> /\ handle = "closing" /\ handle' = "failed"
    BY <1>11 DEF close_throws, userVars, futures
  <2>2. accepted' = accepted /\ seen' = seen /\ next' = next /\ phase' = phase
    BY <2>1 DEF accepted, next, phase, seen
  <2> QED
    BY <2>2, Unseen
<1>12. CASE close_extract
  <2>1. UNCHANGED <<pc, data, event, aliased>> /\ handle = "closing" /\ handle' = "null"
    BY <1>12 DEF close_extract, userVars, futures
  <2>2. accepted' = accepted /\ seen' = seen /\ next' = next /\ phase = "closing" /\ phase' \in {"closing", "closed"}
    BY <2>1 DEF accepted, next, phase, seen
  <2>3. CASE phase' = "closed"
    <3>1. AllDone
      BY <2>2, <2>3 DEF Over, AllDone
    <3> QED
      BY <2>2, <2>3, <3>1, Zenon DEF AllDone, Contract!Next, Contract!EndClose, Contract!Settled, accepted, next, phase, seen
  <2> QED
    BY <2>2, <2>3, Unseen
<1>13. ASSUME NEW c \in Call, User(c) PROVE [Contract!Next]_(Contract!vars)
  BY <1>13, <1>1, <1>2, <1>3, <1>4 DEF User, watch, watch_children, watch_exists, Contract!Next
<1> QED
  BY <1>5, <1>6, <1>7, <1>8, <1>9, <1>10, <1>11, <1>12, <1>13 DEF Next, CompletionThread, Close, Contract!Next

(* The watch operations, for any number of calls and of session changes,   *)
(* do to the futures only what the contract allows: one answer, one event  *)
(* after a successful answer, closed only from close, everything settled   *)
(* when close has returned.  The futures of calls whose watcher the C      *)
(* library takes for an earlier one are left out.                          *)
THEOREM ImplementsContract == Spec => MeetsContract
<1>1. IndInv /\ Over' /\ [Next]_vars => [Contract!Next]_(Contract!vars)
  BY NextContract
<1> QED
  BY <1>1, InitContract, AlwaysInd, AllSettled, PTL DEF Spec, MeetsContract, Contract!Spec
=============================================================================
