------------------------- MODULE WatchRegistryProofs -------------------------
(***************************************************************************)
(* Proofs about WatchRegistry, for any set of calls, any set of addresses  *)
(* and any number of session changes: types, who owns each watcher, and    *)
(* the order of the queue of callbacks, on which WatchDeliveryProofs       *)
(* builds.                                                                 *)
(***************************************************************************)
EXTENDS WatchRegistry, SequenceTheorems, TLAPS

-----------------------------------------------------------------------------
(* Facts about the conversions and the queue. *)

(* error_code_from_raw yields an error code, never the mark of an empty    *)
(* promise.                                                                *)
LEMMA ErrorCodeType ==
  ASSUME NEW raw \in RawCode
  PROVE  error_code_from_raw(raw) \in ErrorCode
BY Zenon DEF ErrorCode

(* An answer settles its promise: the outcome of deliver_raw is never      *)
(* "none".                                                                 *)
LEMMA NoneIsNoCode == "none" \notin ErrorCode
BY DEF ErrorCode, RawCode, error_code_from_raw, cast, error_code, UnnamedRaw

(* "ok" and "closed" are error codes. *)
LEMMA OkIsCode == "ok" \in ErrorCode /\ "closed" \in ErrorCode
<1>1. "ZOK" \in RawCode /\ "ZCLOSING" \in RawCode
  BY DEF RawCode, error_code
<1>2. error_code_from_raw("ZOK") = "ok" /\ error_code_from_raw("ZCLOSING") = "closed"
  BY DEF error_code_from_raw, cast, error_code, UnnamedRaw
<1> QED
  BY <1>1, <1>2 DEF ErrorCode

(* Only ZOK, and ZNONODE for watch_exists, is a success for deliver_raw.   *)
LEMMA OkFromRaw ==
  ASSUME NEW k \in Kind, NEW raw \in RawCode, outcome_of(k, raw) = "ok"
  PROVE  raw = "ZOK" \/ (k = "exists" /\ raw = "ZNONODE")
<1>1. error_code_from_raw(raw) = "ok" => raw = "ZOK"
  BY DEF RawCode, error_code_from_raw, cast, error_code, UnnamedRaw
<1>2. error_code_from_raw(raw) = "no_entry" => raw = "ZNONODE"
  BY DEF RawCode, error_code_from_raw, cast, error_code, UnnamedRaw
<1> QED
  BY <1>1, <1>2, Zenon DEF Kind, outcome_of, data_watcher_outcome, child_watcher_outcome, exists_watcher_outcome

(* Only ZCLOSING is turned into the error closed. *)
LEMMA ClosedFromClosing ==
  ASSUME NEW raw \in RawCode, error_code_from_raw(raw) = "closed"
  PROVE  raw = "ZCLOSING"
BY DEF RawCode, error_code_from_raw, cast, error_code, UnnamedRaw

(* deliver_raw of every kind of watcher yields an error code. *)
LEMMA OutcomeType ==
  ASSUME NEW k \in Kind, NEW raw \in RawCode
  PROVE  /\ outcome_of(k, raw) \in ErrorCode
         /\ outcome_of(k, raw) # "none"
         /\ outcome_of(k, raw) = "closed" => raw = "ZCLOSING"
<1>1. error_code_from_raw(raw) \in ErrorCode
  BY ErrorCodeType, Zenon
<1>2. error_code_from_raw(raw) = "closed" => raw = "ZCLOSING"
  BY ClosedFromClosing
<1> QED
  BY <1>1, <1>2, NoneIsNoCode, OkIsCode, Zenon
     DEF Kind, outcome_of, data_watcher_outcome, child_watcher_outcome, exists_watcher_outcome

(* The event that deliver_watch delivers is an event. *)
LEMMA EventType ==
  ASSUME NEW e \in Notice
  PROVE  [type |-> e.type, state |-> state_from_raw(e.raw)] \in Event
BY DEF Notice, Event

(* An entry appended to the completion queue comes last. *)
LEMMA AppendEntry ==
  ASSUME NEW q \in Seq(Entry), NEW e \in Entry
  PROVE  /\ Append(q, e) \in Seq(Entry)
         /\ Append(q, e) # <<>>
         /\ Len(Append(q, e)) = Len(q) + 1
         /\ \A i \in 1..Len(q) : Append(q, e)[i] = q[i]
         /\ Append(q, e)[Len(q) + 1] = e
         /\ q # <<>> => Head(Append(q, e)) = Head(q)
<1>1. /\ Append(q, e) \in Seq(Entry)
      /\ Len(Append(q, e)) = Len(q) + 1
      /\ \A i \in 1..Len(q) : Append(q, e)[i] = q[i]
      /\ Append(q, e)[Len(q) + 1] = e
  OBVIOUS
<1>2. Append(q, e) # <<>>
  BY <1>1
<1>3. ASSUME q # <<>> PROVE Head(Append(q, e)) = Head(q)
  <2>1. 1 \in 1..Len(q) /\ Head(q) = q[1]
    BY <1>3
  <2> QED
    BY <1>1, <1>2, <2>1
<1> QED
  BY <1>1, <1>2, <1>3

(* The entry a disconnect appends, and the one it appends after it. *)
LEMMA EntryType ==
  ASSUME NEW cs \in SUBSET Call
  PROVE  /\ \A raw \in RawCode : entry("answer", cs, raw) \in Answer
         /\ \A raw \in RawState : entry("session", cs, raw) \in Notice
         /\ \A raw \in RawState : entry("node", cs, raw) \in Notice
BY Zenon DEF entry, Answer, Notice

(* The completion thread takes one call out of the first entry. *)
LEMMA DispatchQueue ==
  ASSUME queue \in Seq(Entry), NEW c, NEW types, Dispatch(c, types)
  PROVE  /\ queue' \in Seq(Entry)
         /\ queue' # <<>>
         /\ Len(queue') = Len(queue)
         /\ Len(queue) \in Nat \ {0}
         /\ queue[1] \in Entry
         /\ Head(queue) = queue[1]
         /\ Head(queue') = queue'[1]
         /\ queue'[1] = [queue[1] EXCEPT !.ws = @ \ {c}]
         /\ queue'[1].type = queue[1].type
         /\ queue'[1].raw = queue[1].raw
         /\ queue'[1].ws = queue[1].ws \ {c}
         /\ \A i \in 2..Len(queue) : queue'[i] = queue[i]
<1> DEFINE e == [queue[1] EXCEPT !.ws = @ \ {c}]
<1>1. /\ queue # <<>> /\ Len(queue) \in Nat \ {0} /\ queue[1] \in Entry /\ Head(queue) = queue[1]
  BY DEF Dispatch
<1>2. queue' = [queue EXCEPT ![1] = e]
  BY DEF Dispatch
<1>3. e \in Entry /\ e.type = queue[1].type /\ e.raw = queue[1].raw /\ e.ws = queue[1].ws \ {c}
  BY <1>1, Zenon DEF Entry, Answer, Notice
<1>4. 1 \in 1..Len(queue)
  BY <1>1
<1> HIDE DEF e
<1>5. /\ queue' \in Seq(Entry)
      /\ Len(queue') = Len(queue)
      /\ \A j \in 1..Len(queue) : queue'[j] = IF j = 1 THEN e ELSE queue[j]
  BY <1>2, <1>3, <1>4, ExceptSeq
<1>6. queue'[1] = e /\ \A i \in 2..Len(queue) : queue'[i] = queue[i]
  BY <1>1, <1>4, <1>5
<1>7. queue' # <<>> /\ Head(queue') = queue'[1]
  BY <1>1, <1>5
<1> QED
  BY <1>1, <1>3, <1>5, <1>6, <1>7, Zenon DEF e

(* The completion thread drops the first entry when it is done with it. *)
LEMMA TailEntry ==
  ASSUME NEW q \in Seq(Entry), q # <<>>
  PROVE  /\ Tail(q) \in Seq(Entry)
         /\ Len(Tail(q)) = Len(q) - 1
         /\ Len(q) \in Nat \ {0}
         /\ Head(q) = q[1]
         /\ \A i \in 1..Len(Tail(q)) : Tail(q)[i] = q[i + 1]
OBVIOUS
-----------------------------------------------------------------------------
(* Types.  The type invariant is inductive together with the facts that    *)
(* the C library knows only calls whose watcher has been given an address, *)
(* and that deliver_watch holds a watcher only while it runs for an event. *)

Known ==
  /\ \A c \in Call : pc[c] # "idle" => addr[c] \in Addr
  /\ \A c \in pending \union active : pc[c] \in {"sent", "returned"}
  /\ \A i \in 1..Len(queue) : \A c \in queue[i].ws : pc[c] \in {"sent", "returned"}
  /\ held # NoCall => queue # <<>> /\ Head(queue) \in Notice

TypeInv == TypeOK /\ Known

(* The program counter of a call only moves forward, so calls known to the *)
(* C library stay known while the queue does not change.                   *)
LEMMA UserTypes ==
  ASSUME TypeInv, NEW c \in Call, User(c)
  PROVE  TypeInv'
<1> USE RegistryAssumption DEF TypeInv, TypeOK, Known
<1>1. CASE watch(c) \/ watch_children(c) \/ watch_exists(c)
  <2>1. PICK k \in Kind : begin_watch(c, k)
    BY <1>1, Zenon DEF watch, watch_children, watch_exists, Kind
  <2>2. TypeOK'
    <3>1. aliased' \subseteq Call
      BY <2>1 DEF begin_watch
    <3> QED
      BY <2>1, <3>1 DEF begin_watch, futures, library
  <2>3. Known'
    BY <2>1 DEF begin_watch, futures, library
  <2> QED
    BY <2>2, <2>3, Zenon
<1>2. CASE zoo_accepts(c)
  <2>1. TypeOK'
    BY <1>2 DEF zoo_accepts, futures
  <2>2. Known'
    BY <1>2 DEF zoo_accepts, futures
  <2> QED
    BY <2>1, <2>2, Zenon
<1>3. CASE zoo_refuses(c)
  <2>1. PICK rc \in RawCode : deliver_data(c, error_code_from_raw(rc))
    BY <1>3, Zenon DEF zoo_refuses
  <2>2. data' \in [Call -> ErrorCode \union {"none"}]
    BY <2>1, ErrorCodeType, Zenon DEF deliver_data
  <2>3. TypeOK'
    BY <1>3, <2>2, Zenon DEF zoo_refuses, library
  <2>4. Known'
    BY <1>3 DEF zoo_refuses, library
  <2> QED
    BY <2>3, <2>4, Zenon
<1>4. CASE emplace_watch(c)
  BY <1>4 DEF emplace_watch, futures, library
<1> QED
  BY <1>1, <1>2, <1>3, <1>4, Zenon DEF User

(* Queueing an entry for known calls keeps the types. *)
LEMMA PushTypes ==
  ASSUME NEW q \in Seq(Entry), NEW e \in Entry, NEW S,
         \A i \in 1..Len(q) : q[i].ws \subseteq S, e.ws \subseteq S
  PROVE  /\ Push(q, e) \in Seq(Entry)
         /\ \A i \in 1..Len(Push(q, e)) : Push(q, e)[i].ws \subseteq S
         /\ q # <<>> => Push(q, e) # <<>> /\ Head(Push(q, e)) = Head(q)
<1>1. /\ Append(q, e) \in Seq(Entry)
      /\ Len(Append(q, e)) = Len(q) + 1
      /\ \A i \in 1..Len(q) : Append(q, e)[i] = q[i]
      /\ Append(q, e)[Len(q) + 1] = e
      /\ q # <<>> => Append(q, e) # <<>> /\ Head(Append(q, e)) = Head(q)
  BY AppendEntry
<1>2. ASSUME NEW i \in 1..(Len(q) + 1) PROVE i \in 1..Len(q) \/ i = Len(q) + 1
  OBVIOUS
<1> QED
  BY <1>1, <1>2, Zenon DEF Push

(* The I/O thread queues entries for calls it knows. *)
LEMMA IOTypes ==
  ASSUME TypeInv, IOThread
  PROVE  TypeInv'
<1> USE RegistryAssumption DEF TypeInv, TypeOK, Known
<1> DEFINE S == {c \in Call : pc[c] \in {"sent", "returned"}}
<1>a. pending \subseteq S /\ active \subseteq S /\ \A i \in 1..Len(queue) : queue[i].ws \subseteq S
  <2>1. ASSUME NEW i \in 1..Len(queue) PROVE queue[i].ws \subseteq Call
    BY DEF Entry, Answer, Notice
  <2> QED
    BY <2>1, Zenon
<1>b. ASSUME /\ UNCHANGED <<userVars, live, watches, futures, handle, l_watches, held, dangling, aliased>>
             /\ session' \in RawState /\ changes' \in Nat
             /\ pending' \subseteq S /\ active' \subseteq S
             /\ queue' \in Seq(Entry)
             /\ \A i \in 1..Len(queue') : queue'[i].ws \subseteq S
             /\ queue # <<>> => queue' # <<>> /\ Head(queue') = Head(queue)
      PROVE  TypeInv'
  BY <1>b, Zenon DEF userVars, futures
<1> HIDE DEF S
<1>1. CASE \E c \in Call, rc \in {"ZOK", "ZNONODE"} : Respond(c, rc)
  <2>1. PICK c \in Call, rc \in {"ZOK", "ZNONODE"} : Respond(c, rc)
    BY <1>1
  <2>2. rc \in RawCode
    BY Zenon DEF RawCode, error_code
  <2>3. entry("answer", {c}, rc) \in Entry /\ entry("answer", {c}, rc).ws \subseteq S
    BY <2>1, <2>2, <1>a, EntryType, Zenon DEF Entry, entry, Respond
  <2>4. /\ queue' \in Seq(Entry) /\ \A i \in 1..Len(queue') : queue'[i].ws \subseteq S
        /\ queue # <<>> => queue' # <<>> /\ Head(queue') = Head(queue)
    BY <2>1, <2>3, <1>a, PushTypes, Zenon DEF Respond
  <2> QED
    BY <2>1, <2>4, <1>a, <1>b, Zenon DEF Respond
<1>2. CASE \E cs \in SUBSET active : Trigger(cs)
  <2>1. PICK cs \in SUBSET active : Trigger(cs)
    BY <1>2, Zenon
  <2>2. entry("node", cs, session) \in Entry /\ entry("node", cs, session).ws \subseteq S
    BY <1>a, EntryType, Zenon DEF Entry, entry
  <2>3. /\ queue' \in Seq(Entry) /\ \A i \in 1..Len(queue') : queue'[i].ws \subseteq S
        /\ queue # <<>> => queue' # <<>> /\ Head(queue') = Head(queue)
    BY <2>1, <2>2, <1>a, PushTypes DEF Trigger
  <2> QED
    BY <2>1, <2>3, <1>a, <1>b, Zenon DEF Trigger
<1>3. CASE Connected
  <2> DEFINE e == entry("session", active, "ZOO_CONNECTED_STATE")
  <2>1. "ZOO_CONNECTED_STATE" \in RawState
    BY DEF RawState
  <2>2. e \in Entry /\ e.ws \subseteq S
    BY <2>1, <1>a, EntryType, Zenon DEF Entry, entry
  <2>3. /\ queue' \in Seq(Entry) /\ \A i \in 1..Len(queue') : queue'[i].ws \subseteq S
        /\ queue # <<>> => queue' # <<>> /\ Head(queue') = Head(queue)
    BY <1>3, <2>2, <1>a, PushTypes, Zenon DEF Connected
  <2> QED
    BY <1>3, <2>1, <2>3, <1>a, <1>b DEF Connected, SessionChange
<1>4. ASSUME NEW raw \in RawState, NEW rc \in RawCode, Lost(raw, rc) PROVE TypeInv'
  <2> DEFINE e == entry("session", active, raw)
             f == entry("answer", pending, rc)
  <2>1. e \in Entry /\ e.ws \subseteq S /\ f \in Entry /\ f.ws \subseteq S
    BY <1>a, EntryType, Zenon DEF Entry, entry
  <2>2. queue' = Push(Push(queue, e), f)
    BY <1>4, Zenon DEF Lost
  <2> HIDE DEF e, f
  <2>3. /\ Push(queue, e) \in Seq(Entry)
        /\ \A i \in 1..Len(Push(queue, e)) : Push(queue, e)[i].ws \subseteq S
        /\ queue # <<>> => Push(queue, e) # <<>> /\ Head(Push(queue, e)) = Head(queue)
    BY <2>1, <1>a, PushTypes, Zenon
  <2>4. /\ queue' \in Seq(Entry) /\ \A i \in 1..Len(queue') : queue'[i].ws \subseteq S
        /\ queue # <<>> => queue' # <<>> /\ Head(queue') = Head(queue)
    BY <2>1, <2>2, <2>3, PushTypes, Zenon
  <2> QED
    BY <1>4, <2>4, <1>a, <1>b DEF Lost, SessionChange
<1>5. CASE Disconnected \/ Expired
  <2>1. \E raw \in RawState, rc \in RawCode : Lost(raw, rc)
    BY <1>5 DEF Disconnected, Expired, RawState, RawCode, error_code
  <2> QED
    BY <2>1, <1>4, Zenon
<1>6. CASE ConnectFails
  <2>1. PICK rc \in {"ZCONNECTIONLOSS", "ZOPERATIONTIMEOUT"} :
          queue' = Push(queue, entry("answer", pending, rc))
    BY <1>6, Zenon DEF ConnectFails
  <2>2. rc \in RawCode
    BY Zenon DEF RawCode, error_code, UnnamedRaw
  <2>3. entry("answer", pending, rc) \in Entry /\ entry("answer", pending, rc).ws \subseteq S
    BY <2>2, <1>a, EntryType, Zenon DEF Entry, entry
  <2>4. /\ queue' \in Seq(Entry) /\ \A i \in 1..Len(queue') : queue'[i].ws \subseteq S
        /\ queue # <<>> => queue' # <<>> /\ Head(queue') = Head(queue)
    BY <2>1, <2>3, <1>a, PushTypes, Zenon
  <2> QED
    BY <1>6, <2>4, <1>a, <1>b, Zenon DEF ConnectFails
<1> QED
  BY <1>1, <1>2, <1>3, <1>5, <1>6, Zenon DEF IOThread

(* The completion thread takes calls and entries out of the queue, and      *)
(* deliver_watch holds a watcher only between the halves of one callback.   *)
LEMMA CompletionTypes ==
  ASSUME TypeInv, CompletionThread
  PROVE  TypeInv'
<1> USE RegistryAssumption DEF TypeInv, TypeOK, Known
<1>a. ASSUME NEW c, NEW types, Dispatch(c, types)
      PROVE  /\ c \in Call /\ addr[c] \in Addr
             /\ queue' \in Seq(Entry)
             /\ \A i \in 1..Len(queue') : \A d \in queue'[i].ws : pc[d] \in {"sent", "returned"}
             /\ queue[1] = Head(queue) /\ queue[1] \in Entry
  <2>1. /\ queue' \in Seq(Entry)
        /\ Len(queue') = Len(queue)
        /\ Len(queue) \in Nat \ {0}
        /\ queue[1] \in Entry
        /\ Head(queue) = queue[1]
        /\ queue'[1].ws = queue[1].ws \ {c}
        /\ \A i \in 2..Len(queue) : queue'[i] = queue[i]
    BY <1>a, DispatchQueue, Zenon
  <2>2. c \in queue[1].ws /\ queue[1].ws \subseteq Call
    BY <1>a, <2>1, Zenon DEF Dispatch, Entry, Answer, Notice
  <2>3. c \in Call /\ addr[c] \in Addr
    BY <2>1, <2>2
  <2>4. ASSUME NEW i \in 1..Len(queue') PROVE queue'[i].ws \subseteq queue[i].ws
    BY <2>1
  <2> QED
    BY <2>1, <2>3, <2>4, Zenon
<1>1. CASE NextEntry
  <2>1. /\ queue' \in Seq(Entry)
        /\ Len(queue') = Len(queue) - 1
        /\ Len(queue) \in Nat
        /\ \A i \in 1..Len(queue') : queue'[i] = queue[i + 1]
    BY <1>1, TailEntry DEF NextEntry
  <2>a. ASSUME NEW i \in 1..Len(queue') PROVE i + 1 \in 1..Len(queue)
    <3> HIDE DEF TypeInv, TypeOK, Known
    <3> QED
      BY <2>1
  <2>2. \A i \in 1..Len(queue') : \A c \in queue'[i].ws : pc[c] \in {"sent", "returned"}
    BY <2>1, <2>a, Zenon
  <2>3. TypeOK'
    BY <1>1, <2>1, Zenon DEF NextEntry, userVars, futures, library
  <2>4. Known'
    BY <1>1, <2>2, Zenon DEF NextEntry, userVars, futures, library
  <2> QED
    BY <2>3, <2>4, Zenon
<1>2. ASSUME NEW c \in Call, deliver_raw(c) PROVE TypeInv'
  <2>1. /\ queue' \in Seq(Entry)
        /\ \A i \in 1..Len(queue') : \A d \in queue'[i].ws : pc[d] \in {"sent", "returned"}
        /\ Head(queue) \in Entry /\ Head(queue).type = "answer"
    BY <1>2, <1>a, Zenon DEF deliver_raw, Dispatch
  <2>2. outcome_of(kind[c], Head(queue).raw) \in ErrorCode
    BY <2>1, OutcomeType, Zenon DEF Entry, Answer, Notice
  <2>3. data' \in [Call -> ErrorCode \union {"none"}]
    <3>1. CASE UNCHANGED data
      BY <3>1, Zenon
    <3>2. CASE \E t \in live : deliver_data(t, outcome_of(kind[c], Head(queue).raw))
      BY <3>2, <2>2 DEF deliver_data
    <3> QED
      BY <1>2, <3>1, <3>2, Zenon DEF deliver_raw
  <2>a. dangling' \subseteq Call
    <3>1. dangling' = dangling \/ dangling' = dangling \union {c}
      BY <1>2, Zenon DEF deliver_raw
    <3> QED
      BY <3>1
  <2>4. TypeOK'
    BY <1>2, <2>1, <2>3, <2>a, Zenon DEF deliver_raw, userVars, library
  <2>5. Known'
    BY <1>2, <2>1, Zenon DEF deliver_raw, Dispatch, userVars, library
  <2> QED
    BY <2>4, <2>5, Zenon
<1>3. ASSUME NEW c \in Call, try_extract_watch(c) PROVE TypeInv'
  <2>1. /\ queue' \in Seq(Entry) /\ addr[c] \in Addr
        /\ \A i \in 1..Len(queue') : \A d \in queue'[i].ws : pc[d] \in {"sent", "returned"}
    BY <1>3, <1>a, Zenon DEF try_extract_watch
  <2>2. TypeOK'
    BY <1>3, <2>1, Zenon DEF try_extract_watch, userVars, futures, library
  <2>3. queue' # <<>> /\ Head(queue') \in Notice
    <3>1. /\ queue' # <<>> /\ queue[1] \in Entry /\ Head(queue) = queue[1] /\ Head(queue') = queue'[1]
          /\ queue'[1] = [queue[1] EXCEPT !.ws = @ \ {c}]
      BY <1>3, DispatchQueue, Zenon DEF try_extract_watch
    <3>2. queue[1] \in Notice
      BY <1>3, <3>1, Zenon DEF try_extract_watch, Dispatch, Entry, Answer
    <3> QED
      BY <3>1, <3>2 DEF Notice
  <2>4. Known'
    BY <1>3, <2>1, <2>3, Zenon DEF try_extract_watch, userVars, library
  <2> QED
    BY <2>2, <2>4, Zenon
<1>4. CASE deliver_watch
  <2>1. held \in Call /\ Head(queue) \in Notice
    BY <1>4 DEF deliver_watch
  <2> DEFINE ev == [type |-> Head(queue).type, state |-> state_from_raw(Head(queue).raw)]
  <2>2. ev \in Event
    BY <2>1, EventType, Zenon
  <2>3. deliver_event(held, ev)
    BY <1>4, Zenon DEF deliver_watch
  <2> HIDE DEF ev
  <2>4. data' \in [Call -> ErrorCode \union {"none"}] /\ event' \in [Call -> Event \union {NoEvent}]
    BY <2>2, <2>3, OkIsCode, Zenon DEF deliver_event, deliver_data
  <2>5. TypeOK'
    BY <1>4, <2>4, Zenon DEF deliver_watch, userVars, library
  <2>6. Known'
    BY <1>4, Zenon DEF deliver_watch, userVars, library
  <2> QED
    BY <2>5, <2>6, Zenon
<1> QED
  BY <1>1, <1>2, <1>3, <1>4, Zenon DEF CompletionThread

(* zookeeper_close queues the calls that are not answered; the rest of      *)
(* close leaves the queue alone.                                            *)
LEMMA CloseTypes ==
  ASSUME TypeInv, Close
  PROVE  TypeInv'
<1> USE RegistryAssumption DEF TypeInv, TypeOK, Known
<1>1. CASE zookeeper_close
  <2> DEFINE S == {c \in Call : pc[c] \in {"sent", "returned"}}
  <2>1. pending \subseteq S /\ \A i \in 1..Len(queue) : queue[i].ws \subseteq S
    <3>1. ASSUME NEW i \in 1..Len(queue) PROVE queue[i].ws \subseteq Call
      BY DEF Entry, Answer, Notice
    <3> QED
      BY <3>1, Zenon
  <2>2. "ZCLOSING" \in RawCode
    BY Zenon DEF RawCode, error_code
  <2>3. entry("answer", pending, "ZCLOSING") \in Entry /\ entry("answer", pending, "ZCLOSING").ws = pending
    BY <2>2, EntryType, Zenon DEF Entry, entry
  <2> HIDE DEF S
  <2>4. /\ queue' \in Seq(Entry) /\ \A i \in 1..Len(queue') : queue'[i].ws \subseteq S
        /\ queue # <<>> => queue' # <<>> /\ Head(queue') = Head(queue)
    BY <1>1, <2>1, <2>3, PushTypes, Zenon DEF zookeeper_close
  <2>5. TypeOK'
    BY <1>1, <2>4, Zenon DEF zookeeper_close, userVars, futures
  <2>6. Known'
    BY <1>1, <2>4, Zenon DEF zookeeper_close, userVars, S
  <2> QED
    BY <2>5, <2>6, Zenon
<1>2. CASE close_throws
  <2>1. TypeOK'
    BY <1>2 DEF close_throws, userVars, futures, library
  <2>2. Known'
    BY <1>2 DEF close_throws, userVars, futures, library
  <2> QED
    BY <2>1, <2>2, Zenon
<1>3. CASE close_extract
  <2>1. TypeOK'
    BY <1>3 DEF close_extract, userVars, futures, library
  <2>2. Known'
    BY <1>3 DEF close_extract, userVars, futures, library
  <2> QED
    BY <2>1, <2>2, Zenon
<1>4. ASSUME NEW c \in Call, close_deliver(c) PROVE TypeInv'
  <2> DEFINE ev == [type |-> "session", state |-> "closed"]
  <2>1. ev \in Event
    BY Zenon DEF Event
  <2>2. deliver_event(c, ev)
    BY <1>4, Zenon DEF close_deliver
  <2> HIDE DEF ev
  <2>3. data' \in [Call -> ErrorCode \union {"none"}] /\ event' \in [Call -> Event \union {NoEvent}]
    BY <2>1, <2>2, OkIsCode, Zenon DEF deliver_event, deliver_data
  <2>4. TypeOK'
    BY <1>4, <2>3, Zenon DEF close_deliver, userVars, library
  <2>5. Known'
    BY <1>4, Zenon DEF close_deliver, userVars, library
  <2> QED
    BY <2>4, <2>5, Zenon
<1> QED
  BY <1>1, <1>2, <1>3, <1>4, Zenon DEF Close

(* The initial state of a connection. *)
LEMMA InitTypes == Init => TypeInv
<1> SUFFICES ASSUME Init PROVE TypeInv
  OBVIOUS
<1>1. queue \in Seq(Entry) /\ Len(queue) = 0
  BY EmptySeq DEF Init
<1>2. TypeOK
  BY <1>1, Zenon DEF Init, TypeOK, Kind, RawState
<1>3. Known
  BY <1>1 DEF Init, Known
<1> QED
  BY <1>2, <1>3 DEF TypeInv

(* Every step keeps the types. *)
LEMMA NextTypes == TypeInv /\ [Next]_vars => TypeInv'
<1> SUFFICES ASSUME TypeInv, [Next]_vars PROVE TypeInv'
  OBVIOUS
<1>1. CASE UNCHANGED vars
  <2>1. TypeOK'
    BY <1>1, Zenon DEF TypeInv, TypeOK, vars, userVars, futures, library
  <2>2. Known'
    BY <1>1 DEF TypeInv, Known, vars, userVars, library
  <2> QED
    BY <2>1, <2>2 DEF TypeInv
<1> QED
  BY <1>1, UserTypes, IOTypes, CompletionTypes, CloseTypes, Zenon DEF Next

(* Every variable keeps its type, for any number of calls and of session   *)
(* changes, whether or not addresses are used again: in particular an      *)
(* event is only looked up under an address that was given to a watcher.   *)
THEOREM TypeCorrect == Spec => []TypeOK
<1>1. TypeInv => TypeOK
  BY Zenon DEF TypeInv
<1> QED
  BY <1>1, InitTypes, NextTypes, PTL DEF Spec

-----------------------------------------------------------------------------
(* What is delivered stays delivered. *)

Kept == \A c \in Call : /\ data[c] # "none" => data'[c] = data[c]
                        /\ event[c] # NoEvent => event'[c] = event[c]

(* No step changes a promise that has its value. *)
LEMMA NextKeeps == TypeInv /\ [Next]_vars => [Kept]_vars
<1> SUFFICES ASSUME TypeInv, Next PROVE Kept
  OBVIOUS
<1> USE DEF TypeInv, TypeOK
<1>1. ASSUME NEW t \in Call, NEW o, deliver_data(t, o)
      PROVE  \A c \in Call : data[c] # "none" => data'[c] = data[c]
  BY <1>1, Zenon DEF deliver_data
<1>2. ASSUME NEW t \in Call, NEW ev, deliver_event(t, ev) PROVE Kept
  <2>1. \A c \in Call : data[c] # "none" => data'[c] = data[c]
    BY <1>2, <1>1 DEF deliver_event
  <2>2. \A c \in Call : event[c] # NoEvent => event'[c] = event[c]
    BY <1>2 DEF deliver_event
  <2> QED
    BY <2>1, <2>2, Zenon DEF Kept
<1>3. ASSUME UNCHANGED event, \A c \in Call : data[c] # "none" => data'[c] = data[c] PROVE Kept
  BY <1>3, Zenon DEF Kept
<1>4. CASE UNCHANGED futures
  BY <1>4, <1>3, Zenon DEF futures
<1>5. ASSUME NEW c \in Call, User(c) PROVE Kept
  <2>1. CASE zoo_refuses(c)
    BY <2>1, <1>1, <1>3, Zenon DEF zoo_refuses
  <2> QED
    BY <1>5, <2>1, <1>4, Zenon
       DEF User, watch, watch_children, watch_exists, begin_watch, zoo_accepts, emplace_watch
<1>6. CASE IOThread
  <2>1. UNCHANGED futures
    BY <1>6, Zenon DEF IOThread, Respond, Trigger, Connected, Disconnected, Expired, Lost, SessionChange, ConnectFails
  <2> QED
    BY <2>1, <1>4
<1>7. CASE CompletionThread
  <2>1. ASSUME NEW c \in Call, deliver_raw(c) PROVE Kept
    <3>1. UNCHANGED event
      BY <2>1, Zenon DEF deliver_raw
    <3>2. \A d \in Call : data[d] # "none" => data'[d] = data[d]
      <4>1. CASE UNCHANGED data
        BY <4>1, Zenon
      <4>2. CASE \E t \in live : deliver_data(t, outcome_of(kind[c], Head(queue).raw))
        BY <4>2, <1>1, Zenon
      <4> QED
        BY <2>1, <4>1, <4>2, Zenon DEF deliver_raw
    <3> QED
      BY <3>1, <3>2, <1>3, Zenon
  <2>2. CASE deliver_watch
    BY <2>2, <1>2, Zenon DEF deliver_watch
  <2> QED
    BY <1>7, <2>1, <2>2, <1>4, Zenon DEF CompletionThread, NextEntry, try_extract_watch
<1>8. CASE Close
  <2>1. ASSUME NEW c \in Call, close_deliver(c) PROVE Kept
    BY <2>1, <1>2 DEF close_deliver
  <2> QED
    BY <1>8, <2>1, <1>4, Zenon DEF Close, zookeeper_close, close_throws, close_extract
<1> QED
  BY <1>5, <1>6, <1>7, <1>8, Zenon DEF Next

(* No step of any thread replaces a value that a promise has been given:   *)
(* the flags of deliver_data and deliver_event make set_value and          *)
(* set_exception run once per promise, even if addresses are used again.   *)
THEOREM DeliveredOnce == Spec => SettledOnce
<1>1. [][Kept]_vars <=> SettledOnce
  BY DEF Kept, SettledOnce
<1> QED
  BY <1>1, InitTypes, NextTypes, NextKeeps, PTL DEF Spec

-----------------------------------------------------------------------------
(* Ownership of watchers.  _watches, the watcher deliver_watch holds and    *)
(* close's copy own disjoint sets of watchers that exist; the watcher of a  *)
(* call that has the lock belongs to the call.  Two watchers that exist     *)
(* never share an address, which is what makes the address a key.           *)

Owned ==
  /\ \A c \in Call : pc[c] \in {"locked", "sent"} <=> lock = c
  /\ \A c \in Call : pc[c] = "idle" => c \notin live
  /\ \A c \in Call : pc[c] \in {"locked", "sent"} =>
       c \in live /\ c # held /\ c \notin l_watches /\ \A a \in Addr : watches[a] # c
  /\ \A c, d \in live : addr[c] = addr[d] => c = d
  /\ held # NoCall => held \notin l_watches

MemInv == Owned /\ MapMatchesMemory

(* Every step keeps the owners apart. *)
LEMMA NextMemory == TypeInv /\ MemInv /\ [Next]_vars => MemInv'
<1> SUFFICES ASSUME TypeInv, MemInv, [Next]_vars PROVE MemInv'
  OBVIOUS
<1> USE RegistryAssumption DEF TypeInv, TypeOK, MemInv, Owned, MapMatchesMemory
<1>a. CASE UNCHANGED <<userVars, live, watches, held, l_watches>>
  BY <1>a DEF userVars
<1>1. ASSUME NEW c \in Call, NEW k \in Kind, begin_watch(c, k) PROVE MemInv'
  <2>1. PICK a \in Addr : CanAllocate(a) /\ addr' = [addr EXCEPT ![c] = a]
    BY <1>1, Zenon DEF begin_watch
  <2>2. \A d \in live : addr[d] # a
    BY <2>1, Zenon DEF CanAllocate
  <2>3. c \notin live /\ c # held /\ c \notin l_watches /\ \A b \in Addr : watches[b] # c
    BY <1>1 DEF begin_watch
  <2>4. Owned'
    BY <1>1, <2>1, <2>2, <2>3 DEF begin_watch
  <2>5. MapMatchesMemory'
    BY <1>1, <2>1, <2>3 DEF begin_watch
  <2> QED
    BY <2>4, <2>5, Zenon
<1>2. ASSUME NEW c \in Call, zoo_accepts(c) PROVE MemInv'
  BY <1>2 DEF zoo_accepts
<1>3. ASSUME NEW c \in Call, zoo_refuses(c) PROVE MemInv'
  <2>1. /\ pc[c] = "locked" /\ pc' = [pc EXCEPT ![c] = "returned"] /\ lock' = NoCall /\ live' = live \ {c}
        /\ UNCHANGED <<addr, watches, l_watches, held>>
    BY <1>3, Zenon DEF zoo_refuses
  <2> QED
    BY <2>1
<1>4. ASSUME NEW c \in Call, emplace_watch(c) PROVE MemInv'
  <2>1. addr[c] \in Addr /\ watches[addr[c]] = NoCall
    BY <1>4 DEF emplace_watch, Known
  <2>2. live' = live /\ watches' = [watches EXCEPT ![addr[c]] = c]
    BY <1>4, <2>1, Zenon DEF emplace_watch
  <2>3. Owned'
    BY <1>4, <2>1, <2>2 DEF emplace_watch
  <2>4. MapMatchesMemory'
    BY <1>4, <2>1, <2>2 DEF emplace_watch
  <2> QED
    BY <2>3, <2>4, Zenon
<1>5. CASE IOThread
  BY <1>5, <1>a, Zenon DEF IOThread, Respond, Trigger, Connected, Disconnected, Expired, Lost, SessionChange, ConnectFails
<1>6. ASSUME NEW c \in Call, deliver_raw(c) PROVE MemInv'
  BY <1>6, <1>a, Zenon DEF deliver_raw
<1>7. ASSUME NEW c \in Call, try_extract_watch(c) PROVE MemInv'
  <2>1. addr[c] \in Addr /\ held = NoCall
    <3>1. c \in queue[1].ws /\ 1 \in 1..Len(queue) /\ held = NoCall
      BY <1>7, TailEntry DEF try_extract_watch, Dispatch
    <3> QED
      BY <3>1 DEF Known
  <2>2. Owned'
    BY <1>7, <2>1 DEF try_extract_watch, userVars
  <2>3. MapMatchesMemory'
    BY <1>7, <2>1 DEF try_extract_watch, userVars
  <2> QED
    BY <2>2, <2>3, Zenon
<1>8. CASE deliver_watch
  <2>1. Owned'
    BY <1>8 DEF deliver_watch, userVars
  <2>2. MapMatchesMemory'
    BY <1>8 DEF deliver_watch, userVars
  <2> QED
    BY <2>1, <2>2, Zenon
<1>9. CASE close_extract
  <2>1. Owned'
    BY <1>9 DEF close_extract, userVars
  <2>2. MapMatchesMemory'
    BY <1>9 DEF close_extract, userVars
  <2> QED
    BY <2>1, <2>2, Zenon
<1>10. ASSUME NEW c \in Call, close_deliver(c) PROVE MemInv'
  <2>1. Owned'
    BY <1>10 DEF close_deliver, userVars
  <2>2. MapMatchesMemory'
    BY <1>10 DEF close_deliver, userVars
  <2> QED
    BY <2>1, <2>2, Zenon
<1>11. CASE NextEntry \/ zookeeper_close \/ close_throws \/ UNCHANGED vars
  BY <1>11, <1>a, Zenon DEF NextEntry, zookeeper_close, close_throws, vars
<1>12. ASSUME NEW c \in Call, User(c) PROVE MemInv'
  BY <1>12, <1>1, <1>2, <1>3, <1>4, Zenon DEF User, watch, watch_children, watch_exists, Kind
<1> QED
  BY <1>5, <1>6, <1>7, <1>8, <1>9, <1>10, <1>11, <1>12, Zenon DEF Next, CompletionThread, Close

(* A new connection owns no watcher. *)
LEMMA InitMemory == Init => MemInv
BY RegistryAssumption DEF Init, MemInv, Owned, MapMatchesMemory

(* _watches, deliver_watch and close never share a watcher, and none of     *)
(* them refers to one that was freed, even if the allocator gives the       *)
(* address of a freed watcher to a new one.                                 *)
THEOREM MemoryMatches == Spec => []MapMatchesMemory
<1>1. MemInv => MapMatchesMemory
  BY DEF MemInv
<1> QED
  BY <1>1, InitTypes, NextTypes, InitMemory, NextMemory, PTL DEF Spec

-----------------------------------------------------------------------------
(* How the I/O thread and close let the queue grow.                        *)

(* A refused request fails with an error that is not closed. *)
LEMMA RefusalCodes ==
  \A rc \in {"ZBADARGUMENTS", "ZINVALIDSTATE", "ZMARSHALLINGERROR"} :
    error_code_from_raw(rc) # "ok" /\ error_code_from_raw(rc) # "closed"
BY DEF error_code_from_raw, cast, error_code, UnnamedRaw

(* The watchers of an entry of the queue are calls. *)
LEMMA QueueTypes ==
  ASSUME TypeInv
  PROVE  \A i \in 1..Len(queue) : queue[i].ws \subseteq Call
<1>1. queue \in Seq(Entry)
  BY DEF TypeInv, TypeOK
<1>2. \A i \in 1..Len(queue) : queue[i] \in Entry
  BY <1>1
<1>3. \A e \in Entry : e.ws \subseteq Call
  BY DEF Entry, Answer, Notice
<1> QED
  BY <1>2, <1>3, Zenon

(* The two ways in which the queue grows.  The answers e are given to some *)
(* of the requests p, and a watch is added to ac for each that succeeds;   *)
(* the event e is for some of the watches ac, which may leave ac.          *)
PushAnswer(e, q, p, ac, q2, p2, ac2) ==
  /\ q2 = Push(q, e)
  /\ e \in Answer
  /\ e.ws \subseteq p
  /\ p2 = p \ e.ws
  /\ ac \subseteq ac2
  /\ ac2 \subseteq ac \union e.ws

PushNotice(e, q, ac, q2, ac2) ==
  /\ q2 = Push(q, e)
  /\ e \in Notice
  /\ e.ws \subseteq ac
  /\ ac2 \subseteq ac
  /\ ac \subseteq ac2 \union e.ws

(* The answers of the I/O thread: not ZCLOSING, and with a watch if good.  *)
Truthful(e, ac) ==
  e.raw # "ZCLOSING" /\ \A c \in e.ws : outcome_of(kind[c], e.raw) = "ok" => c \in ac

(* The steps of the I/O thread: an answer, an event, or an event followed  *)
(* by answers.                                                             *)
LEMMA IOSteps ==
  ASSUME TypeInv, IOThread
  PROVE  /\ handle = "open"
         /\ UNCHANGED <<userVars, live, watches, futures, handle, l_watches, held, dangling, aliased>>
         /\ \/ \E e \in Entry : /\ PushAnswer(e, queue, pending, active, queue', pending', active')
                                /\ Truthful(e, active')
            \/ pending' = pending /\ \E e \in Entry : PushNotice(e, queue, active, queue', active')
            \/ \E n, e \in Entry, q \in Seq(Entry) :
                 /\ PushNotice(n, queue, active, q, active)
                 /\ PushAnswer(e, q, pending, active, queue', pending', active')
                 /\ Truthful(e, active')
<1> USE DEF TypeInv, TypeOK
<1>1. handle = "open" /\ UNCHANGED <<userVars, live, watches, futures, handle, l_watches, held, dangling, aliased>>
  BY Zenon DEF IOThread, Respond, Trigger, Connected, Disconnected, Expired, Lost, SessionChange, ConnectFails
<1>2. ASSUME NEW c \in Call, NEW rc \in {"ZOK", "ZNONODE"}, Respond(c, rc)
      PROVE  \E e \in Entry : PushAnswer(e, queue, pending, active, queue', pending', active') /\ Truthful(e, active')
  <2> DEFINE e == entry("answer", {c}, rc)
  <2>1. rc \in RawCode /\ rc # "ZCLOSING"
    BY Zenon DEF RawCode, error_code
  <2>2. e \in Answer /\ e \in Entry /\ e.ws = {c} /\ e.raw = rc
    BY <2>1, EntryType, Zenon DEF Entry, entry
  <2>3. outcome_of(kind[c], rc) = "ok" => c \in active'
    BY <1>2, <2>1, OkFromRaw, Zenon DEF Respond, LeavesWatch
  <2>4. queue' = Push(queue, e)
    BY <1>2 DEF Respond
  <2> HIDE DEF e
  <2>5. PushAnswer(e, queue, pending, active, queue', pending', active')
    BY <1>2, <2>2, <2>4, Zenon DEF Respond, PushAnswer
  <2> QED
    BY <2>1, <2>2, <2>3, <2>5, Zenon DEF Truthful
<1>3. ASSUME NEW cs \in SUBSET active, Trigger(cs)
      PROVE  pending' = pending /\ \E e \in Entry : PushNotice(e, queue, active, queue', active')
  <2> DEFINE e == entry("node", cs, session)
  <2>1. e \in Notice /\ e \in Entry /\ e.ws = cs
    BY EntryType, Zenon DEF Entry, entry
  <2>2. queue' = Push(queue, e)
    BY <1>3, Zenon DEF Trigger
  <2> HIDE DEF e
  <2> QED
    BY <1>3, <2>1, <2>2, Zenon DEF Trigger, PushNotice
<1>4. ASSUME NEW raw \in RawState
      PROVE  LET e == entry("session", active, raw) IN
               e \in Entry /\ PushNotice(e, queue, active, Push(queue, e), active)
  <2> DEFINE e == entry("session", active, raw)
  <2>1. e \in Notice /\ e \in Entry /\ e.ws = active
    BY EntryType, Zenon DEF Entry, entry
  <2> QED
    BY <2>1, Zenon DEF PushNotice
<1>5. CASE Connected
  <2>1. "ZOO_CONNECTED_STATE" \in RawState
    BY Zenon DEF RawState
  <2> QED
    BY <1>1, <1>4, <1>5, <2>1 DEF Connected, SessionChange
<1>6. ASSUME NEW rc \in {"ZCONNECTIONLOSS", "ZOPERATIONTIMEOUT", "ZSESSIONEXPIRED", "ZAUTHFAILED"},
             NEW q, queue' = Push(q, entry("answer", pending, rc)), pending' = {}, active' = active
      PROVE  \E e \in Entry : PushAnswer(e, q, pending, active, queue', pending', active') /\ Truthful(e, active')
  <2> DEFINE e == entry("answer", pending, rc)
  <2>1. rc \in RawCode /\ rc # "ZCLOSING" /\ rc # "ZOK" /\ rc # "ZNONODE"
    BY Zenon DEF RawCode, error_code, UnnamedRaw
  <2>2. e \in Answer /\ e \in Entry /\ e.ws = pending /\ e.raw = rc
    BY <2>1, EntryType, Zenon DEF Entry, entry
  <2>3. \A c \in pending : outcome_of(kind[c], rc) # "ok"
    BY <2>1, OkFromRaw, Zenon
  <2>4. queue' = Push(q, e)
    BY <1>6
  <2> HIDE DEF e
  <2>5. PushAnswer(e, q, pending, active, queue', pending', active')
    BY <1>6, <2>2, <2>4, Zenon DEF PushAnswer
  <2> QED
    BY <2>1, <2>2, <2>3, <2>5, Zenon DEF Truthful
<1>7. ASSUME NEW raw \in RawState, NEW rc \in {"ZCONNECTIONLOSS", "ZSESSIONEXPIRED", "ZAUTHFAILED"}, Lost(raw, rc)
      PROVE  \E n, e \in Entry, q \in Seq(Entry) :
                 /\ PushNotice(n, queue, active, q, active)
                 /\ PushAnswer(e, q, pending, active, queue', pending', active')
                 /\ Truthful(e, active')
  <2> DEFINE n == entry("session", active, raw)
             q == Push(queue, n)
  <2>1. n \in Entry /\ PushNotice(n, queue, active, q, active)
    BY <1>4
  <2>2. q \in Seq(Entry)
    BY <2>1, AppendEntry, Zenon DEF Push
  <2>3. queue' = Push(q, entry("answer", pending, rc)) /\ pending' = {} /\ active' = active
    BY <1>7 DEF Lost, SessionChange
  <2> HIDE DEF n, q
  <2>4. PICK e \in Entry : PushAnswer(e, q, pending, active, queue', pending', active') /\ Truthful(e, active')
    BY <1>6, <2>3, Zenon
  <2> QED
    BY <2>1, <2>2, <2>4, Zenon
<1>8. CASE Disconnected \/ Expired
  BY <1>1, <1>7, <1>8, Zenon DEF Disconnected, Expired, RawState
<1>9. CASE ConnectFails
  BY <1>1, <1>6, <1>9, Zenon DEF ConnectFails
<1> QED
  BY <1>1, <1>2, <1>3, <1>5, <1>8, <1>9, Zenon DEF IOThread

-----------------------------------------------------------------------------
(* The order of the queue. *)

(* With the queue q and the requests p on their way: the answer to c is    *)
(* still to come; an event for c is still to come.                         *)
AskedIn(q, p, c) == c \in p \/ \E i \in 1..Len(q) : q[i].type = "answer" /\ c \in q[i].ws
NoticedIn(q, c)  == \E i \in 1..Len(q) : q[i].type # "answer" /\ c \in q[i].ws

(* A request on its way has no watch yet; its answer comes once and before *)
(* every event.                                                            *)
InOrder(q, p, ac, given) ==
  /\ \A c \in p : given[c] = "none" /\ c \notin ac /\ \A i \in 1..Len(q) : c \notin q[i].ws
  /\ \A i \in 1..Len(q) : q[i].type = "answer" =>
       \A c \in q[i].ws :
         /\ given[c] = "none"
         /\ \A j \in 1..Len(q) : c \in q[j].ws /\ j # i => j > i /\ q[j].type # "answer"

(* The C library has the watch of every successful answer in q, or has     *)
(* queued its event.                                                       *)
ArmedIn(q, ac) ==
  \A i \in 1..Len(q) : q[i].type = "answer" =>
    \A c \in q[i].ws : outcome_of(kind[c], q[i].raw) = "ok" => c \in ac \/ NoticedIn(q, c)

(* The answer of a call, unless its watcher is taken for an earlier one.   *)
seen == [c \in Call |-> IF c \in aliased THEN "none" ELSE data[c]]

Ordered ==
  /\ InOrder(queue, pending, active, seen)
  /\ \A c \in Call : pc[c] \in {"sent", "returned"} /\ data[c] = "none" =>
       AskedIn(queue, pending, c) /\ (pc[c] = "sent" \/ watches[addr[c]] = c \/ held = c)
  /\ \A c \in Call \ aliased : pc[c] \in {"idle", "locked"} => data[c] = "none"
  /\ \A c \in Call \ aliased : c = held => data[c] # "none"
  /\ \A c \in l_watches : data[c] # "none"

(* Answers keep the order: they are for requests that are in no entry.     *)
LEMMA AnswerOrder ==
  ASSUME NEW e \in Entry, NEW q \in Seq(Entry), NEW p, NEW ac, NEW q2, NEW p2, NEW ac2, NEW given,
         PushAnswer(e, q, p, ac, q2, p2, ac2), InOrder(q, p, ac, given)
  PROVE  /\ InOrder(q2, p2, ac2, given)
         /\ \A c : AskedIn(q, p, c) => AskedIn(q2, p2, c)
         /\ \A c : NoticedIn(q, c) => NoticedIn(q2, c)
         /\ ArmedIn(q, ac) /\ Truthful(e, ac2) => ArmedIn(q2, ac2)
<1>a. CASE e.ws = {}
  <2>1. q2 = q /\ p2 = p /\ ac2 = ac
    BY <1>a DEF PushAnswer, Push
  <2> QED
    BY <2>1
<1> SUFFICES ASSUME e.ws # {}
             PROVE  /\ InOrder(q2, p2, ac2, given)
                    /\ \A c : AskedIn(q, p, c) => AskedIn(q2, p2, c)
                    /\ \A c : NoticedIn(q, c) => NoticedIn(q2, c)
                    /\ ArmedIn(q, ac) /\ Truthful(e, ac2) => ArmedIn(q2, ac2)
  BY <1>a
<1>1. /\ Len(q) \in Nat
      /\ Len(q2) = Len(q) + 1
      /\ \A i \in 1..Len(q) : q2[i] = q[i]
      /\ q2[Len(q) + 1] = e
      /\ e.type = "answer" /\ e.ws \subseteq p /\ p2 = p \ e.ws /\ ac \subseteq ac2 /\ ac2 \subseteq ac \union e.ws
  BY AppendEntry DEF PushAnswer, Push, Answer
<1>2. ASSUME NEW i \in 1..Len(q2) PROVE i \in 1..Len(q) \/ i = Len(q) + 1
  BY <1>1
<1>3. 1..Len(q) \subseteq 1..Len(q2) /\ Len(q) + 1 \in 1..Len(q2)
  BY <1>1
<1>4. \A c \in p2 : given[c] = "none" /\ c \notin ac2 /\ \A i \in 1..Len(q2) : c \notin q2[i].ws
  BY <1>1, <1>2, Zenon DEF InOrder
<1>5. ASSUME NEW i \in 1..Len(q2), q2[i].type = "answer", NEW c \in q2[i].ws
      PROVE  /\ given[c] = "none"
             /\ \A j \in 1..Len(q2) : c \in q2[j].ws /\ j # i => j > i /\ q2[j].type # "answer"
  <2>1. CASE i = Len(q) + 1
    <3>1. c \in p /\ \A j \in 1..Len(q) : c \notin q2[j].ws
      BY <1>1, <1>5, <2>1, Zenon DEF InOrder
    <3> QED
      BY <1>2, <2>1, <3>1, Zenon DEF InOrder
  <2>2. CASE i \in 1..Len(q)
    <3>1. c \in q[i].ws /\ q[i].type = "answer" /\ c \notin e.ws
      BY <1>1, <1>5, <2>2 DEF InOrder
    <3> QED
      BY <1>1, <1>2, <2>2, <3>1 DEF InOrder
  <2> QED
    BY <1>2, <2>1, <2>2, Zenon
<1>6. InOrder(q2, p2, ac2, given)
  BY <1>4, <1>5, Zenon DEF InOrder
<1>7. \A c : AskedIn(q, p, c) => AskedIn(q2, p2, c)
  BY <1>1, <1>3, Zenon DEF AskedIn
<1>8. \A c : NoticedIn(q, c) => NoticedIn(q2, c)
  BY <1>1, <1>3 DEF NoticedIn
<1>9. ASSUME ArmedIn(q, ac), Truthful(e, ac2) PROVE ArmedIn(q2, ac2)
  <2> SUFFICES ASSUME NEW i \in 1..Len(q2), q2[i].type = "answer", NEW c \in q2[i].ws,
                      outcome_of(kind[c], q2[i].raw) = "ok"
               PROVE  c \in ac2 \/ NoticedIn(q2, c)
    BY Zenon DEF ArmedIn
  <2>1. CASE i = Len(q) + 1
    BY <1>1, <1>9, <2>1, Zenon DEF Truthful
  <2>2. CASE i \in 1..Len(q)
    <3>1. c \in ac \/ NoticedIn(q, c)
      BY <1>1, <1>9, <2>2, Zenon DEF ArmedIn
    <3> QED
      BY <1>1, <1>8, <3>1, Zenon
  <2> QED
    BY <1>2, <2>1, <2>2, Zenon
<1> QED
  BY <1>6, <1>7, <1>8, <1>9, Zenon

(* Events keep the order: they are for watches, whose request is answered. *)
LEMMA NoticeOrder ==
  ASSUME NEW e \in Entry, NEW q \in Seq(Entry), NEW p, NEW ac, NEW q2, NEW ac2, NEW given,
         PushNotice(e, q, ac, q2, ac2), InOrder(q, p, ac, given)
  PROVE  /\ InOrder(q2, p, ac2, given)
         /\ \A c : AskedIn(q, p, c) => AskedIn(q2, p, c)
         /\ \A c : c \in ac \/ NoticedIn(q, c) => c \in ac2 \/ NoticedIn(q2, c)
         /\ ArmedIn(q, ac) => ArmedIn(q2, ac2)
<1>a. CASE e.ws = {}
  <2>1. q2 = q /\ ac2 = ac
    BY <1>a DEF PushNotice, Push
  <2> QED
    BY <2>1
<1> SUFFICES ASSUME e.ws # {}
             PROVE  /\ InOrder(q2, p, ac2, given)
                    /\ \A c : AskedIn(q, p, c) => AskedIn(q2, p, c)
                    /\ \A c : c \in ac \/ NoticedIn(q, c) => c \in ac2 \/ NoticedIn(q2, c)
                    /\ ArmedIn(q, ac) => ArmedIn(q2, ac2)
  BY <1>a
<1>1. /\ Len(q) \in Nat
      /\ Len(q2) = Len(q) + 1
      /\ \A i \in 1..Len(q) : q2[i] = q[i]
      /\ q2[Len(q) + 1] = e
      /\ e.type # "answer" /\ e.ws \subseteq ac /\ ac2 \subseteq ac /\ ac \subseteq ac2 \union e.ws
  BY AppendEntry DEF PushNotice, Push, Notice
<1>2. ASSUME NEW i \in 1..Len(q2) PROVE i \in 1..Len(q) \/ i = Len(q) + 1
  BY <1>1
<1>3. 1..Len(q) \subseteq 1..Len(q2) /\ Len(q) + 1 \in 1..Len(q2)
  BY <1>1
<1>4. \A c \in p : given[c] = "none" /\ c \notin ac2 /\ \A i \in 1..Len(q2) : c \notin q2[i].ws
  BY <1>1, <1>2 DEF InOrder
<1>5. ASSUME NEW i \in 1..Len(q2), q2[i].type = "answer", NEW c \in q2[i].ws
      PROVE  /\ given[c] = "none"
             /\ \A j \in 1..Len(q2) : c \in q2[j].ws /\ j # i => j > i /\ q2[j].type # "answer"
  <2>1. i \in 1..Len(q) /\ q[i].type = "answer" /\ c \in q[i].ws
    BY <1>1, <1>2, <1>5
  <2>2. ASSUME NEW j \in 1..Len(q2), c \in q2[j].ws, j # i PROVE j > i /\ q2[j].type # "answer"
    BY <1>1, <1>2, <2>1, <2>2 DEF InOrder
  <2> QED
    BY <2>1, <2>2, Zenon DEF InOrder
<1>6. InOrder(q2, p, ac2, given)
  BY <1>4, <1>5, Zenon DEF InOrder
<1>7. \A c : AskedIn(q, p, c) => AskedIn(q2, p, c)
  BY <1>1, <1>3 DEF AskedIn
<1>8. \A c : c \in ac \/ NoticedIn(q, c) => c \in ac2 \/ NoticedIn(q2, c)
  BY <1>1, <1>3, Zenon DEF NoticedIn
<1>9. ASSUME ArmedIn(q, ac) PROVE ArmedIn(q2, ac2)
  <2> SUFFICES ASSUME NEW i \in 1..Len(q2), q2[i].type = "answer", NEW c \in q2[i].ws,
                      outcome_of(kind[c], q2[i].raw) = "ok"
               PROVE  c \in ac2 \/ NoticedIn(q2, c)
    BY Zenon DEF ArmedIn
  <2>1. i \in 1..Len(q) /\ q2[i] = q[i]
    BY <1>1, <1>2
  <2>2. c \in ac \/ NoticedIn(q, c)
    BY <1>9, <2>1, Zenon DEF ArmedIn
  <2> QED
    BY <1>8, <2>2, Zenon
<1> QED
  BY <1>6, <1>7, <1>8, <1>9

(* Delivering an answer keeps the order: no other entry answers that call. *)
LEMMA AnswerTaken ==
  ASSUME TypeInv, InOrder(queue, pending, active, seen), NEW c \in Call, Dispatch(c, {"answer"})
  PROVE  /\ seen[c] = "none"
         /\ \A given : (\A d \in Call \ {c} : given[d] = seen[d]) => InOrder(queue', pending, active, given)
         /\ \A d : d # c /\ AskedIn(queue, pending, d) => AskedIn(queue', pending, d)
         /\ \A d : NoticedIn(queue, d) => NoticedIn(queue', d)
         /\ ArmedIn(queue, active) => ArmedIn(queue', active)
         /\ outcome_of(kind[c], Head(queue).raw) = "ok" /\ ArmedIn(queue, active) => c \in active \/ NoticedIn(queue', c)
<1> USE DEF TypeInv, TypeOK
<1>1. /\ Len(queue') = Len(queue)
      /\ Len(queue) \in Nat \ {0}
      /\ Head(queue) = queue[1]
      /\ queue'[1].type = queue[1].type
      /\ queue'[1].raw = queue[1].raw
      /\ queue'[1].ws = queue[1].ws \ {c}
      /\ \A i \in 2..Len(queue) : queue'[i] = queue[i]
  BY DispatchQueue, Zenon
<1>2. queue[1].type = "answer" /\ c \in queue[1].ws /\ 1 \in 1..Len(queue)
  BY <1>1 DEF Dispatch
<1>3. ASSUME NEW i \in 1..Len(queue)
      PROVE  /\ queue'[i].type = queue[i].type /\ queue'[i].raw = queue[i].raw
             /\ queue'[i].ws \subseteq queue[i].ws
             /\ i # 1 => queue'[i] = queue[i]
             /\ queue'[i].ws \subseteq Call
  <2>1. i = 1 \/ i \in 2..Len(queue)
    BY <1>1
  <2>2. queue[i].ws \subseteq Call
    BY DEF Entry, Answer, Notice
  <2> QED
    BY <1>1, <2>1, <2>2, Zenon
<1>4. seen[c] = "none"
  BY <1>2, Zenon DEF InOrder
<1>5. \A j \in 1..Len(queue) : c \in queue[j].ws /\ j # 1 => queue[j].type # "answer"
  BY <1>2 DEF InOrder
<1>6. c \notin pending
  BY <1>2, Zenon DEF InOrder
<1>7. ASSUME NEW given, \A d \in Call \ {c} : given[d] = seen[d] PROVE InOrder(queue', pending, active, given)
  <2>1. \A d \in pending : given[d] = "none" /\ d \notin active /\ \A i \in 1..Len(queue') : d \notin queue'[i].ws
    BY <1>1, <1>3, <1>6, <1>7 DEF InOrder
  <2>2. ASSUME NEW i \in 1..Len(queue'), queue'[i].type = "answer", NEW d \in queue'[i].ws
        PROVE  /\ given[d] = "none"
               /\ \A j \in 1..Len(queue') : d \in queue'[j].ws /\ j # i => j > i /\ queue'[j].type # "answer"
    <3>1. i \in 1..Len(queue) /\ queue[i].type = "answer" /\ d \in queue[i].ws /\ d \in Call
      BY <1>1, <1>3, <2>2, Zenon
    <3>2. d # c
      BY <1>1, <1>5, <2>2, <3>1, Zenon
    <3> QED
      BY <1>1, <1>3, <1>7, <3>1, <3>2 DEF InOrder
  <2> QED
    BY <2>1, <2>2, Zenon DEF InOrder
<1>8. \A d : d # c /\ AskedIn(queue, pending, d) => AskedIn(queue', pending, d)
  BY <1>1, <1>3 DEF AskedIn
<1>9. \A d : NoticedIn(queue, d) => NoticedIn(queue', d)
  BY <1>1, <1>2, <1>3, Zenon DEF NoticedIn
<1>10. ArmedIn(queue, active) => ArmedIn(queue', active)
  BY <1>1, <1>3, <1>9 DEF ArmedIn
<1>11. outcome_of(kind[c], Head(queue).raw) = "ok" /\ ArmedIn(queue, active) => c \in active \/ NoticedIn(queue', c)
  BY <1>1, <1>2, <1>9, Zenon DEF ArmedIn
<1> QED
  BY <1>4, <1>7, <1>8, <1>9, <1>10, <1>11

(* The first of n things, or a later one.                                  *)
LEMMA FirstOrLater ==
  \A n \in Nat : \A i \in 1..n : i >= 1 /\ (i = 1 \/ (i \in 2..n /\ i # 1))
OBVIOUS

(* An event reaches a watch only after the answer to the request.          *)
LEMMA NoticeTaken ==
  ASSUME TypeInv, InOrder(queue, pending, active, seen), NEW c \in Call, Dispatch(c, {"session", "node"})
  PROVE  /\ ~AskedIn(queue, pending, c)
         /\ InOrder(queue', pending, active, seen)
         /\ \A d : AskedIn(queue, pending, d) => AskedIn(queue', pending, d)
         /\ \A d : d # c /\ NoticedIn(queue, d) => NoticedIn(queue', d)
         /\ ArmedIn(queue, active) => ArmedIn(queue', active)
<1> USE DEF TypeInv, TypeOK
<1>1. /\ Len(queue') = Len(queue)
      /\ Len(queue) \in Nat \ {0}
      /\ Head(queue) = queue[1]
      /\ queue'[1].type = queue[1].type
      /\ queue'[1].raw = queue[1].raw
      /\ queue'[1].ws = queue[1].ws \ {c}
      /\ \A i \in 2..Len(queue) : queue'[i] = queue[i]
  BY DispatchQueue, Zenon
<1>2. queue[1].type # "answer" /\ c \in queue[1].ws /\ 1 \in 1..Len(queue)
  BY <1>1 DEF Dispatch
<1>3. ASSUME NEW i \in 1..Len(queue)
      PROVE  /\ queue'[i].type = queue[i].type /\ queue'[i].raw = queue[i].raw
             /\ queue'[i].ws \subseteq queue[i].ws
             /\ i # 1 => queue'[i] = queue[i]
             /\ i >= 1
  <2>1. i >= 1 /\ (i = 1 \/ (i \in 2..Len(queue) /\ i # 1))
    BY <1>1, FirstOrLater, Zenon
  <2> QED
    BY <1>1, <2>1, Zenon
<1>4. ~AskedIn(queue, pending, c)
  <2>1. c \notin pending
    BY <1>2, Zenon DEF InOrder
  <2>2. ASSUME NEW i \in 1..Len(queue), queue[i].type = "answer", c \in queue[i].ws PROVE FALSE
    <3>1. 1 > i
      BY <1>2, <2>2, Zenon DEF InOrder
    <3> QED
      BY <3>1
  <2> QED
    BY <2>1, <2>2 DEF AskedIn
<1>5. InOrder(queue', pending, active, seen)
  <2>1. \A d \in pending : seen[d] = "none" /\ d \notin active /\ \A i \in 1..Len(queue') : d \notin queue'[i].ws
    BY <1>1, <1>3, Zenon DEF InOrder
  <2>2. ASSUME NEW i \in 1..Len(queue'), queue'[i].type = "answer", NEW d \in queue'[i].ws
        PROVE  /\ seen[d] = "none"
               /\ \A j \in 1..Len(queue') : d \in queue'[j].ws /\ j # i => j > i /\ queue'[j].type # "answer"
    <3>1. i \in 1..Len(queue) /\ queue[i].type = "answer" /\ d \in queue[i].ws
      BY <1>1, <1>3, <2>2
    <3> QED
      BY <1>1, <1>3, <3>1 DEF InOrder
  <2> QED
    BY <2>1, <2>2, Zenon DEF InOrder
<1>6. \A d : AskedIn(queue, pending, d) => AskedIn(queue', pending, d)
  BY <1>1, <1>2, <1>3, Zenon DEF AskedIn
<1>7. \A d : d # c /\ NoticedIn(queue, d) => NoticedIn(queue', d)
  BY <1>1, <1>3 DEF NoticedIn
<1>8. ASSUME ArmedIn(queue, active) PROVE ArmedIn(queue', active)
  <2> SUFFICES ASSUME NEW i \in 1..Len(queue'), queue'[i].type = "answer", NEW d \in queue'[i].ws,
                      outcome_of(kind[d], queue'[i].raw) = "ok"
               PROVE  d \in active \/ NoticedIn(queue', d)
    BY Zenon DEF ArmedIn
  <2>1. i \in 1..Len(queue) /\ queue[i].type = "answer" /\ d \in queue[i].ws /\ queue'[i].raw = queue[i].raw
    BY <1>1, <1>3, Zenon
  <2>2. d # c
    BY <1>4, <2>1 DEF AskedIn
  <2> QED
    BY <1>7, <1>8, <2>1, <2>2, Zenon DEF ArmedIn
<1> QED
  BY <1>4, <1>5, <1>6, <1>7, <1>8, Zenon

(* Dropping an entry that has no calls left keeps the order.               *)
LEMMA EntryDropped ==
  ASSUME TypeInv, InOrder(queue, pending, active, seen), NextEntry
  PROVE  /\ InOrder(queue', pending, active, seen)
         /\ \A d : AskedIn(queue, pending, d) => AskedIn(queue', pending, d)
         /\ \A d : NoticedIn(queue, d) => NoticedIn(queue', d)
         /\ ArmedIn(queue, active) => ArmedIn(queue', active)
<1> USE DEF TypeInv, TypeOK
<1>1. /\ Len(queue') = Len(queue) - 1
      /\ Len(queue) \in Nat \ {0}
      /\ queue[1].ws = {}
      /\ \A i \in 1..Len(queue') : queue'[i] = queue[i + 1]
  BY TailEntry, Zenon DEF NextEntry
<1>2. ASSUME NEW i \in 1..Len(queue') PROVE i + 1 \in 1..Len(queue) /\ queue'[i] = queue[i + 1] /\ i \in Int
  BY <1>1
<1>3. ASSUME NEW i \in 1..Len(queue), queue[i].ws # {} PROVE i - 1 \in 1..Len(queue') /\ queue'[i - 1] = queue[i]
  BY <1>1, <1>3
<1>4. InOrder(queue', pending, active, seen)
  <2>1. \A d \in pending : seen[d] = "none" /\ d \notin active /\ \A i \in 1..Len(queue') : d \notin queue'[i].ws
    BY <1>2 DEF InOrder
  <2>2. ASSUME NEW i \in 1..Len(queue'), queue'[i].type = "answer", NEW d \in queue'[i].ws
        PROVE  /\ seen[d] = "none"
               /\ \A j \in 1..Len(queue') : d \in queue'[j].ws /\ j # i => j > i /\ queue'[j].type # "answer"
    <3>1. i + 1 \in 1..Len(queue) /\ queue[i + 1].type = "answer" /\ d \in queue[i + 1].ws
      BY <1>2, <2>2, Zenon
    <3>2. ASSUME NEW j \in 1..Len(queue'), d \in queue'[j].ws, j # i PROVE j > i /\ queue'[j].type # "answer"
      <4>1. j + 1 \in 1..Len(queue) /\ d \in queue[j + 1].ws /\ j + 1 # i + 1
        BY <1>2, <3>2
      <4>2. j + 1 > i + 1 /\ queue[j + 1].type # "answer"
        BY <3>1, <4>1 DEF InOrder
      <4> QED
        BY <1>2, <4>2
    <3> QED
      BY <3>1, <3>2, Zenon DEF InOrder
  <2> QED
    BY <2>1, <2>2, Zenon DEF InOrder
<1>5. \A d : AskedIn(queue, pending, d) => AskedIn(queue', pending, d)
  BY <1>3, Zenon DEF AskedIn
<1>6. \A d : NoticedIn(queue, d) => NoticedIn(queue', d)
  BY <1>3, Zenon DEF NoticedIn
<1>7. ArmedIn(queue, active) => ArmedIn(queue', active)
  BY <1>2, <1>6 DEF ArmedIn
<1> QED
  BY <1>4, <1>5, <1>6, <1>7, Zenon

(* The I/O thread keeps the order. *)
LEMMA IOOrder ==
  ASSUME TypeInv, InOrder(queue, pending, active, seen), IOThread
  PROVE  /\ InOrder(queue', pending', active', seen)
         /\ \A c : AskedIn(queue, pending, c) => AskedIn(queue', pending', c)
         /\ \A c : c \in active \/ NoticedIn(queue, c) => c \in active' \/ NoticedIn(queue', c)
         /\ ArmedIn(queue, active) => ArmedIn(queue', active')
<1>0. queue \in Seq(Entry)
  BY Zenon DEF TypeInv, TypeOK
<1>1. CASE \E e \in Entry : /\ PushAnswer(e, queue, pending, active, queue', pending', active')
                            /\ Truthful(e, active')
  <2>1. PICK e \in Entry : PushAnswer(e, queue, pending, active, queue', pending', active') /\ Truthful(e, active')
    BY <1>1
  <2>2. active \subseteq active'
    BY <2>1, Zenon DEF PushAnswer
  <2> QED
    BY <1>0, <2>1, <2>2, AnswerOrder, Zenon
<1>2. CASE pending' = pending /\ \E e \in Entry : PushNotice(e, queue, active, queue', active')
  <2>1. PICK e \in Entry : PushNotice(e, queue, active, queue', active')
    BY <1>2
  <2>2. /\ InOrder(queue', pending, active', seen)
        /\ \A c : AskedIn(queue, pending, c) => AskedIn(queue', pending, c)
        /\ \A c : c \in active \/ NoticedIn(queue, c) => c \in active' \/ NoticedIn(queue', c)
        /\ ArmedIn(queue, active) => ArmedIn(queue', active')
    BY <1>0, <2>1, NoticeOrder, Zenon
  <2> QED
    BY <1>2, <2>2, Zenon
<1>3. CASE \E n, e \in Entry, q \in Seq(Entry) :
             /\ PushNotice(n, queue, active, q, active)
             /\ PushAnswer(e, q, pending, active, queue', pending', active')
             /\ Truthful(e, active')
  <2>1. PICK n \in Entry, e \in Entry, q \in Seq(Entry) :
             /\ PushNotice(n, queue, active, q, active)
             /\ PushAnswer(e, q, pending, active, queue', pending', active')
             /\ Truthful(e, active')
    BY <1>3
  <2>2. /\ InOrder(q, pending, active, seen)
        /\ \A c : AskedIn(queue, pending, c) => AskedIn(q, pending, c)
        /\ \A c : c \in active \/ NoticedIn(queue, c) => c \in active \/ NoticedIn(q, c)
        /\ ArmedIn(queue, active) => ArmedIn(q, active)
    BY <1>0, <2>1, NoticeOrder, Zenon
  <2>3. /\ InOrder(queue', pending', active', seen)
        /\ \A c : AskedIn(q, pending, c) => AskedIn(queue', pending', c)
        /\ \A c : NoticedIn(q, c) => NoticedIn(queue', c)
        /\ ArmedIn(q, active) => ArmedIn(queue', active')
    BY <2>1, <2>2, AnswerOrder, Zenon
  <2>4. active \subseteq active'
    BY <2>1, Zenon DEF PushAnswer
  <2> QED
    BY <2>2, <2>3, <2>4, Zenon
<1> QED
  BY <1>1, <1>2, <1>3, IOSteps, Zenon

(* The answer that zookeeper_close gives to what is not answered. *)
LEMMA CloseOrder ==
  ASSUME TypeInv, InOrder(queue, pending, active, seen), zookeeper_close
  PROVE  /\ InOrder(queue', pending', active', seen)
         /\ \A c : AskedIn(queue, pending, c) => AskedIn(queue', pending', c)
<1> USE DEF TypeInv, TypeOK
<1> DEFINE e == entry("answer", pending, "ZCLOSING")
<1>1. "ZCLOSING" \in RawCode
  BY Zenon DEF RawCode, error_code
<1>2. e \in Answer /\ e \in Entry /\ e.ws = pending
  BY <1>1, EntryType, Zenon DEF Entry, entry
<1>3. queue' = Push(queue, e) /\ pending' = {} /\ active' = active
  BY DEF zookeeper_close
<1> HIDE DEF e
<1>4. PushAnswer(e, queue, pending, active, queue', pending', active')
  BY <1>2, <1>3 DEF PushAnswer
<1> QED
  BY <1>2, <1>4, AnswerOrder, Zenon
=============================================================================
