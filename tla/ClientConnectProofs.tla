------------------------- MODULE ClientConnectProofs -------------------------
(***************************************************************************)
(* watch_state and client::connect, for any number of callers and losses.  *)
(*                                                                         *)
(* The argument: an event in the queue says what the session was, or       *)
(* still is, so what the promises are told is true (SessionInv).  connect  *)
(* asks for the change before it looks at the state: if it then waits, the *)
(* session was not connected, and the event of a connection comes after    *)
(* the one that is being delivered, unless that one is delivered to the    *)
(* call itself (ConnectInv).  What is printed of connection_params is      *)
(* parsed again (PrintedIsParsed), and connect takes hosts and timeout     *)
(* from what its text is parsed to and from nowhere else (AsParsed).       *)
(***************************************************************************)
EXTENDS ClientConnect, SequenceTheorems, FiniteSetTheorems, TLAPS

(* The states the session goes through once it has started to connect. *)
Reported == {"ZOO_CONNECTING_STATE", "ZOO_CONNECTED_STATE", "ZOO_EXPIRED_SESSION_STATE",
             "ZOO_AUTH_FAILED_STATE"}

Shown == {"connecting", "connected", "session_expired", "authentication_failed"}

SessionTypes ==
  /\ object \in {"none", "constructing", "built", "destroyed"}
  /\ handle \in {"null", "open", "closing", "failed"}
  /\ asked \subseteq Waiter
  /\ promises \subseteq asked
  /\ l_promises \subseteq asked
  /\ busy \in BOOLEAN
  /\ seen \in [Waiter -> Shown \union {"none", "broken_promise"}]
  /\ session \in Reported \union {"none", "ZOO_NOTCONNECTED_STATE"}
  /\ losses \in Nat
  /\ events \in Seq(Reported)

(* An event says what the session is, or was before a loss. *)
TrueEvent(e, now, lost) ==
  /\ e = "ZOO_EXPIRED_SESSION_STATE" => now = "ZOO_EXPIRED_SESSION_STATE"
  /\ e = "ZOO_AUTH_FAILED_STATE" => now = "ZOO_AUTH_FAILED_STATE"
  /\ e = "ZOO_CONNECTED_STATE" => now = "ZOO_CONNECTED_STATE" \/ lost > 0

Queue ==
  /\ \A i \in 1..Len(events) : TrueEvent(events[i], session, losses)
  /\ busy => events # <<>>

Lists ==
  /\ ~busy => l_promises = {}
  /\ \A w \in Waiter \ asked : seen[w] = "none"

NotYet == object = "none" => session = "none" /\ events = <<>> /\ asked = {}

SessionInv == SessionTypes /\ Queue /\ Lists /\ NotYet /\ EveryWaiterIsKept /\ StateSeenIsTrue

(* Every step that touches the connection. *)
UserStep ==
  \/ zookeeper_init \/ constructed \/ zookeeper_close \/ close_returns \/ destroy
  \/ \E w \in Waiter : watch_state(w)

StateStep == UserStep \/ IOThread \/ CompletionThread

-----------------------------------------------------------------------------
(* What a promise is told by an event (told, state_from_raw). *)
LEMMA Telling ==
  ASSUME NEW e \in Reported
  PROVE  /\ told(state_from_raw(e)) \in Shown
         /\ told(state_from_raw(e)) = "session_expired" => e = "ZOO_EXPIRED_SESSION_STATE"
         /\ told(state_from_raw(e)) = "authentication_failed" => e = "ZOO_AUTH_FAILED_STATE"
         /\ told(state_from_raw(e)) = "connected" => e = "ZOO_CONNECTED_STATE"
<1>1. /\ error_code["ZSESSIONEXPIRED"] = "session_expired"
      /\ error_code["ZAUTHFAILED"] = "authentication_failed"
  BY DEF error_code
<1> QED
  BY <1>1 DEF told, state_from_raw, state, Reported, Shown

(* A step of the session makes at most one event, of the state it enters. *)
LEMMA IOSteps ==
  ASSUME SessionInv, IOThread
  PROVE  /\ UNCHANGED <<object, handle, watchVars>>
         /\ session # "none" /\ session' \in Reported /\ object # "none"
         /\ losses' \in Nat /\ losses' >= losses
         /\ \/ events' = events /\ session' = "ZOO_CONNECTING_STATE"
                  /\ session = "ZOO_NOTCONNECTED_STATE" /\ losses' = losses
            \/ events' = Append(events, session') /\ session = "ZOO_CONNECTING_STATE"
                  /\ session' # "ZOO_CONNECTING_STATE"
            \/ events' = Append(events, session') /\ session = "ZOO_CONNECTED_STATE"
                  /\ session' = "ZOO_CONNECTING_STATE" /\ losses' > 0
<1>1. losses \in Nat
  BY DEF SessionInv, SessionTypes
<1>2. ASSUME Running PROVE session # "none" /\ object # "none"
  BY <1>2 DEF Running, SessionInv, NotYet
<1>3. CASE Connecting
  BY <1>1, <1>2, <1>3 DEF Connecting, Reported, watchVars
<1>4. CASE Connected
  BY <1>1, <1>2, <1>4 DEF Connected, SessionChange, Reported, watchVars
<1>5. CASE Disconnected
  BY <1>1, <1>2, <1>5 DEF Disconnected, SessionChange, Reported, watchVars
<1>6. CASE Expired
  BY <1>1, <1>2, <1>6 DEF Expired, SessionChange, Reported, watchVars
<1> QED
  BY <1>3, <1>4, <1>5, <1>6 DEF IOThread

(* The I/O thread keeps the invariant. *)
LEMMA IOKeeps ==
  ASSUME SessionInv, IOThread
  PROVE  SessionInv'
<1>0. /\ UNCHANGED <<object, handle, watchVars>>
      /\ session # "none" /\ session' \in Reported /\ object # "none"
      /\ losses' \in Nat /\ losses' >= losses
      /\ \/ events' = events /\ session' = "ZOO_CONNECTING_STATE"
               /\ session = "ZOO_NOTCONNECTED_STATE" /\ losses' = losses
         \/ events' = Append(events, session') /\ session = "ZOO_CONNECTING_STATE"
               /\ session' # "ZOO_CONNECTING_STATE"
         \/ events' = Append(events, session') /\ session = "ZOO_CONNECTED_STATE"
               /\ session' = "ZOO_CONNECTING_STATE" /\ losses' > 0
  BY IOSteps
<1>1. UNCHANGED <<object, handle, asked, promises, l_promises, busy, seen>>
  BY <1>0 DEF watchVars
<1>2. events \in Seq(Reported) /\ events' \in Seq(Reported) /\ losses \in Nat
  <2>1. events \in Seq(Reported) /\ losses \in Nat
    BY DEF SessionInv, SessionTypes
  <2> QED
    BY <1>0, <2>1
<1>3. SessionTypes'
  BY <1>0, <1>1, <1>2 DEF SessionInv, SessionTypes
<1>4. ASSUME NEW e, TrueEvent(e, session, losses) PROVE TrueEvent(e, session', losses')
  BY <1>0, <1>2, <1>4 DEF TrueEvent
<1>5. TrueEvent(session', session', losses')
  BY <1>0, <1>2 DEF TrueEvent
<1>6. Queue'
  <2>1. ASSUME NEW i \in 1..Len(events') PROVE TrueEvent(events'[i], session', losses')
    <3>1. CASE events' = events
      BY <1>4, <2>1, <3>1 DEF SessionInv, Queue
    <3>2. CASE events' = Append(events, session')
      <4>1. CASE i \in 1..Len(events)
        <5>1. events'[i] = events[i]
          BY <1>2, <3>2, <4>1
        <5> QED
          BY <1>4, <4>1, <5>1 DEF SessionInv, Queue
      <4>2. CASE i = Len(events) + 1
        BY <1>2, <1>5, <3>2, <4>2
      <4> QED
        BY <1>2, <2>1, <3>2, <4>1, <4>2
    <3> QED
      BY <1>0, <3>1, <3>2
  <2>2. busy' => events' # <<>>
    BY <1>0, <1>1, <1>2 DEF SessionInv, Queue
  <2> QED
    BY <2>1, <2>2 DEF Queue
<1>7. StateSeenIsTrue'
  BY <1>0, <1>1, <1>2 DEF SessionInv, StateSeenIsTrue
<1>8. Lists' /\ NotYet' /\ EveryWaiterIsKept'
  BY <1>0, <1>1 DEF SessionInv, Lists, NotYet, EveryWaiterIsKept
<1> QED
  BY <1>3, <1>6, <1>7, <1>8 DEF SessionInv

(* The completion thread keeps the invariant. *)
LEMMA CompletionKeeps ==
  ASSUME SessionInv, CompletionThread
  PROVE  SessionInv'
<1>1. SessionTypes /\ Queue /\ Lists /\ NotYet /\ EveryWaiterIsKept /\ StateSeenIsTrue
  BY DEF SessionInv
<1>2. CASE move_promises
  <2> USE <1>1, <1>2 DEF move_promises, libraryVars
  <2>1. SessionTypes'
    BY DEF SessionTypes
  <2>2. Queue'
    BY DEF Queue, TrueEvent
  <2>3. Lists' /\ NotYet'
    BY DEF Lists, NotYet
  <2>4. EveryWaiterIsKept' /\ StateSeenIsTrue'
    BY DEF EveryWaiterIsKept, StateSeenIsTrue, Lists
  <2> QED
    BY <2>1, <2>2, <2>3, <2>4 DEF SessionInv
<1>3. ASSUME NEW w \in Waiter, settle_promise(w) PROVE SessionInv'
  <2> DEFINE e == Head(events)
             s == told(state_from_raw(e))
  <2>1. busy /\ w \in asked /\ seen[w] = "none"
    BY <1>1, <1>3 DEF settle_promise, Lists, SessionTypes, EveryWaiterIsKept
  <2>2. e \in Reported /\ TrueEvent(e, session, losses)
    <3>1. events \in Seq(Reported) /\ events # <<>>
      BY <1>1, <2>1 DEF SessionTypes, Queue
    <3>2. e = events[1] /\ 1 \in 1..Len(events) /\ e \in Reported
      BY <3>1
    <3> QED
      BY <1>1, <3>2 DEF Queue
  <2>3. s \in Shown /\ s # "none"
    BY <2>2, Telling DEF Shown
  <2>4. seen' = [seen EXCEPT ![w] = s] /\ l_promises' = l_promises \ {w}
        /\ UNCHANGED <<object, handle, asked, promises, busy, session, losses, events>>
    BY <1>3 DEF settle_promise, libraryVars
  <2>5. s = "session_expired" => session = "ZOO_EXPIRED_SESSION_STATE"
    BY <2>2, Telling DEF TrueEvent
  <2>6. s = "authentication_failed" => session = "ZOO_AUTH_FAILED_STATE"
    BY <2>2, Telling DEF TrueEvent
  <2>7. s = "connected" => session = "ZOO_CONNECTED_STATE" \/ losses > 0
    BY <2>2, Telling DEF TrueEvent
  <2> HIDE DEF s, e
  <2>8. SessionTypes'
    BY <1>1, <2>3, <2>4 DEF SessionTypes
  <2>9. Queue' /\ NotYet'
    BY <1>1, <2>4 DEF Queue, TrueEvent, NotYet
  <2>10. Lists'
    BY <1>1, <2>1, <2>4 DEF Lists, SessionTypes
  <2>11. EveryWaiterIsKept'
    BY <1>1, <1>3, <2>1, <2>3, <2>4 DEF EveryWaiterIsKept, SessionTypes, settle_promise
  <2>12. StateSeenIsTrue'
    BY <1>1, <2>4, <2>5, <2>6, <2>7 DEF StateSeenIsTrue, SessionTypes
  <2> QED
    BY <2>8, <2>9, <2>10, <2>11, <2>12 DEF SessionInv
<1>4. CASE on_session_event_returns
  <2>1. events \in Seq(Reported) /\ events # <<>>
    BY <1>1, <1>4 DEF SessionTypes, Queue, on_session_event_returns
  <2>2. /\ events' \in Seq(Reported) /\ Len(events') = Len(events) - 1 /\ Len(events) \in Nat
        /\ \A i \in 1..Len(events') : i + 1 \in 1..Len(events) /\ events'[i] = events[i + 1]
    BY <1>4, <2>1 DEF on_session_event_returns
  <2>3. busy' = FALSE /\ l_promises' = {}
        /\ UNCHANGED <<object, handle, asked, promises, l_promises, seen, session, losses>>
    BY <1>4 DEF on_session_event_returns
  <2>4. SessionTypes'
    BY <1>1, <2>2, <2>3 DEF SessionTypes
  <2>5. Queue'
    <3>1. ASSUME NEW i \in 1..Len(events') PROVE TrueEvent(events'[i], session', losses')
      BY <1>1, <2>2, <2>3, <3>1 DEF Queue
    <3> QED
      BY <2>3, <3>1 DEF Queue
  <2>6. Lists' /\ EveryWaiterIsKept' /\ StateSeenIsTrue'
    BY <1>1, <2>3 DEF Lists, EveryWaiterIsKept, StateSeenIsTrue
  <2>7. NotYet'
    BY <1>1, <2>1, <2>3 DEF NotYet
  <2> QED
    BY <2>4, <2>5, <2>6, <2>7 DEF SessionInv
<1> QED
  BY <1>2, <1>3, <1>4 DEF CompletionThread

(* Whoever owns the connection keeps the invariant. *)
LEMMA UserKeeps ==
  ASSUME SessionInv, UserStep
  PROVE  SessionInv'
<1>1. SessionTypes /\ Queue /\ Lists /\ NotYet /\ EveryWaiterIsKept /\ StateSeenIsTrue
  BY DEF SessionInv
<1>2. CASE zookeeper_init
  <2>1. /\ session = "none" /\ events = <<>> /\ asked = {} /\ object' = "constructing"
        /\ session' \in {"none", "ZOO_NOTCONNECTED_STATE"}
        /\ UNCHANGED <<handle, asked, promises, l_promises, busy, seen, losses, events>>
    BY <1>1, <1>2 DEF zookeeper_init, NotYet, watchVars
  <2>2. SessionTypes'
    BY <1>1, <2>1 DEF SessionTypes
  <2>3. \A w \in Waiter : seen[w] = "none"
    BY <1>1, <2>1 DEF Lists
  <2>4. Queue'
    BY <1>1, <2>1 DEF Queue
  <2>5. Lists' /\ NotYet' /\ EveryWaiterIsKept' /\ StateSeenIsTrue'
    BY <1>1, <2>1, <2>3 DEF Lists, NotYet, EveryWaiterIsKept, StateSeenIsTrue
  <2> QED
    BY <2>2, <2>4, <2>5 DEF SessionInv
<1>3. CASE constructed \/ zookeeper_close \/ close_returns
  <2>1. /\ object' \in {"built", object} /\ handle' \in {"null", "open", "closing", "failed"}
        /\ object # "none" \/ object' = object
        /\ UNCHANGED <<asked, promises, l_promises, busy, seen, session, losses, events>>
    BY <1>3 DEF constructed, zookeeper_close, close_returns, watchVars, libraryVars
  <2>2. SessionTypes'
    BY <1>1, <2>1 DEF SessionTypes
  <2>3. Queue' /\ Lists' /\ EveryWaiterIsKept' /\ StateSeenIsTrue'
    BY <1>1, <2>1 DEF Queue, Lists, EveryWaiterIsKept, StateSeenIsTrue
  <2>4. NotYet'
    BY <1>1, <2>1 DEF NotYet
  <2> QED
    BY <2>2, <2>3, <2>4 DEF SessionInv
<1>4. CASE destroy
  <2>1. /\ object' = "destroyed" /\ promises' = {}
        /\ seen' = [w \in Waiter |-> IF w \in promises THEN "broken_promise" ELSE seen[w]]
        /\ UNCHANGED <<handle, asked, l_promises, busy, session, losses, events>>
    BY <1>4 DEF destroy, libraryVars
  <2>2. SessionTypes'
    BY <1>1, <2>1 DEF SessionTypes
  <2>3. Queue' /\ NotYet'
    BY <1>1, <2>1 DEF Queue, NotYet
  <2>4. Lists' /\ EveryWaiterIsKept' /\ StateSeenIsTrue'
    BY <1>1, <2>1 DEF Lists, EveryWaiterIsKept, StateSeenIsTrue, SessionTypes
  <2> QED
    BY <2>2, <2>3, <2>4 DEF SessionInv
<1>5. ASSUME NEW w \in Waiter, watch_state(w) PROVE SessionInv'
  <2>1. /\ object = "built" /\ w \notin asked
        /\ asked' = asked \union {w} /\ promises' = promises \union {w}
        /\ UNCHANGED <<object, handle, l_promises, busy, seen, session, losses, events>>
    BY <1>5 DEF watch_state, libraryVars
  <2>2. SessionTypes'
    BY <1>1, <2>1 DEF SessionTypes
  <2>3. Queue' /\ NotYet' /\ StateSeenIsTrue'
    BY <1>1, <2>1 DEF Queue, NotYet, StateSeenIsTrue
  <2>4. Lists' /\ EveryWaiterIsKept'
    BY <1>1, <2>1 DEF Lists, EveryWaiterIsKept, SessionTypes
  <2> QED
    BY <2>2, <2>3, <2>4 DEF SessionInv
<1> QED
  BY <1>2, <1>3, <1>4, <1>5 DEF UserStep

(* Every step of the program is one of these, or leaves the connection     *)
(* alone.                                                                  *)
LEMMA Steps ==
  ASSUME [Next]_vars
  PROVE  StateStep \/ UNCHANGED stateVars
<1>1. ASSUME NEW l, connection_zk(l) PROVE StateStep
  BY <1>1, Zenon DEF connection_zk, StateStep, UserStep
<1>2. CASE Connect
  <2>1. CASE connect_watch
    BY <2>1, ConnectAssumption, Zenon DEF connect_watch, StateStep, UserStep
  <2>2. CASE connect_built
    BY <2>2, Zenon DEF connect_built, StateStep, UserStep
  <2>3. CASE connect_init
    BY <1>1, <2>3, Zenon DEF connect_init
  <2>4. CASE parse_fails \/ bad_schema \/ connect_check \/ connect_wait
    BY <2>4, Zenon DEF parse_fails, bad_schema, connect_check, connect_wait
  <2> QED
    BY <1>2, <2>1, <2>2, <2>3, <2>4, Zenon DEF Connect
<1>3. CASE own_init
  BY <1>1, <1>3, Zenon DEF own_init
<1>4. CASE own_use
  BY <1>4, Zenon DEF own_use, UserNext, StateStep, UserStep
<1>5. CASE Library \/ Ending
  BY <1>5, Zenon DEF Library, Ending, StateStep, UserStep
<1>6. CASE UNCHANGED vars
  BY <1>6, Zenon DEF vars
<1> QED
  BY <1>2, <1>3, <1>4, <1>5, <1>6, Zenon DEF Next

(* The invariant of the session. *)
LEMMA SessionAlways == Spec => []SessionInv
<1>1. Init => SessionInv
  <2> SUFFICES ASSUME Init PROVE SessionInv
    OBVIOUS
  <2>1. StateInit
    BY DEF Init
  <2>2. SessionTypes
    <3>1. events \in Seq(Reported) /\ losses \in Nat
      BY <2>1 DEF StateInit
    <3>2. seen \in [Waiter -> Shown \union {"none", "broken_promise"}]
      BY <2>1 DEF StateInit
    <3>3. busy \in BOOLEAN
      BY <2>1, Zenon DEF StateInit
    <3> QED
      BY <2>1, <3>1, <3>2, <3>3 DEF StateInit, SessionTypes
  <2>3. Queue /\ Lists /\ NotYet /\ EveryWaiterIsKept /\ StateSeenIsTrue
    BY <2>1 DEF StateInit, Queue, Lists, NotYet, EveryWaiterIsKept, StateSeenIsTrue
  <2> QED
    BY <2>2, <2>3 DEF SessionInv
<1>2. SessionInv /\ [Next]_vars => SessionInv'
  <2> SUFFICES ASSUME SessionInv, [Next]_vars PROVE SessionInv'
    OBVIOUS
  <2>1. CASE StateStep
    BY <2>1, UserKeeps, IOKeeps, CompletionKeeps, Zenon DEF StateStep
  <2>2. CASE UNCHANGED stateVars
    <3>1. UNCHANGED <<object, handle, asked, promises, l_promises, busy, seen, session, losses, events>>
      BY <2>2 DEF stateVars, watchVars, libraryVars
    <3> QED
      BY <3>1 DEF SessionInv, SessionTypes, Queue, Lists, NotYet, EveryWaiterIsKept, StateSeenIsTrue
  <2> QED
    BY <2>1, <2>2, Steps, Zenon
<1> QED
  BY <1>1, <1>2, PTL DEF Spec

(* No call of watch_state is forgotten, for any number of calls: until it  *)
(* is settled its promise is in exactly one list (watch_state,             *)
(* on_session_event).                                                      *)
THEOREM WaitersAreKept == Spec => []EveryWaiterIsKept
<1>1. SessionInv => EveryWaiterIsKept
  BY DEF SessionInv
<1> QED
  BY <1>1, SessionAlways, PTL

(* What watch_state tells is true, for any number of calls and losses      *)
(* (on_session_event).                                                     *)
THEOREM StatesSeenAreTrue == Spec => []StateSeenIsTrue
<1>1. SessionInv => StateSeenIsTrue
  BY DEF SessionInv
<1> QED
  BY <1>1, SessionAlways, PTL

(* No promise of watch_state is settled twice, neither by two events nor   *)
(* by an event and the destructor.                                         *)
THEOREM StatesSeenOnce == Spec => StateSeenOnce
<1> DEFINE Once == \A w \in Waiter : seen[w] # "none" => seen'[w] = seen[w]
<1>1. SessionInv /\ [Next]_vars => [Once]_stateVars
  <2> SUFFICES ASSUME SessionInv, [Next]_vars PROVE Once \/ UNCHANGED stateVars
    BY Zenon
  <2>0. SessionTypes /\ EveryWaiterIsKept /\ Lists
    BY DEF SessionInv
  <2>1. CASE UserStep
    <3>1. CASE destroy
      BY <2>0, <3>1 DEF destroy, SessionTypes, EveryWaiterIsKept
    <3>2. CASE seen' = seen
      BY <3>2
    <3>3. destroy \/ seen' = seen
      BY <2>1, Zenon DEF UserStep, zookeeper_init, constructed, zookeeper_close, close_returns,
                         watch_state, watchVars
    <3> QED
      BY <3>1, <3>2, <3>3
  <2>2. CASE IOThread
    <3>1. seen' = seen
      BY <2>2, IOSteps DEF watchVars
    <3> QED
      BY <3>1
  <2>3. CASE CompletionThread
    <3>1. CASE move_promises \/ on_session_event_returns
      BY <3>1 DEF move_promises, on_session_event_returns
    <3>2. ASSUME NEW w \in Waiter, settle_promise(w) PROVE Once
      <4>1. seen[w] = "none"
        BY <2>0, <3>2 DEF settle_promise, SessionTypes, EveryWaiterIsKept
      <4> QED
        BY <2>0, <3>2, <4>1 DEF settle_promise, SessionTypes
    <3> QED
      BY <2>3, <3>1, <3>2 DEF CompletionThread
  <2> QED
    BY <2>1, <2>2, <2>3, Steps, Zenon DEF StateStep
<1> QED
  BY <1>1, SessionAlways, PTL DEF Spec, StateSeenOnce, Once

-----------------------------------------------------------------------------
(* How far connect is, and what the connection is like then. *)
Progress ==
  /\ pc \in {"start", "making", "watch", "check", "waiting", "done", "own"}
  /\ pc # "done" => outcome = "none"
  /\ pc = "start" => object = "none"
  /\ pc \in {"watch", "check", "waiting"} =>
       object = "built" /\ handle = IF session = "none" THEN "null" ELSE "open"
  /\ pc \in {"check", "waiting"} => TheCall \in asked

(* The event of the connection is still to be delivered to the call that   *)
(* waits: it is not the one being delivered, or the call is told of it.    *)
Coming ==
  pc = "waiting" /\ seen[TheCall] = "none" /\ session = "ZOO_CONNECTED_STATE" =>
    \E i \in 1..Len(events) :
      /\ events[i] = "ZOO_CONNECTED_STATE"
      /\ busy /\ i = 1 => TheCall \in l_promises

ConnectInv == SessionInv /\ Progress /\ Coming /\ OutcomeIsTrue

(* The C library goes on while connect is at any point. *)
LEMMA LibraryKeeps ==
  ASSUME ConnectInv, Library
  PROVE  Progress' /\ Coming' /\ OutcomeIsTrue'
<1>1. SessionTypes /\ Queue /\ Lists /\ NotYet /\ EveryWaiterIsKept /\ Progress /\ Coming /\ OutcomeIsTrue
      /\ UNCHANGED <<pc, outcome>>
  BY DEF ConnectInv, SessionInv, Library, callVars
<1>2. events \in Seq(Reported) /\ Len(events) \in Nat /\ TheCall \in Waiter
  BY <1>1, ConnectAssumption DEF SessionTypes
<1>3. CASE IOThread
  <2>1. /\ UNCHANGED <<object, handle, asked, promises, l_promises, busy, seen>>
        /\ session # "none" /\ session' \in Reported
        /\ losses' \in Nat /\ losses' >= losses /\ losses \in Nat
        /\ \/ events' = events /\ session' = "ZOO_CONNECTING_STATE"
                 /\ session = "ZOO_NOTCONNECTED_STATE" /\ losses' = losses
           \/ events' = Append(events, session') /\ session = "ZOO_CONNECTING_STATE"
                 /\ session' # "ZOO_CONNECTING_STATE"
           \/ events' = Append(events, session') /\ session = "ZOO_CONNECTED_STATE"
                 /\ session' = "ZOO_CONNECTING_STATE" /\ losses' > 0
    BY <1>1, <1>3, IOSteps DEF ConnectInv, SessionTypes, watchVars
  <2>2. Progress'
    BY <1>1, <2>1 DEF Progress, Reported
  <2>3. OutcomeIsTrue'
    BY <1>1, <2>1 DEF OutcomeIsTrue
  <2>4. Coming'
    <3> SUFFICES ASSUME session' = "ZOO_CONNECTED_STATE"
                 PROVE  \E i \in 1..Len(events') :
                          /\ events'[i] = "ZOO_CONNECTED_STATE"
                          /\ busy' /\ i = 1 => TheCall \in l_promises'
      BY DEF Coming
    <3>1. events' = Append(events, "ZOO_CONNECTED_STATE")
      BY <2>1
    <3>2. busy' => Len(events) # 0
      BY <1>1, <1>2, <2>1 DEF Queue
    <3>3. Len(events) + 1 \in 1..Len(events') /\ events'[Len(events) + 1] = "ZOO_CONNECTED_STATE"
      BY <1>2, <3>1
    <3>4. busy' /\ Len(events) + 1 = 1 => TheCall \in l_promises'
      BY <1>2, <3>2
    <3> QED
      BY <3>3, <3>4
  <2> QED
    BY <2>2, <2>3, <2>4
<1>4. CASE CompletionThread
  <2>1. UNCHANGED <<object, handle, asked, session, losses>>
    BY <1>4, Zenon DEF CompletionThread, move_promises, settle_promise, on_session_event_returns, libraryVars
  <2>2. Progress' /\ OutcomeIsTrue'
    BY <1>1, <2>1 DEF Progress, OutcomeIsTrue
  <2>3. Coming'
    <3> SUFFICES ASSUME pc = "waiting", seen'[TheCall] = "none", session = "ZOO_CONNECTED_STATE"
                 PROVE  \E i \in 1..Len(events') :
                          /\ events'[i] = "ZOO_CONNECTED_STATE"
                          /\ busy' /\ i = 1 => TheCall \in l_promises'
      BY <1>1, <2>1 DEF Coming
    <3>1. CASE move_promises
      <4>1. seen' = seen /\ events' = events /\ l_promises' = promises /\ ~busy
        BY <3>1 DEF move_promises, libraryVars
      <4>2. TheCall \in promises
        BY <1>1, <4>1 DEF Lists, EveryWaiterIsKept, Progress
      <4> QED
        BY <1>1, <4>1, <4>2 DEF Coming
    <3>2. ASSUME NEW w \in Waiter, settle_promise(w)
          PROVE  \E i \in 1..Len(events') :
                   /\ events'[i] = "ZOO_CONNECTED_STATE"
                   /\ busy' /\ i = 1 => TheCall \in l_promises'
      <4>1. busy /\ events # <<>>
        BY <1>1, <3>2 DEF settle_promise, Lists, Queue
      <4>2. Head(events) \in Reported
        BY <1>2, <4>1
      <4>3. told(state_from_raw(Head(events))) # "none"
        BY <4>2, Telling DEF Shown
      <4>4. TheCall # w /\ seen[TheCall] = "none"
        BY <1>1, <1>2, <3>2, <4>3 DEF settle_promise, SessionTypes
      <4>5. events' = events /\ busy' = busy /\ l_promises' = l_promises \ {w}
        BY <3>2 DEF settle_promise, libraryVars
      <4> QED
        BY <1>1, <4>4, <4>5 DEF Coming
    <3>3. CASE on_session_event_returns
      <4>1. busy /\ l_promises = {} /\ seen' = seen /\ busy' = FALSE /\ events' = Tail(events)
        BY <3>3 DEF on_session_event_returns
      <4>2. PICK i \in 1..Len(events) : events[i] = "ZOO_CONNECTED_STATE" /\ i # 1
        BY <1>1, <4>1 DEF Coming
      <4>3. i - 1 \in 1..Len(events') /\ events'[i - 1] = "ZOO_CONNECTED_STATE"
        BY <1>2, <4>1, <4>2
      <4> QED
        BY <4>1, <4>3
    <3> QED
      BY <1>4, <3>1, <3>2, <3>3 DEF CompletionThread
  <2> QED
    BY <2>2, <2>3
<1> QED
  BY <1>3, <1>4 DEF Library

(* The call itself, and whoever has the connection after or without it. *)
LEMMA CallKeeps ==
  ASSUME ConnectInv, Connect \/ own_init \/ own_use \/ Ending
  PROVE  Progress' /\ Coming' /\ OutcomeIsTrue'
<1>1. SessionTypes /\ Lists /\ NotYet /\ StateSeenIsTrue /\ Progress /\ Coming /\ OutcomeIsTrue
  BY DEF ConnectInv, SessionInv
<1>2. TheCall \in Waiter
  BY ConnectAssumption
<1>3. CASE parse_fails \/ bad_schema
  <2>1. pc' = "done" /\ outcome' \in {"threw", "invalid_argument"}
    BY <1>3 DEF parse_fails, bad_schema, ends
  <2> QED
    BY <2>1 DEF Progress, Coming, OutcomeIsTrue
<1>4. CASE connect_init \/ own_init
  <2>1. pc = "start" /\ pc' \in {"making", "own"} /\ outcome' = outcome
    BY <1>4 DEF connect_init, own_init, connection_zk
  <2> QED
    BY <1>1, <2>1 DEF Progress, Coming, OutcomeIsTrue
<1>5. CASE connect_built
  <2>1. /\ pc = "making" /\ pc' = "watch" /\ outcome' = outcome
        /\ object' = "built" /\ session' = session
        /\ handle' = IF session = "none" THEN "null" ELSE "open"
    BY <1>5 DEF connect_built, constructed, libraryVars
  <2> QED
    BY <1>1, <2>1 DEF Progress, Coming, OutcomeIsTrue
<1>6. CASE connect_watch
  <2>1. /\ pc = "watch" /\ pc' = "check" /\ outcome' = outcome
        /\ asked' = asked \union {TheCall}
        /\ UNCHANGED <<object, handle, session>>
    BY <1>6 DEF connect_watch, watch_state, libraryVars
  <2> QED
    BY <1>1, <2>1 DEF Progress, Coming, OutcomeIsTrue
<1>7. CASE connect_check
  <2>1. UNCHANGED <<object, handle, asked, promises, l_promises, busy, seen, session, losses, events>>
    BY <1>7 DEF connect_check, stateVars, watchVars, libraryVars
  <2>2. pc = "check" /\ outcome = "none"
    BY <1>1, <1>7 DEF connect_check, Progress
  <2>3. state_of_connection = "connected" <=> session = "ZOO_CONNECTED_STATE"
    BY <1>1, <2>2 DEF state_of_connection, state_from_raw, state, Progress, SessionTypes, Reported
  <2>4. CASE session = "ZOO_CONNECTED_STATE"
    <3>1. pc' = "done" /\ outcome' = "client"
      BY <1>7, <2>3, <2>4 DEF connect_check, ends
    <3> QED
      BY <2>1, <2>4, <3>1 DEF Progress, Coming, OutcomeIsTrue
  <2>5. CASE session # "ZOO_CONNECTED_STATE"
    <3>1. pc' = "waiting" /\ outcome' = outcome
      BY <1>7, <2>3, <2>5 DEF connect_check
    <3> QED
      BY <1>1, <2>1, <2>2, <2>5, <3>1 DEF Progress, Coming, OutcomeIsTrue
  <2> QED
    BY <2>4, <2>5
<1>8. CASE connect_wait
  <2>1. UNCHANGED <<session, losses>> /\ pc' = "done"
    BY <1>8 DEF connect_wait, ends, stateVars, libraryVars
  <2>2. /\ outcome' = "client" => seen[TheCall] = "connected"
        /\ outcome' = "session_expired" => seen[TheCall] = "session_expired"
        /\ outcome' = "authentication_failed" => seen[TheCall] = "authentication_failed"
    BY <1>1, <1>2, <1>8 DEF connect_wait, ends, SessionTypes, Shown
  <2> QED
    BY <1>1, <1>2, <2>1, <2>2 DEF Progress, Coming, OutcomeIsTrue, StateSeenIsTrue
<1>9. CASE own_use
  <2>1. pc = "own" /\ pc' = "own" /\ outcome' = outcome
    BY <1>9 DEF own_use, callVars
  <2>2. outcome = "none"
    BY <1>1, <2>1 DEF Progress
  <2> QED
    BY <2>1, <2>2 DEF Progress, Coming, OutcomeIsTrue
<1>10. CASE Ending
  <2>1. pc = "done" /\ pc' = "done" /\ outcome' = outcome /\ UNCHANGED <<session, losses>>
    BY <1>10 DEF Ending, callVars, zookeeper_close, close_returns, destroy, libraryVars
  <2> QED
    BY <1>1, <2>1 DEF Progress, Coming, OutcomeIsTrue
<1> QED
  BY <1>3, <1>4, <1>5, <1>6, <1>7, <1>8, <1>9, <1>10 DEF Connect

(* The invariant of connect. *)
LEMMA ConnectAlways == Spec => []ConnectInv
<1>1. Init /\ SessionInv => ConnectInv
  BY DEF Init, StateInit, ConnectInv, Progress, Coming, OutcomeIsTrue
<1>2. ConnectInv /\ SessionInv' /\ [Next]_vars => ConnectInv'
  <2> SUFFICES ASSUME ConnectInv, SessionInv', [Next]_vars PROVE ConnectInv'
    OBVIOUS
  <2>1. CASE Next
    <3>1. Progress' /\ Coming' /\ OutcomeIsTrue'
      BY <2>1, LibraryKeeps, CallKeeps, Zenon DEF Next
    <3> QED
      BY <3>1, Zenon DEF ConnectInv
  <2>2. CASE UNCHANGED vars
    <3>1. UNCHANGED <<object, handle, asked, l_promises, busy, seen, session, losses, events, pc, outcome>>
      BY <2>2 DEF vars, stateVars, watchVars, libraryVars
    <3>2. Progress' /\ Coming' /\ OutcomeIsTrue'
      BY <3>1 DEF ConnectInv, Progress, Coming, OutcomeIsTrue
    <3> QED
      BY <3>2, Zenon DEF ConnectInv
  <2> QED
    BY <2>1, <2>2
<1> QED
  BY <1>1, <1>2, SessionAlways, PTL DEF Spec

(* connect never sleeps through the connection, however the session comes  *)
(* and goes between its steps (client::connect).                           *)
THEOREM ConnectionIsNotMissed == Spec => []NoMissedConnection
<1>1. ConnectInv => NoMissedConnection
  <2> SUFFICES ASSUME ConnectInv, pc = "waiting", seen[TheCall] = "none", session = "ZOO_CONNECTED_STATE"
               PROVE  /\ TheCall \in promises \union l_promises
                      /\ \E i \in 1..Len(events) : events[i] = "ZOO_CONNECTED_STATE"
    BY DEF NoMissedConnection
  <2>1. TheCall \in promises \union l_promises
    BY DEF ConnectInv, Progress, SessionInv, EveryWaiterIsKept
  <2>2. \E i \in 1..Len(events) : events[i] = "ZOO_CONNECTED_STATE"
    BY DEF ConnectInv, Coming
  <2> QED
    BY <2>1, <2>2
<1> QED
  BY <1>1, ConnectAlways, PTL

(* The future of connect tells the truth about the session                 *)
(* (client::connect).                                                      *)
THEOREM OutcomesAreTrue == Spec => []OutcomeIsTrue
<1>1. ConnectInv => OutcomeIsTrue
  BY DEF ConnectInv
<1> QED
  BY <1>1, ConnectAlways, PTL

-----------------------------------------------------------------------------
(* Connection strings: what is printed is parsed again.                    *)

(* A key that is in one piece of the query has the value given there. *)
LEMMA OptionIs ==
  ASSUME NEW query, NEW key, NEW default, NEW m \in DOMAIN query, DOMAIN query \subseteq Nat,
         query[m].key = key, \A j \in DOMAIN query : query[j].key = key => j = m
  PROVE  Option(query, key, default) = query[m].val
<1> DEFINE at == {i \in DOMAIN query : query[i].key = key}
<1>1. at = {m}
  OBVIOUS
<1>2. m <= m
  OBVIOUS
<1> HIDE DEF at
<1>3. (CHOOSE i \in at : \A j \in at : j <= i) = m
  BY <1>1, <1>2
<1> QED
  BY <1>1, <1>3 DEF Option, at

(* The pieces of a query of at most three: they have different keys, and   *)
(* each of them is there if its condition holds.                           *)
LEMMA Pieces ==
  ASSUME NEW a, NEW b, NEW c, NEW r, NEW o, NEW t, NEW q,
         q = (a \o b) \o c, a \in {<<>>, <<r>>}, b \in {<<>>, <<o>>}, c \in {<<>>, <<t>>}
  PROVE  /\ DOMAIN q \subseteq Nat
         /\ \A i \in DOMAIN q : \/ q[i] = r /\ a # <<>> /\ i = 1
                                \/ q[i] = o /\ b # <<>> /\ i = Len(a) + 1
                                \/ q[i] = t /\ c # <<>> /\ i = Len(a) + Len(b) + 1
         /\ a # <<>> => 1 \in DOMAIN q /\ q[1] = r
         /\ b # <<>> => Len(a) + 1 \in DOMAIN q /\ q[Len(a) + 1] = o
         /\ c # <<>> => Len(a) + Len(b) + 1 \in DOMAIN q /\ q[Len(a) + Len(b) + 1] = t
<1> DEFINE S == {r, o, t}
<1>1. a \in Seq(S) /\ b \in Seq(S) /\ c \in Seq(S)
  <2>1. r \in S /\ o \in S /\ t \in S
    OBVIOUS
  <2> HIDE DEF S
  <2>2. <<>> \in Seq(S) /\ <<r>> \in Seq(S) /\ <<o>> \in Seq(S) /\ <<t>> \in Seq(S)
    BY <2>1
  <2> QED
    BY <2>2, Zenon
<1>2. /\ Len(a) = IF a = <<>> THEN 0 ELSE 1
      /\ Len(b) = IF b = <<>> THEN 0 ELSE 1
      /\ Len(c) = IF c = <<>> THEN 0 ELSE 1
  OBVIOUS
<1>3. /\ a # <<>> => a[1] = r
      /\ b # <<>> => b[1] = o
      /\ c # <<>> => c[1] = t
  OBVIOUS
<1> HIDE DEF S
<1>4. /\ a \o b \in Seq(S) /\ Len(a \o b) = Len(a) + Len(b)
      /\ \A i \in 1..Len(a) + Len(b) : (a \o b)[i] = IF i <= Len(a) THEN a[i] ELSE b[i - Len(a)]
  BY <1>1
<1>5. /\ q \in Seq(S) /\ Len(q) = Len(a) + Len(b) + Len(c)
      /\ \A i \in 1..Len(q) : q[i] = IF i <= Len(a \o b) THEN (a \o b)[i] ELSE c[i - Len(a \o b)]
  BY <1>1, <1>4
<1>6. DOMAIN q = 1..Len(q)
  BY <1>5
<1>7. \A i \in 1..Len(q) : \/ q[i] = r /\ a # <<>> /\ i = 1
                           \/ q[i] = o /\ b # <<>> /\ i = Len(a) + 1
                           \/ q[i] = t /\ c # <<>> /\ i = Len(a) + Len(b) + 1
  <2> SUFFICES ASSUME NEW i \in 1..Len(q)
               PROVE  \/ q[i] = r /\ a # <<>> /\ i = 1
                      \/ q[i] = o /\ b # <<>> /\ i = Len(a) + 1
                      \/ q[i] = t /\ c # <<>> /\ i = Len(a) + Len(b) + 1
    OBVIOUS
  <2>1. CASE i <= Len(a)
    BY <1>2, <1>3, <1>4, <1>5, <2>1
  <2>2. CASE i > Len(a) /\ i <= Len(a) + Len(b)
    BY <1>2, <1>3, <1>4, <1>5, <2>2
  <2>3. CASE i > Len(a) + Len(b)
    BY <1>2, <1>3, <1>4, <1>5, <2>3
  <2> QED
    BY <1>2, <2>1, <2>2, <2>3
<1>8. a # <<>> => 1 \in 1..Len(q) /\ q[1] = r
  BY <1>2, <1>3, <1>4, <1>5
<1>9. b # <<>> => Len(a) + 1 \in 1..Len(q) /\ q[Len(a) + 1] = o
  BY <1>2, <1>3, <1>4, <1>5
<1>10. c # <<>> => Len(a) + Len(b) + 1 \in 1..Len(q) /\ q[Len(a) + Len(b) + 1] = t
  BY <1>2, <1>3, <1>4, <1>5
<1> QED
  BY <1>6, <1>7, <1>8, <1>9, <1>10

(* A chroot that starts with its slash is printed as the path and leaves   *)
(* the hosts alone.                                                        *)
LEMMA SlashFirst ==
  ASSUME NEW S, NEW words \in Seq(S), words # <<>>, words[1] = "/"
  PROVE  BeforeSlash(words) = 0 /\ SubSeq(words, 0 + 1, Len(words)) = words
<1>1. {i \in DOMAIN words : \A j \in 1..i : words[j] # "/"} = {}
  <2> SUFFICES ASSUME NEW i \in DOMAIN words, \A j \in 1..i : words[j] # "/" PROVE FALSE
    OBVIOUS
  <2>1. 1 \in 1..i
    OBVIOUS
  <2> QED
    BY <2>1
<1>2. BeforeSlash(words) = 0
  BY <1>1, FS_EmptySet, Zenon DEF BeforeSlash
<1>3. SubSeq(words, 1, Len(words)) = words
  OBVIOUS
<1> QED
  BY <1>2, <1>3

(* What to_string prints parse reads again, as the tests of                *)
(* connection_params do for a few: whatever the hosts, the chroot and the  *)
(* options are, if the chroot starts with its slash and six digits say the *)
(* timeout.                                                                *)
THEOREM PrintedIsParsed ==
  ASSUME NEW x \in Params, Printable(x)
  PROVE  parses(to_string(x)) /\ parse(to_string(x)) = x
<1> DEFINE text_of == to_string(x)
           q == text_of.query
           yes == Truth(TRUE)
           no == Truth(FALSE)
           r == [key |-> "randomize_hosts", val |-> no]
           o == [key |-> "read_only", val |-> yes]
           t == [key |-> "timeout", val |-> Millis(x.timeout)]
           n == BeforeSlash(x.chroot)
           a == IF ~x.randomize_hosts THEN <<r>> ELSE <<>>
           b == IF x.read_only THEN <<o>> ELSE <<>>
           c == IF x.timeout # default_timeout THEN <<t>> ELSE <<>>
<1>1. /\ text_of.schema = x.schema /\ text_of.hosts = x.hosts /\ text_of.path = x.chroot
      /\ q = (a \o b) \o c
  <2>1. SixDigits(x.timeout) = x.timeout
    BY Zenon DEF Printable
  <2>2. n = 0 /\ SubSeq(x.chroot, n + 1, Len(x.chroot)) = x.chroot
    BY SlashFirst DEF Printable, Readable, Params
  <2> HIDE DEF n
  <2>3. text_of = [schema |-> x.schema, hosts |-> x.hosts, path |-> x.chroot, query |-> (a \o b) \o c]
    BY <2>1, <2>2, Zenon DEF to_string, n
  <2> HIDE DEF text_of, a, b, c
  <2> QED
    BY <2>3
<1>2. /\ x.schema # "" /\ x.hosts # <<>> /\ Last(x.hosts) # <<>> /\ x.chroot # <<>>
      /\ x.timeout \notin BelowInBinary /\ x.timeout \in Nat
      /\ x.randomize_hosts \in BOOLEAN /\ x.read_only \in BOOLEAN /\ x.hosts \in Seq(Seq(UrlWord))
  BY DEF Printable, Readable, Params
<1>3. /\ r.key = "randomize_hosts" /\ r.val = no
      /\ o.key = "read_only" /\ o.val = yes
      /\ t.key = "timeout" /\ t.val = Millis(x.timeout)
  OBVIOUS
<1>4. /\ a \in {<<>>, <<r>>} /\ (a # <<>> <=> ~x.randomize_hosts)
      /\ b \in {<<>>, <<o>>} /\ (b # <<>> <=> x.read_only)
      /\ c \in {<<>>, <<t>>} /\ (c # <<>> <=> x.timeout # default_timeout)
  BY <1>2
<1>5. Query(text_of) = q
  BY <1>1, <1>2 DEF Query
<1>6. yes.kind = "true" /\ no.kind = "false"
  BY DEF Truth
<1>7. Understood(r) /\ Understood(o) /\ Understood(t)
  BY DEF Understood, extract_bool_accepts, extract_millis_accepts, Truth, Millis
<1> HIDE DEF text_of, q, yes, no, r, o, t, a, b, c
<1>8. /\ DOMAIN q \subseteq Nat
      /\ \A i \in DOMAIN q : \/ q[i] = r /\ a # <<>> /\ i = 1
                             \/ q[i] = o /\ b # <<>> /\ i = Len(a) + 1
                             \/ q[i] = t /\ c # <<>> /\ i = Len(a) + Len(b) + 1
      /\ a # <<>> => 1 \in DOMAIN q /\ q[1] = r
      /\ b # <<>> => Len(a) + 1 \in DOMAIN q /\ q[Len(a) + 1] = o
      /\ c # <<>> => Len(a) + Len(b) + 1 \in DOMAIN q /\ q[Len(a) + Len(b) + 1] = t
  BY <1>1, <1>4, Pieces
<1>9. DOMAIN q \subseteq Nat
  BY <1>8
<1>10. parses(text_of)
  <2>2. extract_advanced_options(q)
    BY <1>8, <1>7 DEF extract_advanced_options
  <2>3. x.hosts \notin {<<>>, <<<<>>>>}
    <3>1. Last(<<<<>>>>) = <<>>
      BY DEF Last
    <3> QED
      BY <1>2, <3>1
  <2> QED
    BY <1>1, <1>2, <1>5, <2>2, <2>3 DEF parses, Matches
<1>11. (Option(q, "randomize_hosts", yes).kind = "true") = x.randomize_hosts
  <2>1. CASE x.randomize_hosts
    <3>1. {i \in DOMAIN q : q[i].key = "randomize_hosts"} = {}
      BY <1>3, <1>4, <1>8, <2>1
    <3> QED
      BY <1>6, <2>1, <3>1 DEF Option
  <2>2. CASE ~x.randomize_hosts
    <3>1. 1 \in DOMAIN q /\ q[1] = r /\ q[1].key = "randomize_hosts" /\ q[1].val = no
      BY <1>3, <1>4, <1>8, <2>2
    <3>2. \A j \in DOMAIN q : q[j].key = "randomize_hosts" => j = 1
      BY <1>3, <1>8
    <3>3. Option(q, "randomize_hosts", yes) = no
      BY <1>9, <3>1, <3>2, OptionIs
    <3> QED
      BY <1>2, <1>6, <2>2, <3>3
  <2> QED
    BY <2>1, <2>2
<1>12. (Option(q, "read_only", no).kind = "true") = x.read_only
  <2>1. CASE ~x.read_only
    <3>1. {i \in DOMAIN q : q[i].key = "read_only"} = {}
      BY <1>3, <1>4, <1>8, <2>1
    <3> QED
      BY <1>2, <1>6, <2>1, <3>1 DEF Option
  <2>2. CASE x.read_only
    <3> DEFINE m == Len(a) + 1
    <3>1. m \in DOMAIN q /\ q[m] = o /\ q[m].key = "read_only" /\ q[m].val = yes
      BY <1>3, <1>4, <1>8, <2>2
    <3>2. \A j \in DOMAIN q : q[j].key = "read_only" => j = m
      BY <1>3, <1>8
    <3> HIDE DEF m
    <3>3. Option(q, "read_only", no) = yes
      BY <1>9, <3>1, <3>2, OptionIs
    <3> QED
      BY <1>2, <1>6, <2>2, <3>3
  <2> QED
    BY <2>1, <2>2
<1>13. (IF \E i \in DOMAIN q : q[i].key = "timeout"
        THEN extract_millis(Option(q, "timeout", Millis(0))) ELSE default_timeout) = x.timeout
  <2>1. CASE x.timeout = default_timeout
    <3>1. ~ \E i \in DOMAIN q : q[i].key = "timeout"
      BY <1>3, <1>4, <1>8, <2>1
    <3> QED
      BY <2>1, <3>1
  <2>2. CASE x.timeout # default_timeout
    <3> DEFINE m == Len(a) + Len(b) + 1
    <3>1. m \in DOMAIN q /\ q[m].key = "timeout" /\ q[m].val = Millis(x.timeout)
      BY <1>3, <1>4, <1>8, <2>2
    <3>2. \A j \in DOMAIN q : q[j].key = "timeout" => j = m
      BY <1>3, <1>8
    <3> HIDE DEF m
    <3>3. Option(q, "timeout", Millis(0)) = Millis(x.timeout)
      BY <1>9, <3>1, <3>2, OptionIs
    <3>4. extract_millis(Millis(x.timeout)) = x.timeout
      BY <1>2 DEF extract_millis, Millis
    <3> QED
      BY <3>1, <3>3, <3>4
  <2> QED
    BY <2>1, <2>2
<1>14. extract_host_list(HostPieces(text_of)) = x.hosts
  BY <1>1, <1>2 DEF HostPieces, extract_host_list
<1>15. parse(text_of) = [schema |-> x.schema, hosts |-> x.hosts, chroot |-> x.chroot,
         randomize_hosts |-> x.randomize_hosts, read_only |-> x.read_only, timeout |-> x.timeout]
  BY <1>1, <1>2, <1>5, <1>11, <1>12, <1>13, <1>14, Zenon DEF parse, yes, no
<1>16. x = [schema |-> x.schema, hosts |-> x.hosts, chroot |-> x.chroot,
         randomize_hosts |-> x.randomize_hosts, read_only |-> x.read_only, timeout |-> x.timeout]
  BY DEF Params
<1> QED
  BY <1>10, <1>15, <1>16 DEF text_of

-----------------------------------------------------------------------------
(* What the call does with its text.  Only the constructor of a connection *)
(* takes hosts and a timeout, from what the text is parsed to.             *)
AsParsed ==
  /\ target \in {NoTarget, [hosts |-> parse(text).hosts, timeout |-> to_int(parse(text).timeout)]}
  /\ outcome = "threw" => ~parses(text)
  /\ outcome = "invalid_argument" => parse(text).schema # "zk"

(* Every step keeps it. *)
LEMMA CallAsParsed ==
  ASSUME SessionInv, AsParsed, [Next]_vars
  PROVE  AsParsed'
<1>1. text' = text
  BY DEF Next, Connect, parse_fails, bad_schema, connect_init, own_init, connection_zk, connect_built,
     connect_watch, connect_check, connect_wait, own_use, Library, Ending, callVars, vars
<1> DEFINE ok == parses(text)
           params == parse(text)
<1>2. parses(text)' = ok /\ parse(text)' = params
  BY <1>1
<1>3. /\ target \in {NoTarget, [hosts |-> params.hosts, timeout |-> to_int(params.timeout)]}
      /\ outcome = "threw" => ~ok
      /\ outcome = "invalid_argument" => params.schema # "zk"
  BY DEF AsParsed
<1>4. SUFFICES
        /\ target' \in {NoTarget, [hosts |-> params.hosts, timeout |-> to_int(params.timeout)]}
        /\ outcome' = "threw" => ~ok
        /\ outcome' = "invalid_argument" => params.schema # "zk"
  BY <1>2, Zenon DEF AsParsed, NoTarget
<1>5. CASE parse_fails
  <2>1. ~ok /\ target' = target /\ outcome' = "threw"
    BY <1>5 DEF parse_fails, ends
  <2> QED
    BY <1>3, <2>1
<1>6. CASE bad_schema
  <2>1. ok /\ params.schema # "zk" /\ target' = target /\ outcome' = "invalid_argument"
    BY <1>6 DEF bad_schema, ends
  <2> QED
    BY <1>3, <2>1
<1>7. ASSUME NEW l, connection_zk(l)
      PROVE  /\ ok /\ outcome' = outcome
             /\ target' = [hosts |-> params.hosts, timeout |-> to_int(params.timeout)]
  BY <1>7 DEF connection_zk
<1>8. CASE connect_init \/ own_init
  BY <1>3, <1>7, <1>8 DEF connect_init, own_init
<1>9. CASE connect_built \/ connect_watch
  <2>1. target' = target /\ outcome' = outcome
    BY <1>9 DEF connect_built, connect_watch
  <2> QED
    BY <1>3, <2>1
<1>10. CASE connect_check \/ connect_wait
  <2>1. target' = target
    BY <1>10 DEF connect_check, connect_wait
  <2>2. outcome' \notin {"threw", "invalid_argument"} \/ outcome' = outcome
    <3>1. CASE connect_check
      BY <3>1 DEF connect_check, ends
    <3>2. CASE connect_wait
      <4>1. seen[TheCall] \in Shown \union {"none", "broken_promise"}
        BY ConnectAssumption DEF SessionInv, SessionTypes
      <4> QED
        BY <3>2, <4>1 DEF connect_wait, ends, Shown
    <3> QED
      BY <1>10, <3>1, <3>2
  <2> QED
    BY <1>3, <2>1, <2>2
<1>11. CASE own_use
  BY <1>3, <1>11 DEF own_use, callVars
<1>12. CASE Library \/ Ending
  BY <1>3, <1>12 DEF Library, Ending, callVars
<1>13. CASE UNCHANGED vars
  BY <1>3, <1>13 DEF vars
<1> QED
  BY <1>5, <1>6, <1>8, <1>9, <1>10, <1>11, <1>12, <1>13, Zenon DEF Next, Connect

(* The invariant of the call and its text. *)
LEMMA AsParsedAlways == Spec => []AsParsed
<1>1. Init => AsParsed
  BY DEF Init, StateInit, AsParsed
<1>2. SessionInv /\ AsParsed /\ [Next]_vars => AsParsed'
  BY CallAsParsed
<1> QED
  BY <1>1, <1>2, SessionAlways, PTL DEF Spec

(* What can be printed, with a timeout an int holds, is connected to as it *)
(* is: the C library is given these hosts and this timeout or none, and    *)
(* connect refuses nothing but the schema (connection::connect,            *)
(* connection_zk::connection_zk, connection_params::to_string).            *)
THEOREM ConnectionsAreAsAsked == Spec => []ConnectsAsAsked
<1>1. AsParsed => ConnectsAsAsked
  <2> SUFFICES ASSUME AsParsed, NEW x \in Wanted, text = to_string(x), Printable(x), x.timeout <= IntMax
               PROVE  /\ target \in {NoTarget, [hosts |-> x.hosts, timeout |-> x.timeout]}
                      /\ outcome # "threw"
                      /\ outcome = "invalid_argument" => x.schema # "zk"
    BY DEF ConnectsAsAsked
  <2>1. x \in Params
    BY WantedAssumption
  <2>2. parses(text) /\ parse(text) = x
    BY <2>1, PrintedIsParsed
  <2>3. to_int(x.timeout) = x.timeout
    BY DEF to_int
  <2> QED
    BY <2>2, <2>3, Zenon DEF AsParsed
<1> QED
  BY <1>1, AsParsedAlways, PTL
=============================================================================
