----------------------------- MODULE StateWatch -----------------------------
(***************************************************************************)
(* The session of a connection_zk: its constructor, state, watch_state and *)
(* on_session_event, close and the destructor.                             *)
(*                                                                         *)
(* The C library changes the state of the session on its I/O thread and    *)
(* queues an event; the completion thread takes the events in order and    *)
(* calls on_session_event, which moves the list of promises out under the  *)
(* lock and settles them without it.  state reads the present state of the *)
(* session, which the queue may not have reported yet.  The first events   *)
(* may be delivered before the constructor has set _handle.                *)
(*                                                                         *)
(* The connection does not ask for read-only servers (the flags of         *)
(* zookeeper_init are 0), so the session is never read-only.               *)
(***************************************************************************)
EXTENDS Naturals, Sequences, RawCodes

CONSTANTS
  Waiter,       (* The calls of watch_state.                               *)
  InitMayFail,  (* Whether zookeeper_init may return no handle.            *)
  MaxLosses     (* Bound: how often the connection is lost.                *)

ASSUME StateWatchAssumption == InitMayFail \in BOOLEAN /\ MaxLosses \in Nat

VARIABLES
  object,       (* none, constructing, built or destroyed.                 *)
  handle,       (* _handle: null, open, closing, or failed.                *)
  asked,        (* The calls of watch_state made so far.                   *)
  promises,     (* _state_change_promises.                                 *)
  l_promises,   (* The list on_session_event has moved out.                *)
  busy,         (* on_session_event is running.                            *)
  seen,         (* What a promise was given: "none", a state or an error.  *)
  session,      (* C library: state of the session, "none" without one.    *)
  losses,       (* How often the connection was lost so far.               *)
  events        (* C library: session events to deliver.                   *)

watchVars   == <<asked, promises, l_promises, busy, seen>>
libraryVars == <<session, losses, events>>
stateVars   == <<object, handle, watchVars, libraryVars>>

unrecoverable(raw) == raw \in {"ZOO_EXPIRED_SESSION_STATE", "ZOO_AUTH_FAILED_STATE"}

-----------------------------------------------------------------------------
(* The constructor: zookeeper_init starts the threads of the C library, or *)
(* returns no handle (a host that cannot be resolved, no memory) ...       *)
zookeeper_init ==
  /\ object = "none"
  /\ object' = "constructing"
  /\ \/ session' = "ZOO_NOTCONNECTED_STATE"
     \/ InitMayFail /\ UNCHANGED session
  /\ UNCHANGED <<handle, watchVars, losses, events>>

(* ... and its result is stored.  Without a handle a system_error is made  *)
(* and not thrown: the connection is there all the same.                   *)
constructed ==
  /\ object = "constructing"
  /\ object' = "built"
  /\ handle' = IF session = "none" THEN "null" ELSE "open"
  /\ UNCHANGED <<watchVars, libraryVars>>

state_of_connection == IF handle = "open" THEN state_from_raw(session) ELSE "closed"

(* Mutant: a list that is being delivered is not added to. *)
watch_state_unless_busy(w) ==
  /\ object = "built"
  /\ w \notin asked
  /\ asked' = asked \union {w}
  /\ promises' = IF busy THEN promises ELSE promises \union {w}
  /\ UNCHANGED <<object, handle, l_promises, busy, seen, libraryVars>>

watch_state(w) ==
  /\ object = "built"
  /\ w \notin asked
  /\ asked' = asked \union {w}
  /\ promises' = promises \union {w}
  /\ UNCHANGED <<object, handle, l_promises, busy, seen, libraryVars>>

-----------------------------------------------------------------------------
(* The I/O thread of the C library. *)

Running == session # "none" /\ (object = "constructing" \/ handle = "open")

SessionChange(raw) ==
  /\ Running
  /\ session' = raw
  /\ events' = Append(events, raw)
  /\ UNCHANGED <<object, handle, watchVars>>

(* The library starts to connect; no event is made of it. *)
Connecting ==
  /\ Running
  /\ session = "ZOO_NOTCONNECTED_STATE"
  /\ session' = "ZOO_CONNECTING_STATE"
  /\ UNCHANGED <<object, handle, watchVars, losses, events>>

Connected ==
  /\ session = "ZOO_CONNECTING_STATE"
  /\ SessionChange("ZOO_CONNECTED_STATE")
  /\ UNCHANGED losses

Disconnected ==
  /\ session = "ZOO_CONNECTED_STATE"
  /\ losses < MaxLosses
  /\ SessionChange("ZOO_CONNECTING_STATE")
  /\ losses' = losses + 1

(* A session expires only if there was one; authentication may fail at     *)
(* once.                                                                   *)
Expired ==
  /\ session = "ZOO_CONNECTING_STATE"
  /\ \/ losses > 0 /\ SessionChange("ZOO_EXPIRED_SESSION_STATE")
     \/ SessionChange("ZOO_AUTH_FAILED_STATE")
  /\ UNCHANGED losses

-----------------------------------------------------------------------------
(* The completion thread: on_session_event_raw and on_session_event.       *)

(* Mutant: both errors become one. *)
told_expired(st) == IF st \in {"expired_session", "authentication_failed"} THEN "session_expired" ELSE st

(* What the promises are given when the session is in the state st. *)
told(st) ==
  IF st = "expired_session" THEN error_code["ZSESSIONEXPIRED"]
  ELSE IF st = "authentication_failed" THEN error_code["ZAUTHFAILED"]
  ELSE st

(* Mutant: the list is copied and not moved. *)
copy_promises ==
  /\ events # <<>>
  /\ ~busy
  /\ busy' = TRUE
  /\ l_promises' = promises
  /\ UNCHANGED <<object, handle, asked, promises, seen, libraryVars>>

(* The list is moved out under the lock. *)
move_promises ==
  /\ events # <<>>
  /\ ~busy
  /\ busy' = TRUE
  /\ l_promises' = promises
  /\ promises' = {}
  /\ UNCHANGED <<object, handle, asked, seen, libraryVars>>

settle_promise(w) ==
  /\ w \in l_promises
  /\ seen' = [seen EXCEPT ![w] = told(state_from_raw(Head(events)))]
  /\ l_promises' = l_promises \ {w}
  /\ UNCHANGED <<object, handle, asked, promises, busy, libraryVars>>

on_session_event_returns ==
  /\ busy
  /\ l_promises = {}
  /\ busy' = FALSE
  /\ events' = Tail(events)
  /\ UNCHANGED <<object, handle, asked, promises, l_promises, seen, session, losses>>

-----------------------------------------------------------------------------
(* close: zookeeper_close stops the I/O thread, runs the callbacks that    *)
(* are left and returns.  close tells the watches, not the promises of     *)
(* watch_state.                                                            *)
zookeeper_close ==
  /\ object = "built"
  /\ handle = "open"
  /\ handle' = "closing"
  /\ UNCHANGED <<object, watchVars, libraryVars>>

close_returns ==
  /\ handle = "closing"
  /\ events = <<>>
  /\ \E h \in {"null", "failed"} : handle' = h
  /\ UNCHANGED <<object, watchVars, libraryVars>>

(* The destructor has closed the connection and deletes the list: the      *)
(* promises in it are broken.                                              *)
destroy ==
  /\ object = "built"
  /\ handle = "null"
  /\ object' = "destroyed"
  /\ seen' = [w \in Waiter |-> IF w \in promises THEN "broken_promise" ELSE seen[w]]
  /\ promises' = {}
  /\ UNCHANGED <<handle, asked, l_promises, busy, libraryVars>>

-----------------------------------------------------------------------------
StateInit ==
  /\ object = "none"
  /\ handle = "null"
  /\ asked = {}
  /\ promises = {}
  /\ l_promises = {}
  /\ busy = FALSE
  /\ seen = [w \in Waiter |-> "none"]
  /\ session = "none"
  /\ losses = 0
  /\ events = <<>>

IOThread == Connecting \/ Connected \/ Disconnected \/ Expired

CompletionThread ==
  \/ move_promises
  \/ \E w \in Waiter : settle_promise(w)
  \/ on_session_event_returns

(* Whoever owns the connection. *)
UserNext ==
  \/ constructed
  \/ \E w \in Waiter : watch_state(w)
  \/ zookeeper_close \/ close_returns \/ destroy

-----------------------------------------------------------------------------
(* A call of watch_state that overtakes or is overtaken by                 *)
(* on_session_event is never forgotten: until it is settled its promise is *)
(* in the list or in the list that is being delivered, in one of the two.  *)
EveryWaiterIsKept ==
  \A w \in asked :
    /\ seen[w] = "none" <=> w \in promises \union l_promises
    /\ ~(w \in promises /\ w \in l_promises)

(* No promise of watch_state is settled twice: set_value on a settled      *)
(* promise would throw on the completion thread.                           *)
StateSeenOnce ==
  [][\A w \in Waiter : seen[w] # "none" => seen'[w] = seen[w]]_stateVars

(* What was told was true when its event was made: an error means that the *)
(* session cannot be recovered, and connected that it was connected once.  *)
StateSeenIsTrue ==
  \A w \in Waiter :
    /\ seen[w] = "session_expired" => session = "ZOO_EXPIRED_SESSION_STATE"
    /\ seen[w] = "authentication_failed" => session = "ZOO_AUTH_FAILED_STATE"
    /\ seen[w] = "connected" => session = "ZOO_CONNECTED_STATE" \/ losses > 0
=============================================================================
