---------------------------- MODULE WatchContract ----------------------------
(***************************************************************************)
(* What a caller of watch, watch_children and watch_exists may rely on,    *)
(* without any of the machinery: the future of the answer, the future of   *)
(* the event that comes with a successful answer, and what close does to   *)
(* them.                                                                   *)
(*                                                                         *)
(* An answer is settled once.  An event is delivered once, and only after  *)
(* a successful answer.  The error closed and the event (session, closed)  *)
(* come only from close.  When close has returned, every answer is settled *)
(* and every event promised by an answer has been delivered; later calls   *)
(* are refused.                                                            *)
(***************************************************************************)
CONSTANTS
  Call,     (* The calls.                                                  *)
  Error,    (* The errors an answer may be settled with.                   *)
  Event,    (* The events.                                                 *)
  NoEvent   (* No event has been delivered yet.                            *)

VARIABLES
  accepted, (* The calls whose request has been made, or refused.          *)
  answer,   (* "none", "ok" or an error, per call.                         *)
  next,     (* NoEvent or the event, per call.                             *)
  phase     (* open, closing or closed.                                    *)

vars == <<accepted, answer, next, phase>>

IsClosed(ev) == ev.state = "closed"

Settled(c) == answer[c] # "none" /\ (answer[c] = "ok" => next[c] # NoEvent)

Init ==
  /\ accepted = {}
  /\ answer = [c \in Call |-> "none"]
  /\ next = [c \in Call |-> NoEvent]
  /\ phase = "open"

Accept(c) ==
  /\ c \notin accepted
  /\ phase = "open"
  /\ accepted' = accepted \union {c}
  /\ UNCHANGED <<answer, next, phase>>

Refuse(c) ==
  /\ c \notin accepted
  /\ accepted' = accepted \union {c}
  /\ \E e \in Error \ {"ok", "closed"} : answer' = [answer EXCEPT ![c] = e]
  /\ UNCHANGED <<next, phase>>

Settle(c) ==
  /\ c \in accepted
  /\ answer[c] = "none"
  /\ \E e \in Error :
       /\ e = "closed" => phase = "closing"
       /\ answer' = [answer EXCEPT ![c] = e]
  /\ UNCHANGED <<accepted, next, phase>>

Fire(c) ==
  /\ answer[c] = "ok"
  /\ next[c] = NoEvent
  /\ \E ev \in Event :
       /\ IsClosed(ev) => phase = "closing"
       /\ next' = [next EXCEPT ![c] = ev]
       /\ \/ UNCHANGED phase
          \/ phase = "closing" /\ phase' = "closed" /\ \A d \in accepted : Settled(d)'
  /\ UNCHANGED <<accepted, answer>>

BeginClose == phase = "open" /\ phase' = "closing" /\ UNCHANGED <<accepted, answer, next>>

EndClose ==
  /\ phase = "closing"
  /\ \A c \in accepted : Settled(c)
  /\ phase' = "closed"
  /\ UNCHANGED <<accepted, answer, next>>

Next ==
  \/ \E c \in Call : Accept(c) \/ Refuse(c) \/ Settle(c) \/ Fire(c)
  \/ BeginClose
  \/ EndClose

Spec == Init /\ [][Next]_vars
=============================================================================
