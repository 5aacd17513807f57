------------------------- MODULE OperationsContract -------------------------
(***************************************************************************)
(* What a caller of the operations that do not watch may rely on, without  *)
(* promises, callbacks or a C library: futures, and what close does to     *)
(* them.                                                                   *)
(*                                                                         *)
(* A future is settled once.  A request that is sent is settled after all  *)
(* requests that were sent before it.  A call that is not sent fails.  The *)
(* error closed comes only from close.  When close has returned, every     *)
(* request that was sent is settled; later calls fail.                     *)
(***************************************************************************)
EXTENDS Naturals, Sequences

CONSTANTS
  Call,     (* The calls.                                                  *)
  NoResult  (* The future is not ready.                                    *)

VARIABLES
  sent,     (* The requests that were sent, in order.                      *)
  ready,    (* How many of them are settled.                               *)
  result,   (* What a future was settled with, per call.                   *)
  phase     (* open, closing or closed.                                    *)

vars == <<sent, ready, result, phase>>

Init ==
  /\ sent = <<>>
  /\ ready = 0
  /\ result = [c \in Call |-> NoResult]
  /\ phase = "open"

NotSent(c) == \A i \in 1..Len(sent) : sent[i] # c

(* The future of c, and no other, is settled, by close or by what else. *)
Settled(c) ==
  /\ result[c] = NoResult
  /\ result' = [result EXCEPT ![c] = result'[c]]
  /\ result'[c] # NoResult

ByClose(c) == result'[c].code = "closed"

Send(c) ==
  /\ NotSent(c)
  /\ result[c] = NoResult
  /\ phase = "open"
  /\ sent' = Append(sent, c)
  /\ UNCHANGED <<ready, result, phase>>

Fail(c) ==
  /\ NotSent(c)
  /\ Settled(c)
  /\ result'[c].how = "error"
  /\ ~ByClose(c)
  /\ UNCHANGED <<sent, ready, phase>>

Settle(c) ==
  /\ ready < Len(sent)
  /\ c = sent[ready + 1]
  /\ Settled(c)
  /\ ByClose(c) => phase = "closing"
  /\ ready' = ready + 1
  /\ UNCHANGED <<sent, phase>>

BeginClose == phase = "open" /\ phase' = "closing" /\ UNCHANGED <<sent, ready, result>>

EndClose ==
  /\ phase = "closing"
  /\ ready = Len(sent)
  /\ phase' = "closed"
  /\ UNCHANGED <<sent, ready, result>>

Next ==
  \/ \E c \in Call : Send(c) \/ Fail(c) \/ Settle(c)
  \/ BeginClose
  \/ EndClose

Spec == Init /\ [][Next]_vars
=============================================================================
