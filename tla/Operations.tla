----------------------------- MODULE Operations -----------------------------
(***************************************************************************)
(* The operations of a connection_zk that do not watch: get, get_children, *)
(* exists, create, set, erase, get_acl, set_acl, commit and load_fence.    *)
(*                                                                         *)
(* Every call allocates a promise, takes its future, hands the address of  *)
(* the promise to the C library and lets go of the promise if the library  *)
(* accepts the request: the callback, on the completion thread, settles    *)
(* the promise and deletes it.  The callback may run before the call has   *)
(* returned.  load_fence takes the future only after the request is sent,  *)
(* and commit takes it a second time when the request is refused.          *)
(*                                                                         *)
(* A call c stands for its promise, too: c is in live while it exists.     *)
(* The C library answers requests in the order they were made: log holds   *)
(* the requests it accepted, of which the first answered have an answer    *)
(* and the first delivered have had their callback.                        *)
(***************************************************************************)
EXTENDS Naturals, Sequences, FiniteSets, ErrorClasses

CONSTANTS
  Call,        (* The calls.                                               *)
  MaxTxn,      (* Bound: operations in a transaction.                      *)
  MaxSession   (* Bound: how often the session changes its state.          *)

ASSUME OperationsAssumption == MaxTxn \in Nat /\ MaxSession \in Nat

VARIABLES
  pc,          (* idle, ready (commit before get_future), made, sent,      *)
               (* returned, or threw: an exception left the call.          *)
  op,          (* Which operation a call is; plain: one whose callback     *)
               (* gives a value for ok and the error otherwise.            *)
  size,        (* source_txn.size() of a commit.                           *)
  live,        (* The promises that exist.                                 *)
  future,      (* The calls whose future has been retrieved.               *)
  result,      (* What a promise was given.                                *)
  misused,     (* Calls whose promise was used when it did not exist.      *)
  handle,      (* _handle: open, closing, null or failed.                  *)
  session,     (* C library: state of the session.                         *)
  changes,     (* Number of changes of session so far.                     *)
  log,         (* C library: the requests it has accepted, in order.       *)
  answered,    (* C library: how many of them have an answer.              *)
  delivered,   (* C library: how many callbacks have run.                  *)
  answer,      (* C library: the raw result code of an answer.             *)
  failing      (* Ensemble: which operation of a commit failed; 0: none.   *)

callVars == <<pc, op, size>>
library  == <<session, changes, log, answered, answer, failing>>
vars     == <<callVars, live, future, result, misused, handle, library, delivered>>

Op == {"plain", "exists", "commit", "load_fence"}

NoResult  == [how |-> "none", code |-> "ok", index |-> 0]
value     == [how |-> "value", code |-> "ok", index |-> 0]
exception(code) == [how |-> "error", code |-> code, index |-> 0]
transaction_failed(rc, i) == [how |-> "transaction_failed", code |-> rc, index |-> i]

(* What get of the future of a failed operation throws.  The code of a     *)
(* transaction_failed is its own; its cause is kept beside it.             *)
thrown(r) == IF r.how = "transaction_failed" THEN construct("transaction_failed") ELSE throw_error(r.code)

unrecoverable(raw) == raw \in {"ZOO_EXPIRED_SESSION_STATE", "ZOO_AUTH_FAILED_STATE"}

-----------------------------------------------------------------------------
(* What the callbacks give to the promise. *)

settled_as(rc) == IF rc = "ok" THEN value ELSE exception(rc)

exists_settled_as(rc) == IF rc = "no_entry" THEN value ELSE settled_as(rc)

(* raw_results when the callback runs: the err -42 of the constructor      *)
(* unless the ensemble has answered.                                       *)
raw_results(c) ==
  [i \in 1..size[c] |->
    IF failing[c] = 0 THEN (IF answer[c] = "ZOK" THEN "ZOK" ELSE "-42")
    ELSE IF i < failing[c] THEN "ZOK"
    ELSE IF i = failing[c] THEN answer[c]
    ELSE "ZRUNTIMEINCONSISTENCY"]

(* Mutant: the position counted from 1. *)
partition_point_from_1(errs) == 1 + Cardinality({i \in DOMAIN errs : \A j \in 1..i : errs[j] = "ZOK"})

(* How many results come before the first one that is not ZOK. *)
partition_point(errs) == Cardinality({i \in DOMAIN errs : \A j \in 1..i : errs[j] = "ZOK"})

(* connection_zk_commit_completer::deliver. *)
commit_deliver(c, rc) ==
  IF rc = "ok" THEN value ELSE transaction_failed(rc, partition_point(raw_results(c)))

(* Mutant: the raw code is cast and not converted. *)
callback_result_cast(c) ==
  LET rc == cast(answer[c])
  IN  IF op[c] = "commit" THEN commit_deliver(c, rc)
      ELSE IF op[c] = "exists" THEN exists_settled_as(rc)
      ELSE settled_as(rc)

callback_result(c) ==
  LET rc == error_code_from_raw(answer[c])
  IN  IF op[c] = "commit" THEN commit_deliver(c, rc)
      ELSE IF op[c] = "exists" THEN exists_settled_as(rc)
      ELSE settled_as(rc)

-----------------------------------------------------------------------------
(* User threads. *)

begin(c, o, n, futures) ==
  /\ pc[c] = "idle"
  /\ handle \in {"open", "null"}
  /\ pc' = [pc EXCEPT ![c] = IF o = "commit" THEN "ready" ELSE "made"]
  /\ op' = [op EXCEPT ![c] = o]
  /\ size' = [size EXCEPT ![c] = n]
  /\ live' = live \union {c}
  /\ future' = future \union futures
  /\ UNCHANGED <<result, misused, handle, library, delivered>>

get(c)          == begin(c, "plain", 0, {c})
get_children(c) == begin(c, "plain", 0, {c})
exists(c)       == begin(c, "exists", 0, {c})
create(c)       == begin(c, "plain", 0, {c})
set(c)          == begin(c, "plain", 0, {c})
erase(c)        == begin(c, "plain", 0, {c})
get_acl(c)      == begin(c, "plain", 0, {c})
set_acl(c)      == begin(c, "plain", 0, {c})
load_fence(c)   == begin(c, "load_fence", 0, {})
commit(c)       == \E n \in 0..MaxTxn : begin(c, "commit", n, {})

(* commit: the raw operations are built and the future is taken, ... *)
commit_build(c) ==
  /\ pc[c] = "ready"
  /\ pc' = [pc EXCEPT ![c] = "made"]
  /\ future' = future \union {c}
  /\ UNCHANGED <<op, size, live, result, misused, handle, library, delivered>>

(* ... or building them throws (no memory) and the catch block settles the *)
(* promise and returns its future.                                         *)
commit_cannot_build(c) ==
  /\ pc[c] = "ready"
  /\ result' = [result EXCEPT ![c] = exception("bad_alloc")]
  /\ future' = future \union {c}
  /\ pc' = [pc EXCEPT ![c] = "returned"]
  /\ live' = live \ {c}
  /\ UNCHANGED <<op, size, misused, handle, library, delivered>>

(* The C library accepts the request. *)
zoo_accepts(c) ==
  /\ pc[c] = "made"
  /\ handle = "open"
  /\ ~unrecoverable(session)
  /\ pc' = [pc EXCEPT ![c] = "sent"]
  /\ log' = Append(log, c)
  /\ UNCHANGED <<op, size, live, future, result, misused, handle, session, changes, answered,
                 delivered, answer, failing>>

(* Why the C library refuses a request: no handle or a bad path, a session *)
(* that cannot be recovered, no memory.                                    *)
RefusedWith(rc) ==
  \/ handle \in {"null", "open"} /\ rc = "ZBADARGUMENTS"
  \/ handle = "open" /\ unrecoverable(session) /\ rc = "ZINVALIDSTATE"
  \/ handle = "open" /\ rc = "ZMARSHALLINGERROR"

(* A refused request settles the promise.  load_fence and commit then call *)
(* get_future.  If it was called before, it throws; the catch block of     *)
(* commit sets the promise a second time, which throws out of the call.    *)
zoo_refuses(c) ==
  /\ pc[c] = "made"
  /\ \E rc \in RawCode :
       RefusedWith(rc) /\ result' = [result EXCEPT ![c] = exception(error_code_from_raw(rc))]
  /\ pc' = [pc EXCEPT ![c] = IF op[c] = "commit" /\ c \in future THEN "threw" ELSE "returned"]
  /\ future' = future \union {c}
  /\ live' = live \ {c}
  /\ UNCHANGED <<op, size, misused, handle, library, delivered>>

(* Mutants: the unique_ptr is not released and deletes the promise; the    *)
(* future is taken after the request by every operation; the error path is *)
(* taken after the success path.                                           *)
return_without_release(c) ==
  /\ pc[c] = "sent"
  /\ pc' = [pc EXCEPT ![c] = "returned"]
  /\ future' = future \union {c}
  /\ live' = live \ {c}
  /\ UNCHANGED <<op, size, result, misused, handle, library, delivered>>

late_get_future(c) ==
  /\ pc[c] = "sent"
  /\ misused' = IF c \in live THEN misused ELSE misused \union {c}
  /\ pc' = [pc EXCEPT ![c] = "returned"]
  /\ future' = future \union {c}
  /\ UNCHANGED <<op, size, live, result, handle, library, delivered>>

release_and_fail(c) ==
  /\ pc[c] = "sent"
  /\ pc' = [pc EXCEPT ![c] = "returned"]
  /\ future' = future \union {c}
  /\ result' = [result EXCEPT ![c] = exception("ok")]
  /\ UNCHANGED <<op, size, live, misused, handle, library, delivered>>

(* The request was accepted: the unique_ptr lets go of the promise and the *)
(* call returns.  load_fence calls get_future first, on a promise that the *)
(* callback may have deleted: the call then throws, or returns a future    *)
(* of a state that is gone.                                                *)
release(c) ==
  /\ pc[c] = "sent"
  /\ IF op[c] = "load_fence" /\ c \notin live
     THEN /\ misused' = misused \union {c}
          /\ \E end \in {"returned", "threw"} : pc' = [pc EXCEPT ![c] = end]
          /\ UNCHANGED future
     ELSE /\ future' = future \union {c}
          /\ pc' = [pc EXCEPT ![c] = "returned"]
          /\ UNCHANGED misused
  /\ UNCHANGED <<op, size, live, result, handle, library, delivered>>

-----------------------------------------------------------------------------
(* The I/O thread of the C library. *)

(* The ensemble answers the oldest request.  A commit fails because of one *)
(* of its operations.                                                      *)
Respond(rc) ==
  /\ handle = "open"
  /\ session = "ZOO_CONNECTED_STATE"
  /\ answered < Len(log)
  /\ LET c == log[answered + 1]
     IN  /\ answer' = [answer EXCEPT ![c] = rc]
         /\ IF op[c] = "commit" /\ rc # "ZOK"
            THEN \E i \in 1..size[c] : failing' = [failing EXCEPT ![c] = i]
            ELSE UNCHANGED failing
  /\ answered' = answered + 1
  /\ UNCHANGED <<callVars, live, future, result, misused, handle, session, changes, log, delivered>>

(* Every request without an answer fails. *)
Waiting == {log[i] : i \in (answered + 1)..Len(log)}

FailWaiting(rc) ==
  /\ answer' = [c \in Call |-> IF c \in Waiting THEN rc ELSE answer[c]]
  /\ answered' = Len(log)

SessionChange(raw) ==
  /\ handle = "open"
  /\ changes < MaxSession
  /\ session' = raw
  /\ changes' = changes + 1
  /\ UNCHANGED <<callVars, live, future, result, misused, handle, log, delivered, failing>>

Connected ==
  /\ session = "ZOO_CONNECTING_STATE"
  /\ SessionChange("ZOO_CONNECTED_STATE")
  /\ UNCHANGED <<answer, answered>>

Disconnected ==
  /\ session = "ZOO_CONNECTED_STATE"
  /\ SessionChange("ZOO_CONNECTING_STATE")
  /\ FailWaiting("ZCONNECTIONLOSS")

(* A session expires only if there was one; authentication may fail at     *)
(* once.                                                                   *)
Expired ==
  /\ session = "ZOO_CONNECTING_STATE"
  /\ \/ changes > 0 /\ SessionChange("ZOO_EXPIRED_SESSION_STATE") /\ FailWaiting("ZSESSIONEXPIRED")
     \/ SessionChange("ZOO_AUTH_FAILED_STATE") /\ FailWaiting("ZAUTHFAILED")

(* A server cannot be reached, or does not answer in time. *)
ConnectFails ==
  /\ handle = "open"
  /\ session = "ZOO_CONNECTING_STATE"
  /\ answered < Len(log)
  /\ \E rc \in {"ZCONNECTIONLOSS", "ZOPERATIONTIMEOUT"} : FailWaiting(rc)
  /\ UNCHANGED <<callVars, live, future, result, misused, handle, session, changes, log, delivered,
                 failing>>

-----------------------------------------------------------------------------
(* The completion thread of the C library. *)

(* Mutant: a callback that is told the connection closes does nothing. *)
callback_ignores_close ==
  /\ delivered < answered
  /\ LET c == log[delivered + 1]
     IN  IF answer[c] = "ZCLOSING" THEN UNCHANGED <<result, live>>
         ELSE /\ result' = [result EXCEPT ![c] = callback_result(c)]
              /\ live' = live \ {c}
  /\ delivered' = delivered + 1
  /\ UNCHANGED <<callVars, future, misused, handle, library>>

(* The callback of the oldest answer settles the promise and deletes it. *)
callback ==
  /\ delivered < answered
  /\ LET c == log[delivered + 1]
     IN  IF c \in live
         THEN /\ result' = [result EXCEPT ![c] = callback_result(c)]
              /\ live' = live \ {c}
              /\ UNCHANGED misused
         ELSE /\ misused' = misused \union {c}
              /\ UNCHANGED <<result, live>>
  /\ delivered' = delivered + 1
  /\ UNCHANGED <<callVars, future, handle, library>>

-----------------------------------------------------------------------------
(* connection_zk::close.  It must not overlap the part of a call that uses *)
(* the handle.  zookeeper_close fails what is waiting, runs the callbacks  *)
(* that are left and returns, perhaps with an error.                       *)
zookeeper_close ==
  /\ handle = "open"
  /\ \A c \in Call : pc[c] \notin {"ready", "made"}
  /\ handle' = "closing"
  /\ FailWaiting("ZCLOSING")
  /\ UNCHANGED <<callVars, live, future, result, misused, session, changes, log, delivered, failing>>

close_returns ==
  /\ handle = "closing"
  /\ delivered = Len(log)
  /\ \E h \in {"null", "failed"} : handle' = h
  /\ UNCHANGED <<callVars, live, future, result, misused, library, delivered>>

-----------------------------------------------------------------------------
Init ==
  /\ pc = [c \in Call |-> "idle"]
  /\ op = [c \in Call |-> "plain"]
  /\ size = [c \in Call |-> 0]
  /\ live = {}
  /\ future = {}
  /\ result = [c \in Call |-> NoResult]
  /\ misused = {}
  /\ handle = "open"
  /\ session = "ZOO_CONNECTING_STATE"
  /\ changes = 0
  /\ log = <<>>
  /\ answered = 0
  /\ delivered = 0
  /\ answer = [c \in Call |-> "ZOK"]
  /\ failing = [c \in Call |-> 0]

Begin(c) ==
  \/ get(c) \/ get_children(c) \/ exists(c) \/ create(c) \/ set(c) \/ erase(c)
  \/ get_acl(c) \/ set_acl(c) \/ load_fence(c) \/ commit(c)

Continue(c) ==
  \/ commit_build(c) \/ commit_cannot_build(c)
  \/ zoo_accepts(c) \/ zoo_refuses(c) \/ release(c)

Answers == {"ZOK", "ZNONODE"}

IOThread ==
  \/ \E rc \in Answers : Respond(rc)
  \/ Connected \/ Disconnected \/ Expired \/ ConnectFails

Next ==
  \/ \E c \in Call : Begin(c) \/ Continue(c)
  \/ IOThread \/ callback \/ zookeeper_close \/ close_returns

Spec == Init /\ [][Next]_vars

(* A call in progress goes on, and so do the threads of the C library: a   *)
(* request is answered by a server or fails with its connection.           *)
Fairness ==
  /\ \A c \in Call : WF_vars(Continue(c))
  /\ WF_vars(\E rc \in Answers : Respond(rc))
  /\ WF_vars(ConnectFails)
  /\ WF_vars(callback)
  /\ WF_vars(close_returns)

FairSpec == Spec /\ Fairness

-----------------------------------------------------------------------------
(* The state has its type; in particular an exception carries what         *)
(* error_code_from_raw returns (or is the bad_alloc of commit), never a    *)
(* raw code that it replaces, such as ZOPERATIONTIMEOUT.  A raw code that  *)
(* has no enumerator and is not replaced, such as ZINVALIDSTATE, does      *)
(* reach the caller.                                                       *)
TypeOK ==
  /\ pc \in [Call -> {"idle", "ready", "made", "sent", "returned", "threw"}]
  /\ op \in [Call -> Op]
  /\ size \in [Call -> 0..MaxTxn]
  /\ live \subseteq Call
  /\ future \subseteq Call
  /\ result \in [Call -> [how : {"none", "value", "error", "transaction_failed"},
                          code : ErrorCode \union {"bad_alloc"}, index : Nat]]
  /\ misused \subseteq Call
  /\ handle \in {"open", "closing", "null", "failed"}
  /\ session \in RawState
  /\ changes \in Nat
  /\ log \in Seq(Call)
  /\ answered \in 0..Len(log)
  /\ delivered \in 0..answered
  /\ answer \in [Call -> RawCode]
  /\ failing \in [Call -> Nat]

(* No future ends with broken_promise: a promise whose future was taken is *)
(* deleted, by the call or by the callback, only after it was settled.     *)
NoBrokenPromise ==
  \A c \in future : c \notin live => result[c] # NoResult

(* Whoever holds a future that is not ready does not wait in vain: the     *)
(* promise exists, and its callback is still to run.                       *)
NobodyWaitsInVain ==
  \A c \in Call : pc[c] = "returned" /\ result[c] = NoResult =>
    c \in live /\ \E i \in (delivered + 1)..Len(log) : log[i] = c

(* However the callback and the rest of the call interleave, only          *)
(* load_fence ever uses a promise that was deleted: every other operation  *)
(* takes its future before it sends the request.                           *)
OnlyLoadFenceRaces ==
  \A c \in misused : op[c] = "load_fence"

(* No call uses a promise that was deleted ("just make sure we don't       *)
(* segfault", the test of load_fence).                                     *)
NoUseOfDeletedPromise == misused = {}

(* No promise is settled twice, by the call and by the callback. *)
SettledOnce ==
  [][\A c \in Call : result[c] # NoResult => result'[c] = result[c]]_vars

(* When close has returned, every operation whose call has returned is     *)
(* settled and its promise is deleted.                                     *)
CloseSettlesOperations ==
  handle \in {"null", "failed"} =>
    \A c \in Call : pc[c] = "returned" => result[c] # NoResult /\ c \notin live

(* The futures of the operations, seen by the caller. *)
Contract == INSTANCE OperationsContract WITH
  sent  <- log,
  ready <- delivered,
  phase <- IF handle \in {"null", "failed"} THEN "closed" ELSE handle

(* The machinery does nothing to the futures that the contract does not    *)
(* allow: above all, a future is ready only after those of the requests    *)
(* that were sent before, and closed is told only by close.                *)
MeetsContract == Contract!Spec

Answered == {log[i] : i \in 1..answered}

(* When the ensemble rejects a transaction, failed_op_index is the         *)
(* operation it rejected, counted from 0, and the cause is its error.      *)
CommitNamesFailedOperation ==
  \A c \in Call : failing[c] # 0 /\ result[c] # NoResult =>
    result[c] = transaction_failed(error_code_from_raw(answer[c]), failing[c] - 1)

(* An operation other than commit fails with an exception on whose kind    *)
(* the base classes that catch it and the predicates on its code agree; a  *)
(* lost connection, however the C library reports it, is a transport_error *)
(* and a close is closed.  A commit that was sent fails with               *)
(* transaction_failed, whose cause is the code, whatever the reason.       *)
(* (client.hpp promises transaction_failed for errors of the transaction   *)
(* and a specific system_error for the others: the code does not tell them *)
(* apart, and whoever catches transport_error misses a commit that was     *)
(* lost with its connection.)                                              *)
FailureIsOfItsClass ==
  /\ \A c \in Call : op[c] # "commit" /\ result[c].how = "error" => Classified(thrown(result[c]))
  /\ \A c \in Answered : result[c].how \in {"error", "transaction_failed"} =>
       LET e == thrown(result[c])
       IN  IF op[c] = "commit"
           THEN e.class = "transaction_failed" /\ result[c].code = error_code_from_raw(answer[c])
           ELSE /\ answer[c] \in {"ZCONNECTIONLOSS", "ZOPERATIONTIMEOUT"} => e.class \in transport_error
                /\ answer[c] = "ZCLOSING" => e.class = "closed"

(* Errors are delivered through the future (client.hpp): no call throws    *)
(* because the C library refuses its request.                              *)
ErrorsComeThroughTheFuture ==
  \A c \in Call : pc[c] = "threw" => c \in misused

(* Every request that was sent is settled in the end, also when the        *)
(* connection is lost or closed.                                           *)
OperationsComplete ==
  \A c \in Call : pc[c] = "sent" ~> result[c] # NoResult
=============================================================================
