-------------------------- MODULE OperationsProofs --------------------------
(***************************************************************************)
(* Proofs about the operations of a connection, for any set of calls, any  *)
(* size of transactions and any number of session changes.                 *)
(*                                                                         *)
(* The argument: a call is in the log of the C library once it was         *)
(* accepted, and only once.  The promises of the log are settled and       *)
(* deleted up to the entry delivered, and unsettled and alive after it;    *)
(* outside of the log the program counter tells which of the two it is.    *)
(* An answer never changes, so a result that was delivered is still what   *)
(* the callback makes of it.                                               *)
(***************************************************************************)
EXTENDS Operations, FiniteSetTheorems, TLAPS

Logged == {log[i] : i \in 1..Len(log)}

Done(c)    == c \notin live /\ result[c] # NoResult
Waits(c)   == c \in live /\ result[c] = NoResult

(* The log has a call at most once. *)
OnceInLog == \A i, j \in 1..Len(log) : log[i] = log[j] => i = j

(* What has been delivered is done, what has not waits. *)
Entries ==
  \A i \in 1..Len(log) :
    /\ pc[log[i]] \in {"sent", "returned", "threw"}
    /\ i <= delivered => Done(log[i])
    /\ i > delivered => Waits(log[i])

(* Outside of the log the program counter tells. *)
Outside ==
  \A c \in Call \ Logged :
    /\ pc[c] # "sent" /\ c \notin misused
    /\ pc[c] = "idle" => c \notin live /\ result[c] = NoResult /\ c \notin future
    /\ pc[c] \in {"ready", "made"} => Waits(c)
    /\ pc[c] \in {"returned", "threw"} => Done(c)

(* zookeeper_close has answered everything, and returns when every         *)
(* callback has run.                                                       *)
Closing ==
  /\ handle # "open" => answered = Len(log)
  /\ handle \in {"null", "failed"} => delivered = Len(log)

OpInv == TypeOK /\ OnceInLog /\ Entries /\ Outside /\ Closing /\ OnlyLoadFenceRaces

-----------------------------------------------------------------------------
(* error_code_from_raw gives an error_code for every result code. *)
LEMMA ErrorCodes == \A raw \in RawCode : error_code_from_raw(raw) \in ErrorCode
  BY Zenon DEF ErrorCode

(* ok is one of them. *)
LEMMA OkIsCode == "ok" \in ErrorCode
<1>1. "ZOK" \in RawCode
  BY Zenon DEF RawCode, error_code
<1>2. error_code_from_raw("ZOK") = "ok"
  BY Zenon DEF error_code_from_raw, cast, error_code
<1> QED
  BY <1>1, <1>2, ErrorCodes, Zenon

(* failed_op_index of the commit completer is a number. *)
LEMMA IndexIsNumber ==
  ASSUME TypeOK, NEW c \in Call
  PROVE  partition_point(raw_results(c)) \in Nat
<1> DEFINE P == {i \in DOMAIN raw_results(c) : \A j \in 1..i : raw_results(c)[j] = "ZOK"}
<1>1. size[c] \in Nat
  BY OperationsAssumption DEF TypeOK
<1>2. DOMAIN raw_results(c) = 1..size[c]
  BY DEF raw_results
<1>3. IsFiniteSet(1..size[c])
  BY <1>1, FS_Interval
<1>4. IsFiniteSet(P)
  BY <1>2, <1>3, FS_Subset, Zenon
<1> QED
  BY <1>4, FS_CardinalityType DEF partition_point

(* Every callback gives its promise a value or an exception. *)
LEMMA CallbackSettles ==
  ASSUME TypeOK, NEW c \in Call
  PROVE  /\ callback_result(c) \in [how : {"none", "value", "error", "transaction_failed"},
                                    code : ErrorCode \union {"bad_alloc"}, index : Nat]
         /\ callback_result(c) # NoResult
<1> DEFINE rc == error_code_from_raw(answer[c])
<1>1. rc \in ErrorCode /\ "ok" \in ErrorCode
  <2>1. answer[c] \in RawCode
    BY Zenon DEF TypeOK
  <2> QED
    BY <2>1, ErrorCodes, OkIsCode, Zenon
<1>2. partition_point(raw_results(c)) \in Nat
  BY IndexIsNumber
<1> HIDE DEF rc
<1> QED
  BY <1>1, <1>2, Zenon DEF rc, callback_result, commit_deliver, exists_settled_as, settled_as, value,
     exception, transaction_failed, NoResult

(* The initial state. *)
LEMMA OpInit == Init => OpInv
<1> SUFFICES ASSUME Init PROVE OpInv
  OBVIOUS
<1>1. "ok" \in ErrorCode /\ "ZOK" \in RawCode /\ "ZOO_CONNECTING_STATE" \in RawState
  BY OkIsCode, Zenon DEF RawCode, RawState, error_code
<1>2. TypeOK
  BY <1>1, OperationsAssumption DEF Init, TypeOK, NoResult, Op
<1> QED
  BY <1>2 DEF Init, OpInv, OnceInLog, Entries, Outside, Closing, OnlyLoadFenceRaces, Logged, Waits, Done

-----------------------------------------------------------------------------
(* The first step of an operation is an instance of begin. *)
LEMMA BeginSteps ==
  \A c \in Call : Begin(c) =>
    \E o \in Op, n \in 0..MaxTxn, f \in SUBSET {c} : begin(c, o, n, f)
<1> SUFFICES ASSUME NEW c \in Call, Begin(c)
             PROVE  \E o \in Op, n \in 0..MaxTxn, f \in SUBSET {c} : begin(c, o, n, f)
  OBVIOUS
<1>1. 0 \in 0..MaxTxn /\ {} \in SUBSET {c} /\ {c} \in SUBSET {c}
  BY OperationsAssumption
<1>2. Op = {"plain", "exists", "commit", "load_fence"}
  BY DEF Op
<1>3. CASE commit(c)
  BY <1>1, <1>2, <1>3, Zenon DEF commit
<1>4. CASE load_fence(c)
  BY <1>1, <1>2, <1>4, Zenon DEF load_fence
<1>5. CASE ~commit(c) /\ ~load_fence(c)
  BY <1>1, <1>2, <1>5, Zenon DEF Begin, get, get_children, exists, create, set, erase, get_acl, set_acl
<1> QED
  BY <1>3, <1>4, <1>5

(* Every step preserves the types. *)
LEMMA OpType == TypeOK /\ [Next]_vars => TypeOK'
<1> SUFFICES ASSUME TypeOK, [Next]_vars PROVE TypeOK'
  OBVIOUS
<1> USE OperationsAssumption
<1>0. ErrorCode # {} /\ \A rc \in RawCode : error_code_from_raw(rc) \in ErrorCode
  BY ErrorCodes, OkIsCode, Zenon
<1>00. "ok" \in ErrorCode
  BY OkIsCode
<1>1. ASSUME NEW c \in Call, Begin(c) PROVE TypeOK'
  <2>1. PICK o \in Op, n \in 0..MaxTxn, f \in SUBSET {c} : begin(c, o, n, f)
    BY <1>1, BeginSteps
  <2> QED
    BY <2>1, Zenon DEF begin, TypeOK, library
<1>2. ASSUME NEW c \in Call, commit_build(c) PROVE TypeOK'
  BY <1>2, Zenon DEF commit_build, TypeOK, library
<1>3. ASSUME NEW c \in Call, commit_cannot_build(c) PROVE TypeOK'
  BY <1>3, Zenon DEF commit_cannot_build, TypeOK, library, exception
<1>4. ASSUME NEW c \in Call, zoo_accepts(c) PROVE TypeOK'
  BY <1>4 DEF zoo_accepts, TypeOK
<1>5. ASSUME NEW c \in Call, zoo_refuses(c) PROVE TypeOK'
  BY <1>5, <1>0 DEF zoo_refuses, TypeOK, library, exception
<1>6. ASSUME NEW c \in Call, release(c) PROVE TypeOK'
  BY <1>6, Zenon DEF release, TypeOK, library
<1>7. ASSUME NEW rc \in Answers, Respond(rc) PROVE TypeOK'
  <2>1. rc \in RawCode
    BY Zenon DEF Answers, RawCode, error_code
  <2>2. log[answered + 1] \in Call
    BY <1>7 DEF Respond, TypeOK
  <2> QED
    <3>1. failing' \in [Call -> Nat]
      <4>1. size[log[answered + 1]] \in Nat
        BY <2>2 DEF TypeOK
      <4>2. CASE failing' = failing
        BY <4>2 DEF TypeOK
      <4>3. CASE \E i \in 1..size[log[answered + 1]] : failing' = [failing EXCEPT ![log[answered + 1]] = i]
        <5>1. PICK i \in 1..size[log[answered + 1]] : failing' = [failing EXCEPT ![log[answered + 1]] = i]
          BY <4>3, Zenon
        <5>2. i \in Nat
          BY <4>1
        <5> QED
          BY <5>1, <5>2, <2>2, Zenon DEF TypeOK
      <4> QED
        BY <1>7, <4>2, <4>3 DEF Respond
    <3>2. answer' \in [Call -> RawCode] /\ answered' \in 0..Len(log) /\ delivered \in 0..answered'
      BY <1>7, <2>1, <2>2 DEF Respond, TypeOK
    <3> QED
      BY <1>7, <3>1, <3>2, Zenon DEF Respond, TypeOK, callVars
<1>8. ASSUME NEW raw \in RawState, SessionChange(raw) PROVE TypeOK' \/ ~(answered' \in 0..Len(log) /\ answered' >= answered /\ answer' \in [Call -> RawCode])
  BY <1>8 DEF SessionChange, TypeOK, callVars
<1>9. ASSUME NEW rc \in RawCode, FailWaiting(rc)
      PROVE  answered' \in 0..Len(log) /\ answered' >= answered /\ answer' \in [Call -> RawCode]
  BY <1>9 DEF FailWaiting, TypeOK
<1>10. {"ZCONNECTIONLOSS", "ZSESSIONEXPIRED", "ZAUTHFAILED", "ZOPERATIONTIMEOUT", "ZCLOSING"} \subseteq RawCode
  BY DEF RawCode, UnnamedRaw, error_code
<1>11. {"ZOO_CONNECTING_STATE", "ZOO_CONNECTED_STATE", "ZOO_EXPIRED_SESSION_STATE",
        "ZOO_AUTH_FAILED_STATE"} \subseteq RawState
  BY Zenon DEF RawState
<1>12. CASE Connected
  BY <1>12, <1>8, <1>11 DEF Connected, TypeOK
<1>13. CASE Disconnected
  BY <1>13, <1>8, <1>9, <1>10, <1>11 DEF Disconnected
<1>14. CASE Expired
  BY <1>14, <1>8, <1>9, <1>10, <1>11 DEF Expired
<1>15. CASE ConnectFails
  <2>1. PICK rc \in {"ZCONNECTIONLOSS", "ZOPERATIONTIMEOUT"} : FailWaiting(rc)
    BY <1>15, Zenon DEF ConnectFails
  <2>2. answered' \in 0..Len(log) /\ answered' >= answered /\ answer' \in [Call -> RawCode]
    BY <2>1, <1>9, <1>10
  <2> QED
    BY <1>15, <2>2 DEF ConnectFails, TypeOK, callVars
<1>16. CASE callback
  <2>1. log[delivered + 1] \in Call
    BY <1>16 DEF callback, TypeOK
  <2>2. callback_result(log[delivered + 1]) \in
          [how : {"none", "value", "error", "transaction_failed"},
           code : ErrorCode \union {"bad_alloc"}, index : Nat]
    BY <2>1, CallbackSettles
  <2> QED
    <3>a. /\ delivered < answered /\ delivered' = delivered + 1
          /\ UNCHANGED <<callVars, future, handle, library>>
      BY <1>16, Zenon DEF callback
    <3>b. delivered' \in 0..answered
      BY <3>a DEF TypeOK
    <3>1. live' \subseteq Call /\ misused' \subseteq Call
      BY <1>16, <2>1, Zenon DEF callback, TypeOK
    <3>2. \/ result' = result
          \/ result' = [result EXCEPT ![log[delivered + 1]] = callback_result(log[delivered + 1])]
      BY <1>16, Zenon DEF callback
    <3> HIDE DEF callback_result
    <3>3. result' \in [Call -> [how : {"none", "value", "error", "transaction_failed"},
                                code : ErrorCode \union {"bad_alloc"}, index : Nat]]
      BY <2>1, <2>2, <3>2, Zenon DEF TypeOK
    <3> QED
      BY <3>1, <3>a, <3>b, <3>3, Zenon DEF TypeOK, callVars, library
<1>17. CASE zookeeper_close
  BY <1>17, <1>9, <1>10 DEF zookeeper_close, TypeOK, callVars
<1>18. CASE close_returns
  BY <1>18, Zenon DEF close_returns, TypeOK, callVars, library
<1>19. CASE UNCHANGED vars
  BY <1>19, Zenon DEF vars, TypeOK, callVars, library
<1> QED
  BY <1>1, <1>2, <1>3, <1>4, <1>5, <1>6, <1>7, <1>12, <1>13, <1>14, <1>15, <1>16, <1>17, <1>18, <1>19, Zenon
     DEF Next, Continue, IOThread

-----------------------------------------------------------------------------
(* What the invariant says beyond the types. *)
Owned == OnceInLog /\ Entries /\ Outside /\ Closing /\ OnlyLoadFenceRaces

(* Answers and session changes do not touch calls, promises or callbacks. *)
LEMMA LibraryStep ==
  ASSUME Owned,
         UNCHANGED <<pc, op, live, future, result, misused, log, delivered>>,
         Closing'
  PROVE  Owned'
BY DEF Owned, OnceInLog, Entries, Outside, OnlyLoadFenceRaces, Logged, Waits, Done

(* A call that has not been accepted is not in the log. *)
LEMMA NotYetLogged ==
  ASSUME Owned, NEW c \in Call, pc[c] \in {"idle", "ready", "made"}
  PROVE  c \notin Logged
BY Zenon DEF Owned, Entries, Logged

(* A call outside of the log changes: the log and its promises do not. *)
LEMMA OutsideStep ==
  ASSUME TypeOK, Owned, NEW c \in Call, c \notin Logged,
         UNCHANGED <<log, delivered, answered, handle, misused>>,
         \A d \in Call \ {c} : /\ pc'[d] = pc[d]
                               /\ op'[d] = op[d]
                               /\ result'[d] = result[d]
                               /\ d \in live' <=> d \in live
                               /\ d \in future' <=> d \in future,
         \/ pc'[c] \in {"ready", "made"} /\ c \in live' /\ result'[c] = NoResult
         \/ pc'[c] \in {"returned", "threw"} /\ c \notin live' /\ result'[c] # NoResult
  PROVE  Owned'
<1>1. Logged' = Logged /\ \A i \in 1..Len(log) : log[i] \in Call \ {c}
  <2>1. log' = log
    OBVIOUS
  <2>2. Logged' = Logged
    BY <2>1 DEF Logged
  <2>3. \A i \in 1..Len(log) : log[i] \in Call
    BY DEF TypeOK
  <2> QED
    BY <2>2, <2>3, Zenon DEF Logged
<1>2. OnceInLog' /\ Closing'
  BY DEF Owned, OnceInLog, Closing
<1>3. Entries'
  BY <1>1 DEF Owned, Entries, Waits, Done
<1>4. Outside'
  <2> SUFFICES ASSUME NEW d \in Call \ Logged
               PROVE  /\ pc'[d] # "sent" /\ d \notin misused
                      /\ pc'[d] = "idle" => d \notin live' /\ result'[d] = NoResult /\ d \notin future'
                      /\ pc'[d] \in {"ready", "made"} => d \in live' /\ result'[d] = NoResult
                      /\ pc'[d] \in {"returned", "threw"} => d \notin live' /\ result'[d] # NoResult
    BY <1>1, Zenon DEF Outside, Waits, Done
  <2>1. CASE d = c
    BY <2>1 DEF Owned, Outside
  <2>2. CASE d # c
    BY <2>2 DEF Owned, Outside, Waits, Done
  <2> QED
    BY <2>1, <2>2, Zenon
<1>5. OnlyLoadFenceRaces'
  BY DEF Owned, OnlyLoadFenceRaces, Outside, TypeOK
<1> QED
  BY <1>2, <1>3, <1>4, <1>5 DEF Owned

(* Every step of a call outside of the log keeps the invariant. *)
LEMMA CallOutside ==
  ASSUME OpInv, NEW c \in Call,
         Begin(c) \/ commit_build(c) \/ commit_cannot_build(c) \/ zoo_refuses(c)
  PROVE  Owned'
<1>1. TypeOK /\ Owned
  BY DEF OpInv, Owned
<1>2. ASSUME Begin(c) PROVE Owned'
  <2>1. PICK o \in Op, n \in 0..MaxTxn, f \in SUBSET {c} : begin(c, o, n, f)
    BY <1>2, BeginSteps
  <2>2. pc[c] = "idle" /\ c \notin Logged
    BY <1>1, <2>1, NotYetLogged, Zenon DEF begin
  <2>3. result[c] = NoResult
    BY <1>1, <2>2, Zenon DEF Owned, Outside
  <2>4. /\ pc'[c] \in {"ready", "made"} /\ c \in live' /\ result'[c] = NoResult
        /\ UNCHANGED <<log, delivered, answered, handle, misused>>
        /\ \A d \in Call \ {c} : /\ pc'[d] = pc[d]
                                 /\ op'[d] = op[d]
                                 /\ result'[d] = result[d]
                                 /\ d \in live' <=> d \in live
                                 /\ d \in future' <=> d \in future
    BY <1>1, <2>1, <2>3, Zenon DEF begin, TypeOK, library
  <2> QED
    BY <1>1, <2>2, <2>4, OutsideStep, Zenon
<1>3. ASSUME commit_build(c) PROVE Owned'
  <2>1. pc[c] = "ready" /\ c \notin Logged
    BY <1>1, <1>3, NotYetLogged, Zenon DEF commit_build
  <2>2. c \in live /\ result[c] = NoResult
    BY <1>1, <2>1, Zenon DEF Owned, Outside, Waits
  <2>3. /\ pc'[c] \in {"ready", "made"} /\ c \in live' /\ result'[c] = NoResult
        /\ UNCHANGED <<log, delivered, answered, handle, misused>>
        /\ \A d \in Call \ {c} : /\ pc'[d] = pc[d]
                                 /\ op'[d] = op[d]
                                 /\ result'[d] = result[d]
                                 /\ d \in live' <=> d \in live
                                 /\ d \in future' <=> d \in future
    BY <1>1, <1>3, <2>2, Zenon DEF commit_build, TypeOK, library
  <2> QED
    BY <1>1, <2>1, <2>3, OutsideStep, Zenon
<1>4. ASSUME commit_cannot_build(c) \/ zoo_refuses(c) PROVE Owned'
  <2>1. pc[c] \in {"ready", "made"} /\ c \notin Logged
    BY <1>1, <1>4, NotYetLogged, Zenon DEF commit_cannot_build, zoo_refuses
  <2>2. PICK code : result' = [result EXCEPT ![c] = exception(code)]
    BY <1>4, Zenon DEF commit_cannot_build, zoo_refuses
  <2>3. result'[c] # NoResult
    BY <1>1, <2>2, Zenon DEF TypeOK, exception, NoResult
  <2>4. /\ pc'[c] \in {"returned", "threw"} /\ c \notin live'
        /\ UNCHANGED <<log, delivered, answered, handle, misused>>
        /\ \A d \in Call \ {c} : /\ pc'[d] = pc[d]
                                 /\ op'[d] = op[d]
                                 /\ d \in live' <=> d \in live
                                 /\ d \in future' <=> d \in future
    BY <1>1, <1>4, Zenon DEF commit_cannot_build, zoo_refuses, TypeOK, library
  <2>5. \A d \in Call \ {c} : result'[d] = result[d]
    BY <1>1, <2>2 DEF TypeOK
  <2> QED
    BY <1>1, <2>1, <2>3, <2>4, <2>5, OutsideStep, Zenon
<1> QED
  BY <1>2, <1>3, <1>4

(* An accepted request comes to the end of the log. *)
LEMMA CallAccepted ==
  ASSUME OpInv, NEW c \in Call, zoo_accepts(c)
  PROVE  Owned'
<1>1. TypeOK /\ Owned
  BY Zenon DEF OpInv, Owned
<1>2. pc[c] = "made" /\ c \notin Logged /\ Waits(c)
  BY <1>1, NotYetLogged, Zenon DEF zoo_accepts, Owned, Outside
<1>3. /\ Len(log') = Len(log) + 1
      /\ log'[Len(log) + 1] = c
      /\ \A i \in 1..Len(log) : log'[i] = log[i] /\ log[i] \in Call /\ log[i] # c
  <2>1. log' = Append(log, c) /\ log \in Seq(Call)
    BY <1>1, Zenon DEF zoo_accepts, TypeOK
  <2>2. \A i \in 1..Len(log) : log[i] \in Call
    BY <2>1
  <2>3. \A i \in 1..Len(log) : log[i] # c
    BY <1>2, Zenon DEF Logged
  <2>4. /\ Len(log') = Len(log) + 1
        /\ log'[Len(log) + 1] = c
        /\ \A i \in 1..Len(log) : log'[i] = log[i]
    BY <2>1
  <2> QED
    BY <2>2, <2>3, <2>4, Zenon
<1>4. Len(log) \in Nat /\ delivered \in 0..Len(log)
  BY <1>1 DEF TypeOK
<1>5. UNCHANGED <<op, live, future, result, misused, handle, delivered>> /\ handle = "open"
      /\ pc'[c] = "sent" /\ \A d \in Call : d # c => pc'[d] = pc[d]
  BY <1>1, Zenon DEF zoo_accepts, TypeOK
<1>6. OnceInLog'
  BY <1>1, <1>3, <1>4 DEF Owned, OnceInLog
<1>7. Entries'
  BY <1>1, <1>2, <1>3, <1>4, <1>5 DEF Owned, Entries, Waits, Done
<1>8. Logged' = Logged \union {c}
  BY <1>3, <1>4 DEF Logged
<1>9. Outside'
  BY <1>1, <1>5, <1>8 DEF Owned, Outside, Waits, Done
<1>10. Closing' /\ OnlyLoadFenceRaces'
  BY <1>1, <1>5 DEF Owned, Closing, OnlyLoadFenceRaces
<1> QED
  BY <1>6, <1>7, <1>9, <1>10 DEF Owned

(* The return of a call leaves its promise to the callback. *)
LEMMA CallReturns ==
  ASSUME OpInv, NEW c \in Call, release(c)
  PROVE  Owned'
<1>1. TypeOK /\ Owned
  BY Zenon DEF OpInv, Owned
<1>2. c \in Logged
  BY <1>1, Zenon DEF release, Owned, Outside
<1>3. /\ UNCHANGED <<op, live, result, handle, log, answered, delivered>>
      /\ pc'[c] \in {"returned", "threw"}
      /\ \A d \in Call : d # c => pc'[d] = pc[d]
      /\ \A d \in Call : d # c => (d \in future' <=> d \in future) /\ (d \in misused' <=> d \in misused)
      /\ c \in misused' => c \in misused \/ op[c] = "load_fence"
      /\ misused' \subseteq Call
  BY <1>1 DEF release, TypeOK, library
<1>4. Logged' = Logged /\ \A i \in 1..Len(log) : log[i] \in Call
  BY <1>1, <1>3 DEF Logged, TypeOK
<1>5. OnceInLog' /\ Closing'
  BY <1>1, <1>3 DEF Owned, OnceInLog, Closing
<1>6. Entries'
  BY <1>1, <1>3, <1>4, Zenon DEF Owned, Entries, Waits, Done
<1>7. Outside'
  BY <1>1, <1>2, <1>3, <1>4 DEF Owned, Outside, Waits, Done
<1>8. OnlyLoadFenceRaces'
  BY <1>1, <1>3, Zenon DEF Owned, OnlyLoadFenceRaces, TypeOK
<1> QED
  BY <1>5, <1>6, <1>7, <1>8 DEF Owned

(* A callback finds its promise, settles it and deletes it. *)
LEMMA CallbackStep ==
  ASSUME OpInv, callback
  PROVE  /\ Owned'
         /\ UNCHANGED misused
         /\ result'[log[delivered + 1]] = callback_result(log[delivered + 1])
         /\ \A c \in Call : result[c] # NoResult => result'[c] = result[c]
<1>1. TypeOK /\ Owned
  BY DEF OpInv, Owned
<1> DEFINE c == log[delivered + 1]
<1>2. delivered + 1 \in 1..Len(log) /\ c \in Call /\ delivered \in Nat /\ Len(log) \in Nat
  BY <1>1 DEF callback, TypeOK
<1>3. c \in live /\ result[c] = NoResult
  BY <1>1, <1>2 DEF Owned, Entries, Waits
<1>4. callback_result(c) # NoResult
  BY <1>1, <1>2, CallbackSettles
<1>5. /\ result' = [result EXCEPT ![c] = callback_result(c)]
      /\ live' = live \ {c}
      /\ delivered' = delivered + 1
      /\ UNCHANGED <<pc, op, misused, future, handle, log, answered>>
  BY <1>3, Zenon DEF callback, callVars, library
<1>6. /\ result'[c] # NoResult
      /\ result'[c] = callback_result(c)
      /\ \A d \in Call : d # c => result'[d] = result[d]
  BY <1>1, <1>2, <1>4, <1>5, Zenon DEF TypeOK
<1> HIDE DEF c
<1>7. \A i \in 1..Len(log) : log[i] \in Call /\ (log[i] = c <=> i = delivered + 1)
  <2>1. \A i \in 1..Len(log) : log[i] \in Call
    BY <1>1 DEF TypeOK
  <2>2. ASSUME NEW i \in 1..Len(log), log[i] = c PROVE i = delivered + 1
    BY <1>1, <1>2, <2>2, Zenon DEF Owned, OnceInLog, c
  <2> QED
    BY <2>1, <2>2, Zenon DEF c
<1>8. Entries'
  BY <1>1, <1>2, <1>5, <1>6, <1>7 DEF Owned, Entries, Waits, Done
<1>9. c \in Logged /\ Logged' = Logged
  BY <1>2, <1>5, Zenon DEF Logged, c
<1>10. Outside'
  BY <1>1, <1>5, <1>6, <1>9 DEF Owned, Outside, Waits, Done
<1>11. Closing'
  BY <1>1, <1>2, <1>5 DEF Owned, Closing, TypeOK, callback
<1>12. OnceInLog' /\ OnlyLoadFenceRaces'
  BY <1>1, <1>5 DEF Owned, OnceInLog, OnlyLoadFenceRaces
<1> QED
  BY <1>3, <1>5, <1>6, <1>8, <1>10, <1>11, <1>12, Zenon DEF Owned, c

(* Every step keeps the invariant. *)
LEMMA OpNext == OpInv /\ [Next]_vars => OpInv'
<1> SUFFICES ASSUME OpInv, [Next]_vars PROVE OpInv'
  OBVIOUS
<1>1. TypeOK /\ Owned
  BY DEF OpInv, Owned
<1>2. TypeOK'
  BY <1>1, OpType
<1>3. ASSUME NEW c \in Call, Begin(c) \/ Continue(c) PROVE Owned'
  BY <1>3, CallOutside, CallAccepted, CallReturns DEF Continue
<1>4. ASSUME IOThread PROVE Owned'
  <2>1. /\ UNCHANGED <<pc, op, live, future, result, misused, log, delivered>>
        /\ handle = "open" /\ handle' = "open"
    BY <1>4, Zenon DEF IOThread, Respond, Connected, Disconnected, Expired, ConnectFails, SessionChange, callVars
  <2>2. Closing'
    BY <2>1 DEF Closing
  <2> QED
    BY <1>1, <2>1, <2>2, LibraryStep, Zenon
<1>5. ASSUME callback PROVE Owned'
  BY <1>5, CallbackStep
<1>6. ASSUME zookeeper_close PROVE Owned'
  <2>1. /\ UNCHANGED <<pc, op, live, future, result, misused, log, delivered>>
        /\ handle' = "closing" /\ answered' = Len(log)
    BY <1>6 DEF zookeeper_close, FailWaiting, callVars
  <2>2. Closing'
    BY <2>1 DEF Closing
  <2> QED
    BY <1>1, <2>1, <2>2, LibraryStep
<1>7. ASSUME close_returns PROVE Owned'
  <2>1. /\ UNCHANGED <<pc, op, live, future, result, misused, log, delivered, answered>>
        /\ handle = "closing" /\ delivered = Len(log)
    BY <1>7, Zenon DEF close_returns, callVars, library
  <2>2. Closing'
    BY <1>1, <2>1, Zenon DEF Owned, Closing
  <2> QED
    BY <1>1, <2>1, <2>2, LibraryStep, Zenon
<1>8. ASSUME UNCHANGED vars PROVE Owned'
  <2>1. UNCHANGED <<pc, op, live, future, result, misused, log, delivered, answered, handle>>
    BY <1>8 DEF vars, callVars, library
  <2>2. Closing'
    BY <1>1, <2>1 DEF Owned, Closing
  <2> QED
    BY <1>1, <2>1, <2>2, LibraryStep, Zenon
<1>9. Owned'
  BY <1>3, <1>4, <1>5, <1>6, <1>7, <1>8 DEF Next
<1> QED
  BY <1>2, <1>9, Zenon DEF OpInv, Owned

(* The invariant holds always. *)
LEMMA OpAlways == Spec => []OpInv
  BY OpInit, OpNext, PTL DEF Spec

-----------------------------------------------------------------------------
(* The state has its type. *)
THEOREM OperationsTypeCorrect == Spec => []TypeOK
<1>1. OpInv => TypeOK
  BY DEF OpInv
<1> QED
  BY <1>1, OpAlways, PTL

(* No future ends with broken_promise, however the callback and the rest   *)
(* of the call interleave, and whatever happens to the session.            *)
THEOREM PromisesAreKept == Spec => []NoBrokenPromise
<1>1. OpInv => NoBrokenPromise
  <2> SUFFICES ASSUME OpInv, NEW c \in future, c \notin live PROVE result[c] # NoResult
    BY DEF NoBrokenPromise
  <2>1. c \in Call /\ pc[c] \in {"idle", "ready", "made", "sent", "returned", "threw"}
    BY Zenon DEF OpInv, TypeOK
  <2>2. CASE c \in Logged
    <3>1. PICK i \in 1..Len(log) : log[i] = c
      BY <2>2, Zenon DEF Logged
    <3>2. i <= delivered \/ i > delivered
      BY <3>1 DEF OpInv, TypeOK
    <3> QED
      BY <3>1, <3>2 DEF OpInv, Entries, Waits, Done
  <2>3. CASE c \notin Logged
    BY <2>1, <2>3, Zenon DEF OpInv, Outside, Waits, Done
  <2> QED
    BY <2>2, <2>3, Zenon
<1> QED
  BY <1>1, OpAlways, PTL

(* A future that is not ready has its promise, and a callback to come. *)
THEOREM FuturesBecomeReady == Spec => []NobodyWaitsInVain
<1>1. OpInv => NobodyWaitsInVain
  <2> SUFFICES ASSUME OpInv, NEW c \in Call, pc[c] = "returned", result[c] = NoResult
               PROVE  c \in live /\ \E i \in (delivered + 1)..Len(log) : log[i] = c
    BY Zenon DEF NobodyWaitsInVain
  <2>1. PICK i \in 1..Len(log) : log[i] = c
    BY Zenon DEF OpInv, Outside, Done, Logged
  <2>a. i \in Nat /\ delivered \in Nat
    BY <2>1 DEF OpInv, TypeOK
  <2>b. ~(i <= delivered)
    BY <2>1, Zenon DEF OpInv, Entries, Done
  <2>c. i > delivered
    BY <2>a, <2>b
  <2>2. i > delivered /\ c \in live
    BY <2>1, <2>c, Zenon DEF OpInv, Entries, Waits
  <2>3. i \in (delivered + 1)..Len(log)
    BY <2>1, <2>2 DEF OpInv, TypeOK
  <2> QED
    BY <2>1, <2>2, <2>3, Zenon
<1> QED
  BY <1>1, OpAlways, PTL

(* Only load_fence uses a promise that was deleted; no callback ever does. *)
THEOREM RaceIsLoadFences == Spec => []OnlyLoadFenceRaces
<1>1. OpInv => OnlyLoadFenceRaces
  BY DEF OpInv
<1> QED
  BY <1>1, OpAlways, PTL

(* When close has returned, every call that has returned is settled and    *)
(* its promise is deleted.                                                 *)
THEOREM CloseLeavesNoOperation == Spec => []CloseSettlesOperations
<1>1. OpInv => CloseSettlesOperations
  <2> SUFFICES ASSUME OpInv, handle \in {"null", "failed"}, NEW c \in Call, pc[c] = "returned"
               PROVE  Done(c)
    BY DEF CloseSettlesOperations, Done
  <2>1. delivered = Len(log)
    BY DEF OpInv, Closing
  <2>2. CASE c \in Logged
    BY <2>1, <2>2 DEF OpInv, Logged, Entries, TypeOK
  <2>3. CASE c \notin Logged
    BY <2>3 DEF OpInv, Outside
  <2> QED
    BY <2>2, <2>3, Zenon
<1> QED
  BY <1>1, OpAlways, PTL

(* A step changes no result that is there. *)
LEMMA ResultStays ==
  ASSUME OpInv, Next, NEW d \in Call, result[d] # NoResult
  PROVE  result'[d] = result[d]
<1>1. CASE callback
  BY <1>1, CallbackStep
<1>2. ASSUME NEW c \in Call, Begin(c) PROVE result'[d] = result[d]
  BY <1>2, BeginSteps DEF begin
<1>3. ASSUME NEW c \in Call, Continue(c) PROVE result'[d] = result[d]
  <2>1. CASE commit_cannot_build(c) \/ zoo_refuses(c)
    <3>1. pc[c] \in {"ready", "made"}
      BY <2>1 DEF commit_cannot_build, zoo_refuses
    <3>2. result[c] = NoResult
      BY <3>1, NotYetLogged, Zenon DEF OpInv, Owned, Outside, Waits
    <3> QED
      BY <2>1, <3>2, Zenon DEF commit_cannot_build, zoo_refuses, OpInv, TypeOK
  <2>2. CASE commit_build(c) \/ zoo_accepts(c) \/ release(c)
    BY <2>2 DEF commit_build, zoo_accepts, release
  <2> QED
    BY <1>3, <2>1, <2>2, Zenon DEF Continue
<1>4. CASE IOThread \/ zookeeper_close \/ close_returns
  BY <1>4, Zenon DEF IOThread, Respond, Connected, Disconnected, Expired, ConnectFails, SessionChange,
     zookeeper_close, close_returns
<1> QED
  BY <1>1, <1>2, <1>3, <1>4 DEF Next

(* No promise is settled twice, by the call and by its callback. *)
THEOREM OperationsSettledOnce == Spec => SettledOnce
<1>1. OpInv /\ [Next]_vars => [\A c \in Call : result[c] # NoResult => result'[c] = result[c]]_vars
  BY ResultStays
<1> QED
  BY <1>1, OpAlways, PTL DEF Spec, SettledOnce

-----------------------------------------------------------------------------
(* What an operation delivers is what the ensemble answered: once the C    *)
(* library has an answer for an entry of its log, nothing changes it, so   *)
(* the result the callback delivered is still what it would deliver now.   *)

(* What has been delivered is what the callback makes of the answer. *)
Told == \A i \in 1..delivered : result[log[i]] = callback_result(log[i])

(* What the ensemble rejects is a commit, because of one of its operations. *)
Rejected ==
  \A c \in Call : failing[c] # 0 =>
    c \in Answered /\ op[c] = "commit" /\ failing[c] \in 1..size[c] /\ answer[c] = "ZNONODE"

ToldInv == OpInv /\ Told /\ Rejected

(* An answer, and the call it is for, stay as they are. *)
LEMMA AnswersStay ==
  ASSUME OpInv, [Next]_vars, NEW i \in 1..answered, NEW c \in Call, c = log[i]
  PROVE  /\ i \in 1..answered' /\ log'[i] = c
         /\ op'[c] = op[c] /\ size'[c] = size[c] /\ answer'[c] = answer[c] /\ failing'[c] = failing[c]
<1>1. /\ TypeOK /\ OnceInLog
      /\ answered \in Nat /\ Len(log) \in Nat /\ i \in 1..Len(log) /\ log \in Seq(Call)
  <2>1. TypeOK /\ OnceInLog
    BY DEF OpInv
  <2>2. log \in Seq(Call) /\ answered \in 0..Len(log)
    BY <2>1 DEF TypeOK
  <2> QED
    BY <2>1, <2>2
<1>2. pc[c] \in {"sent", "returned", "threw"}
  BY <1>1, Zenon DEF OpInv, Entries
<1>3. \A j \in (answered + 1)..Len(log) : log[j] # c
  BY <1>1 DEF OnceInLog
<1>4. c \notin Waiting
  BY <1>3, Zenon DEF Waiting
<1>5. ASSUME NEW rc, FailWaiting(rc) PROVE answer'[c] = answer[c] /\ i \in 1..answered'
  BY <1>1, <1>4, <1>5 DEF FailWaiting
<1>6. ASSUME NEW d \in Call, Begin(d) \/ Continue(d)
      PROVE  op'[c] = op[c] /\ size'[c] = size[c] /\ UNCHANGED <<answered, answer, failing>> /\ log'[i] = c
  <2>1. CASE Begin(d)
    <3>1. PICK o \in Op, n \in 0..MaxTxn, f \in SUBSET {d} : begin(d, o, n, f)
      BY <2>1, BeginSteps
    <3> QED
      BY <1>1, <1>2, <3>1, Zenon DEF begin, library, TypeOK
  <2>2. CASE zoo_accepts(d)
    BY <1>1, <2>2 DEF zoo_accepts
  <2>3. CASE commit_build(d) \/ commit_cannot_build(d) \/ zoo_refuses(d) \/ release(d)
    BY <2>3, Zenon DEF commit_build, commit_cannot_build, zoo_refuses, release, library
  <2> QED
    BY <1>6, <2>1, <2>2, <2>3, Zenon DEF Continue
<1>7. ASSUME NEW rc \in Answers, Respond(rc)
      PROVE  answer'[c] = answer[c] /\ failing'[c] = failing[c] /\ i \in 1..answered'
  <2>1. answered + 1 \in (answered + 1)..Len(log) /\ i \in 1..(answered + 1)
    BY <1>1, <1>7 DEF Respond
  <2>2. log[answered + 1] # c
    BY <1>3, <2>1, Zenon
  <2> QED
    BY <1>1, <1>7, <2>1, <2>2, Zenon DEF Respond, TypeOK
<1>8. CASE IOThread
  <2>1. op' = op /\ size' = size /\ log' = log
    BY <1>8, Zenon DEF IOThread, Respond, Connected, Disconnected, Expired, ConnectFails, SessionChange,
       callVars
  <2>2. CASE Connected
    BY <2>1, <2>2, Zenon DEF Connected, SessionChange
  <2>3. CASE Disconnected \/ Expired \/ ConnectFails
    BY <1>5, <2>1, <2>3, Zenon DEF Disconnected, Expired, ConnectFails, SessionChange
  <2> QED
    BY <1>7, <1>8, <2>1, <2>2, <2>3, Zenon DEF IOThread
<1>9. CASE callback \/ close_returns \/ UNCHANGED vars
  BY <1>9, Zenon DEF callback, close_returns, vars, callVars, library
<1>10. CASE zookeeper_close
  BY <1>5, <1>10, Zenon DEF zookeeper_close, callVars
<1> QED
  BY <1>6, <1>8, <1>9, <1>10, Zenon DEF Next

(* The callback reads nothing else. *)
LEMMA CallbackReads ==
  ASSUME NEW c \in Call,
         op'[c] = op[c], size'[c] = size[c], answer'[c] = answer[c], failing'[c] = failing[c]
  PROVE  callback_result(c)' = callback_result(c)
<1>1. raw_results(c)' = raw_results(c)
  BY Zenon DEF raw_results
<1> QED
  BY <1>1, Zenon DEF callback_result, commit_deliver

(* The initial state. *)
LEMMA ToldInit == Init => ToldInv
<1> SUFFICES ASSUME Init PROVE Told /\ Rejected
  BY OpInit DEF ToldInv
<1> QED
  BY DEF Init, Told, Rejected

(* Every step keeps what was told. *)
LEMMA ToldNext == ToldInv /\ [Next]_vars => ToldInv'
<1> SUFFICES ASSUME ToldInv, [Next]_vars PROVE ToldInv'
  OBVIOUS
<1>1. OpInv /\ OpInv'
  BY OpNext DEF ToldInv
<1>2. /\ delivered \in Nat /\ answered \in Nat /\ delivered <= answered /\ answered <= Len(log)
      /\ delivered' \in Nat /\ delivered' <= answered'
      /\ \A i \in 1..answered : log[i] \in Call
  BY <1>1 DEF OpInv, TypeOK
<1>3. Told'
  <2> SUFFICES ASSUME NEW i \in 1..delivered' PROVE (result[log[i]] = callback_result(log[i]))'
    BY DEF Told
  <2>1. ASSUME i <= delivered PROVE (result[log[i]] = callback_result(log[i]))'
    <3>1. i \in 1..delivered /\ i \in 1..answered /\ i \in 1..Len(log)
      BY <1>2, <2>1
    <3>2. PICK c \in Call : c = log[i]
      BY <1>2, <3>1, Zenon
    <3>3. /\ log'[i] = c
          /\ op'[c] = op[c] /\ size'[c] = size[c] /\ answer'[c] = answer[c] /\ failing'[c] = failing[c]
      BY <1>1, <3>1, <3>2, AnswersStay, Zenon
    <3>4. callback_result(c)' = callback_result(c)
      BY <3>3, CallbackReads
    <3>5. result[c] = callback_result(c)
      BY <3>1, <3>2, Zenon DEF ToldInv, Told
    <3>6. result[c] # NoResult
      BY <1>1, <2>1, <3>1, <3>2, Zenon DEF OpInv, Entries, Done
    <3>7. result'[c] = result[c]
      <4>1. CASE Next
        BY <1>1, <3>6, <4>1, ResultStays
      <4>2. CASE UNCHANGED vars
        BY <4>2 DEF vars
      <4> QED
        BY <4>1, <4>2
    <3> QED
      BY <3>3, <3>4, <3>5, <3>7
  <2>2. ASSUME ~(i <= delivered) PROVE (result[log[i]] = callback_result(log[i]))'
    <3>1. delivered' # delivered
      BY <1>2, <2>2
    <3>2. callback
      <4>1. ASSUME NEW d \in Call, Begin(d) PROVE delivered' = delivered
        <5>1. PICK o \in Op, n \in 0..MaxTxn, f \in SUBSET {d} : begin(d, o, n, f)
          BY <4>1, BeginSteps
        <5> QED
          BY <5>1, Zenon DEF begin
      <4>2. ASSUME NEW d \in Call, Continue(d) PROVE delivered' = delivered
        BY <4>2, Zenon DEF Continue, commit_build, commit_cannot_build, zoo_accepts, zoo_refuses, release
      <4>3. ASSUME IOThread PROVE delivered' = delivered
        BY <4>3, Zenon DEF IOThread, Respond, Connected, Disconnected, Expired, ConnectFails, SessionChange
      <4>4. ASSUME zookeeper_close \/ close_returns \/ UNCHANGED vars PROVE delivered' = delivered
        BY <4>4, Zenon DEF zookeeper_close, close_returns, vars
      <4> QED
        BY <3>1, <4>1, <4>2, <4>3, <4>4, Zenon DEF Next
    <3>3. delivered' = delivered + 1 /\ delivered < answered
      BY <3>2, Zenon DEF callback
    <3>4. i = delivered + 1 /\ i \in 1..answered
      BY <1>2, <2>2, <3>3
    <3>5. PICK c \in Call : c = log[i]
      BY <1>2, <3>4, Zenon
    <3>6. result'[c] = callback_result(c)
      BY <1>1, <3>2, <3>4, <3>5, CallbackStep, Zenon
    <3>7. /\ log'[i] = c
          /\ op'[c] = op[c] /\ size'[c] = size[c] /\ answer'[c] = answer[c] /\ failing'[c] = failing[c]
      BY <1>1, <3>4, <3>5, AnswersStay, Zenon
    <3> QED
      BY <3>6, <3>7, CallbackReads, Zenon
  <2> QED
    BY <2>1, <2>2
<1>4. Rejected'
  <2> SUFFICES ASSUME NEW c \in Call, failing'[c] # 0
               PROVE  c \in Answered' /\ op'[c] = "commit" /\ failing'[c] \in 1..size'[c]
                      /\ answer'[c] = "ZNONODE"
    BY DEF Rejected
  <2>1. CASE failing[c] # 0
    <3>1. c \in Answered /\ op[c] = "commit" /\ failing[c] \in 1..size[c] /\ answer[c] = "ZNONODE"
      BY <2>1, Zenon DEF ToldInv, Rejected
    <3>2. PICK i \in 1..answered : c = log[i]
      BY <3>1, Zenon DEF Answered
    <3>3. /\ i \in 1..answered' /\ log'[i] = c
          /\ op'[c] = op[c] /\ size'[c] = size[c] /\ answer'[c] = answer[c] /\ failing'[c] = failing[c]
      BY <1>1, <3>2, AnswersStay, Zenon
    <3> QED
      BY <3>1, <3>3, Zenon DEF Answered
  <2>2. CASE failing[c] = 0
    <3>1. failing' # failing
      BY <2>2
    <3>2. \E rc \in Answers : Respond(rc)
      <4>1. ASSUME NEW d \in Call, Begin(d) PROVE failing' = failing
        <5>1. PICK o \in Op, n \in 0..MaxTxn, f \in SUBSET {d} : begin(d, o, n, f)
          BY <4>1, BeginSteps
        <5> QED
          BY <5>1, Zenon DEF begin, library
      <4>2. ASSUME NEW d \in Call, Continue(d) PROVE failing' = failing
        BY <4>2, Zenon DEF Continue, commit_build, commit_cannot_build, zoo_accepts, zoo_refuses, release,
           library
      <4>3. ASSUME Connected \/ Disconnected \/ Expired \/ ConnectFails PROVE failing' = failing
        BY <4>3, Zenon DEF Connected, Disconnected, Expired, ConnectFails, SessionChange
      <4>4. ASSUME zookeeper_close \/ close_returns \/ callback \/ UNCHANGED vars PROVE failing' = failing
        BY <4>4, Zenon DEF zookeeper_close, close_returns, callback, vars, library
      <4> QED
        BY <3>1, <4>1, <4>2, <4>3, <4>4, Zenon DEF Next, IOThread
    <3>3. PICK rc \in Answers : Respond(rc)
      BY <3>2
    <3> DEFINE d == log[answered + 1]
    <3>4. /\ answer' = [answer EXCEPT ![d] = rc]
          /\ op[d] = "commit" /\ rc # "ZOK"
          /\ \E j \in 1..size[d] : failing' = [failing EXCEPT ![d] = j]
          /\ op' = op /\ size' = size /\ log' = log /\ answered' = answered + 1
      BY <3>1, <3>3, Zenon DEF Respond, callVars
    <3>5. d = c
      BY <1>1, <2>2, <3>4, Zenon DEF OpInv, TypeOK
    <3>6. rc = "ZNONODE"
      BY <3>4, Zenon DEF Answers
    <3>7. answer'[c] = "ZNONODE" /\ failing'[c] \in 1..size[c]
      <4>1. answer \in [Call -> RawCode] /\ failing \in [Call -> Nat]
        BY <1>1 DEF OpInv, TypeOK
      <4> HIDE DEF d
      <4> QED
        BY <3>4, <3>5, <3>6, <4>1
    <3>8. answered + 1 \in 1..answered'
      BY <1>2, <3>4
    <3> QED
      BY <3>4, <3>5, <3>7, <3>8, Zenon DEF Answered
  <2> QED
    BY <2>1, <2>2
<1> QED
  BY <1>1, <1>3, <1>4 DEF ToldInv

(* The invariant holds always. *)
LEMMA ToldAlways == Spec => []ToldInv
  BY ToldInit, ToldNext, PTL DEF Spec

(* A call that has a result and an answer was told the answer. *)
LEMMA ResultIsAnswer ==
  ASSUME ToldInv, NEW c \in Answered, result[c] # NoResult
  PROVE  c \in Call /\ result[c] = callback_result(c)
<1>1. PICK i \in 1..answered : c = log[i]
  BY Zenon DEF Answered
<1>2. /\ i \in Nat /\ i >= 1 /\ delivered \in Nat /\ i \in 1..Len(log) /\ c \in Call
  BY <1>1 DEF ToldInv, OpInv, TypeOK
<1>3. ~(i > delivered)
  BY <1>1, <1>2, Zenon DEF ToldInv, OpInv, Entries, Waits
<1>4. i \in 1..delivered
  BY <1>2, <1>3
<1> QED
  BY <1>1, <1>2, <1>4, Zenon DEF ToldInv, Told

-----------------------------------------------------------------------------
(* For every code there is, named or not, the exception throw_error picks  *)
(* is caught by just the base classes that the predicates name.            *)
THEOREM ErrorsAreClassified == \A code : Classified(throw_error(code))
<1> SUFFICES ASSUME NEW code PROVE Classified(throw_error(code))
  OBVIOUS
<1>1. CASE code \in throw_error_cases
  <2>1. throw_error(code).class = code /\ throw_error(code).code = code
    BY <1>1 DEF throw_error, construct
  <2> QED
    BY <1>1, <2>1 DEF Classified, throw_error_cases, transport_error, invalid_arguments, invalid_ensemble_state,
       invalid_connection_state, check_failed, is_transport_error, is_invalid_arguments,
       is_invalid_ensemble_state, is_invalid_connection_state, is_check_failed
<1>2. CASE code \notin throw_error_cases
  <2>1. throw_error(code).class = "error" /\ throw_error(code).code = code
    BY <1>2 DEF throw_error, unknown
  <2> QED
    BY <1>2, <2>1 DEF Classified, throw_error_cases, transport_error, invalid_arguments, invalid_ensemble_state,
       invalid_connection_state, check_failed, is_transport_error, is_invalid_arguments,
       is_invalid_ensemble_state, is_invalid_connection_state, is_check_failed
<1> QED
  BY <1>1, <1>2

(* An operation that fails throws an exception of the class its code calls *)
(* for, a transport_error whenever the connection was lost; a commit that  *)
(* was sent throws transaction_failed with the code as its cause.          *)
THEOREM FailuresHaveTheirClass == Spec => []FailureIsOfItsClass
<1>1. ToldInv => FailureIsOfItsClass
  <2> SUFFICES ASSUME ToldInv PROVE FailureIsOfItsClass
    OBVIOUS
  <2>1. ASSUME NEW c \in Call, result[c].how = "error"
        PROVE  Classified(thrown(result[c]))
    <3>1. thrown(result[c]) = throw_error(result[c].code)
      BY <2>1 DEF thrown
    <3> QED
      BY <3>1, ErrorsAreClassified, Zenon
  <2>2. ASSUME NEW c \in Answered, result[c].how \in {"error", "transaction_failed"}
        PROVE  IF op[c] = "commit"
               THEN /\ thrown(result[c]).class = "transaction_failed"
                    /\ result[c].code = error_code_from_raw(answer[c])
               ELSE /\ answer[c] \in {"ZCONNECTIONLOSS", "ZOPERATIONTIMEOUT"} =>
                         thrown(result[c]).class \in transport_error
                    /\ answer[c] = "ZCLOSING" => thrown(result[c]).class = "closed"
    <3>1. result[c] = callback_result(c)
      BY <2>2, ResultIsAnswer DEF NoResult
    <3>2. CASE op[c] = "commit"
      <4> DEFINE rc == error_code_from_raw(answer[c])
      <4>1. result[c] = commit_deliver(c, rc)
        BY <3>1, <3>2, Zenon DEF callback_result
      <4> HIDE DEF rc
      <4>2. PICK i : result[c] = transaction_failed(rc, i)
        BY <2>2, <4>1 DEF commit_deliver, value
      <4> QED
        BY <3>2, <4>2 DEF rc, transaction_failed, thrown, construct
    <3>3. ASSUME NEW code, code \in {"connection_loss", "closed"}, op[c] # "commit",
                 error_code_from_raw(answer[c]) = code
          PROVE  thrown(result[c]).class = code
      <4>1. result[c] = exception(code)
        BY <3>1, <3>3, Zenon DEF callback_result, exists_settled_as, settled_as
      <4>2. thrown(result[c]) = throw_error(code)
        BY <4>1 DEF thrown, exception
      <4>3. code \in throw_error_cases
        BY <3>3 DEF throw_error_cases
      <4> QED
        BY <4>2, <4>3 DEF throw_error, construct
    <3>4. answer[c] \in {"ZCONNECTIONLOSS", "ZOPERATIONTIMEOUT"} =>
            error_code_from_raw(answer[c]) = "connection_loss"
      <4>1. cast("ZCONNECTIONLOSS") = "connection_loss"
        BY DEF cast, error_code
      <4> QED
        BY <4>1 DEF error_code_from_raw
    <3>5. answer[c] = "ZCLOSING" => error_code_from_raw(answer[c]) = "closed"
      BY DEF error_code_from_raw, cast, error_code
    <3> QED
      BY <3>2, <3>3, <3>4, <3>5 DEF transport_error
  <2> QED
    BY <2>1, <2>2, Zenon DEF FailureIsOfItsClass
<1> QED
  BY <1>1, ToldAlways, PTL

(* Everything before the operation that failed is ZOK, and it is not: the  *)
(* partition point is its position, counted from 0.                        *)
LEMMA PartitionPoint ==
  ASSUME ToldInv, NEW c \in Call, failing[c] # 0
  PROVE  partition_point(raw_results(c)) = failing[c] - 1
<1> DEFINE r == raw_results(c)
           P == {i \in DOMAIN r : \A j \in 1..i : r[j] = "ZOK"}
<1>1. /\ failing[c] \in Nat /\ failing[c] \in 1..size[c] /\ size[c] \in Nat
      /\ answer[c] = "ZNONODE"
  <2>1. size[c] \in Nat /\ failing[c] \in Nat
    BY OperationsAssumption DEF ToldInv, OpInv, TypeOK
  <2> QED
    BY <2>1, Zenon DEF ToldInv, Rejected
<1>2. DOMAIN r = 1..size[c]
  BY DEF raw_results
<1>3. \A i \in 1..size[c] : /\ i < failing[c] => r[i] = "ZOK"
                            /\ i = failing[c] => r[i] = "ZNONODE"
  <2> SUFFICES ASSUME NEW i \in 1..size[c]
               PROVE  /\ i < failing[c] => r[i] = "ZOK"
                      /\ i = failing[c] => r[i] = "ZNONODE"
    OBVIOUS
  <2>1. r[i] = IF i < failing[c] THEN "ZOK"
               ELSE IF i = failing[c] THEN answer[c]
               ELSE "ZRUNTIMEINCONSISTENCY"
    BY Zenon DEF raw_results
  <2> HIDE DEF r
  <2> QED
    BY <1>1, <2>1
<1> HIDE DEF r
<1>4. P = 1..(failing[c] - 1)
  <2>1. ASSUME NEW i \in 1..(failing[c] - 1) PROVE i \in P
    BY <1>1, <1>2, <1>3, <2>1
  <2>2. ASSUME NEW i \in P PROVE i \in 1..(failing[c] - 1)
    BY <1>1, <1>2, <1>3, <2>2
  <2> QED
    BY <2>1, <2>2
<1>5. Cardinality(1..(failing[c] - 1)) = failing[c] - 1
  <2>1. failing[c] - 1 \in Int /\ 1 \in Int
    BY <1>1
  <2>2. Cardinality(1..(failing[c] - 1)) = IF 1 > failing[c] - 1 THEN 0 ELSE (failing[c] - 1) - 1 + 1
    BY <2>1, FS_Interval, Zenon
  <2> QED
    BY <1>1, <2>2
<1> QED
  BY <1>4, <1>5 DEF partition_point, r

(* The index a rejected transaction reports is the operation the ensemble  *)
(* rejected, for transactions of every size.                               *)
THEOREM CommitTellsWhichFailed == Spec => []CommitNamesFailedOperation
<1>1. ToldInv => CommitNamesFailedOperation
  <2> SUFFICES ASSUME ToldInv, NEW c \in Call, failing[c] # 0, result[c] # NoResult
               PROVE  result[c] = transaction_failed(error_code_from_raw(answer[c]), failing[c] - 1)
    BY Zenon DEF CommitNamesFailedOperation
  <2>1. c \in Answered /\ op[c] = "commit" /\ answer[c] = "ZNONODE"
    BY Zenon DEF ToldInv, Rejected
  <2>2. result[c] = callback_result(c)
    BY <2>1, ResultIsAnswer
  <2>3. error_code_from_raw(answer[c]) # "ok"
    <3>1. cast("ZNONODE") = "no_entry"
      BY DEF cast, error_code
    <3> QED
      BY <2>1, <3>1 DEF error_code_from_raw
  <2> QED
    BY <2>1, <2>2, <2>3, PartitionPoint, Zenon DEF callback_result, commit_deliver
<1> QED
  BY <1>1, ToldAlways, PTL

-----------------------------------------------------------------------------
(* Operations implements OperationsContract: seen through the futures,     *)
(* every step of the machinery is a step the contract allows, or none.     *)

phase == IF handle \in {"null", "failed"} THEN "closed" ELSE handle

(* Only zookeeper_close gives the answer ZCLOSING. *)
ClosingAnswers == \A c \in Call : answer[c] = "ZCLOSING" => handle # "open"

ContractInv == OpInv /\ ClosingAnswers

(* closed is the error for ZCLOSING and for no other result code.          *)
LEMMA ClosedIsClosing ==
  \A raw \in RawCode : error_code_from_raw(raw) = "closed" => raw = "ZCLOSING"
BY DEF RawCode, error_code_from_raw, cast, error_code, UnnamedRaw

(* A new connection has no answers, ... *)
LEMMA ClosingInit == Init => ClosingAnswers
BY DEF Init, ClosingAnswers

(* ... and every step but zookeeper_close answers with another code. *)
LEMMA ClosingNext == ContractInv /\ [Next]_vars => ClosingAnswers'
<1> SUFFICES ASSUME ContractInv, [Next]_vars PROVE ClosingAnswers'
  OBVIOUS
<1>1. ClosingAnswers /\ answer \in [Call -> RawCode]
  BY Zenon DEF ContractInv, OpInv, TypeOK
<1>2. ASSUME UNCHANGED answer, handle # "open" => handle' # "open" PROVE ClosingAnswers'
  BY <1>1, <1>2, Zenon DEF ClosingAnswers
<1>3. ASSUME NEW c \in Call, Begin(c) \/ Continue(c) PROVE UNCHANGED <<answer, handle>>
  <2>1. CASE Begin(c)
    BY <2>1, BeginSteps, Zenon DEF begin, library
  <2>2. CASE Continue(c)
    BY <2>2, Zenon DEF Continue, commit_build, commit_cannot_build, zoo_accepts, zoo_refuses, release, library
  <2> QED
    BY <1>3, <2>1, <2>2
<1>4. ASSUME NEW rc \in Answers, Respond(rc) PROVE ClosingAnswers'
  <2>1. answer' = [answer EXCEPT ![log[answered + 1]] = rc] /\ handle = "open" /\ handle' = "open"
    BY <1>4, Zenon DEF Respond
  <2>2. rc # "ZCLOSING"
    BY Zenon DEF Answers
  <2> QED
    BY <1>1, <2>1, <2>2, Zenon DEF ClosingAnswers
<1>5. ASSUME NEW rc, rc # "ZCLOSING", FailWaiting(rc), handle = "open" PROVE ClosingAnswers'
  BY <1>1, <1>5, Zenon DEF FailWaiting, ClosingAnswers
<1>6. CASE IOThread
  BY <1>2, <1>4, <1>5, <1>6, Zenon DEF IOThread, Connected, Disconnected, Expired, ConnectFails, SessionChange
<1>7. CASE callback \/ close_returns \/ UNCHANGED vars
  BY <1>2, <1>7, Zenon DEF callback, close_returns, vars, library
<1>8. CASE zookeeper_close
  BY <1>8, Zenon DEF zookeeper_close, ClosingAnswers
<1> QED
  BY <1>2, <1>3, <1>6, <1>7, <1>8, Zenon DEF Next

(* The invariant holds always. *)
LEMMA ContractAlways == Spec => []ContractInv
<1>1. Init => ContractInv
  BY OpInit, ClosingInit DEF ContractInv
<1>2. ContractInv /\ [Next]_vars => ContractInv'
  BY OpNext, ClosingNext DEF ContractInv
<1> QED
  BY <1>1, <1>2, PTL DEF Spec

(* A step that changes none of what the caller sees. *)
LEMMA CallerSeesNothing ==
  ASSUME UNCHANGED <<log, delivered, result, handle>>
  PROVE  UNCHANGED Contract!vars
BY DEF Contract!vars

(* A promise that is not handed to the C library gets an error, and not    *)
(* closed.                                                                 *)
LEMMA FailContract ==
  ASSUME OpInv, NEW c \in Call, commit_cannot_build(c) \/ zoo_refuses(c)
  PROVE  Contract!Fail(c)
<1>1. TypeOK /\ Owned
  BY Zenon DEF OpInv, Owned
<1>2. pc[c] \in {"ready", "made"} /\ UNCHANGED <<log, delivered, handle>>
  BY Zenon DEF commit_cannot_build, zoo_refuses, library
<1>3. c \notin Logged /\ result[c] = NoResult
  BY <1>1, <1>2, NotYetLogged, Zenon DEF Owned, Outside, Waits
<1> DEFINE Code == ErrorCode \union {"bad_alloc"}
<1>4. PICK code \in Code : result' = [result EXCEPT ![c] = exception(code)] /\ code # "closed"
  <2>1. CASE commit_cannot_build(c)
    <3>1. result' = [result EXCEPT ![c] = exception("bad_alloc")] /\ "bad_alloc" # "closed"
      BY <2>1, Zenon DEF commit_cannot_build
    <3> WITNESS "bad_alloc" \in Code
    <3> QED
      BY <3>1
  <2>2. CASE zoo_refuses(c)
    <3>1. PICK rc \in RawCode : RefusedWith(rc) /\ result' = [result EXCEPT ![c] = exception(error_code_from_raw(rc))]
      BY <2>2, Zenon DEF zoo_refuses
    <3>2. rc # "ZCLOSING"
      BY <3>1, Zenon DEF RefusedWith
    <3>3. error_code_from_raw(rc) \in Code /\ error_code_from_raw(rc) # "closed"
      BY <3>2, ErrorCodes, ClosedIsClosing, Zenon
    <3>4. PICK code \in Code : code = error_code_from_raw(rc)
      BY <3>3, Zenon
    <3>5. result' = [result EXCEPT ![c] = exception(code)] /\ code # "closed"
      BY <3>1, <3>3, <3>4
    <3> QED
      BY <3>5, Zenon
  <2> QED
    BY <2>1, <2>2
<1>5. result'[c] = exception(code)
  BY <1>1, <1>4, Zenon DEF TypeOK
<1>6. result'[c] # NoResult /\ result'[c].how = "error" /\ result'[c].code # "closed"
  BY <1>4, <1>5 DEF exception, NoResult
<1>7. \A i \in 1..Len(log) : log[i] # c
  BY <1>3, Zenon DEF Logged
<1> QED
  BY <1>2, <1>3, <1>4, <1>5, <1>6, <1>7, Zenon
     DEF Contract!Fail, Contract!NotSent, Contract!Settled, Contract!ByClose

(* A request that is accepted comes to the end of what was sent. *)
LEMMA SendContract ==
  ASSUME OpInv, NEW c \in Call, zoo_accepts(c)
  PROVE  Contract!Send(c)
<1>1. TypeOK /\ Owned
  BY Zenon DEF OpInv, Owned
<1>2. /\ pc[c] = "made" /\ handle = "open" /\ log' = Append(log, c)
      /\ UNCHANGED <<delivered, result, handle>>
  BY Zenon DEF zoo_accepts
<1>3. c \notin Logged /\ result[c] = NoResult
  BY <1>1, <1>2, NotYetLogged, Zenon DEF Owned, Outside, Waits
<1>4. \A i \in 1..Len(log) : log[i] # c
  BY <1>3, Zenon DEF Logged
<1>5. phase = "open" /\ phase' = phase
  BY <1>2, Zenon DEF phase
<1> QED
  BY <1>2, <1>3, <1>4, <1>5, Zenon DEF Contract!Send, Contract!NotSent, phase

(* The callback settles the oldest request that waits, and tells closed    *)
(* only while the connection closes.                                       *)
LEMMA SettleContract ==
  ASSUME ContractInv, callback
  PROVE  \E c \in Call : Contract!Settle(c)
<1>1. OpInv /\ TypeOK /\ Owned /\ ClosingAnswers
  BY Zenon DEF ContractInv, OpInv, Owned
<1> DEFINE c == log[delivered + 1]
<1>2. delivered + 1 \in 1..Len(log) /\ c \in Call /\ delivered < Len(log)
  BY <1>1 DEF callback, TypeOK
<1>3. result[c] = NoResult /\ c \in live
  <2>1. Entries /\ delivered + 1 > delivered
    BY <1>1 DEF Owned, TypeOK
  <2> QED
    BY <1>2, <2>1, Zenon DEF Entries, Waits
<1>4. /\ result' = [result EXCEPT ![c] = callback_result(c)]
      /\ delivered' = delivered + 1
      /\ UNCHANGED <<log, handle>>
  BY <1>3, Zenon DEF callback, library
<1>5. callback_result(c) # NoResult
  BY <1>1, <1>2, CallbackSettles
<1>6. result'[c] = callback_result(c)
  BY <1>1, <1>2, <1>4, Zenon DEF TypeOK
<1>7. callback_result(c).code = "closed" => answer[c] = "ZCLOSING"
  <2> DEFINE rc == error_code_from_raw(answer[c])
  <2>1. answer[c] \in RawCode
    BY <1>1, <1>2, Zenon DEF TypeOK
  <2>2. rc = "closed" => answer[c] = "ZCLOSING"
    BY <2>1, ClosedIsClosing
  <2>3. callback_result(c).code \in {"ok", rc}
    <3> HIDE DEF rc
    <3>1. value.code = "ok" /\ exception(rc).code = rc /\ \A i : transaction_failed(rc, i).code = rc
      BY DEF value, exception, transaction_failed
    <3> QED
      BY <3>1, Zenon DEF rc, callback_result, commit_deliver, exists_settled_as, settled_as
  <2> QED
    BY <2>2, <2>3, Zenon
<1>8. answer[c] = "ZCLOSING" => handle = "closing"
  <2>1. handle \in {"null", "failed"} => delivered = Len(log)
    BY <1>1, Zenon DEF Owned, Closing
  <2>2. delivered # Len(log)
    BY <1>1, <1>2 DEF TypeOK
  <2> QED
    BY <1>1, <1>2, <2>1, <2>2, Zenon DEF ClosingAnswers, TypeOK
<1>9. phase' = phase /\ (handle = "closing" => phase = "closing")
  BY <1>4, Zenon DEF phase
<1> HIDE DEF c
<1>10. Contract!Settle(c)
  BY <1>2, <1>3, <1>4, <1>5, <1>6, <1>7, <1>8, <1>9, Zenon
     DEF c, Contract!Settle, Contract!Settled, Contract!ByClose, phase
<1> QED
  BY <1>2, <1>10

(* Every step is one of the contract's, or changes nothing it speaks of. *)
LEMMA OpContract == ContractInv /\ [Next]_vars => [Contract!Next]_(Contract!vars)
<1> SUFFICES ASSUME ContractInv, [Next]_vars PROVE [Contract!Next]_(Contract!vars)
  OBVIOUS
<1>0. OpInv
  BY DEF ContractInv
<1>1. ASSUME NEW c \in Call, Begin(c) PROVE UNCHANGED Contract!vars
  <2>1. UNCHANGED <<log, delivered, result, handle>>
    BY <1>1, BeginSteps, Zenon DEF begin, library
  <2> QED
    BY <2>1, CallerSeesNothing
<1>2. ASSUME NEW c \in Call, Continue(c) PROVE [Contract!Next]_(Contract!vars)
  <2>1. CASE commit_build(c) \/ release(c)
    <3>1. UNCHANGED <<log, delivered, result, handle>>
      BY <2>1, Zenon DEF commit_build, release, library
    <3> QED
      BY <3>1, CallerSeesNothing
  <2>2. CASE commit_cannot_build(c) \/ zoo_refuses(c)
    BY <1>0, <2>2, FailContract, Zenon DEF Contract!Next
  <2>3. CASE zoo_accepts(c)
    BY <1>0, <2>3, SendContract, Zenon DEF Contract!Next
  <2> QED
    BY <1>2, <2>1, <2>2, <2>3, Zenon DEF Continue
<1>3. CASE IOThread \/ UNCHANGED vars
  <2>1. UNCHANGED <<log, delivered, result, handle>>
    BY <1>3, Zenon DEF IOThread, Respond, Connected, Disconnected, Expired, ConnectFails, SessionChange,
       vars, library
  <2> QED
    BY <2>1, CallerSeesNothing
<1>4. CASE callback
  BY <1>4, SettleContract, Zenon DEF Contract!Next
<1>5. CASE zookeeper_close
  <2>1. handle = "open" /\ handle' = "closing" /\ UNCHANGED <<log, delivered, result>>
    BY <1>5, Zenon DEF zookeeper_close
  <2>2. phase = "open" /\ phase' = "closing"
    BY <2>1, Zenon DEF phase
  <2> QED
    BY <2>1, <2>2, Zenon DEF Contract!Next, Contract!BeginClose, phase
<1>6. CASE close_returns
  <2>1. handle = "closing" /\ handle' \in {"null", "failed"} /\ delivered = Len(log) /\ UNCHANGED <<log, delivered, result>>
    BY <1>6, Zenon DEF close_returns, library
  <2>2. phase = "closing" /\ phase' = "closed"
    BY <2>1, Zenon DEF phase
  <2> QED
    BY <2>1, <2>2, Zenon DEF Contract!Next, Contract!EndClose, phase
<1> QED
  BY <1>1, <1>2, <1>3, <1>4, <1>5, <1>6, Zenon DEF Next

(* The operations implement their contract: futures are settled once and   *)
(* in the order of the requests, closed is told by close alone, and close  *)
(* returns only when every request is settled, for any number of calls.    *)
THEOREM OperationsMeetContract == Spec => MeetsContract
<1>1. Init => Contract!Init
  BY Zenon DEF Init, Contract!Init
<1> QED
  BY <1>1, OpContract, ContractAlways, PTL DEF Spec, MeetsContract, Contract!Spec
=============================================================================
