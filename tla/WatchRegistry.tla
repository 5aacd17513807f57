---------------------------- MODULE WatchRegistry ----------------------------
(***************************************************************************)
(* The watches of a connection_zk: watch, watch_children and watch_exists, *)
(* the map _watches from the address of a watcher to the watcher, the      *)
(* callbacks deliver_raw (the answer to the request) and deliver_watch     *)
(* (the event), and close.                                                 *)
(*                                                                         *)
(* Three kinds of thread take steps:                                       *)
(*   - user threads, one per call, that run watch* under _watches_protect; *)
(*   - the I/O thread of the C library, which talks to the ensemble and    *)
(*     appends entries to the completion queue;                            *)
(*   - the completion thread of the C library, which takes entries from    *)
(*     the queue in order and runs the callbacks.  While the connection    *)
(*     closes, zookeeper_close runs what is left of the queue.             *)
(*                                                                         *)
(* A call c stands for the watcher object it creates, too: addr[c] is the  *)
(* address of the object, which is all the C library knows of it, and c is *)
(* in live while the object exists.  The C library keeps the address of a  *)
(* watch in its tables after a session event (active), and hands it back   *)
(* with every later event.  A session event also ends the watcher, and the *)
(* allocator may then give its address to the next one, which the C        *)
(* library takes for the old one.  aliased records the calls this happens  *)
(* to; no step depends on it.                                              *)
(*                                                                         *)
(* close must not overlap a call of watch* on another thread: it frees the *)
(* handle, which is neither atomic nor protected by _watches_protect.      *)
(***************************************************************************)
EXTENDS Naturals, Sequences, RawCodes

CONSTANTS
  Call,        (* The calls of watch, watch_children and watch_exists.     *)
  Addr,        (* Addresses the allocator has for watchers.                *)
  MaxSession,  (* Bound: how often the session changes its state.          *)
  NoCall,
  NoAddr

ASSUME RegistryAssumption ==
  /\ NoCall \notin Call
  /\ NoAddr \notin Addr
  /\ MaxSession \in Nat

VARIABLES
  pc,          (* Where a call is: idle, locked, sent or returned.         *)
  kind,        (* Which of the three operations a call is.                 *)
  addr,        (* The address make_shared gave to the watcher of a call.   *)
  live,        (* The watchers that exist: some shared_ptr owns them.      *)
  lock,        (* The call that holds _watches_protect, or NoCall.         *)
  watches,     (* The map _watches; NoCall where there is no entry.        *)
  data,        (* _data_promise: "none", "ok" or the error it was given.   *)
  event,       (* _event_promise: NoEvent or the event it was given.       *)
  handle,      (* _handle: open, closing (in zookeeper_close), null, or    *)
               (* failed when zookeeper_close returned an error.           *)
  l_watches,   (* close's local copy of _watches: still to be delivered.   *)
  held,        (* The watcher deliver_watch has extracted, or NoCall.      *)
  dangling,    (* Calls whose answer was delivered to a watcher that does  *)
               (* not exist.                                               *)
  aliased,     (* History: calls whose watcher got an address that the C   *)
               (* library still had for another one.                       *)
  session,     (* C library: state of the session.                         *)
  changes,     (* Number of changes of session so far.                     *)
  pending,     (* C library: calls sent and not yet answered.              *)
  active,      (* C library: watches in its tables.                        *)
  queue        (* C library: the completion queue.                         *)

userVars == <<pc, kind, addr, lock>>
futures  == <<data, event>>
library  == <<session, changes, pending, active>>
vars     == <<userVars, live, watches, futures, handle, l_watches, held, dangling, aliased, library, queue>>

Kind  == {"data", "child", "exists"}
Event == [type : {"session", "node"}, state : {state_from_raw(s) : s \in RawState} \union {"closed"}]

NoEvent == [type |-> "none", state |-> "none"]

(* An entry of the completion queue: the answer raw (a result code) to the *)
(* requests ws, or an event in the raw session state for the watches ws.   *)
Answer == [type : {"answer"}, ws : SUBSET Call, raw : RawCode]
Notice == [type : {"session", "node"}, ws : SUBSET Call, raw : RawState]
Entry  == Answer \union Notice

entry(typ, cs, raw) == [type |-> typ, ws |-> cs, raw |-> raw]

(* An entry for no call runs none of the callbacks modelled here.          *)
Push(q, e) == IF e.ws = {} THEN q ELSE Append(q, e)

unrecoverable(raw) == raw \in {"ZOO_EXPIRED_SESSION_STATE", "ZOO_AUTH_FAILED_STATE"}

-----------------------------------------------------------------------------
(* The promises of a watcher.  Each is given at most one value: the flags  *)
(* _data_delivered and _event_delivered are exchanged before it is set.    *)

(* Mutant: an error of the ensemble is dropped. *)
deliver_data_drops_errors(c, outcome) ==
  data' = [data EXCEPT ![c] = IF @ = "none" /\ outcome = "ok" THEN outcome ELSE @]

deliver_data(c, outcome) ==
  data' = [data EXCEPT ![c] = IF @ = "none" THEN outcome ELSE @]

(* basic_watcher::deliver_event: a watcher that has no data yet is given   *)
(* the error closed before the event.                                      *)
deliver_event(c, ev) ==
  /\ deliver_data(c, "closed")
  /\ event' = [event EXCEPT ![c] = IF @ = NoEvent THEN ev ELSE @]

(* What deliver_raw puts into the data promise; "ok" is a value together   *)
(* with the future of the event.                                           *)
(* Mutants: every error is reported as closed; no_entry is taken for       *)
(* success, as in exists_watcher; the raw code is cast and not converted.  *)
data_watcher_all_closed(rc) == IF error_code_from_raw(rc) = "ok" THEN "ok" ELSE "closed"
data_watcher_as_exists(rc)  ==
  IF error_code_from_raw(rc) = "no_entry" THEN "ok" ELSE error_code_from_raw(rc)
data_watcher_cast(rc) == cast(rc)

data_watcher_outcome(rc)   == error_code_from_raw(rc)
child_watcher_outcome(rc)  == error_code_from_raw(rc)
exists_watcher_outcome(rc) ==
  IF error_code_from_raw(rc) = "no_entry" THEN "ok" ELSE error_code_from_raw(rc)

outcome_of(k, rc) ==
  IF k = "data" THEN data_watcher_outcome(rc)
  ELSE IF k = "child" THEN child_watcher_outcome(rc)
  ELSE exists_watcher_outcome(rc)

-----------------------------------------------------------------------------
(* User threads. *)

(* The allocator gives out any address that no watcher has. *)
CanAllocate(a) == \A c \in live : addr[c] # a

(* The calls whose address the C library has: in its tables, with requests *)
(* on their way and in the queue.                                          *)
Remembered == pending \union active \union UNION {queue[i].ws : i \in DOMAIN queue}

(* Lock _watches_protect and create the watcher. *)
begin_watch(c, k) ==
  /\ pc[c] = "idle"
  /\ lock = NoCall
  /\ handle \in {"open", "null"}
  /\ \E a \in Addr :
       /\ CanAllocate(a)
       /\ addr' = [addr EXCEPT ![c] = a]
       /\ aliased' = IF \E d \in Remembered : addr[d] = a THEN aliased \union {c} ELSE aliased
  /\ pc' = [pc EXCEPT ![c] = "locked"]
  /\ kind' = [kind EXCEPT ![c] = k]
  /\ lock' = c
  /\ live' = live \union {c}
  /\ UNCHANGED <<watches, futures, handle, l_watches, held, dangling, library, queue>>

watch(c)          == begin_watch(c, "data")
watch_children(c) == begin_watch(c, "child")
watch_exists(c)   == begin_watch(c, "exists")

(* zoo_awget, zoo_awget_children2 or zoo_awexists accepts the request. *)
zoo_accepts(c) ==
  /\ pc[c] = "locked"
  /\ handle = "open"
  /\ ~unrecoverable(session)
  /\ pc' = [pc EXCEPT ![c] = "sent"]
  /\ pending' = pending \union {c}
  /\ UNCHANGED <<kind, addr, lock, live, watches, futures, handle, l_watches, held, dangling, aliased,
                 session, changes, active, queue>>

(* The C library refuses the request (no handle or a bad path, a session    *)
(* that cannot be recovered, no memory): the promise is given the error     *)
(* and the only owner of the watcher goes away when the call returns.      *)
zoo_refuses(c) ==
  /\ pc[c] = "locked"
  /\ \E rc \in RawCode :
       /\ \/ handle \in {"null", "open"} /\ rc = "ZBADARGUMENTS"
          \/ handle = "open" /\ unrecoverable(session) /\ rc = "ZINVALIDSTATE"
          \/ handle = "open" /\ rc = "ZMARSHALLINGERROR"
       /\ deliver_data(c, error_code_from_raw(rc))
  /\ pc' = [pc EXCEPT ![c] = "returned"]
  /\ lock' = NoCall
  /\ live' = live \ {c}
  /\ UNCHANGED <<kind, addr, watches, event, handle, l_watches, held, dangling, aliased, library, queue>>

(* Mutant: the watcher is not put into _watches. *)
no_emplace_watch(c) ==
  /\ pc[c] = "sent"
  /\ live' = live \ {c}
  /\ pc' = [pc EXCEPT ![c] = "returned"]
  /\ lock' = NoCall
  /\ UNCHANGED <<kind, addr, watches, futures, handle, l_watches, held, dangling, aliased, library, queue>>

(* _watches.emplace, which keeps an entry that is there, and the return.   *)
emplace_watch(c) ==
  /\ pc[c] = "sent"
  /\ watches' = [watches EXCEPT ![addr[c]] = IF @ = NoCall THEN c ELSE @]
  /\ live' = IF watches[addr[c]] = NoCall THEN live ELSE live \ {c}
  /\ pc' = [pc EXCEPT ![c] = "returned"]
  /\ lock' = NoCall
  /\ UNCHANGED <<kind, addr, futures, handle, l_watches, held, dangling, aliased, library, queue>>

-----------------------------------------------------------------------------
(* The I/O thread of the C library. *)

(* An answer of the ensemble.  A watch is left if the request succeeds; a  *)
(* watch for existence is left when there is no entry, too.                *)
LeavesWatch(c, rc) == rc = "ZOK" \/ (kind[c] = "exists" /\ rc = "ZNONODE")

Respond(c, rc) ==
  /\ handle = "open"
  /\ session = "ZOO_CONNECTED_STATE"
  /\ c \in pending
  /\ pending' = pending \ {c}
  /\ active' = IF LeavesWatch(c, rc) THEN active \union {c} ELSE active
  /\ queue' = Push(queue, entry("answer", {c}, rc))
  /\ UNCHANGED <<userVars, live, watches, futures, handle, l_watches, held, dangling, aliased, session, changes>>

(* An entry changes: the watches it triggers leave the tables. *)
Trigger(cs) ==
  /\ handle = "open"
  /\ session = "ZOO_CONNECTED_STATE"
  /\ cs # {}
  /\ active' = active \ cs
  /\ queue' = Push(queue, entry("node", cs, session))
  /\ UNCHANGED <<userVars, live, watches, futures, handle, l_watches, held, dangling, aliased,
                 session, changes, pending>>

(* The session changes its state.  Every watch in the tables is told and   *)
(* stays in the tables.                                                    *)
SessionChange(raw) ==
  /\ handle = "open"
  /\ changes < MaxSession
  /\ session' = raw
  /\ changes' = changes + 1
  /\ UNCHANGED <<userVars, live, watches, futures, handle, l_watches, held, dangling, aliased, active>>

Connected ==
  /\ session = "ZOO_CONNECTING_STATE"
  /\ SessionChange("ZOO_CONNECTED_STATE")
  /\ queue' = Push(queue, entry("session", active, "ZOO_CONNECTED_STATE"))
  /\ UNCHANGED pending

(* The connection breaks: the requests on their way fail. *)
Lost(raw, rc) ==
  /\ SessionChange(raw)
  /\ queue' = Push(Push(queue, entry("session", active, raw)), entry("answer", pending, rc))
  /\ pending' = {}

Disconnected ==
  /\ session = "ZOO_CONNECTED_STATE"
  /\ Lost("ZOO_CONNECTING_STATE", "ZCONNECTIONLOSS")

(* A session expires only if there was one; authentication may fail at     *)
(* once.                                                                   *)
Expired ==
  /\ session = "ZOO_CONNECTING_STATE"
  /\ \/ changes > 0 /\ Lost("ZOO_EXPIRED_SESSION_STATE", "ZSESSIONEXPIRED")
     \/ Lost("ZOO_AUTH_FAILED_STATE", "ZAUTHFAILED")

(* A server cannot be reached, or does not answer in time: the requests    *)
(* fail, the session stays as it is and the next server is tried.          *)
ConnectFails ==
  /\ handle = "open"
  /\ session = "ZOO_CONNECTING_STATE"
  /\ pending # {}
  /\ \E rc \in {"ZCONNECTIONLOSS", "ZOPERATIONTIMEOUT"} : queue' = Push(queue, entry("answer", pending, rc))
  /\ pending' = {}
  /\ UNCHANGED <<userVars, live, watches, futures, handle, l_watches, held, dangling, aliased,
                 session, changes, active>>

-----------------------------------------------------------------------------
(* The completion thread of the C library. *)

(* The next callback is for the call c. *)
Dispatch(c, types) ==
  /\ queue # <<>>
  /\ Head(queue).type \in types
  /\ c \in Head(queue).ws
  /\ held = NoCall
  /\ queue' = [queue EXCEPT ![1].ws = @ \ {c}]

NextEntry ==
  /\ queue # <<>>
  /\ Head(queue).ws = {}
  /\ held = NoCall
  /\ queue' = Tail(queue)
  /\ UNCHANGED <<userVars, live, watches, futures, handle, l_watches, held, dangling, aliased, library>>

(* data_watcher, child_watcher, exists_watcher::deliver_raw.  The callback *)
(* casts the address it is given to a watcher of the kind it was made for. *)
(* If addresses are used again, a second success on one watcher would make *)
(* get_event_future throw in the callback; the model goes on from there.   *)
deliver_raw(c) ==
  /\ Dispatch(c, {"answer"})
  /\ LET there == {t \in live : addr[t] = addr[c] /\ kind[t] = kind[c]}
     IN  \/ \E t \in there :
              /\ deliver_data(t, outcome_of(kind[c], Head(queue).raw))
              /\ UNCHANGED dangling
         \/ /\ there = {}
            /\ dangling' = dangling \union {c}
            /\ UNCHANGED data
  /\ UNCHANGED <<userVars, live, watches, event, handle, l_watches, held, aliased, library>>

(* Mutant: the entry is read and not erased. *)
try_find_watch(c) ==
  /\ Dispatch(c, {"session", "node"})
  /\ lock = NoCall
  /\ held' = watches[addr[c]]
  /\ UNCHANGED <<userVars, live, watches, futures, handle, l_watches, dangling, aliased, library>>

(* deliver_watch, first half: try_extract_watch under _watches_protect.    *)
try_extract_watch(c) ==
  /\ Dispatch(c, {"session", "node"})
  /\ lock = NoCall
  /\ held' = watches[addr[c]]
  /\ watches' = [watches EXCEPT ![addr[c]] = NoCall]
  /\ UNCHANGED <<userVars, live, futures, handle, l_watches, dangling, aliased, library>>

(* Mutant: session events are filtered out after the watcher was extracted. *)
deliver_watch_skips_session ==
  /\ held # NoCall
  /\ IF Head(queue).type = "session" THEN UNCHANGED futures
     ELSE deliver_event(held, [type |-> "node", state |-> state_from_raw(Head(queue).raw)])
  /\ live' = live \ {held}
  /\ held' = NoCall
  /\ UNCHANGED <<userVars, watches, handle, l_watches, dangling, aliased, library, queue>>

(* deliver_watch, second half: the event, and the end of the watcher. *)
deliver_watch ==
  /\ held # NoCall
  /\ deliver_event(held, [type |-> Head(queue).type, state |-> state_from_raw(Head(queue).raw)])
  /\ live' = live \ {held}
  /\ held' = NoCall
  /\ UNCHANGED <<userVars, watches, handle, l_watches, dangling, aliased, library, queue>>

-----------------------------------------------------------------------------
(* connection_zk::close. *)

(* zookeeper_close stops the I/O thread and fails what is not answered. *)
zookeeper_close ==
  /\ handle = "open"
  /\ lock = NoCall
  /\ handle' = "closing"
  /\ queue' = Push(queue, entry("answer", pending, "ZCLOSING"))
  /\ pending' = {}
  /\ UNCHANGED <<userVars, live, watches, futures, l_watches, held, dangling, aliased, session, changes, active>>

(* zookeeper_close has run the rest of the queue and returns: with an      *)
(* error, which close throws and leaves everything as it is, ...           *)
close_throws ==
  /\ handle = "closing"
  /\ queue = <<>>
  /\ handle' = "failed"
  /\ UNCHANGED <<userVars, live, watches, futures, l_watches, held, dangling, aliased, library, queue>>

(* Mutants of close: the entries are dropped; the callbacks still running  *)
(* are not waited for.                                                     *)
close_drops_watches ==
  /\ handle = "closing" /\ queue = <<>> /\ lock = NoCall
  /\ handle' = "null"
  /\ watches' = [a \in Addr |-> NoCall]
  /\ UNCHANGED <<userVars, live, futures, l_watches, held, dangling, aliased, library, queue>>

close_does_not_wait ==
  /\ handle = "closing" /\ lock = NoCall
  /\ handle' = "null"
  /\ l_watches' = {watches[a] : a \in Addr} \ {NoCall}
  /\ watches' = [a \in Addr |-> NoCall]
  /\ UNCHANGED <<userVars, live, futures, held, dangling, aliased, library, queue>>

(* ... or without one: the map is moved to a local under the lock, ...     *)
close_extract ==
  /\ handle = "closing"
  /\ queue = <<>>
  /\ lock = NoCall
  /\ handle' = "null"
  /\ l_watches' = {watches[a] : a \in Addr} \ {NoCall}
  /\ watches' = [a \in Addr |-> NoCall]
  /\ UNCHANGED <<userVars, live, futures, held, dangling, aliased, library, queue>>

(* ... and every watcher in it is told that the session is closed.         *)
close_deliver(c) ==
  /\ c \in l_watches
  /\ deliver_event(c, [type |-> "session", state |-> "closed"])
  /\ l_watches' = l_watches \ {c}
  /\ live' = live \ {c}
  /\ UNCHANGED <<userVars, watches, handle, held, dangling, aliased, library, queue>>

-----------------------------------------------------------------------------
Init ==
  /\ pc = [c \in Call |-> "idle"]
  /\ kind = [c \in Call |-> "data"]
  /\ addr = [c \in Call |-> NoAddr]
  /\ live = {}
  /\ lock = NoCall
  /\ watches = [a \in Addr |-> NoCall]
  /\ data = [c \in Call |-> "none"]
  /\ event = [c \in Call |-> NoEvent]
  /\ handle = "open"
  /\ l_watches = {}
  /\ held = NoCall
  /\ dangling = {}
  /\ aliased = {}
  /\ session = "ZOO_CONNECTING_STATE"
  /\ changes = 0
  /\ pending = {}
  /\ active = {}
  /\ queue = <<>>

User(c) ==
  \/ watch(c) \/ watch_children(c) \/ watch_exists(c)
  \/ zoo_accepts(c) \/ zoo_refuses(c) \/ emplace_watch(c)

IOThread ==
  \/ \E c \in Call, rc \in {"ZOK", "ZNONODE"} : Respond(c, rc)
  \/ \E cs \in SUBSET active : Trigger(cs)
  \/ Connected \/ Disconnected \/ Expired \/ ConnectFails

CompletionThread ==
  \/ NextEntry
  \/ \E c \in Call : deliver_raw(c)
  \/ \E c \in Call : try_extract_watch(c)
  \/ deliver_watch

Close ==
  \/ zookeeper_close \/ close_throws \/ close_extract
  \/ \E c \in Call : close_deliver(c)

Next == (\E c \in Call : User(c)) \/ IOThread \/ CompletionThread \/ Close

Spec == Init /\ [][Next]_vars

(* The threads of the C library and the call that has the lock go on;      *)
(* nobody has to call close or watch, and the session need not change.  A  *)
(* request that was sent is answered or fails: the C library fails         *)
(* requests whose server does not answer before the session times out.     *)
Fairness ==
  /\ WF_vars(\E c \in Call : zoo_accepts(c) \/ zoo_refuses(c) \/ emplace_watch(c))
  /\ WF_vars(ConnectFails \/ \E c \in Call, rc \in {"ZOK", "ZNONODE"} : Respond(c, rc))
  /\ WF_vars(CompletionThread)
  /\ WF_vars(close_throws \/ close_extract \/ \E c \in Call : close_deliver(c))

FairSpec == Spec /\ Fairness

-----------------------------------------------------------------------------
(* The state has its type; in particular the promise of an answer holds    *)
(* what error_code_from_raw returns, never a raw code that it replaces     *)
(* (ZOPERATIONTIMEOUT), and the watcher deliver_watch holds and the ones   *)
(* close has taken are watchers, never an absent map entry.                *)
TypeOK ==
  /\ pc \in [Call -> {"idle", "locked", "sent", "returned"}]
  /\ kind \in [Call -> Kind]
  /\ addr \in [Call -> Addr \union {NoAddr}]
  /\ live \subseteq Call
  /\ lock \in Call \union {NoCall}
  /\ watches \in [Addr -> Call \union {NoCall}]
  /\ data \in [Call -> ErrorCode \union {"none"}]
  /\ event \in [Call -> Event \union {NoEvent}]
  /\ handle \in {"open", "closing", "null", "failed"}
  /\ l_watches \subseteq Call
  /\ held \in Call \union {NoCall}
  /\ dangling \subseteq Call
  /\ aliased \subseteq Call
  /\ session \in RawState
  /\ changes \in Nat
  /\ pending \subseteq Call
  /\ active \subseteq Call
  /\ queue \in Seq(Entry)

(* deliver_raw holds no reference to the watcher whose address it is       *)
(* given, and relies on _watches to keep it alive until the answer has     *)
(* been delivered.  It runs on a watcher that was freed only for a call    *)
(* that got the address of an earlier watch the C library still knew, and  *)
(* which an event of that watch may end before its own answer.             *)
NoDanglingWatcher == dangling \subseteq aliased

(* The error closed is given to an answer only by close: deliver_event     *)
(* uses it for a watcher without data, which an event of the watcher's own *)
(* watch never meets, because the answer is queued before the event.  The  *)
(* event of another watch meets it only under an address used again.       *)
ClosedOnlyByClose ==
  \A c \in Call \ aliased : data[c] = "closed" => handle # "open"

(* The error closed means that the connection is closing (error.hpp): once *)
(* the answer of a call has been delivered and the connection is open, the *)
(* caller has not been told closed.                                        *)
AnsweredIsNotClosed ==
  \A c \in Call : handle = "open" /\ pc[c] = "returned" /\ data[c] = "closed" =>
    c \in pending \/ \E i \in DOMAIN queue : queue[i].type = "answer" /\ c \in queue[i].ws

(* _watches never maps an address to a watcher that has been freed or that *)
(* lives somewhere else, and no watcher is shared with the extracted one   *)
(* or with close's copy: whoever delivers an event owns the watcher alone. *)
(* It holds even if addresses are used again.                              *)
MapMatchesMemory ==
  /\ \A a \in Addr : watches[a] # NoCall =>
       /\ watches[a] \in live
       /\ addr[watches[a]] = a
       /\ watches[a] # held
       /\ watches[a] \notin l_watches
  /\ held # NoCall => held \in live
  /\ l_watches \subseteq live

(* A watch that was left is never lost: as long as the caller waits for    *)
(* the event, the watcher is where the next event or close will find it,   *)
(* even if the event overtakes the return of watch.  (A watcher under an   *)
(* address the C library still has can be given the answer to the earlier  *)
(* request before its own request is made, and be refused after that.)     *)
NoLostWatch ==
  \A c \in Call \ aliased : data[c] = "ok" /\ event[c] = NoEvent =>
    \/ pc[c] = "sent" \/ watches[addr[c]] = c \/ held = c \/ c \in l_watches

(* While the connection is open such a watch is also known to the C        *)
(* library, or its event is on the way: the caller does not wait for an    *)
(* event nobody will send.  (Under an address the C library still has, the *)
(* answer to the earlier request may pass for its own.)                    *)
WatchIsArmed ==
  \A c \in Call \ aliased : data[c] = "ok" /\ event[c] = NoEvent /\ handle = "open" =>
    \/ c \in active
    \/ held = c
    \/ \E i \in 1..Len(queue) : queue[i].type # "answer" /\ c \in queue[i].ws

(* An answer, once settled, and an event, once delivered, stay. *)
SettledOnce ==
  [][\A c \in Call : /\ data[c] # "none" => data'[c] = data[c]
                     /\ event[c] # NoEvent => event'[c] = event[c]]_vars

(* When close has returned without an error nobody waits any more: every   *)
(* answer is settled, and every watch that was left has had its event.     *)
CloseSettlesAll ==
  handle = "null" /\ l_watches = {} =>
    \A c \in Call : pc[c] = "returned" =>
      data[c] # "none" /\ (data[c] = "ok" /\ c \notin aliased => event[c] # NoEvent)

(* The futures of the watch operations, seen by the caller, except those   *)
(* of calls whose watcher the C library takes for an earlier one.          *)
Contract == INSTANCE WatchContract WITH
  Error    <- ErrorCode,
  accepted <- {c \in Call \ aliased : pc[c] \in {"sent", "returned"}},
  answer   <- [c \in Call |-> IF c \in aliased THEN "none" ELSE data[c]],
  next     <- [c \in Call |-> IF c \notin aliased /\ data[c] = "ok" THEN event[c] ELSE NoEvent],
  phase    <- IF handle = "open" THEN "open"
              ELSE IF handle = "null" /\ l_watches = {} THEN "closed"
              ELSE "closing"

(* The machinery does nothing to the futures that the contract does not    *)
(* allow.                                                                  *)
MeetsContract == Contract!Spec

(* Every answer is settled in the end. *)
AnswersArrive ==
  \A c \in Call : pc[c] = "sent" ~> data[c] # "none"

(* A close that is started ends, and if it does not throw it has given     *)
(* every watch its event.                                                  *)
CloseEnds ==
  handle = "closing" ~>
    \/ handle = "failed"
    \/ handle = "null" /\ \A c \in Call \ aliased : data[c] = "ok" => event[c] # NoEvent
=============================================================================
