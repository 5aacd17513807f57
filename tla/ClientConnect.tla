---------------------------- MODULE ClientConnect ----------------------------
(***************************************************************************)
(* client::connect on top of the session of its connection (StateWatch):   *)
(* parse the connection string, make the connection, ask for the next      *)
(* change of state, look at the present state, and if that is not          *)
(* connected wait for the change on a thread of its own.  The connection   *)
(* belongs to the call until a client is made of it, so nobody else waits  *)
(* or closes before.                                                       *)
(*                                                                         *)
(* A program may also use connection::connect, or client(string), which    *)
(* does not wait: then it calls watch_state and close when it likes.       *)
(***************************************************************************)
EXTENDS Integers, StateWatch, ConnectionParams

CONSTANTS
  IntMax,       (* The largest int.                                        *)
  TheCall,      (* The call of watch_state that connect makes.             *)
  Wanted,       (* connection_params programs print and connect with.      *)
  Handwritten   (* Connection strings written by hand.                     *)

ASSUME ConnectAssumption == TheCall \in Waiter /\ IntMax \in Nat

ASSUME WantedAssumption == Wanted \subseteq Params

VARIABLES
  pc,       (* start, making, watch, check, waiting, or done; own for a    *)
            (* connection the program uses itself.                         *)
  outcome,  (* The future: "none", "client", or the error it holds;        *)
            (* "threw" when connect threw and there is no future.          *)
  text,     (* The connection string.                                      *)
  target    (* What zookeeper_init is given: hosts and timeout.            *)

vars == <<stateVars, pc, outcome, text, target>>

NoTarget == [hosts |-> <<>>, timeout |-> 0]

ends(o) == pc' = "done" /\ outcome' = o

-----------------------------------------------------------------------------
(* connect(string): parse throws outside of the try block. *)
parse_fails ==
  pc = "start" /\ ~parses(text) /\ ends("threw") /\ UNCHANGED <<stateVars, text, target>>

(* connection::connect: the constructor refuses the schema, ... *)
bad_schema ==
  /\ pc = "start"
  /\ parses(text) /\ parse(text).schema # "zk"
  /\ ends("invalid_argument")
  /\ UNCHANGED <<stateVars, text, target>>

(* static_cast<int>: more than an int can hold wraps around.               *)
to_int(n) ==
  LET half == IntMax + 1
  IN  IF n <= IntMax THEN n
      ELSE IF (n \div half) % 2 = 0 THEN n % half
      ELSE (n % half) - half

(* ... or makes a connection of the hosts and the timeout; the chroot, and *)
(* whether read-only servers will do, are not handed on.                   *)
connection_zk(next) ==
  /\ pc = "start"
  /\ parses(text) /\ parse(text).schema = "zk"
  /\ target' = [hosts |-> parse(text).hosts, timeout |-> to_int(parse(text).timeout)]
  /\ zookeeper_init
  /\ pc' = next
  /\ UNCHANGED <<outcome, text>>

connect_init  == connection_zk("making")
connect_built == pc = "making" /\ pc' = "watch" /\ constructed /\ UNCHANGED <<outcome, text, target>>

connect_watch ==
  pc = "watch" /\ pc' = "check" /\ watch_state(TheCall) /\ UNCHANGED <<outcome, text, target>>

(* Mutants: the present state is not looked at; any session will do. *)
connect_no_check == pc = "check" /\ pc' = "waiting" /\ UNCHANGED <<stateVars, outcome, text, target>>
connect_check_open ==
  /\ pc = "check"
  /\ IF state_of_connection # "closed" THEN ends("client") ELSE pc' = "waiting" /\ UNCHANGED outcome
  /\ UNCHANGED <<stateVars, text, target>>

connect_check ==
  /\ pc = "check"
  /\ IF state_of_connection = "connected" THEN ends("client")
     ELSE pc' = "waiting" /\ UNCHANGED outcome
  /\ UNCHANGED <<stateVars, text, target>>

(* Mutant: after a state that is not connected the thread waits on. *)
connect_wait_on ==
  /\ pc = "waiting"
  /\ seen[TheCall] \notin {"none", "connecting"}
  /\ ends(IF seen[TheCall] = "connected" THEN "client" ELSE seen[TheCall])
  /\ UNCHANGED <<stateVars, text, target>>

(* The thread: state_change_fut.get(), which throws what the promise was   *)
(* given, and the comparison with connected.                               *)
connect_wait ==
  /\ pc = "waiting"
  /\ seen[TheCall] # "none"
  /\ ends(IF seen[TheCall] = "connected" THEN "client"
          ELSE IF seen[TheCall] = "connecting" THEN "unexpected_state"
          ELSE seen[TheCall])
  /\ UNCHANGED <<stateVars, text, target>>

(* Once the call is done, the client, or whoever drops the failed future,  *)
(* closes and destroys the connection.                                     *)
callVars == <<pc, outcome, text, target>>

Ending == pc = "done" /\ (zookeeper_close \/ close_returns \/ destroy) /\ UNCHANGED callVars

(* connection::connect and client(string): the connection is the program's *)
(* own.                                                                    *)
own_init == connection_zk("own")
own_use  == pc = "own" /\ UserNext /\ UNCHANGED callVars

-----------------------------------------------------------------------------
Init ==
  /\ StateInit
  /\ pc = "start" /\ outcome = "none"
  /\ text \in {to_string(x) : x \in Wanted} \union Handwritten
  /\ target = NoTarget

Connect ==
  \/ parse_fails \/ bad_schema \/ connect_init \/ connect_built
  \/ connect_watch \/ connect_check \/ connect_wait

Library == (IOThread \/ CompletionThread) /\ UNCHANGED callVars

Next == Connect \/ own_init \/ own_use \/ Library \/ Ending

Spec == Init /\ [][Next]_vars

(* The call and the completion thread go on, and the C library goes on     *)
(* trying servers, one of which can be reached.                            *)
Fairness ==
  /\ WF_vars(Connect)
  /\ WF_vars(CompletionThread /\ UNCHANGED callVars)
  /\ WF_vars((Connecting \/ Connected) /\ UNCHANGED callVars)

FairSpec == Spec /\ Fairness

-----------------------------------------------------------------------------
(* connect never sleeps through the connection: while it waits and the     *)
(* session is connected, the event that says so is still to be delivered,  *)
(* and to this call.  It holds because the call asks for the change before *)
(* it looks at the state.                                                  *)
NoMissedConnection ==
  pc = "waiting" /\ seen[TheCall] = "none" /\ session = "ZOO_CONNECTED_STATE" =>
    /\ TheCall \in promises \union l_promises
    /\ \E i \in 1..Len(events) : events[i] = "ZOO_CONNECTED_STATE"

(* The future tells the truth: a client was connected once, and an error   *)
(* of the session is the state the session ended in.                       *)
OutcomeIsTrue ==
  /\ outcome = "client" => session = "ZOO_CONNECTED_STATE" \/ losses > 0
  /\ outcome = "session_expired" => session = "ZOO_EXPIRED_SESSION_STATE"
  /\ outcome = "authentication_failed" => session = "ZOO_AUTH_FAILED_STATE"

(* What a program asks for is what it gets: connection_params that are     *)
(* printed, as make_ensemble does, and parsed again give the C library the *)
(* same hosts and timeout, provided the chroot starts with a slash, six    *)
(* digits say the timeout and an int holds it.  They are refused only for  *)
(* their schema: for fakezk, too, which connection.hpp calls valid and     *)
(* for which there is no connection.                                       *)
ConnectsAsAsked ==
  \A x \in Wanted : text = to_string(x) /\ Printable(x) /\ x.timeout <= IntMax =>
    /\ target \in {NoTarget, [hosts |-> x.hosts, timeout |-> x.timeout]}
    /\ outcome # "threw"
    /\ outcome = "invalid_argument" => x.schema # "zk"

(* Whatever the timeout, as long as an int holds it: between printing six  *)
(* digits of seconds, reading them as a double and cutting it to           *)
(* milliseconds, what the C library is given is off by at most half a unit *)
(* of the sixth digit and one millisecond.                                 *)
TimeoutIsClose ==
  \A x \in Wanted :
    text = to_string(x) /\ Readable(x) /\ target # NoTarget /\ x.timeout + Unit[x.timeout] <= IntMax =>
      LET off == target.timeout - x.timeout
      IN  2 * off <= Unit[x.timeout] + 2 /\ -2 * off <= Unit[x.timeout] + 2

(* If there is a session that can be recovered when connect looks at it,   *)
(* the future is filled.                                                   *)
ConnectEndsIfRecoverable ==
  pc = "check" /\ handle = "open" /\ ~unrecoverable(session) ~> outcome # "none"

(* "The future will be filled in error if the client will never be able to *)
(* connect" (client.hpp), as when zookeeper_init has failed.               *)
FailedInitFillsFuture == pc = "check" /\ session = "none" ~> outcome # "none"
=============================================================================
