--------------------------- MODULE ServerProcess ---------------------------
(***************************************************************************)
(* server::server: a worker thread that starts java as a subprocess, reads *)
(* what it prints until the server is shut down, and then terminates it.   *)
(*                                                                         *)
(* A program may have several servers.  Each has its own worker, pipes and *)
(* shutdown event, but the alarm clock and the handler of SIGALRM that     *)
(* subprocess::terminate uses belong to the whole process (the host).      *)
(*                                                                         *)
(* A child is known by its server.  A pipe holds a number of chunks; it    *)
(* does not block, so what a child writes to a full pipe is lost.  The     *)
(* shutdown event is never read: once signalled it stays so.               *)
(*                                                                         *)
(* An exception that leaves the worker, or terminate, ends the host.       *)
(***************************************************************************)
EXTENDS Naturals

CONSTANTS
  Server,      (* The servers of the program.                              *)
  Stubborn,    (* Servers whose child ignores SIGTERM.                     *)
  Silent,      (* Servers whose child prints nothing.                      *)
  Kept,        (* Servers the program does not shut down.                  *)
  PipeMax      (* Bound: chunks a pipe holds.                              *)

ASSUME ServerAssumption ==
  /\ Stubborn \subseteq Server /\ Silent \subseteq Server /\ Kept \subseteq Server
  /\ PipeMax \in Nat \ {0}

VARIABLES
  caller,      (* The thread in shutdown: idle, stored, stored_wait,       *)
               (* joining, or joined for good.                             *)
  running,     (* _running.                                                *)
  event,       (* _shutdown_event: the eventfd has been written to.        *)
  pc,          (* The worker: the next step of run_process.                *)
  final,       (* The worker has left its loop and terminated the child.   *)
  read_anything,
  attempt,     (* terminate: 1, or 2 for every later attempt.              *)
  saved,       (* terminate: old_sig_handler.                              *)
  proc_id,     (* _proc_id: own, or none for -1.                           *)
  child,       (* unborn, running, zombie, reaped, or taken: waited for by *)
               (* the host itself.                                         *)
  sig,         (* The last signal the child was sent.                      *)
  out, err,    (* Chunks in the pipes.                                     *)
  inherited,   (* Servers whose pipes the child of a server holds, too.    *)
  alarm,       (* Host: the alarm clock is running.                        *)
  handler,     (* Host: what SIGALRM does: default or ignored.             *)
  host,        (* alive, killed (by SIGALRM) or terminated (exception).    *)
  overlap      (* Two calls of terminate have overlapped.                  *)

callVars  == <<caller, running, event>>
procVars  == <<proc_id, child, sig>>
pipeVars  == <<out, err, inherited>>
termVars  == <<attempt, saved, overlap>>
hostVars  == <<alarm, handler, host>>
vars == <<callVars, pc, final, read_anything, procVars, pipeVars, termVars, hostVars>>

goto(s, label) == pc' = [pc EXCEPT ![s] = label]

-----------------------------------------------------------------------------
(* server::shutdown(wait_for_stop), and the destructor, which is           *)
(* shutdown(true): clear _running, ...                                     *)
shutdown(s, wait_for_stop) ==
  /\ caller[s] = "idle"
  /\ s \notin Kept
  /\ caller' = [caller EXCEPT ![s] = IF wait_for_stop THEN "stored_wait" ELSE "stored"]
  /\ running' = [running EXCEPT ![s] = FALSE]
  /\ UNCHANGED <<event, pc, final, read_anything, procVars, pipeVars, termVars, hostVars>>

(* Mutant: nobody is notified. *)
notify_nobody(s) ==
  /\ caller[s] \in {"stored", "stored_wait"}
  /\ caller' = [caller EXCEPT ![s] = IF @ = "stored" THEN "idle" ELSE "joining"]
  /\ UNCHANGED <<running, event, pc, final, read_anything, procVars, pipeVars, termVars, hostVars>>

(* ... notify the worker (a write that would block is no error), ... *)
notify_one(s) ==
  /\ caller[s] \in {"stored", "stored_wait"}
  /\ caller' = [caller EXCEPT ![s] = IF @ = "stored" THEN "idle" ELSE "joining"]
  /\ event' = [event EXCEPT ![s] = TRUE]
  /\ UNCHANGED <<running, pc, final, read_anything, procVars, pipeVars, termVars, hostVars>>

(* Mutant: the thread is not joined. *)
detach(s) ==
  /\ caller[s] = "joining"
  /\ caller' = [caller EXCEPT ![s] = "joined"]
  /\ UNCHANGED <<running, event, pc, final, read_anything, procVars, pipeVars, termVars, hostVars>>

(* ... and wait for it. *)
join(s) ==
  /\ caller[s] = "joining"
  /\ pc[s] = "done"
  /\ caller' = [caller EXCEPT ![s] = "joined"]
  /\ UNCHANGED <<running, event, pc, final, read_anything, procVars, pipeVars, termVars, hostVars>>

-----------------------------------------------------------------------------
(* An exception that nothing catches: std::terminate. *)
throws == host' = "terminated"

(* run_process: the constructor of subprocess makes the pipes, or throws.  *)
make_pipes(s) ==
  /\ pc[s] = "start"
  /\ \/ goto(s, "fork") /\ UNCHANGED host
     \/ throws /\ UNCHANGED pc
  /\ UNCHANGED <<callVars, final, read_anything, procVars, pipeVars, termVars, alarm, handler>>

(* create_subproc: the child inherits the pipes other workers have made    *)
(* and not yet closed for their own child.  If fork fails, its -1 is       *)
(* stored like any other pid.                                              *)
create_subproc(s) ==
  /\ pc[s] = "fork"
  /\ goto(s, "test")
  /\ \/ /\ proc_id' = [proc_id EXCEPT ![s] = "own"]
        /\ child' = [child EXCEPT ![s] = "running"]
        /\ inherited' = [inherited EXCEPT ![s] = {t \in Server \ {s} : pc[t] = "fork"}]
     \/ UNCHANGED <<proc_id, child, inherited>>
  /\ UNCHANGED <<callVars, final, read_anything, sig, out, err, termVars, hostVars>>

test_running(s) ==
  /\ pc[s] = "test"
  /\ goto(s, IF running[s] THEN "select" ELSE "terminate")
  /\ UNCHANGED <<callVars, final, read_anything, procVars, pipeVars, termVars, hostVars>>

(* The end of a pipe can be read once no process has its write end. *)
at_eof(s) == \A t \in Server : (t = s \/ s \in inherited[t]) => child[t] # "running"

Readable(s) == event[s] \/ out[s] > 0 \/ err[s] > 0 \/ at_eof(s)

begin_drain(s) == goto(s, "out") /\ read_anything' = [read_anything EXCEPT ![s] = FALSE]

wait_for_event(s) ==
  /\ pc[s] = "select"
  /\ Readable(s)
  /\ begin_drain(s)
  /\ UNCHANGED <<callVars, final, procVars, pipeVars, termVars, hostVars>>

(* select fails: some signal handler of the host runs (EINTR), ... *)
select_interrupted(s) ==
  /\ pc[s] = "select"
  /\ ~Readable(s)
  /\ begin_drain(s)
  /\ UNCHANGED <<callVars, final, procVars, pipeVars, termVars, hostVars>>

(* ... or anything else is the matter (ENOMEM). *)
select_fails(s) ==
  /\ pc[s] = "select"
  /\ throws
  /\ UNCHANGED <<callVars, pc, final, read_anything, procVars, pipeVars, termVars, alarm, handler>>

(* drain_pipes.  pipe::read takes chunks until there is none: an empty     *)
(* pipe and the end of it are the same to it.                              *)
read_out(s) ==
  /\ pc[s] = "out"
  /\ IF out[s] > 0
     THEN /\ out' = [out EXCEPT ![s] = @ - 1]
          /\ read_anything' = [read_anything EXCEPT ![s] = TRUE]
          /\ UNCHANGED pc
     ELSE goto(s, "err") /\ UNCHANGED <<out, read_anything>>
  /\ UNCHANGED <<callVars, final, procVars, err, inherited, termVars, hostVars>>

read_err(s) ==
  /\ pc[s] = "err"
  /\ IF err[s] > 0
     THEN /\ err' = [err EXCEPT ![s] = @ - 1]
          /\ read_anything' = [read_anything EXCEPT ![s] = TRUE]
          /\ UNCHANGED pc
     ELSE /\ IF read_anything[s] THEN begin_drain(s)
             ELSE goto(s, IF final[s] THEN "terminate" ELSE "test") /\ UNCHANGED read_anything
          /\ UNCHANGED err
  /\ UNCHANGED <<callVars, final, procVars, out, inherited, termVars, hostVars>>

(* A read fails.  pipe::read throws, unless it has read something before:  *)
(* then it returns that, and the drain will come back for the rest.        *)
read_fails(s) ==
  /\ pc[s] \in {"out", "err"}
  /\ \/ throws /\ UNCHANGED <<pc, read_anything>>
     \/ /\ read_anything[s]
        /\ IF pc[s] = "out" THEN goto(s, "err") /\ UNCHANGED read_anything ELSE begin_drain(s)
        /\ UNCHANGED host
  /\ UNCHANGED <<callVars, final, procVars, pipeVars, termVars, alarm, handler>>

-----------------------------------------------------------------------------
(* subprocess::terminate, called by run_process, and again by the          *)
(* destructor of the subprocess: leave when there is no child, ...         *)
Terminating(s) == pc[s] \in {"kill", "arm", "wait", "disarm", "restore"}

terminate_leaves(s) ==
  /\ pc[s] = "terminate"
  /\ proc_id[s] = "none"
  /\ final' = [final EXCEPT ![s] = TRUE]
  /\ IF final[s] THEN goto(s, "done") /\ UNCHANGED read_anything ELSE begin_drain(s)
  /\ UNCHANGED <<callVars, procVars, pipeVars, termVars, hostVars>>

(* ... else set the handler of SIGALRM, ... *)
set_handler(s) ==
  /\ pc[s] = "terminate"
  /\ proc_id[s] # "none"
  /\ saved' = [saved EXCEPT ![s] = handler]
  /\ handler' = "ignored"
  /\ overlap' = (overlap \/ \E t \in Server \ {s} : Terminating(t))
  /\ goto(s, "kill")
  /\ UNCHANGED <<callVars, final, read_anything, procVars, pipeVars, attempt, alarm, host>>

(* ... signal the child (a zombie takes no notice, and that there is no    *)
(* such process is no error), ...                                          *)
signal_child(s) ==
  /\ pc[s] = "kill"
  /\ sig' = [sig EXCEPT ![s] = IF attempt[s] = 1 THEN "SIGTERM" ELSE "SIGABRT"]
  /\ goto(s, "arm")
  /\ UNCHANGED <<callVars, final, read_anything, proc_id, child, pipeVars, termVars, hostVars>>

(* ... or throw, although terminate is noexcept, ... *)
kill_fails(s) ==
  /\ pc[s] = "kill"
  /\ throws
  /\ UNCHANGED <<callVars, pc, final, read_anything, procVars, pipeVars, termVars, alarm, handler>>

(* ... set the alarm, ... *)
set_alarm(s) ==
  /\ pc[s] = "arm"
  /\ alarm' = TRUE
  /\ goto(s, "wait")
  /\ UNCHANGED <<callVars, final, read_anything, procVars, pipeVars, termVars, handler, host>>

(* Mutant: the pid is kept. *)
waitpid_keeps_pid(s) ==
  /\ pc[s] = "wait"
  /\ child[s] = "zombie"
  /\ child' = [child EXCEPT ![s] = "reaped"]
  /\ goto(s, "disarm")
  /\ UNCHANGED <<callVars, final, read_anything, proc_id, sig, pipeVars, termVars, hostVars>>

(* ... wait for the child to end, ... *)
waitpid(s) ==
  /\ pc[s] = "wait"
  /\ child[s] = "zombie"
  /\ child' = [child EXCEPT ![s] = "reaped"]
  /\ proc_id' = [proc_id EXCEPT ![s] = "none"]
  /\ goto(s, "disarm")
  /\ UNCHANGED <<callVars, final, read_anything, sig, pipeVars, termVars, hostVars>>

(* ... unless the host has done so (ECHILD): the pid is kept and the loop  *)
(* goes round for ever, ...                                                *)
waitpid_fails(s) ==
  /\ pc[s] = "wait"
  /\ child[s] = "taken"
  /\ goto(s, "disarm")
  /\ UNCHANGED <<callVars, final, read_anything, procVars, pipeVars, termVars, hostVars>>

(* ... or some handler of the host, installed without SA_RESTART, runs in  *)
(* this thread (EINTR), ...                                                *)
waitpid_interrupted(s) ==
  /\ pc[s] = "wait"
  /\ child[s] = "running"
  /\ goto(s, "disarm")
  /\ UNCHANGED <<callVars, final, read_anything, procVars, pipeVars, termVars, hostVars>>

(* Mutant: the alarm is left running. *)
leave_alarm(s) ==
  /\ pc[s] = "disarm"
  /\ goto(s, "restore")
  /\ UNCHANGED <<callVars, final, read_anything, procVars, pipeVars, termVars, hostVars>>

(* ... stop the alarm, and ... *)
stop_alarm(s) ==
  /\ pc[s] = "disarm"
  /\ alarm' = FALSE
  /\ goto(s, "restore")
  /\ UNCHANGED <<callVars, final, read_anything, procVars, pipeVars, termVars, handler, host>>

(* ... put the old handler back. *)
restore_handler(s) ==
  /\ pc[s] = "restore"
  /\ handler' = saved[s]
  /\ saved' = [saved EXCEPT ![s] = "default"]
  /\ attempt' = [attempt EXCEPT ![s] = 2]
  /\ goto(s, "terminate")
  /\ UNCHANGED <<callVars, final, read_anything, procVars, pipeVars, overlap, alarm, host>>

-----------------------------------------------------------------------------
(* The children. *)

child_writes(s) ==
  /\ child[s] = "running"
  /\ s \notin Silent
  /\ \/ out[s] < PipeMax /\ out' = [out EXCEPT ![s] = @ + 1] /\ UNCHANGED err
     \/ err[s] < PipeMax /\ err' = [err EXCEPT ![s] = @ + 1] /\ UNCHANGED out
  /\ UNCHANGED <<callVars, pc, final, read_anything, procVars, inherited, termVars, hostVars>>

child_ends(s) ==
  /\ child[s] = "running"
  /\ child' = [child EXCEPT ![s] = "zombie"]
  /\ UNCHANGED <<callVars, pc, final, read_anything, proc_id, sig, pipeVars, termVars, hostVars>>

(* A signal ends the child. *)
child_obeys(s) ==
  /\ sig[s] = "SIGABRT" \/ (sig[s] = "SIGTERM" /\ s \notin Stubborn)
  /\ child_ends(s)

(* The host waits for a child it does not know, with wait() or because it  *)
(* ignores SIGCHLD.                                                        *)
host_takes(s) ==
  /\ child[s] = "zombie"
  /\ child' = [child EXCEPT ![s] = "taken"]
  /\ UNCHANGED <<callVars, pc, final, read_anything, proc_id, sig, pipeVars, termVars, hostVars>>

(* The alarm clock runs out.  signal of glibc sets SA_RESTART, so a        *)
(* handler that does nothing does not end waitpid.                         *)
alarm_rings ==
  /\ alarm
  /\ alarm' = FALSE
  /\ host' = IF handler = "default" THEN "killed" ELSE host
  /\ UNCHANGED <<callVars, pc, final, read_anything, procVars, pipeVars, termVars, handler>>

-----------------------------------------------------------------------------
Init ==
  /\ caller = [s \in Server |-> "idle"]
  /\ running = [s \in Server |-> TRUE]
  /\ event = [s \in Server |-> FALSE]
  /\ pc = [s \in Server |-> "start"]
  /\ final = [s \in Server |-> FALSE]
  /\ read_anything = [s \in Server |-> FALSE]
  /\ attempt = [s \in Server |-> 1]
  /\ saved = [s \in Server |-> "default"]
  /\ proc_id = [s \in Server |-> "none"]
  /\ child = [s \in Server |-> "unborn"]
  /\ sig = [s \in Server |-> "none"]
  /\ out = [s \in Server |-> 0]
  /\ err = [s \in Server |-> 0]
  /\ inherited = [s \in Server |-> {}]
  /\ alarm = FALSE
  /\ handler = "default"
  /\ host = "alive"
  /\ overlap = FALSE

ShutdownGoesOn(s) == notify_one(s) \/ join(s)

Worker(s) ==
  \/ make_pipes(s) \/ create_subproc(s) \/ test_running(s) \/ wait_for_event(s)
  \/ read_out(s) \/ read_err(s)
  \/ terminate_leaves(s) \/ set_handler(s) \/ signal_child(s) \/ set_alarm(s)
  \/ waitpid(s) \/ waitpid_fails(s) \/ stop_alarm(s) \/ restore_handler(s)

Interrupt(s) == select_interrupted(s) \/ waitpid_interrupted(s)

Failure(s) == select_fails(s) \/ read_fails(s) \/ kill_fails(s)

Step(s) ==
  \/ \E wait_for_stop \in BOOLEAN : shutdown(s, wait_for_stop)
  \/ ShutdownGoesOn(s) \/ Worker(s) \/ Interrupt(s) \/ Failure(s)
  \/ child_writes(s) \/ child_ends(s) \/ host_takes(s)

Next == host = "alive" /\ (alarm_rings \/ \E s \in Server : Step(s))

Spec == Init /\ [][Next]_vars

(* Threads go on, the clock runs, and a signal that ends a child does so   *)
(* in the end.  Nobody has to call shutdown, no child has to write, and no *)
(* system call has to fail.                                                *)
Fairness ==
  /\ WF_vars(host = "alive" /\ alarm_rings)
  /\ \A s \in Server :
       /\ WF_vars(host = "alive" /\ ShutdownGoesOn(s))
       /\ WF_vars(host = "alive" /\ Worker(s))
       /\ WF_vars(host = "alive" /\ child_obeys(s))

FairSpec == Spec /\ Fairness

-----------------------------------------------------------------------------
(* The state has its type. *)
TypeOK ==
  /\ caller \in [Server -> {"idle", "stored", "stored_wait", "joining", "joined"}]
  /\ running \in [Server -> BOOLEAN]
  /\ event \in [Server -> BOOLEAN]
  /\ pc \in [Server -> {"start", "fork", "test", "select", "out", "err", "terminate", "kill",
                        "arm", "wait", "disarm", "restore", "done"}]
  /\ final \in [Server -> BOOLEAN]
  /\ read_anything \in [Server -> BOOLEAN]
  /\ attempt \in [Server -> {1, 2}]
  /\ saved \in [Server -> {"default", "ignored"}]
  /\ proc_id \in [Server -> {"none", "own"}]
  /\ child \in [Server -> {"unborn", "running", "zombie", "reaped", "taken"}]
  /\ sig \in [Server -> {"none", "SIGTERM", "SIGABRT"}]
  /\ out \in [Server -> 0..PipeMax]
  /\ err \in [Server -> 0..PipeMax]
  /\ inherited \in [Server -> SUBSET Server]
  /\ alarm \in BOOLEAN
  /\ handler \in {"default", "ignored"}
  /\ host \in {"alive", "killed", "terminated"}
  /\ overlap \in BOOLEAN

(* shutdown(true) and the destructor leave no process behind: when they    *)
(* return, the child, if there ever was one, has ended and been waited     *)
(* for, and nothing it wrote is left unread.                               *)
NothingIsLeftBehind ==
  \A s \in Server : caller[s] = "joined" =>
    child[s] \in {"unborn", "reaped"} /\ out[s] = 0 /\ err[s] = 0

(* Every kill goes to the server's own child: not to -1, which is every    *)
(* process, when fork has failed, and not to a pid that terminate has      *)
(* waited for and that may belong to another process.  A host that waits   *)
(* for the child itself (child = "taken") loses this: terminate does not   *)
(* learn of it and signals the old pid again and again.                    *)
SignalsOwnChild ==
  \A s \in Server : pc[s] = "kill" =>
    proc_id[s] = "own" /\ child[s] \in {"running", "zombie", "taken"}

(* As long as no two calls of terminate overlap (server_group destroys its *)
(* servers one after the other) the alarm of terminate never kills the     *)
(* host, and the handler it found is put back.                             *)
AlarmIsHarmless ==
  ~overlap =>
    /\ host # "killed"
    /\ (\A s \in Server : ~Terminating(s)) => handler = "default" /\ ~alarm

(* A server that is shut down stops, and its caller with it, if its child  *)
(* heeds SIGTERM: however the steps of shutdown fall between those of the  *)
(* worker, whether fork has failed, the child is already dead or its pipes *)
(* were inherited by another child.  The exceptions are a host that has    *)
(* ended (also because a system call has failed), a host that has waited   *)
(* for the child itself, and a child that never stops writing, which       *)
(* drain_pipes never stops reading.                                        *)
ShutdownStops ==
  \A s \in Server \ Stubborn :
    \/ ~running[s] ~> pc[s] = "done" \/ host # "alive" \/ child[s] = "taken"
    \/ []<><<child_writes(s)>>_vars

(* "If the process has not terminated before time_to_abort has passed, the *)
(* process is signalled again with SIGABRT" (subprocess.hpp): a wait       *)
(* without an alarm that is still to ring is ended.                        *)
EscalatesToAbort ==
  \A s \in Server :
    pc[s] = "wait" /\ ~alarm ~> sig[s] = "SIGABRT" \/ child[s] # "running" \/ host # "alive"
=============================================================================
