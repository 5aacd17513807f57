------------------------ MODULE ServerProcessProofs ------------------------
(***************************************************************************)
(* Proofs about ServerProcess, for any number of servers: the state has    *)
(* its type, a server that was joined has left no child and no output      *)
(* behind, kill only goes to the own child, and the alarm does no harm.    *)
(***************************************************************************)
EXTENDS ServerProcess, TLAPS

(* The constructor and terminate keep _proc_id true, and the last drain    *)
(* comes after the child was waited for: nothing is written any more, and  *)
(* what a failed read has left is read in the next round.                  *)
WorkerInv(s) ==
  /\ pc[s] \in {"start", "fork"} => child[s] = "unborn"
  /\ proc_id[s] = "own" <=> child[s] \in {"running", "zombie", "taken"}
  /\ pc[s] \in {"kill", "arm", "wait"} => proc_id[s] = "own"
  /\ final[s] => proc_id[s] = "none" /\ pc[s] \in {"out", "err", "terminate", "done"}
  /\ final[s] /\ pc[s] = "err" => out[s] = 0 \/ read_anything[s]
  /\ final[s] /\ pc[s] \in {"terminate", "done"} => out[s] = 0 /\ err[s] = 0
  /\ pc[s] = "done" => final[s]
  /\ caller[s] = "joined" => pc[s] = "done"

ProcInv == TypeOK /\ \A s \in Server : WorkerInv(s)

(* While no two calls of terminate have overlapped, only one is going on,  *)
(* it has found the default handler, and the alarm is its own.             *)
AlarmInv ==
  ~overlap =>
    /\ host # "killed"
    /\ \A s \in Server : Terminating(s) =>
         /\ handler = "ignored" /\ saved[s] = "default"
         /\ alarm => pc[s] \in {"wait", "disarm"}
         /\ \A t \in Server : Terminating(t) => t = s
    /\ (\A s \in Server : ~Terminating(s)) => handler = "default" /\ ~alarm

-----------------------------------------------------------------------------
(* The state has its type to begin with, ... *)
LEMMA TypeInit == Init => TypeOK
  <1> SUFFICES ASSUME Init PROVE TypeOK
    OBVIOUS
  <1>1. out \in [Server -> 0..PipeMax] /\ err \in [Server -> 0..PipeMax]
    BY ServerAssumption DEF Init
  <1>2. /\ running \in [Server -> BOOLEAN]
        /\ event \in [Server -> BOOLEAN]
        /\ final \in [Server -> BOOLEAN]
        /\ read_anything \in [Server -> BOOLEAN]
        /\ inherited \in [Server -> SUBSET Server]
    BY Zenon DEF Init
  <1>3. alarm \in BOOLEAN /\ overlap \in BOOLEAN
    BY Zenon DEF Init
  <1> QED BY <1>1, <1>2, <1>3 DEF Init, TypeOK

(* ... and after the steps of the thread in shutdown, ... *)
LEMMA TypeCaller ==
  ASSUME TypeOK, NEW s \in Server,
         \/ \E wait_for_stop \in BOOLEAN : shutdown(s, wait_for_stop)
         \/ ShutdownGoesOn(s)
  PROVE  TypeOK'
  <1>1. CASE \E wait_for_stop \in BOOLEAN : shutdown(s, wait_for_stop)
    BY <1>1 DEF shutdown, TypeOK, procVars, pipeVars, termVars, hostVars
  <1>2. CASE notify_one(s)
    <2>1. event' \in [Server -> BOOLEAN]
      BY <1>2 DEF notify_one, TypeOK
    <2> QED BY <1>2, <2>1 DEF notify_one, TypeOK, procVars, pipeVars, termVars, hostVars
  <1>3. CASE join(s)
    BY <1>3 DEF join, TypeOK, procVars, pipeVars, termVars, hostVars
  <1> QED BY <1>1, <1>2, <1>3 DEF ShutdownGoesOn

(* ... of the worker until it terminates the child, ... *)
LEMMA TypeDrain ==
  ASSUME TypeOK, NEW s \in Server,
         \/ make_pipes(s) \/ create_subproc(s) \/ test_running(s) \/ wait_for_event(s)
         \/ select_interrupted(s) \/ read_out(s) \/ read_err(s) \/ select_fails(s) \/ read_fails(s)
  PROVE  TypeOK'
  <1>1. CASE make_pipes(s)
    BY <1>1 DEF make_pipes, throws, goto, TypeOK, callVars, procVars, pipeVars, termVars
  <1>2. CASE create_subproc(s)
    BY <1>2 DEF create_subproc, goto, TypeOK, callVars, termVars, hostVars
  <1>3. CASE test_running(s)
    BY <1>3 DEF test_running, goto, TypeOK, callVars, procVars, pipeVars, termVars, hostVars
  <1>4. CASE wait_for_event(s) \/ select_interrupted(s)
    <2>1. read_anything' \in [Server -> BOOLEAN]
      BY <1>4 DEF wait_for_event, select_interrupted, begin_drain, TypeOK
    <2> QED BY <1>4, <2>1 DEF wait_for_event, select_interrupted, begin_drain, goto, TypeOK, callVars,
                              procVars, pipeVars, termVars, hostVars
  <1>5. CASE read_out(s)
    <2>1. out' \in [Server -> 0..PipeMax]
      BY <1>5, ServerAssumption DEF read_out, TypeOK
    <2> QED BY <1>5, <2>1 DEF read_out, goto, TypeOK, callVars, procVars, termVars, hostVars
  <1>6. CASE read_err(s)
    <2>1. err' \in [Server -> 0..PipeMax]
      BY <1>6, ServerAssumption DEF read_err, TypeOK
    <2>2. read_anything' \in [Server -> BOOLEAN]
      BY <1>6 DEF read_err, begin_drain, TypeOK
    <2>3. pc' \in [Server -> {"start", "fork", "test", "select", "out", "err", "terminate", "kill",
                              "arm", "wait", "disarm", "restore", "done"}]
      BY <1>6 DEF read_err, begin_drain, goto, TypeOK
    <2> QED BY <1>6, <2>1, <2>2, <2>3 DEF read_err, begin_drain, goto, TypeOK, callVars, procVars, termVars,
                              hostVars
  <1>7. CASE select_fails(s)
    BY <1>7 DEF select_fails, throws, TypeOK, callVars, procVars, pipeVars, termVars
  <1>8. CASE read_fails(s)
    <2>1. read_anything' \in [Server -> BOOLEAN]
      BY <1>8 DEF read_fails, begin_drain, TypeOK
    <2>2. pc' \in [Server -> {"start", "fork", "test", "select", "out", "err", "terminate", "kill",
                              "arm", "wait", "disarm", "restore", "done"}]
      BY <1>8 DEF read_fails, begin_drain, goto, TypeOK
    <2> QED BY <1>8, <2>1, <2>2 DEF read_fails, throws, TypeOK, callVars, procVars, pipeVars, termVars
  <1> QED BY <1>1, <1>2, <1>3, <1>4, <1>5, <1>6, <1>7, <1>8

(* ... of terminate, ... *)
LEMMA TypeTerminate ==
  ASSUME TypeOK, NEW s \in Server,
         \/ terminate_leaves(s) \/ set_handler(s) \/ signal_child(s) \/ set_alarm(s)
         \/ waitpid(s) \/ waitpid_interrupted(s) \/ stop_alarm(s) \/ restore_handler(s)
         \/ kill_fails(s) \/ waitpid_fails(s)
  PROVE  TypeOK'
  <1>1. CASE terminate_leaves(s)
    <2>1. read_anything' \in [Server -> BOOLEAN] /\ final' \in [Server -> BOOLEAN]
      BY <1>1 DEF terminate_leaves, begin_drain, TypeOK
    <2>2. pc' \in [Server -> {"start", "fork", "test", "select", "out", "err", "terminate", "kill",
                              "arm", "wait", "disarm", "restore", "done"}]
      BY <1>1 DEF terminate_leaves, begin_drain, goto, TypeOK
    <2> QED BY <1>1, <2>1, <2>2 DEF terminate_leaves, TypeOK, callVars, procVars, pipeVars, termVars,
                                    hostVars
  <1>2. CASE set_handler(s)
    <2>1. overlap' \in BOOLEAN
      BY <1>2 DEF set_handler
    <2> QED BY <1>2, <2>1 DEF set_handler, goto, TypeOK, callVars, procVars, pipeVars
  <1>3. CASE signal_child(s)
    BY <1>3 DEF signal_child, goto, TypeOK, callVars, pipeVars, termVars, hostVars
  <1>4. CASE set_alarm(s)
    BY <1>4 DEF set_alarm, goto, TypeOK, callVars, procVars, pipeVars, termVars
  <1>5. CASE waitpid(s)
    BY <1>5 DEF waitpid, goto, TypeOK, callVars, pipeVars, termVars, hostVars
  <1>6. CASE waitpid_interrupted(s)
    BY <1>6 DEF waitpid_interrupted, goto, TypeOK, callVars, procVars, pipeVars, termVars, hostVars
  <1>7. CASE stop_alarm(s)
    BY <1>7 DEF stop_alarm, goto, TypeOK, callVars, procVars, pipeVars, termVars
  <1>8. CASE restore_handler(s)
    BY <1>8 DEF restore_handler, goto, TypeOK, callVars, procVars, pipeVars
  <1>9. CASE kill_fails(s)
    BY <1>9 DEF kill_fails, throws, TypeOK, callVars, procVars, pipeVars, termVars
  <1>10. CASE waitpid_fails(s)
    BY <1>10 DEF waitpid_fails, goto, TypeOK, callVars, procVars, pipeVars, termVars, hostVars
  <1> QED BY <1>1, <1>2, <1>3, <1>4, <1>5, <1>6, <1>7, <1>8, <1>9, <1>10

(* ... and of the children and the clock. *)
LEMMA TypeOutside ==
  ASSUME TypeOK, alarm_rings \/ \E s \in Server : child_writes(s) \/ child_ends(s) \/ host_takes(s)
  PROVE  TypeOK'
  <1>1. CASE alarm_rings
    BY <1>1 DEF alarm_rings, TypeOK, callVars, procVars, pipeVars, termVars
  <1>2. ASSUME NEW s \in Server, child_writes(s) PROVE TypeOK'
    <2>1. out' \in [Server -> 0..PipeMax] /\ err' \in [Server -> 0..PipeMax]
      BY <1>2, ServerAssumption DEF child_writes, TypeOK
    <2> QED BY <1>2, <2>1 DEF child_writes, TypeOK, callVars, procVars, termVars, hostVars
  <1>3. ASSUME NEW s \in Server, child_ends(s) PROVE TypeOK'
    BY <1>3 DEF child_ends, TypeOK, callVars, pipeVars, termVars, hostVars
  <1>4. ASSUME NEW s \in Server, host_takes(s) PROVE TypeOK'
    BY <1>4 DEF host_takes, TypeOK, callVars, pipeVars, termVars, hostVars
  <1> QED BY <1>1, <1>2, <1>3, <1>4

(* Every step keeps the type. *)
LEMMA TypeNext == TypeOK /\ [Next]_vars => TypeOK'
  <1> SUFFICES ASSUME TypeOK, [Next]_vars PROVE TypeOK'
    OBVIOUS
  <1>1. CASE UNCHANGED vars
    BY <1>1 DEF TypeOK, vars, callVars, procVars, pipeVars, termVars, hostVars
  <1>2. CASE alarm_rings
    BY <1>2, TypeOutside
  <1>3. ASSUME NEW s \in Server, Step(s) PROVE TypeOK'
    BY <1>3, TypeCaller, TypeDrain, TypeTerminate, TypeOutside, Zenon DEF Step, Worker, Interrupt, Failure
  <1> QED BY <1>1, <1>2, <1>3 DEF Next

(* Every variable of the model keeps its type, and the pipes their bounds. *)
THEOREM ServerTypes == Spec => []TypeOK
  BY TypeInit, TypeNext, PTL DEF Spec

-----------------------------------------------------------------------------
(* Before the first step there are no children. *)
LEMMA ProcInit == Init => ProcInv
  BY TypeInit DEF Init, ProcInv, WorkerInv

(* The thread in shutdown only looks at the worker when it has ended. *)
LEMMA ProcCaller ==
  ASSUME ProcInv, NEW s \in Server, NEW t \in Server,
         \/ \E wait_for_stop \in BOOLEAN : shutdown(s, wait_for_stop)
         \/ ShutdownGoesOn(s)
  PROVE  WorkerInv(t)'
  <1>1. CASE \E wait_for_stop \in BOOLEAN : shutdown(s, wait_for_stop)
    BY <1>1 DEF shutdown, ProcInv, TypeOK, WorkerInv, procVars, pipeVars
  <1>2. CASE notify_one(s)
    BY <1>2 DEF notify_one, ProcInv, TypeOK, WorkerInv, procVars, pipeVars
  <1>3. CASE join(s)
    BY <1>3 DEF join, ProcInv, TypeOK, WorkerInv, procVars, pipeVars
  <1> QED BY <1>1, <1>2, <1>3 DEF ShutdownGoesOn

(* The worker starts the child and reads from it. *)
LEMMA ProcDrain ==
  ASSUME ProcInv, NEW s \in Server, NEW t \in Server,
         \/ make_pipes(s) \/ create_subproc(s) \/ test_running(s) \/ wait_for_event(s)
         \/ select_interrupted(s) \/ read_out(s) \/ read_err(s) \/ select_fails(s) \/ read_fails(s)
  PROVE  WorkerInv(t)'
  <1>1. CASE make_pipes(s)
    BY <1>1 DEF make_pipes, goto, ProcInv, TypeOK, WorkerInv, callVars, procVars, pipeVars
  <1>2. CASE create_subproc(s)
    BY <1>2 DEF create_subproc, goto, ProcInv, TypeOK, WorkerInv, callVars
  <1>3. CASE test_running(s)
    BY <1>3 DEF test_running, goto, ProcInv, TypeOK, WorkerInv, callVars, procVars, pipeVars
  <1>4. CASE wait_for_event(s) \/ select_interrupted(s)
    BY <1>4 DEF wait_for_event, select_interrupted, begin_drain, goto, ProcInv, TypeOK, WorkerInv,
                callVars, procVars, pipeVars
  <1>5. CASE read_out(s)
    BY <1>5 DEF read_out, goto, ProcInv, TypeOK, WorkerInv, callVars, procVars
  <1>6. CASE read_err(s)
    BY <1>6 DEF read_err, begin_drain, goto, ProcInv, TypeOK, WorkerInv, callVars, procVars
  <1>7. CASE select_fails(s)
    BY <1>7 DEF select_fails, ProcInv, WorkerInv, callVars, procVars, pipeVars
  <1>8. CASE read_fails(s)
    <2>1. CASE UNCHANGED <<pc, read_anything>>
      BY <1>8, <2>1 DEF read_fails, ProcInv, WorkerInv, callVars, procVars, pipeVars
    <2>2. CASE pc[s] = "out" /\ goto(s, "err") /\ read_anything[s] /\ UNCHANGED read_anything
      BY <1>8, <2>2 DEF read_fails, goto, ProcInv, TypeOK, WorkerInv, callVars, procVars, pipeVars
    <2>3. CASE pc[s] = "err" /\ begin_drain(s)
      BY <1>8, <2>3 DEF read_fails, begin_drain, goto, ProcInv, TypeOK, WorkerInv, callVars, procVars, pipeVars
    <2> QED BY <1>8, <2>1, <2>2, <2>3 DEF read_fails
  <1> QED BY <1>1, <1>2, <1>3, <1>4, <1>5, <1>6, <1>7, <1>8

(* terminate forgets the child when it has waited for it. *)
LEMMA ProcTerminate ==
  ASSUME ProcInv, NEW s \in Server, NEW t \in Server,
         \/ terminate_leaves(s) \/ set_handler(s) \/ signal_child(s) \/ set_alarm(s)
         \/ waitpid(s) \/ waitpid_interrupted(s) \/ stop_alarm(s) \/ restore_handler(s)
         \/ kill_fails(s) \/ waitpid_fails(s)
  PROVE  WorkerInv(t)'
  <1>1. CASE terminate_leaves(s)
    BY <1>1 DEF terminate_leaves, begin_drain, goto, ProcInv, TypeOK, WorkerInv, callVars, procVars,
                pipeVars
  <1>2. CASE set_handler(s)
    BY <1>2 DEF set_handler, goto, ProcInv, TypeOK, WorkerInv, callVars, procVars, pipeVars
  <1>3. CASE signal_child(s)
    BY <1>3 DEF signal_child, goto, ProcInv, TypeOK, WorkerInv, callVars, pipeVars
  <1>4. CASE set_alarm(s)
    BY <1>4 DEF set_alarm, goto, ProcInv, TypeOK, WorkerInv, callVars, procVars, pipeVars
  <1>5. CASE waitpid(s)
    BY <1>5 DEF waitpid, goto, ProcInv, TypeOK, WorkerInv, callVars, pipeVars
  <1>6. CASE waitpid_interrupted(s)
    BY <1>6 DEF waitpid_interrupted, goto, ProcInv, TypeOK, WorkerInv, callVars, procVars, pipeVars
  <1>7. CASE stop_alarm(s)
    BY <1>7 DEF stop_alarm, goto, ProcInv, TypeOK, WorkerInv, callVars, procVars, pipeVars
  <1>8. CASE restore_handler(s)
    BY <1>8 DEF restore_handler, goto, ProcInv, TypeOK, WorkerInv, callVars, procVars, pipeVars
  <1>9. CASE kill_fails(s)
    BY <1>9 DEF kill_fails, ProcInv, WorkerInv, callVars, procVars, pipeVars
  <1>10. CASE waitpid_fails(s)
    BY <1>10 DEF waitpid_fails, goto, ProcInv, TypeOK, WorkerInv, callVars, procVars, pipeVars
  <1> QED BY <1>1, <1>2, <1>3, <1>4, <1>5, <1>6, <1>7, <1>8, <1>9, <1>10

(* Only a child that runs writes. *)
LEMMA ProcOutside ==
  ASSUME ProcInv, NEW t \in Server,
         alarm_rings \/ \E s \in Server : child_writes(s) \/ child_ends(s) \/ host_takes(s)
  PROVE  WorkerInv(t)'
  <1>1. CASE alarm_rings
    BY <1>1 DEF alarm_rings, ProcInv, WorkerInv, callVars, procVars, pipeVars
  <1>2. ASSUME NEW s \in Server, child_writes(s) PROVE WorkerInv(t)'
    BY <1>2 DEF child_writes, ProcInv, TypeOK, WorkerInv, callVars, procVars
  <1>3. ASSUME NEW s \in Server, child_ends(s) PROVE WorkerInv(t)'
    BY <1>3 DEF child_ends, ProcInv, TypeOK, WorkerInv, callVars, pipeVars
  <1>4. ASSUME NEW s \in Server, host_takes(s) PROVE WorkerInv(t)'
    BY <1>4 DEF host_takes, ProcInv, TypeOK, WorkerInv, callVars, pipeVars
  <1> QED BY <1>1, <1>2, <1>3, <1>4

(* Every step keeps the invariant. *)
LEMMA ProcNext == ProcInv /\ [Next]_vars => ProcInv'
  <1> SUFFICES ASSUME ProcInv, [Next]_vars PROVE ProcInv'
    OBVIOUS
  <1>1. TypeOK'
    BY TypeNext DEF ProcInv
  <1>2. ASSUME NEW t \in Server PROVE WorkerInv(t)'
    <2>1. CASE UNCHANGED vars
      BY <2>1 DEF ProcInv, WorkerInv, vars, callVars, procVars, pipeVars
    <2>2. CASE alarm_rings
      BY <2>2, ProcOutside
    <2>3. ASSUME NEW s \in Server, Step(s) PROVE WorkerInv(t)'
      BY <2>3, ProcCaller, ProcDrain, ProcTerminate, ProcOutside, Zenon DEF Step, Worker, Interrupt, Failure
    <2> QED BY <2>1, <2>2, <2>3 DEF Next
  <1> QED BY <1>1, <1>2 DEF ProcInv

(* So it holds for ever. *)
LEMMA ProcAlways == Spec => []ProcInv
  BY ProcInit, ProcNext, PTL DEF Spec

(* shutdown(true) and the destructor leave neither a child nor unread      *)
(* output behind, with any number of servers and however large the pipes.  *)
THEOREM NothingLeftBehind == Spec => []NothingIsLeftBehind
  <1>1. ProcInv => NothingIsLeftBehind
    BY DEF ProcInv, TypeOK, WorkerInv, NothingIsLeftBehind
  <1> QED BY <1>1, ProcAlways, PTL

(* kill is only called for the server's own child, and only before         *)
(* terminate has waited for it.                                            *)
THEOREM OnlyOwnChildIsSignalled == Spec => []SignalsOwnChild
  <1>1. ProcInv => SignalsOwnChild
    BY DEF ProcInv, TypeOK, WorkerInv, SignalsOwnChild
  <1> QED BY <1>1, ProcAlways, PTL

-----------------------------------------------------------------------------
(* A step outside terminate that starts and ends outside it, or inside it  *)
(* at the same place, leaves the alarm as it is.                           *)
LEMMA AlarmUnmoved ==
  ASSUME AlarmInv, UNCHANGED <<alarm, handler, saved, overlap>>, host' # "killed" \/ host' = host,
         \A t \in Server : \/ pc'[t] = pc[t]
                           \/ ~Terminating(t) /\ ~Terminating(t)'
  PROVE  AlarmInv'
  BY DEF AlarmInv, Terminating

(* Everything but terminate and the clock. *)
LEMMA AlarmElsewhere ==
  ASSUME TypeOK, AlarmInv, NEW s \in Server,
         \/ \E wait_for_stop \in BOOLEAN : shutdown(s, wait_for_stop)
         \/ ShutdownGoesOn(s) \/ child_writes(s) \/ child_ends(s) \/ host_takes(s)
         \/ make_pipes(s) \/ create_subproc(s) \/ test_running(s) \/ wait_for_event(s)
         \/ select_interrupted(s) \/ read_out(s) \/ read_err(s) \/ terminate_leaves(s)
         \/ select_fails(s) \/ read_fails(s) \/ kill_fails(s)
  PROVE  AlarmInv'
  <1>1. CASE \/ \E wait_for_stop \in BOOLEAN : shutdown(s, wait_for_stop)
             \/ ShutdownGoesOn(s) \/ child_writes(s) \/ child_ends(s) \/ host_takes(s)
    <2>1. UNCHANGED <<alarm, handler, saved, overlap, host, pc>>
      BY <1>1 DEF shutdown, ShutdownGoesOn, notify_one, join, child_writes, child_ends, host_takes,
                  termVars, hostVars
    <2> QED BY <2>1, AlarmUnmoved
  <1>2. CASE make_pipes(s)
    BY <1>2, AlarmUnmoved DEF make_pipes, throws, goto, TypeOK, Terminating, termVars
  <1>3. CASE create_subproc(s)
    BY <1>3, AlarmUnmoved DEF create_subproc, goto, TypeOK, Terminating, termVars, hostVars
  <1>4. CASE test_running(s)
    BY <1>4, AlarmUnmoved DEF test_running, goto, TypeOK, Terminating, termVars, hostVars
  <1>5. CASE wait_for_event(s) \/ select_interrupted(s)
    BY <1>5, AlarmUnmoved DEF wait_for_event, select_interrupted, begin_drain, goto, TypeOK,
                              Terminating, termVars, hostVars
  <1>6. CASE read_out(s)
    BY <1>6, AlarmUnmoved DEF read_out, goto, TypeOK, Terminating, termVars, hostVars
  <1>7. CASE read_err(s)
    BY <1>7, AlarmUnmoved DEF read_err, begin_drain, goto, TypeOK, Terminating, termVars, hostVars
  <1>8. CASE terminate_leaves(s)
    BY <1>8, AlarmUnmoved DEF terminate_leaves, begin_drain, goto, TypeOK, Terminating, termVars,
                              hostVars
  <1>9. CASE select_fails(s) \/ kill_fails(s)
    BY <1>9, AlarmUnmoved DEF select_fails, kill_fails, throws, termVars
  <1>10. CASE read_fails(s)
    BY <1>10, AlarmUnmoved DEF read_fails, throws, begin_drain, goto, TypeOK, Terminating, termVars
  <1> QED BY <1>1, <1>2, <1>3, <1>4, <1>5, <1>6, <1>7, <1>8, <1>9, <1>10

(* terminate, from the handler it sets to the one it puts back. *)
LEMMA AlarmTerminate ==
  ASSUME TypeOK, AlarmInv, NEW s \in Server,
         \/ set_handler(s) \/ signal_child(s) \/ set_alarm(s) \/ waitpid(s)
         \/ waitpid_interrupted(s) \/ waitpid_fails(s) \/ stop_alarm(s) \/ restore_handler(s)
  PROVE  AlarmInv'
  <1>1. CASE set_handler(s)
    <2> SUFFICES ASSUME ~overlap' PROVE AlarmInv'
      BY DEF AlarmInv
    <2>1. ~Terminating(s) /\ ~overlap /\ \A t \in Server \ {s} : ~Terminating(t)
      BY <1>1, Zenon DEF set_handler, Terminating
    <2>2. host # "killed" /\ handler = "default" /\ ~alarm
      BY <2>1 DEF AlarmInv
    <2>3. pc'[s] = "kill" /\ \A t \in Server \ {s} : pc'[t] = pc[t]
      BY <1>1 DEF set_handler, goto, TypeOK
    <2>4. /\ Terminating(s)'
          /\ \A t \in Server : Terminating(t)' => t = s
      BY <2>1, <2>3 DEF Terminating
    <2>5. handler' = "ignored" /\ saved'[s] = "default" /\ alarm' = alarm /\ host' = host
      BY <1>1, <2>2 DEF set_handler, TypeOK
    <2> QED BY <2>2, <2>4, <2>5 DEF AlarmInv
  <1>2. CASE signal_child(s)
    BY <1>2 DEF signal_child, goto, TypeOK, AlarmInv, Terminating, termVars, hostVars
  <1>3. CASE set_alarm(s)
    BY <1>3 DEF set_alarm, goto, TypeOK, AlarmInv, Terminating, termVars
  <1>4. CASE waitpid(s)
    BY <1>4 DEF waitpid, goto, TypeOK, AlarmInv, Terminating, termVars, hostVars
  <1>5. CASE waitpid_interrupted(s) \/ waitpid_fails(s)
    BY <1>5 DEF waitpid_interrupted, waitpid_fails, goto, TypeOK, AlarmInv, Terminating, termVars, hostVars
  <1>6. CASE stop_alarm(s)
    BY <1>6 DEF stop_alarm, goto, TypeOK, AlarmInv, Terminating, termVars
  <1>7. CASE restore_handler(s)
    BY <1>7 DEF restore_handler, goto, TypeOK, AlarmInv, Terminating
  <1> QED BY <1>1, <1>2, <1>3, <1>4, <1>5, <1>6, <1>7

(* Every step keeps the invariant of the alarm. *)
LEMMA AlarmNext == TypeOK /\ AlarmInv /\ [Next]_vars => AlarmInv'
  <1> SUFFICES ASSUME TypeOK, AlarmInv, [Next]_vars PROVE AlarmInv'
    OBVIOUS
  <1>1. CASE UNCHANGED vars
    BY <1>1, AlarmUnmoved DEF vars, termVars, hostVars
  <1>2. CASE alarm_rings
    <2>1. UNCHANGED <<pc, saved, overlap, handler>> /\ alarm /\ ~alarm'
      BY <1>2 DEF alarm_rings, termVars
    <2>2. ~overlap => handler = "ignored"
      BY <2>1 DEF AlarmInv
    <2>3. ~overlap => host' = host
      BY <1>2, <2>2 DEF alarm_rings
    <2> QED BY <2>1, <2>2, <2>3, Zenon DEF AlarmInv, Terminating
  <1>3. ASSUME NEW s \in Server, Step(s) PROVE AlarmInv'
    BY <1>3, AlarmElsewhere, AlarmTerminate, Zenon DEF Step, Worker, Interrupt, Failure
  <1> QED BY <1>1, <1>2, <1>3 DEF Next

(* As long as no two calls of terminate overlap, the process-wide alarm of *)
(* terminate does not kill the host and its handler is put back, with any  *)
(* number of servers.                                                      *)
THEOREM AlarmDoesNoHarm == Spec => []AlarmIsHarmless
  <1>1. Init => AlarmInv
    BY DEF Init, AlarmInv, Terminating
  <1>2. AlarmInv => AlarmIsHarmless
    BY DEF AlarmInv, AlarmIsHarmless
  <1> QED BY <1>1, <1>2, AlarmNext, ServerTypes, PTL DEF Spec
=============================================================================
