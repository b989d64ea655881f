------------------------------ MODULE TaskWorker ------------------------------
(***************************************************************************)
(* The Gateway's worker loop (bootstrap/gateway.py V3Gateway) driving      *)
(* runtime/tasks.py DurableTaskWorker over the queue of TaskStore:         *)
(* run_once leases a batch and awaits asyncio.gather of one _execute       *)
(* coroutine per task; a coroutine ends with one store transaction.        *)
(*                                                                         *)
(* gather is called without return_exceptions, so the first coroutine that *)
(* raises ends the await while its siblings keep running: they become      *)
(* orphans.  A process crash ends every coroutine and leaves the rows.     *)
(***************************************************************************)
EXTENDS TaskStore

CONSTANTS
    Results,      \* terminal states a mention handler returns, within Outcomes
    MaxFaults,    \* bound on storage failures (a store call that raises)
    MaxRestarts   \* bound on process exits, by a crash or an orderly stop

ASSUME WorkerAssumption ==
    /\ Results \subseteq Outcomes
    /\ MaxFaults \in Nat /\ MaxRestarts \in Nat

VARIABLES
    phase,     \* of the process, see Phases
    batch,     \* batch[i]: the coroutine at position i of the awaited gather
    orphans,   \* coroutines that outlived their gather
    faults, restarts

procVars == <<phase, batch, orphans, faults, restarts>>
vars == <<storeVars, procVars>>

(***************************************************************************)
(* idle (at the top of the loop) -> sending (_drain_once delivers replies) *)
(* -> busy (awaits a batch) -> idle.  After stop(): stopSending and        *)
(* draining are sending and busy with the stop event set, cancelling is    *)
(* draining once the drain window has elapsed, closing means that the loop *)
(* has ended and the database is still open, down that it is closed.       *)
(***************************************************************************)
Up == {"idle", "sending", "busy"}
Stopping == {"stopSending", "draining", "cancelling", "closing"}
Phases == Up \cup Stopping \cup {"down"}

\* Where the loop goes when an iteration ends: `while not self._stop.is_set()`.
LoopTop == IF phase \in Up THEN "idle" ELSE "closing"

\* A coroutine: its task, the attempt_count it was leased with, whether the
\* lease carried a recovery_error_code, and how far its handler is.
Execution == [task : Tasks, attempt : 0 .. MaxAttempts, final : BOOLEAN,
              stage : {"running", "revoked", "cancelled"}]
Idle == [task |-> "none"]

TypeOK ==
    /\ StoreTypeOK
    /\ phase \in Phases
    /\ batch \in [1 .. Batch -> Execution \cup {Idle}]
    /\ orphans \subseteq Execution
    /\ faults \in 0 .. MaxFaults
    /\ restarts \in 0 .. MaxRestarts

NoBatch == [i \in 1 .. Batch |-> Idle]
Members == {i \in 1 .. Batch : batch[i] # Idle}
Running == {batch[i] : i \in Members} \cup orphans

Init ==
    /\ StoreInit
    /\ phase = "idle" /\ batch = NoBatch /\ orphans = {}
    /\ faults = 0 /\ restarts = 0

-----------------------------------------------------------------------------
(***************************************************************************)
(* The end of a coroutine.                                                 *)
(***************************************************************************)

\* Mutant of MayFinish: _execute does not look at recovery_error_code and
\* runs the handler of a finalization lease again.
MayFinish_HandlerAlwaysRuns(e) ==
    IF e.stage = "cancelled" THEN {}
    ELSE Results \cup (IF e.attempt >= MaxAttempts THEN {"failed"} ELSE {})

\* The terminal states with which finish_task may be called next.
MayFinish(e) ==
    IF e.stage = "cancelled" THEN {}
    ELSE IF e.final THEN {"failed"}
    ELSE (IF e.task \notin Revokers THEN Results
          ELSE IF e.stage = "revoked" THEN {"succeeded"} ELSE {})
         \cup (IF e.attempt >= MaxAttempts THEN {"failed"} ELSE {})

MayRetry(e) == e.stage # "cancelled" /\ ~e.final /\ e.attempt < MaxAttempts
MayDefer(e) == e.stage = "running" /\ ~e.final /\ e.task \notin Revokers
WasCancelled(e) == e.stage = "cancelled"

\* Its store transaction commits.
Commits(e) ==
    \/ \E o \in MayFinish(e) : FinishTask(e.task, o)
    \/ MayRetry(e) /\ RetryTask(e.task)
    \/ MayDefer(e) /\ DeferTask(e.task, FALSE)
    \/ WasCancelled(e) /\ DeferTask(e.task, TRUE)

\* Its store transaction raises: the row is not leased, or storage fails.
Raises(e) ==
    /\ MayFinish(e) # {} \/ MayRetry(e) \/ WasCancelled(e)
    /\ \/ ~Owned(e.task) /\ UNCHANGED faults
       \/ faults < MaxFaults /\ faults' = faults + 1
    /\ UNCHANGED storeVars

\* gather goes on without member i; with the last one the iteration ends.
Leaves(i) ==
    /\ batch' = [batch EXCEPT ![i] = Idle]
    /\ phase' = IF Members # {i} THEN phase
                ELSE LoopTop
    /\ UNCHANGED orphans

\* gather ends with the exception of member i; the others are detached.
Aborts(i) ==
    /\ batch' = NoBatch
    /\ orphans' = orphans \cup {batch[j] : j \in Members \ {i}}
    /\ phase' = LoopTop

-----------------------------------------------------------------------------
(***************************************************************************)
(* Actions.                                                                *)
(***************************************************************************)

Receive(t) ==
    /\ phase \in Up \cup {"stopSending", "draining"}
    /\ Admit(t)
    /\ UNCHANGED procVars

Executed(t) == [task |-> t, attempt |-> tasks'[t].attempts,
                final |-> tasks'[t].exhausted, stage |-> "running"]

BeginDrain ==
    /\ phase = "idle"
    /\ phase' = "sending"
    /\ UNCHANGED <<storeVars, batch, orphans, faults, restarts>>

\* outbox.run_once raises: _run logs it and skips the tasks of this iteration.
SendRaises ==
    /\ phase \in {"sending", "stopSending"}
    /\ faults < MaxFaults /\ faults' = faults + 1
    /\ phase' = LoopTop
    /\ UNCHANGED <<storeVars, batch, orphans, restarts>>

\* Mutant of RunOnce: the coroutines are started with create_task and the
\* loop goes on without awaiting them.
RunOnce_NotAwaited ==
    /\ phase \in {"sending", "stopSending"}
    /\ \E n \in 0 .. Batch : \E picks \in [1 .. n -> Tasks] :
          /\ LeaseTasks(n, picks)
          /\ orphans' = orphans \cup {Executed(picks[i]) : i \in 1 .. n}
    /\ phase' = LoopTop
    /\ UNCHANGED <<batch, faults, restarts>>

RunOnce ==
    /\ phase \in {"sending", "stopSending"}
    /\ \E n \in 0 .. Batch : \E picks \in [1 .. n -> Tasks] :
          /\ LeaseTasks(n, picks)
          /\ batch' = [i \in 1 .. Batch |->
                          IF i <= n THEN Executed(picks[i]) ELSE Idle]
          /\ phase' = IF n = 0 THEN LoopTop
                      ELSE IF phase = "sending" THEN "busy" ELSE "draining"
    /\ UNCHANGED <<orphans, faults, restarts>>

BatchCommit(i) ==
    /\ i \in Members
    /\ Commits(batch[i])
    /\ IF WasCancelled(batch[i]) THEN Aborts(i) ELSE Leaves(i)
    /\ UNCHANGED <<faults, restarts>>

BatchRaise(i) ==
    /\ i \in Members
    /\ Raises(batch[i])
    /\ Aborts(i)
    /\ UNCHANGED restarts

OrphanCommit(e) ==
    /\ e \in orphans
    /\ Commits(e)
    /\ orphans' = orphans \ {e}
    /\ UNCHANGED <<phase, batch, faults, restarts>>

OrphanRaise(e) ==
    /\ e \in orphans
    /\ Raises(e)
    /\ orphans' = orphans \ {e}
    /\ UNCHANGED <<phase, batch, restarts>>

\* The transaction of revoke_chat_access inside the lifecycle handler.
MayRevoke(e) == e.task \in Revokers /\ e.stage = "running" /\ ~e.final

BatchRevoke(i) ==
    /\ i \in Members /\ MayRevoke(batch[i])
    /\ CancelPendingOfChat(Scope[batch[i].task].chat)
    /\ batch' = [batch EXCEPT ![i].stage = "revoked"]
    /\ UNCHANGED <<phase, orphans, faults, restarts>>

OrphanRevoke(e) ==
    /\ e \in orphans /\ MayRevoke(e)
    /\ CancelPendingOfChat(Scope[e.task].chat)
    /\ orphans' = (orphans \ {e}) \cup {[e EXCEPT !.stage = "revoked"]}
    /\ UNCHANGED <<phase, batch, faults, restarts>>

\* Gateway.stop() sets the stop event, which only the top of the loop reads.
Stop ==
    /\ restarts < MaxRestarts
    /\ \/ phase = "idle" /\ phase' = "closing"
       \/ phase = "sending" /\ phase' = "stopSending"
       \/ phase = "busy" /\ phase' = "draining"
    /\ UNCHANGED <<storeVars, batch, orphans, faults, restarts>>

\* The drain window elapses.  asyncio.timeout cancels the awaited worker task,
\* and so what the loop awaits: every member of the batch, or the delivery of
\* replies; stop() goes on when the loop has ended, whatever time that takes.
\* A transaction submitted earlier is taken to have committed before this.
DrainDeadline ==
    /\ phase \in {"stopSending", "draining"}
    /\ phase' = IF phase = "draining" THEN "cancelling" ELSE "closing"
    /\ batch' = [i \in 1 .. Batch |->
                    IF i \in Members THEN [batch[i] EXCEPT !.stage = "cancelled"]
                    ELSE Idle]
    /\ UNCHANGED <<storeVars, orphans, faults, restarts>>

\* The process is gone with its coroutines: the database is closed after the
\* last drain, or the process crashes.
Exit ==
    /\ phase' = "down"
    /\ batch' = NoBatch /\ orphans' = {}
    /\ restarts < MaxRestarts /\ restarts' = restarts + 1
    /\ UNCHANGED <<storeVars, faults>>

Close == phase = "closing" /\ Exit
Crash == phase \notin {"down", "closing"} /\ Exit

Start ==
    /\ phase = "down"
    /\ phase' = "idle"
    /\ UNCHANGED <<storeVars, batch, orphans, faults, restarts>>

TimePasses(t) == (BackoffElapses(t) \/ LeaseExpires(t)) /\ UNCHANGED procVars

Next ==
    \/ \E t \in Tasks : Receive(t) \/ TimePasses(t)
    \/ BeginDrain \/ SendRaises \/ RunOnce
    \/ \E i \in 1 .. Batch : BatchCommit(i) \/ BatchRaise(i) \/ BatchRevoke(i)
    \/ \E e \in orphans : OrphanCommit(e) \/ OrphanRaise(e) \/ OrphanRevoke(e)
    \/ Stop \/ DrainDeadline \/ Close \/ Crash \/ Start

Spec == Init /\ [][Next]_vars

-----------------------------------------------------------------------------
(***************************************************************************)
(* Safety.                                                                 *)
(***************************************************************************)

\* The coroutines that are executing a request.
ActiveMembers == {i \in Members : batch[i].stage = "running" /\ ~batch[i].final}
ActiveOrphans == {e \in orphans : e.stage = "running" /\ ~e.final}

\* "One SessionKey has one active root run" (docs/architecture.md 6.2), of
\* coroutines rather than of leases.  Leases are not renewed and the worker_id
\* does not tell one lease of a task from the next, so this rests on a batch
\* being awaited to its end, which a storage failure prevents.
OneRunPerSession ==
    LET session(e) == Scope[e.task].session
    IN  faults = 0 =>
        /\ \A i, j \in ActiveMembers :
              i # j => session(batch[i]) # session(batch[j])
        /\ \A i \in ActiveMembers, e \in ActiveOrphans :
              session(batch[i]) # session(e)
        /\ \A e, f \in ActiveOrphans : e # f => session(e) # session(f)

\* Every awaited coroutine still holds the lease it was started under, so its
\* closing transaction does not raise: nothing else in the process moves a
\* leased row (DurableTaskWorker._execute, revoke_chat_access).
MembersOwnTheirRow ==
    faults = 0 =>
        \A i \in Members : /\ Owned(batch[i].task)
                            /\ tasks[batch[i].task].attempts = batch[i].attempt
                            /\ tasks[batch[i].task].exhausted = batch[i].final

(***************************************************************************)
(* Action properties.                                                      *)
(***************************************************************************)

\* A finalization lease may only commit the failure outcome of the handler
\* (lease_tasks, DurableTaskWorker._execute with recovery_error_code).
FinalizationOnlyFails ==
    [][\A t \in Tasks :
          faults = 0 /\ tasks[t].state = "leased" /\ tasks[t].exhausted
          => tasks'[t].state \in {"leased", "pending", "failed"}]_vars

\* "each leased task is atomically deferred" when the drain window of an
\* orderly stop elapses (docs/group-agent-runtime.md).
ShutdownDefersEveryTask ==
    [][phase = "closing" /\ phase' = "down" =>
          \A e \in orphans : WasCancelled(e) => ~Owned(e.task)]_vars

\* "FIFO within a lane" (docs/architecture.md 6.2): a task is not leased while
\* an older request of its SessionKey is still pending.
FifoWithinSession ==
    [][\A t, u \in Tasks :
          /\ t < u /\ Scope[t].session = Scope[u].session
          /\ tasks[t].state = "pending" /\ tasks[u].state = "pending"
          => tasks'[u].state # "leased"]_vars

(***************************************************************************)
(* Liveness.  The event loop runs what is ready, time passes, and a        *)
(* handler ends (its run has a wall-time budget).                          *)
(***************************************************************************)
FairSpec ==
    /\ Spec
    /\ WF_vars(BeginDrain) /\ WF_vars(RunOnce)
    /\ WF_vars(Close) /\ WF_vars(Start)
    /\ \A t \in Tasks : WF_vars(TimePasses(t))
    /\ \A i \in 1 .. Batch : WF_vars(BatchCommit(i))

\* A lane whose task defers for ever does not keep another SessionKey from
\* being served (the cursors of _advance_scheduler_lanes).
AloneInSession(t) == \A u \in Tasks : Scope[u].session = Scope[t].session => u = t
EverySessionServed ==
    \A t \in Tasks : AloneInSession(t) =>
        (tasks[t].state = "pending" ~> tasks[t].state # "pending")

\* t's coroutine ends other than by handing its attempt back.
Advances(t) ==
    \E i \in Members : /\ batch[i].task = t /\ BatchCommit(i)
                        /\ tasks'[t].attempts = tasks[t].attempts

\* "Poison tasks become terminal ...; they do not loop forever": through
\* retries, expired leases, restarts and finalization every admitted task
\* becomes terminal, if handlers do not defer for ever (approvals expire).
EveryTaskSettles ==
    (\A t \in Tasks : SF_vars(Advances(t)))
        => \A t \in Tasks : Known(t) ~> Terminal(t)
=============================================================================
