--------------------------- MODULE TaskWorkerProofs ---------------------------
(***************************************************************************)
(* Proofs about the worker loop: its only effect on the durable queue is   *)
(* through the transactions of TaskStore, so what TaskStoreProofs shows of *)
(* every order of calls holds of it, whatever fails, is cancelled or       *)
(* outlives its batch.                                                     *)
(***************************************************************************)
EXTENDS TaskWorker, TaskStoreProofs

\* The inductive invariant: the coroutines are well formed, and so is the store.
WorkerInv == TypeOK /\ StoreInv

LEMMA MembersAreExecutions ==
    ASSUME TypeOK, NEW i \in Members
    PROVE  batch[i] \in Execution /\ i \in 1 .. Batch
BY DEF TypeOK, Members

LEMMA MayFinishIsOutcome ==
    ASSUME NEW e \in Execution
    PROVE  MayFinish(e) \subseteq Outcomes
BY WorkerAssumption DEF MayFinish, Outcomes

\* What the end of a coroutine does to the queue is one of its transactions.
LEMMA CommitsIsStoreStep ==
    ASSUME NEW e \in Execution, Commits(e)
    PROVE  StoreNext
<1>1. e.task \in Tasks
  BY DEF Execution
<1>2. ASSUME NEW o \in MayFinish(e), FinishTask(e.task, o) PROVE StoreNext
  BY <1>1, <1>2, MayFinishIsOutcome DEF StoreNext
<1>3. CASE RetryTask(e.task)
  BY <1>1, <1>3 DEF StoreNext
<1>4. CASE DeferTask(e.task, FALSE)
  BY <1>1, <1>4 DEF StoreNext
<1>5. CASE DeferTask(e.task, TRUE)
  BY <1>1, <1>5 DEF StoreNext
<1> QED
  BY <1>2, <1>3, <1>4, <1>5 DEF Commits

LEMMA RevokeIsStoreStep ==
    ASSUME NEW e \in Execution, CancelPendingOfChat(Scope[e.task].chat)
    PROVE  StoreNext
BY DEF Execution, StoreNext

\* Every step of the process is a step of the store, or leaves it unchanged.
LEMMA StepIsStoreStep ==
    ASSUME TypeOK, [Next]_vars
    PROVE  [StoreNext]_storeVars
<1>1. ASSUME NEW t \in Tasks, Receive(t) PROVE StoreNext
  BY <1>1 DEF Receive, StoreNext
<1>2. ASSUME NEW t \in Tasks, TimePasses(t) PROVE StoreNext
  BY <1>2 DEF TimePasses, StoreNext
<1>3. CASE BeginDrain
  BY <1>3 DEF BeginDrain
<1>4. CASE SendRaises
  BY <1>4 DEF SendRaises
<1>5. CASE RunOnce
  BY <1>5 DEF RunOnce, StoreNext
<1>6. ASSUME NEW i \in 1 .. Batch, BatchCommit(i) PROVE StoreNext
  BY <1>6, MembersAreExecutions, CommitsIsStoreStep DEF BatchCommit
<1>7. ASSUME NEW i \in 1 .. Batch, BatchRaise(i) PROVE UNCHANGED storeVars
  BY <1>7 DEF BatchRaise, Raises
<1>8. ASSUME NEW i \in 1 .. Batch, BatchRevoke(i) PROVE StoreNext
  BY <1>8, MembersAreExecutions, RevokeIsStoreStep DEF BatchRevoke
<1>9. ASSUME NEW e \in orphans, OrphanCommit(e) PROVE StoreNext
  BY <1>9, CommitsIsStoreStep DEF OrphanCommit, TypeOK
<1>10. ASSUME NEW e \in orphans, OrphanRaise(e) PROVE UNCHANGED storeVars
  BY <1>10 DEF OrphanRaise, Raises
<1>11. ASSUME NEW e \in orphans, OrphanRevoke(e) PROVE StoreNext
  BY <1>11, RevokeIsStoreStep DEF OrphanRevoke, TypeOK
<1>12. CASE Stop
  BY <1>12 DEF Stop
<1>13. CASE DrainDeadline
  BY <1>13 DEF DrainDeadline
<1>14. CASE Close \/ Crash
  BY <1>14 DEF Close, Crash, Exit
<1>15. CASE Start
  BY <1>15 DEF Start
<1>16. CASE UNCHANGED vars
  BY <1>16 DEF vars
<1> QED
  BY <1>1, <1>2, <1>3, <1>4, <1>5, <1>6, <1>7, <1>8, <1>9, <1>10, <1>11, <1>12,
     <1>13, <1>14, <1>15, <1>16 DEF Next

(***************************************************************************)
(* Type correctness.                                                       *)
(***************************************************************************)

\* What TypeOK says of the process.
ProcTypeOK ==
    /\ phase \in Phases
    /\ batch \in [1 .. Batch -> Execution \cup {Idle}]
    /\ orphans \subseteq Execution
    /\ faults \in 0 .. MaxFaults
    /\ restarts \in 0 .. MaxRestarts

\* A coroutine whose handler moves on, or is cancelled, is still well formed.
LEMMA StageChanges ==
    ASSUME NEW e \in Execution, NEW s \in {"running", "revoked", "cancelled"}
    PROVE  [e EXCEPT !.stage = s] \in Execution
BY DEF Execution

LEMMA LoopTopIsPhase == LoopTop \in Phases
BY DEF LoopTop, Phases, Up, Stopping

LEMMA NoBatchIsTyped == NoBatch \in [1 .. Batch -> Execution \cup {Idle}]
BY DEF NoBatch

LEMMA BatchMemberEnds ==
    ASSUME TypeOK, NEW i \in Members, Leaves(i) \/ Aborts(i)
    PROVE  /\ phase' \in Phases
           /\ batch' \in [1 .. Batch -> Execution \cup {Idle}]
           /\ orphans' \subseteq Execution
<1>1. CASE Leaves(i)
  <2>1. phase' \in Phases
    BY <1>1, LoopTopIsPhase DEF Leaves, TypeOK
  <2>2. batch' \in [1 .. Batch -> Execution \cup {Idle}]
    BY <1>1 DEF Leaves, TypeOK
  <2> QED
    BY <1>1, <2>1, <2>2 DEF Leaves, TypeOK
<1>2. CASE Aborts(i)
  BY <1>2, LoopTopIsPhase, NoBatchIsTyped, MembersAreExecutions DEF Aborts, TypeOK
<1> QED
  BY <1>1, <1>2

\* The coroutines of a batch are started with what the leased rows say.
LEMMA StartedIsTyped ==
    ASSUME TypeOK, StoreTypeOK', NEW t \in Tasks
    PROVE  Executed(t) \in Execution
BY DEF Executed, Execution, StoreTypeOK, Row

LEMMA StepKeepsProcType ==
    ASSUME TypeOK, StoreTypeOK', [Next]_vars
    PROVE  ProcTypeOK'
<1> USE DEF ProcTypeOK
<1>0. ProcTypeOK
  BY DEF TypeOK
<1>1. ASSUME NEW t \in Tasks, Receive(t) PROVE ProcTypeOK'
  BY <1>0, <1>1 DEF Receive, procVars
<1>2. ASSUME NEW t \in Tasks, TimePasses(t) PROVE ProcTypeOK'
  BY <1>0, <1>2 DEF TimePasses, procVars
<1>3. CASE BeginDrain
  BY <1>0, <1>3 DEF BeginDrain, Phases, Up
<1>4. CASE SendRaises
  BY <1>0, <1>4, LoopTopIsPhase, WorkerAssumption DEF SendRaises
<1>5. CASE RunOnce
  <2>0. PICK n \in 0 .. Batch : \E picks \in [1 .. n -> Tasks] :
          /\ batch' = [i \in 1 .. Batch |-> IF i <= n THEN Executed(picks[i]) ELSE Idle]
          /\ phase' = IF n = 0 THEN LoopTop
                      ELSE IF phase = "sending" THEN "busy" ELSE "draining"
    BY <1>5 DEF RunOnce
  <2>1. PICK picks \in [1 .. n -> Tasks] :
          /\ batch' = [i \in 1 .. Batch |-> IF i <= n THEN Executed(picks[i]) ELSE Idle]
          /\ phase' = IF n = 0 THEN LoopTop
                      ELSE IF phase = "sending" THEN "busy" ELSE "draining"
    BY <2>0
  <2>2. phase' \in Phases
    BY <2>1, LoopTopIsPhase DEF Phases, Up, Stopping
  <2>3. \A i \in 1 .. Batch : i <= n => Executed(picks[i]) \in Execution
    <3>1. \A i \in 1 .. Batch : i <= n => picks[i] \in Tasks
      BY LimitsAssumption
    <3> QED
      BY <3>1, StartedIsTyped
  <2>4. batch' \in [1 .. Batch -> Execution \cup {Idle}]
    BY <2>1, <2>3
  <2> QED
    BY <1>0, <1>5, <2>2, <2>4 DEF RunOnce
<1>6. ASSUME NEW i \in 1 .. Batch, BatchCommit(i) PROVE ProcTypeOK'
  BY <1>0, <1>6, BatchMemberEnds DEF BatchCommit
<1>7. ASSUME NEW i \in 1 .. Batch, BatchRaise(i) PROVE ProcTypeOK'
  <2>1. faults' \in 0 .. MaxFaults
    BY <1>0, <1>7, WorkerAssumption DEF BatchRaise, Raises
  <2> QED
    BY <1>0, <1>7, <2>1, BatchMemberEnds DEF BatchRaise
<1>8. ASSUME NEW i \in 1 .. Batch, BatchRevoke(i) PROVE ProcTypeOK'
  <2>1. [batch[i] EXCEPT !.stage = "revoked"] \in Execution
    BY <1>8, MembersAreExecutions, StageChanges DEF BatchRevoke
  <2>2. batch' = [batch EXCEPT ![i] = [batch[i] EXCEPT !.stage = "revoked"]]
    BY <1>0, <1>8 DEF BatchRevoke
  <2>3. batch' \in [1 .. Batch -> Execution \cup {Idle}]
    BY <1>0, <2>1, <2>2
  <2> QED
    BY <1>0, <1>8, <2>3 DEF BatchRevoke
<1>9. ASSUME NEW e \in orphans, OrphanCommit(e) PROVE ProcTypeOK'
  BY <1>0, <1>9 DEF OrphanCommit
<1>10. ASSUME NEW e \in orphans, OrphanRaise(e) PROVE ProcTypeOK'
  BY <1>0, <1>10, WorkerAssumption DEF OrphanRaise, Raises
<1>11. ASSUME NEW e \in orphans, OrphanRevoke(e) PROVE ProcTypeOK'
  <2>1. [e EXCEPT !.stage = "revoked"] \in Execution
    BY <1>0, StageChanges
  <2> QED
    BY <1>0, <1>11, <2>1 DEF OrphanRevoke
<1>12. CASE Stop
  BY <1>0, <1>12 DEF Stop, Phases, Stopping
<1>13. CASE DrainDeadline
  <2>1. ASSUME NEW i \in 1 .. Batch
        PROVE  batch'[i] \in Execution \cup {Idle}
    <3>1. CASE i \in Members
      BY <1>13, <3>1, MembersAreExecutions, StageChanges DEF DrainDeadline
    <3>2. CASE i \notin Members
      BY <1>13, <3>2 DEF DrainDeadline
    <3> QED
      BY <3>1, <3>2
  <2>2. batch' = [i \in 1 .. Batch |-> batch'[i]]
    BY <1>13 DEF DrainDeadline
  <2>3. batch' \in [1 .. Batch -> Execution \cup {Idle}]
    BY <2>1, <2>2
  <2>4. phase' \in Phases
    BY <1>13 DEF DrainDeadline, Phases, Stopping
  <2> QED
    BY <1>0, <1>13, <2>3, <2>4 DEF DrainDeadline
<1>14. CASE Close \/ Crash
  BY <1>0, <1>14, NoBatchIsTyped, WorkerAssumption DEF Close, Crash, Exit, Phases
<1>15. CASE Start
  BY <1>0, <1>15 DEF Start, Phases, Up
<1>16. CASE UNCHANGED vars
  BY <1>0, <1>16 DEF vars, procVars
<1> QED
  BY <1>1, <1>2, <1>3, <1>4, <1>5, <1>6, <1>7, <1>8, <1>9, <1>10, <1>11, <1>12,
     <1>13, <1>14, <1>15, <1>16 DEF Next

(***************************************************************************)
(* Theorems.                                                               *)
(***************************************************************************)

LEMMA InitWorkerInv == Init => WorkerInv
<1> SUFFICES ASSUME Init PROVE WorkerInv
  OBVIOUS
<1>1. StoreInv
  BY InitStoreInv DEF Init
<1>2. TypeOK
  BY <1>1, NoBatchIsTyped, WorkerAssumption DEF Init, StoreInv, TypeOK, Phases, Up
<1> QED
  BY <1>1, <1>2 DEF WorkerInv

LEMMA StepWorkerInv == WorkerInv /\ [Next]_vars => WorkerInv'
<1> SUFFICES ASSUME WorkerInv, [Next]_vars PROVE WorkerInv'
  OBVIOUS
<1>1. StoreInv'
  BY StepIsStoreStep, StepStoreInv DEF WorkerInv
<1>2. ProcTypeOK'
  BY <1>1, StepKeepsProcType DEF WorkerInv, StoreInv
<1> QED
  BY <1>1, <1>2 DEF WorkerInv, StoreInv, TypeOK, ProcTypeOK

\* Type correctness of the worker and its queue, in every phase of the process
\* (V3Gateway, DurableTaskWorker, RuntimeStore).
THEOREM TypeCorrect == Spec => []TypeOK
BY InitWorkerInv, StepWorkerInv, PTL DEF Spec, WorkerInv

\* The process changes the queue by its transactions only, so the queue under
\* the worker behaves as TaskStore (DurableTaskWorker._execute, V3Gateway).
THEOREM WorkerUsesStore == Spec => StoreSpec
<1>1. Init => StoreInit
  BY DEF Init
<1>2. TypeOK /\ [Next]_vars => [StoreNext]_storeVars
  BY StepIsStoreStep
<1> QED
  BY <1>1, <1>2, TypeCorrect, PTL DEF Spec, StoreSpec

\* One live lease per SessionKey (_select_task_ids, lease_tasks).
THEOREM OneLeasePerSession == Spec => []SessionExclusive
BY WorkerUsesStore, StoreInvariant, PTL DEF StoreInv

\* The concurrency limits hold of live leases, across batches, expiries and
\* restarts (_select_task_ids, TaskConcurrencyLimits).
THEOREM LimitsAlwaysHold == Spec => []LimitsHold
BY WorkerUsesStore, StoreInvariant, PTL DEF StoreInv

\* No acknowledged task is left pending without a way to be leased again
\* (retry_task, defer_task, the two UPDATEs of lease_tasks).
THEOREM NoTaskStranded == Spec => []NothingStranded
BY WorkerUsesStore, StoreInvariant, PTL DEF StoreInv

\* A terminal state is never replaced, not even by a coroutine that outlived
\* its batch or by a chat revocation (finish_task, revoke_chat_access).
THEOREM TerminalStaysFinal == Spec => TerminalIsFinal
BY WorkerUsesStore, StoreTerminalIsFinal

\* The worker and its queue implement TaskLifecycle (DurableTaskWorker).
THEOREM WorkerRefinesLifecycle == Spec => ImplementsLifecycle
BY WorkerUsesStore, StoreRefinement

(***************************************************************************)
(* While no storage call has failed.  A batch is then awaited to its end,  *)
(* and a coroutine outlives its gather only when the drain window cancels  *)
(* all of them, which the loop does not survive.  That keeps the members   *)
(* in possession of their rows: in the phases in which somebody else could *)
(* move a leased row, there are none.                                      *)
(***************************************************************************)
BatchIsAwaited == Members # {} => phase \in {"busy", "draining", "cancelling"}

CancelledTogether ==
    \A i \in Members : batch[i].stage = "cancelled" <=> phase = "cancelling"

OrphansAreCancelled ==
    faults = 0 => \A e \in orphans : phase = "closing" /\ e.stage = "cancelled"

OneMemberPerSession ==
    \A i, j \in Members :
        i # j => Scope[batch[i].task].session # Scope[batch[j].task].session

AwaitInv ==
    /\ WorkerInv
    /\ BatchIsAwaited /\ CancelledTogether /\ OrphansAreCancelled
    /\ OneMemberPerSession /\ MembersOwnTheirRow

\* The lease of t as a coroutine knows it.
SameLease(t) ==
    /\ tasks'[t].state = "leased"
    /\ tasks'[t].attempts = tasks[t].attempts
    /\ tasks'[t].exhausted = tasks[t].exhausted

LEMMA ExecutionIsNotIdle ==
    ASSUME NEW e \in Execution
    PROVE  e # Idle
<1>1. DOMAIN e = {"task", "attempt", "final", "stage"}
  BY DEF Execution
<1>2. DOMAIN Idle = {"task"}
  BY DEF Idle
<1> QED
  BY <1>1, <1>2

\* An admission, the clock and a chat revocation leave a leased row leased.
LEMMA BystandersKeepLease ==
    ASSUME StoreTypeOK, NEW t \in Tasks, Owned(t),
           \/ \E u \in Tasks : Admit(u) \/ TimePasses(u)
           \/ \E chat : CancelPendingOfChat(chat)
    PROVE  SameLease(t)
<1>1. tasks[t] \in Row /\ tasks[t].state = "leased"
  BY DEF StoreTypeOK, Owned
<1>2. ASSUME NEW u \in Tasks, Admit(u) PROVE SameLease(t)
  BY <1>1, <1>2 DEF Admit, SameLease, StoreTypeOK
<1>3. ASSUME NEW u \in Tasks, BackoffElapses(u) PROVE SameLease(t)
  BY <1>1, <1>3 DEF BackoffElapses, SameLease, StoreTypeOK
<1>4. ASSUME NEW u \in Tasks, LeaseExpires(u) PROVE SameLease(t)
  <2>1. tasks' = [tasks EXCEPT ![u] = [tasks[u] EXCEPT !.live = FALSE]]
    BY <1>4 DEF LeaseExpires, StoreTypeOK
  <2>2. tasks[u] \in Row
    BY DEF StoreTypeOK
  <2> QED
    BY <1>1, <2>1, <2>2 DEF SameLease, StoreTypeOK, Row
<1>5. ASSUME NEW chat, CancelPendingOfChat(chat) PROVE SameLease(t)
  BY <1>1, <1>5 DEF CancelPendingOfChat, SameLease
<1> QED
  BY <1>2, <1>3, <1>4, <1>5 DEF TimePasses

\* The end of a coroutine moves the row of its own task only.
LEMMA OtherTasksKeepRow ==
    ASSUME StoreTypeOK, NEW e \in Execution, Commits(e),
           NEW t \in Tasks, t # e.task
    PROVE  tasks'[t] = tasks[t]
BY DEF Commits, FinishTask, RetryTask, DeferTask, StoreTypeOK

\* Members that stay what they are keep their rows with them.
LEMMA MembersKeepRows ==
    ASSUME AwaitInv, faults' = 0 => faults = 0,
           \A i \in Members' : /\ i \in Members
                               /\ batch'[i].task = batch[i].task
                               /\ batch'[i].attempt = batch[i].attempt
                               /\ batch'[i].final = batch[i].final
                               /\ faults = 0 => SameLease(batch[i].task)
    PROVE  OneMemberPerSession' /\ MembersOwnTheirRow'
<1>1. OneMemberPerSession'
  BY DEF OneMemberPerSession, AwaitInv
<1>2. MembersOwnTheirRow'
  BY DEF MembersOwnTheirRow, AwaitInv, SameLease, Owned
<1> QED
  BY <1>1, <1>2

\* Without members there is nothing to show of the batch.
LEMMA NobodyAwaited ==
    ASSUME Members' = {}, OrphansAreCancelled'
    PROVE  /\ BatchIsAwaited' /\ CancelledTogether' /\ OrphansAreCancelled'
           /\ OneMemberPerSession' /\ MembersOwnTheirRow'
BY DEF BatchIsAwaited, CancelledTogether, OneMemberPerSession, MembersOwnTheirRow

LEMMA EmptyBatch == batch' = NoBatch => Members' = {}
BY DEF Members, NoBatch

\* A batch starts with one member per session, each with the lease its row
\* says (lease_tasks, DurableTaskWorker.run_once).
LEMMA BatchStartsApart ==
    ASSUME TypeOK, StoreTypeOK', SessionExclusive',
           NEW n \in 0 .. Batch, NEW picks \in [1 .. n -> Tasks], LeaseTasks(n, picks),
           batch' = [i \in 1 .. Batch |-> IF i <= n THEN Executed(picks[i]) ELSE Idle]
    PROVE  /\ n = 0 => Members' = {}
           /\ OneMemberPerSession' /\ MembersOwnTheirRow'
           /\ \A i \in Members' : batch'[i].stage = "running"
<1>1. StoreTypeOK
  BY DEF TypeOK
<1>2. \A i \in Members' : i \in 1 .. n /\ i \in 1 .. Batch
  BY LimitsAssumption DEF Members
<1>3. ASSUME NEW i \in 1 .. n, i \in 1 .. Batch
      PROVE  /\ picks[i] \in Tasks
             /\ batch'[i].task = picks[i]
             /\ batch'[i].attempt = tasks'[picks[i]].attempts
             /\ batch'[i].final = tasks'[picks[i]].exhausted
             /\ batch'[i].stage = "running"
  BY <1>3 DEF Executed
<1>4. ASSUME NEW i \in 1 .. n
      PROVE  picks[i] \in Leased(tasks)'
  <2>1. picks[i] \in Tasks /\ Reclaimed[picks[i]] \in Row
    BY <1>1, ReclaimedIsTyped
  <2>2. tasks'[picks[i]] = Grant(Reclaimed[picks[i]])
    BY <1>1, <2>1, RowOfSelection
  <2> QED
    BY <2>1, <2>2, GrantIsLeased DEF Leased
<1>5. ASSUME NEW i \in 1 .. n, NEW j \in 1 .. n, i # j
      PROVE  picks[i] # picks[j]
  <2>1. \A a, b \in 1 .. n : a < b => picks[a] # picks[b]
    <3>1. IsSelection(n, picks)
      BY DEF LeaseTasks
    <3>2. ASSUME NEW a \in 1 .. n, NEW b \in 1 .. n, a < b
          PROVE  picks[a] # picks[b]
      <4>1. a \in 1 .. (b - 1)
        BY <3>2
      <4> QED
        BY <1>1, <3>1, <4>1, SelectedIsEligible
    <3> QED
      BY <3>2
  <2>2. i < j \/ j < i
    BY <1>5
  <2> QED
    BY <2>1, <2>2
<1>6. OneMemberPerSession'
  <2>1. ASSUME NEW i \in Members', NEW j \in Members', i # j
        PROVE  (Scope[batch[i].task].session # Scope[batch[j].task].session)'
    <3>1. /\ picks[i] \in Leased(tasks)' /\ picks[j] \in Leased(tasks)'
          /\ picks[i] # picks[j]
      BY <1>2, <1>4, <1>5, <2>1
    <3>2. Scope[picks[i]].session # Scope[picks[j]].session
      BY <3>1 DEF SessionExclusive
    <3> QED
      BY <1>2, <1>3, <3>2
  <2> QED
    BY <2>1 DEF OneMemberPerSession
<1>7. MembersOwnTheirRow'
  <2>1. ASSUME NEW i \in Members'
        PROVE  /\ Owned(batch[i].task)'
               /\ (tasks[batch[i].task].attempts = batch[i].attempt)'
               /\ (tasks[batch[i].task].exhausted = batch[i].final)'
    BY <1>2, <1>3, <1>4 DEF Leased, Owned
  <2> QED
    BY <2>1 DEF MembersOwnTheirRow
<1>8. n = 0 => Members' = {}
  BY <1>2
<1> QED
  BY <1>2, <1>3, <1>6, <1>7, <1>8

LEMMA InitAwaitInv == Init => AwaitInv
<1> SUFFICES ASSUME Init PROVE AwaitInv
  OBVIOUS
<1>1. Members = {} /\ orphans = {}
  BY DEF Init, Members, NoBatch
<1> QED
  BY <1>1, InitWorkerInv
     DEF AwaitInv, BatchIsAwaited, CancelledTogether, OrphansAreCancelled,
         OneMemberPerSession, MembersOwnTheirRow

\* What AwaitInv adds to WorkerInv.
Awaited ==
    /\ BatchIsAwaited /\ CancelledTogether /\ OrphansAreCancelled
    /\ OneMemberPerSession /\ MembersOwnTheirRow

\* A step of the awaited batch.
LEMMA BatchStepKeepsAwaited ==
    ASSUME AwaitInv, TypeOK', NEW i \in 1 .. Batch,
           BatchCommit(i) \/ BatchRaise(i) \/ BatchRevoke(i)
    PROVE  Awaited'
<1>0. i \in Members /\ batch[i] \in Execution /\ batch[i].task \in Tasks
  BY MembersAreExecutions DEF AwaitInv, WorkerInv, BatchCommit, BatchRaise, BatchRevoke, Execution
<1>1. /\ TypeOK /\ StoreTypeOK
      /\ phase \in {"busy", "draining", "cancelling"}
      /\ \A j \in Members : batch[j] \in Execution /\ batch[j].task \in Tasks
      /\ faults \in Nat
  BY <1>0, MembersAreExecutions, WorkerAssumption
     DEF AwaitInv, WorkerInv, TypeOK, BatchIsAwaited, Execution
<1>2. faults = 0 => orphans = {}
  BY <1>1 DEF AwaitInv, OrphansAreCancelled
<1>3. CASE BatchRaise(i)
  <2>1. batch' = NoBatch
    BY <1>3 DEF BatchRaise, Aborts
  <2>2. faults' # 0
    BY <1>0, <1>1, <1>3 DEF BatchRaise, Raises, AwaitInv, MembersOwnTheirRow
  <2>3. OrphansAreCancelled'
    BY <2>2 DEF OrphansAreCancelled
  <2> QED
    BY <2>1, <2>3, EmptyBatch, NobodyAwaited DEF Awaited
<1>4. CASE BatchCommit(i) /\ WasCancelled(batch[i])
  <2>1. batch' = NoBatch
    BY <1>4 DEF BatchCommit, Aborts
  <2>2. phase = "cancelling" /\ \A j \in Members : batch[j].stage = "cancelled"
    BY <1>0, <1>4 DEF WasCancelled, AwaitInv, CancelledTogether
  <2>3. phase' = "closing" /\ faults' = faults
    BY <1>4, <2>2 DEF BatchCommit, Aborts, LoopTop, Up
  <2>4. faults = 0 => \A e \in orphans' : e.stage = "cancelled"
    BY <1>2, <1>4, <2>2 DEF BatchCommit, Aborts
  <2>5. OrphansAreCancelled'
    BY <2>3, <2>4 DEF OrphansAreCancelled
  <2> QED
    BY <2>1, <2>5, EmptyBatch, NobodyAwaited DEF Awaited
<1>5. CASE BatchCommit(i) /\ ~WasCancelled(batch[i])
  <2>1. /\ Commits(batch[i]) /\ faults' = faults /\ orphans' = orphans
        /\ batch' = [batch EXCEPT ![i] = Idle]
        /\ phase' = IF Members # {i} THEN phase ELSE LoopTop
    BY <1>5 DEF BatchCommit, Leaves
  <2>2. /\ Members' = Members \ {i}
        /\ \A j \in Members' : batch'[j] = batch[j]
    BY <1>0, <1>1, <2>1 DEF Members, TypeOK
  <2>3. OrphansAreCancelled'
    BY <1>2, <2>1 DEF OrphansAreCancelled
  <2>4. CASE Members = {i}
    BY <2>2, <2>3, <2>4, NobodyAwaited DEF Awaited
  <2>5. CASE Members # {i}
    <3>1. ASSUME NEW j \in Members', faults = 0 PROVE SameLease(batch[j].task)
      <4>1. j \in Members /\ j # i
        BY <2>2
      <4>2. batch[j].task # batch[i].task
        BY <1>0, <4>1 DEF AwaitInv, OneMemberPerSession
      <4>3. tasks'[batch[j].task] = tasks[batch[j].task]
        BY <1>0, <1>1, <2>1, <4>1, <4>2, OtherTasksKeepRow
      <4> QED
        BY <3>1, <4>1, <4>3 DEF AwaitInv, MembersOwnTheirRow, SameLease, Owned
    <3>2. OneMemberPerSession' /\ MembersOwnTheirRow'
      BY <2>1, <2>2, <3>1, MembersKeepRows
    <3>3. BatchIsAwaited' /\ CancelledTogether'
      BY <1>1, <2>1, <2>2, <2>5 DEF AwaitInv, BatchIsAwaited, CancelledTogether
    <3> QED
      BY <2>3, <3>2, <3>3 DEF Awaited
  <2> QED
    BY <2>4, <2>5
<1>6. CASE BatchRevoke(i)
  <2> DEFINE e == [batch[i] EXCEPT !.stage = "revoked"]
  <2>1. /\ MayRevoke(batch[i]) /\ CancelPendingOfChat(Scope[batch[i].task].chat)
        /\ batch' = [batch EXCEPT ![i] = e]
        /\ faults' = faults /\ orphans' = orphans /\ phase' = phase
    BY <1>6 DEF BatchRevoke
  <2>2. /\ e \in Execution /\ e # Idle
        /\ e.task = batch[i].task /\ e.attempt = batch[i].attempt /\ e.final = batch[i].final
        /\ e.stage = "revoked"
    BY <1>0, StageChanges, ExecutionIsNotIdle DEF Execution
  <2> HIDE DEF e
  <2>3. /\ Members' = Members
        /\ batch'[i] = e /\ \A j \in Members : j # i => batch'[j] = batch[j]
    BY <1>0, <1>1, <2>1, <2>2 DEF Members, TypeOK
  <2>4. ASSUME NEW j \in Members, faults = 0 PROVE SameLease(batch[j].task)
    <3>1. Owned(batch[j].task)
      BY <2>4 DEF AwaitInv, MembersOwnTheirRow
    <3> QED
      BY <1>1, <2>1, <3>1, BystandersKeepLease
  <2>5. OneMemberPerSession' /\ MembersOwnTheirRow'
    BY <2>1, <2>2, <2>3, <2>4, MembersKeepRows
  <2>6. phase # "cancelling"
    BY <1>0, <2>1 DEF MayRevoke, AwaitInv, CancelledTogether
  <2>7. BatchIsAwaited' /\ CancelledTogether'
    BY <1>1, <2>1, <2>2, <2>3, <2>6 DEF AwaitInv, BatchIsAwaited, CancelledTogether
  <2>8. OrphansAreCancelled'
    BY <1>2, <2>1 DEF OrphansAreCancelled
  <2> QED
    BY <2>5, <2>7, <2>8 DEF Awaited
<1> QED
  BY <1>3, <1>4, <1>5, <1>6

\* Any other step of the process.
LEMMA OthersKeepAwaited ==
    ASSUME AwaitInv, WorkerInv', faults' \in Nat,
           \/ \E t \in Tasks : Receive(t) \/ TimePasses(t)
           \/ BeginDrain \/ SendRaises \/ RunOnce
           \/ \E e \in orphans : OrphanCommit(e) \/ OrphanRaise(e) \/ OrphanRevoke(e)
           \/ Stop \/ DrainDeadline \/ Close \/ Crash \/ Start \/ UNCHANGED vars
    PROVE  Awaited'
<1>0. /\ TypeOK /\ StoreTypeOK /\ faults \in Nat /\ WorkerInv'
      /\ \A j \in Members : batch[j] \in Execution /\ batch[j].task \in Tasks
  BY MembersAreExecutions, WorkerAssumption DEF AwaitInv, WorkerInv, TypeOK, Execution
<1>1. CASE \E t \in Tasks : Receive(t) \/ TimePasses(t)
  <2>1. procVars' = procVars /\ \E t \in Tasks : Admit(t) \/ TimePasses(t)
    BY <1>1 DEF Receive, TimePasses
  <2>2. Members' = Members /\ batch' = batch /\ faults' = faults /\ phase' = phase
    BY <2>1 DEF procVars, Members
  <2>3. ASSUME NEW j \in Members, faults = 0 PROVE SameLease(batch[j].task)
    <3>1. Owned(batch[j].task)
      BY <2>3 DEF AwaitInv, MembersOwnTheirRow
    <3> QED
      BY <1>0, <2>1, <3>1, BystandersKeepLease
  <2>4. OneMemberPerSession' /\ MembersOwnTheirRow'
    BY <2>2, <2>3, MembersKeepRows
  <2>5. BatchIsAwaited' /\ CancelledTogether' /\ OrphansAreCancelled'
    BY <2>1, <2>2
       DEF procVars, AwaitInv, BatchIsAwaited, CancelledTogether, OrphansAreCancelled
  <2> QED
    BY <2>4, <2>5 DEF Awaited
<1>2. CASE BeginDrain \/ SendRaises \/ Start \/ (Stop /\ phase # "busy")
  <2>1. Members = {} /\ batch' = batch /\ orphans' = orphans
    BY <1>2 DEF BeginDrain, SendRaises, Start, Stop, AwaitInv, BatchIsAwaited
  <2>2. \/ faults' = faults /\ phase \in {"idle", "sending", "down"}
        \/ faults' = faults + 1
    BY <1>2 DEF BeginDrain, SendRaises, Start, Stop
  <2>3. OrphansAreCancelled'
    BY <1>0, <2>1, <2>2 DEF AwaitInv, OrphansAreCancelled
  <2>4. Members' = {}
    BY <2>1 DEF Members
  <2> QED
    BY <2>3, <2>4, NobodyAwaited DEF Awaited
<1>3. CASE Stop /\ phase = "busy"
  <2>1. /\ storeVars' = storeVars /\ batch' = batch /\ orphans' = orphans
        /\ faults' = faults /\ phase' = "draining" /\ Members' = Members
    BY <1>3 DEF Stop, Members
  <2>2. OneMemberPerSession' /\ MembersOwnTheirRow'
    BY <2>1 DEF AwaitInv, OneMemberPerSession, MembersOwnTheirRow, Owned, storeVars
  <2>3. BatchIsAwaited' /\ CancelledTogether' /\ OrphansAreCancelled'
    BY <1>3, <2>1
       DEF AwaitInv, BatchIsAwaited, CancelledTogether, OrphansAreCancelled
  <2> QED
    BY <2>2, <2>3 DEF Awaited
<1>4. CASE RunOnce
  <2>1. Members = {} /\ orphans' = orphans /\ faults' = faults
        /\ phase \in {"sending", "stopSending"}
    BY <1>4 DEF RunOnce, AwaitInv, BatchIsAwaited
  <2>2. PICK n \in 0 .. Batch : \E picks \in [1 .. n -> Tasks] :
          /\ LeaseTasks(n, picks)
          /\ batch' = [i \in 1 .. Batch |-> IF i <= n THEN Executed(picks[i]) ELSE Idle]
          /\ phase' = IF n = 0 THEN LoopTop
                      ELSE IF phase = "sending" THEN "busy" ELSE "draining"
    BY <1>4 DEF RunOnce
  <2>3. PICK picks \in [1 .. n -> Tasks] :
          /\ LeaseTasks(n, picks)
          /\ batch' = [i \in 1 .. Batch |-> IF i <= n THEN Executed(picks[i]) ELSE Idle]
          /\ phase' = IF n = 0 THEN LoopTop
                      ELSE IF phase = "sending" THEN "busy" ELSE "draining"
    BY <2>2
  <2>4. SessionExclusive' /\ StoreTypeOK'
    BY <1>0 DEF WorkerInv, StoreInv
  <2>5. /\ n = 0 => Members' = {}
        /\ OneMemberPerSession' /\ MembersOwnTheirRow'
        /\ \A i \in Members' : batch'[i].stage = "running"
    BY <1>0, <2>3, <2>4, BatchStartsApart
  <2>6. OrphansAreCancelled'
    BY <2>1 DEF AwaitInv, OrphansAreCancelled
  <2>7. BatchIsAwaited' /\ CancelledTogether'
    BY <2>3, <2>5 DEF BatchIsAwaited, CancelledTogether
  <2> QED
    BY <2>5, <2>6, <2>7 DEF Awaited
<1>5. ASSUME NEW e \in orphans, OrphanCommit(e) \/ OrphanRaise(e) \/ OrphanRevoke(e)
      PROVE  Awaited'
  <2>1. batch' = batch /\ phase' = phase /\ Members' = Members
    BY <1>5 DEF OrphanCommit, OrphanRaise, OrphanRevoke, Members
  <2>2. OneMemberPerSession' /\ BatchIsAwaited' /\ CancelledTogether'
    BY <2>1 DEF AwaitInv, OneMemberPerSession, BatchIsAwaited, CancelledTogether
  <2>3. faults' = 0 => faults = 0
    BY <1>0, <1>5 DEF OrphanCommit, OrphanRaise, OrphanRevoke, Raises
  <2>4. faults = 0 => Members = {} /\ phase = "closing" /\ e.stage = "cancelled"
    BY DEF AwaitInv, OrphansAreCancelled, BatchIsAwaited
  <2>5. MembersOwnTheirRow'
    BY <2>1, <2>3, <2>4 DEF MembersOwnTheirRow
  <2>6. faults = 0 => orphans' \subseteq orphans
    BY <1>5, <2>4 DEF OrphanCommit, OrphanRaise, OrphanRevoke, MayRevoke
  <2>7. OrphansAreCancelled'
    BY <2>1, <2>3, <2>6 DEF AwaitInv, OrphansAreCancelled
  <2> QED
    BY <2>2, <2>5, <2>7 DEF Awaited
<1>6. CASE DrainDeadline
  <2>1. /\ storeVars' = storeVars /\ orphans' = orphans /\ faults' = faults
        /\ phase \in {"stopSending", "draining"}
        /\ phase' = IF phase = "draining" THEN "cancelling" ELSE "closing"
        /\ batch' = [i \in 1 .. Batch |->
                        IF i \in Members THEN [batch[i] EXCEPT !.stage = "cancelled"]
                        ELSE Idle]
    BY <1>6 DEF DrainDeadline
  <2>2. Members' \subseteq Members
    BY <2>1 DEF Members
  <2>3. ASSUME NEW i \in Members'
        PROVE  /\ batch'[i].task = batch[i].task
               /\ batch'[i].attempt = batch[i].attempt
               /\ batch'[i].final = batch[i].final
               /\ batch'[i].stage = "cancelled"
    <3>1. i \in Members /\ i \in 1 .. Batch /\ batch[i] \in Execution
      BY <1>0, <2>2 DEF Members
    <3>2. batch'[i] = [batch[i] EXCEPT !.stage = "cancelled"]
      BY <2>1, <3>1
    <3> QED
      BY <3>1, <3>2 DEF Execution
  <2>4. ASSUME NEW i \in Members', faults = 0 PROVE SameLease(batch[i].task)
    BY <2>1, <2>2, <2>4 DEF AwaitInv, MembersOwnTheirRow, Owned, SameLease, storeVars
  <2>5. OneMemberPerSession' /\ MembersOwnTheirRow'
    BY <2>1, <2>2, <2>3, <2>4, MembersKeepRows
  <2>6. phase = "stopSending" => Members' = {}
    BY <2>2 DEF AwaitInv, BatchIsAwaited
  <2>7. BatchIsAwaited' /\ CancelledTogether'
    BY <2>1, <2>3, <2>6 DEF BatchIsAwaited, CancelledTogether
  <2>8. OrphansAreCancelled'
    BY <2>1 DEF AwaitInv, OrphansAreCancelled
  <2> QED
    BY <2>5, <2>7, <2>8 DEF Awaited
<1>7. CASE Close \/ Crash
  <2>1. batch' = NoBatch /\ orphans' = {}
    BY <1>7 DEF Close, Crash, Exit
  <2>2. OrphansAreCancelled'
    BY <2>1 DEF OrphansAreCancelled
  <2> QED
    BY <2>1, <2>2, EmptyBatch, NobodyAwaited DEF Awaited
<1>8. CASE UNCHANGED vars
  BY <1>8
     DEF vars, storeVars, procVars, Members, Awaited, AwaitInv, BatchIsAwaited,
         CancelledTogether, OrphansAreCancelled, OneMemberPerSession,
         MembersOwnTheirRow, Owned
<1> QED
  BY <1>1, <1>2, <1>3, <1>4, <1>5, <1>6, <1>7, <1>8

LEMMA StepAwaitInv == AwaitInv /\ [Next]_vars => AwaitInv'
<1> SUFFICES ASSUME AwaitInv, [Next]_vars PROVE AwaitInv'
  OBVIOUS
<1>1. WorkerInv' /\ TypeOK'
  BY StepWorkerInv DEF AwaitInv, WorkerInv
<1>2. faults' \in Nat
  BY <1>1, WorkerAssumption DEF TypeOK
<1>3. Awaited'
  <2>1. CASE \E i \in 1 .. Batch : BatchCommit(i) \/ BatchRaise(i) \/ BatchRevoke(i)
    BY <1>1, <2>1, BatchStepKeepsAwaited
  <2> QED
    BY <1>1, <1>2, <2>1, OthersKeepAwaited DEF Next
<1> QED
  BY <1>1, <1>3 DEF AwaitInv, Awaited

\* The batch is awaited to its end as long as storage does not fail: nobody
\* moves the row of a coroutine behind its back (V3Gateway._run, run_once).
THEOREM AwaitInvariant == Spec => []AwaitInv
BY InitAwaitInv, StepAwaitInv, PTL DEF Spec

\* Every awaited coroutine holds the lease it was started under
\* (DurableTaskWorker._execute, revoke_chat_access).
THEOREM MembersOwnRows == Spec => []MembersOwnTheirRow
BY AwaitInvariant, PTL DEF AwaitInv

\* One running coroutine per SessionKey, although leases are not renewed and
\* may expire under a running handler (DurableTaskWorker.run_once).
THEOREM OneCoroutinePerSession == Spec => []OneRunPerSession
<1>1. AwaitInv => OneRunPerSession
  <2> SUFFICES ASSUME AwaitInv, faults = 0
               PROVE  /\ ActiveOrphans = {}
                      /\ \A i, j \in ActiveMembers :
                            i # j => Scope[batch[i].task].session # Scope[batch[j].task].session
    BY DEF OneRunPerSession
  <2>1. ActiveOrphans = {}
    BY DEF AwaitInv, OrphansAreCancelled, ActiveOrphans
  <2> QED
    BY <2>1 DEF AwaitInv, OneMemberPerSession, ActiveMembers
<1> QED
  BY <1>1, AwaitInvariant, PTL

\* A finalization lease ends in the failure outcome of the handler, or is
\* handed back or reclaimed (lease_tasks, _execute with recovery_error_code).
LEMMA CommitOfFinalization ==
    ASSUME StoreTypeOK, NEW e \in Execution, Commits(e), NEW t \in Tasks,
           tasks[t].state = "leased",
           t = e.task => e.final \/ e.stage = "cancelled"
    PROVE  tasks'[t].state \in {"leased", "pending", "failed"}
<1>1. CASE t # e.task
  BY <1>1, OtherTasksKeepRow
<1>2. CASE t = e.task
  <2>1. MayFinish(e) \subseteq {"failed"}
    BY <1>2 DEF MayFinish
  <2>2. \/ FinishTask(t, "failed") \/ RetryTask(t)
        \/ \E due \in BOOLEAN : DeferTask(t, due)
    BY <1>2, <2>1 DEF Commits
  <2>3. tasks[t] \in Row
    BY DEF StoreTypeOK
  <2>4. CASE FinishTask(t, "failed")
    BY <2>3, <2>4 DEF FinishTask, StoreTypeOK, Row
  <2>5. CASE RetryTask(t)
    BY <2>3, <2>5 DEF RetryTask, StoreTypeOK, Row
  <2>6. ASSUME NEW due \in BOOLEAN, DeferTask(t, due)
        PROVE  tasks'[t].state = "pending"
    BY <2>3, <2>6 DEF DeferTask, StoreTypeOK, Row
  <2> QED
    BY <2>2, <2>4, <2>5, <2>6
<1> QED
  BY <1>1, <1>2

\* No result of a handler is recorded for a task whose attempts are used up
\* and whose failure is owed (lease_tasks, DurableTaskWorker._execute).
THEOREM FinalizationsFail == Spec => FinalizationOnlyFails
<1> DEFINE Ends(t) == faults = 0 /\ tasks[t].state = "leased" /\ tasks[t].exhausted
                      => tasks'[t].state \in {"leased", "pending", "failed"}
<1>1. ASSUME AwaitInv, [Next]_vars, NEW t \in Tasks PROVE Ends(t)
  <2> SUFFICES ASSUME faults = 0, Owned(t), tasks[t].exhausted
               PROVE  tasks'[t].state \in {"leased", "pending", "failed"}
    BY DEF Owned
  <2>0. TypeOK /\ StoreTypeOK /\ tasks[t] \in Row
    BY <1>1 DEF AwaitInv, WorkerInv, TypeOK, StoreTypeOK
  <2>1. CASE \/ \E u \in Tasks : Admit(u) \/ TimePasses(u)
             \/ \E chat : CancelPendingOfChat(chat)
    BY <2>0, <2>1, BystandersKeepLease DEF SameLease
  <2>2. ASSUME NEW i \in 1 .. Batch, BatchCommit(i)
        PROVE  tasks'[t].state \in {"leased", "pending", "failed"}
    <3>1. i \in Members /\ batch[i] \in Execution /\ Commits(batch[i])
      BY <2>0, <2>2, MembersAreExecutions DEF BatchCommit
    <3>2. t = batch[i].task => batch[i].final
      BY <1>1, <3>1 DEF AwaitInv, MembersOwnTheirRow
    <3> QED
      BY <2>0, <3>1, <3>2, CommitOfFinalization DEF Owned
  <2>3. ASSUME NEW e \in orphans, OrphanCommit(e)
        PROVE  tasks'[t].state \in {"leased", "pending", "failed"}
    <3>1. e \in Execution /\ Commits(e) /\ e.stage = "cancelled"
      BY <1>1, <2>0, <2>3 DEF OrphanCommit, AwaitInv, OrphansAreCancelled, TypeOK
    <3> QED
      BY <2>0, <3>1, CommitOfFinalization DEF Owned
  <2>4. ASSUME NEW n \in 0 .. Batch, NEW picks \in [1 .. n -> Tasks], LeaseTasks(n, picks)
        PROVE  tasks'[t].state \in {"leased", "pending", "failed"}
    <3>1. tasks'[t] = Reclaimed[t] \/ tasks'[t] = Grant(Reclaimed[t])
      BY <2>0, <2>4, RowOfSelection
    <3>2. Reclaimed[t].state \in {"leased", "pending"} /\ Reclaimed[t] \in Row
      BY <2>0, ReclaimedIsTyped DEF Reclaimed, Row, Owned
    <3> QED
      BY <3>1, <3>2, GrantIsLeased
  <2>5. CASE UNCHANGED storeVars
    BY <2>5 DEF storeVars, Owned
  <2> QED
    BY <1>1, <2>1, <2>2, <2>3, <2>4, <2>5
       DEF Next, Receive, BeginDrain, SendRaises, RunOnce, BatchRaise, BatchRevoke,
           OrphanRaise, OrphanRevoke, Raises, Stop, DrainDeadline, Close, Crash, Exit,
           Start, vars
<1>2. AwaitInv /\ [Next]_vars => [\A t \in Tasks : Ends(t)]_vars
  BY <1>1
<1> QED
  BY <1>2, AwaitInvariant, PTL DEF Spec, FinalizationOnlyFails
=============================================================================
