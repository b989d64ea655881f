------------------------------- MODULE AgentRun -------------------------------
(***************************************************************************)
(* The agent runs of one mention task: the Harness loop                    *)
(* (runtime/harness.py), the run, checkpoint and control rows it keeps     *)
(* (storage/session_store.py, storage/runtime_store.py), the tool executor *)
(* with its idempotency journal (runtime/tools.py), approvals              *)
(* (runtime/approvals.py), and the handler that starts, resumes and        *)
(* settles an attempt (capabilities/im/task_handler.py).                   *)
(*                                                                         *)
(* The root run may delegate to child runs.  A child's runtime_runs row    *)
(* carries the task id of its parent and its harness has no control inbox  *)
(* (runtime/delegation.py, bootstrap/gateway.py).                          *)
(*                                                                         *)
(* One tool is called per turn, with one argument value, so that a run and *)
(* a tool name an operation key.  Time is kept as what the code compares:  *)
(* an approval is overdue, a claim has lapsed, a budget has run out.       *)
(***************************************************************************)
EXTENDS Naturals

CONSTANTS
    Root,          \* the run of the task
    Children,      \* the runs it can delegate to
    ToolsOf,       \* ToolsOf[r]: the writing tools in the definition of run r
    Destructive,   \* the tools whose calls need an approval
    Steers,        \* controls that add a message to the journal
    Cancels,       \* controls that cancel or interrupt the run
    MaxAttempts,   \* max_attempts of the task
    MaxCalls       \* MaxCalls[r]: maximum of the tool_calls budget of run r

Runs == {Root} \union Children
Controls == Steers \union Cancels
Writes == UNION {{r} \X ToolsOf[r] : r \in Runs}

ASSUME RunsAssumption == Root \notin Children
ASSUME ControlsAssumption == Steers \intersect Cancels = {}
ASSUME BoundsAssumption ==
    MaxAttempts \in Nat \ {0} /\ MaxCalls \in [Runs -> Nat]

VARIABLES
    task,       \* state of the runtime_tasks row
    attempts,   \* its attempt_count
    run,        \* run[r]: status of the runtime_runs row of r
    control,    \* control[c]: state of the runtime_run_controls row
    saved,      \* saved[r]: the checkpoint row of r
    approval,   \* approval[k]: the runtime_approvals row; overdue is pending, past its expiry
    claim,      \* claim[k]: the runtime_idempotency row
    sent,       \* sent[k]: how often the tool sent the write
    landed,     \* the writes that reached the service
    forgotten,  \* history: the writes whose idempotency row was collected
    at,         \* at[r]: where the coroutine of the run is
    mem,        \* mem[r]: its local variables
    call,       \* call[r]: <<r, tool>> or <<r, child>> under way, or <<>>
    discarded   \* history: a checkpoint was discarded as stale

rows == <<task, attempts, run, control, saved>>
journal == <<approval, claim, sent, landed, forgotten>>
process == <<at, mem, call>>
vars == <<rows, journal, process, discarded>>

Ended == {"completed", "failed", "cancelled"}
TaskEnded == {"succeeded", "failed", "cancelled"}
ToolPlaces == {"call", "claim", "reconcile", "execute", "wire", "verify", "wait"}
Places == {"off", "poll", "model", "answer", "save", "acknowledge", "cancel",
           "fail", "closed"} \union ToolPlaces

\* What a checkpoint keeps of the local variables of a run.
Kept == [applied : SUBSET Controls,   \* applied_control_ids
         unresolved : BOOLEAN,        \* unresolved_external_effects is not empty
         verified : BOOLEAN,          \* verified_effects is not empty
         used : Nat]        \* consumed tool_calls
Fresh == [applied |-> {}, unresolved |-> FALSE, verified |-> FALSE, used |-> 0]

TypeOK ==
    /\ task \in {"pending", "leased"} \union TaskEnded
    /\ attempts \in 0 .. MaxAttempts
    /\ run \in [Runs -> {"none", "running"} \union Ended]
    /\ control \in [Controls -> {"none", "pending", "applied", "superseded"}]
    /\ saved \in [Runs -> [exists : BOOLEAN, kept : Kept]]
    /\ approval \in [Writes -> {"none", "pending", "overdue", "approved", "rejected", "expired"}]
    /\ claim \in [Writes -> [state : {"none", "claimed", "reconciliation_required", "completed"},
                             live : BOOLEAN]]
    /\ sent \in [Writes -> Nat]
    /\ landed \subseteq Writes
    /\ forgotten \subseteq Writes
    /\ at \in [Runs -> Places]
    /\ \A r \in Runs : saved[r].kept.used <= MaxCalls[r] /\ mem[r].kept.used <= MaxCalls[r]
    /\ mem \in [Runs -> [kept : Kept, acks : SUBSET Controls, stop : BOOLEAN]]
    /\ call \in [Runs -> Writes \union (Runs \X Children) \union {<<>>}]
    /\ discarded \in BOOLEAN

NoMemory == [kept |-> Fresh, acks |-> {}, stop |-> FALSE]

Init ==
    /\ task = "pending" /\ attempts = 0
    /\ run = [r \in Runs |-> "none"]
    /\ control = [c \in Controls |-> "none"]
    /\ saved = [r \in Runs |-> [exists |-> FALSE, kept |-> Fresh]]
    /\ approval = [k \in Writes |-> "none"]
    /\ claim = [k \in Writes |-> [state |-> "none", live |-> FALSE]]
    /\ sent = [k \in Writes |-> 0] /\ landed = {} /\ forgotten = {}
    /\ at = [r \in Runs |-> "off"] /\ mem = [r \in Runs |-> NoMemory]
    /\ call = [r \in Runs |-> <<>>]
    /\ discarded = FALSE

Pending == {c \in Controls : control[c] = "pending"}

Goes(r, place) == at' = [at EXCEPT ![r] = place]
Remembers(r, m) == mem' = [mem EXCEPT ![r] = m]

-----------------------------------------------------------------------------
(***************************************************************************)
(* The control inbox.                                                      *)
(***************************************************************************)

\* admit_control: the mention becomes a control of the task, as long as the
\* task has not ended and it has no run yet or some run of its is running.
AdmitControl(c) ==
    /\ control[c] = "none"
    /\ task \in {"pending", "leased"}
    /\ (\A r \in Runs : run[r] = "none") \/ (\E r \in Runs : run[r] = "running")
    /\ control' = [control EXCEPT ![c] = "pending"]
    /\ UNCHANGED <<task, attempts, run, saved, journal, process, discarded>>

\* _apply_controls: the run hears what is pending, and is told to stop by a
\* cancel it had not heard.  A child has no inbox.
Heard(r, m) ==
    IF r # Root THEN m
    ELSE [m EXCEPT !.kept.applied = @ \union Pending,
                   !.acks = @ \union Pending,
                   !.stop = @ \/ (Pending \ m.kept.applied) \intersect Cancels # {}]

\* The UPDATE of acknowledge_controls.
Acknowledged(ids) ==
    [c \in Controls |-> IF control[c] = "pending" /\ c \in ids THEN "applied" ELSE control[c]]

\* Mutant: the root does not look for controls that are still pending.
TryFinish_PendingIgnored(r, status, ids) ==
    /\ run[r] = "running"
    /\ control' = Acknowledged(ids)
    /\ run' = [run EXCEPT ![r] = status] /\ Goes(r, "closed")

\* try_finish_with_outcome, one transaction: it declines to complete while a
\* control of the task is pending, and drops such controls otherwise.
TryFinish(r, status, ids) ==
    LET left == Pending \ ids
    IN  /\ run[r] = "running"
        /\ IF left # {} /\ status = "completed"
           THEN /\ control' = Acknowledged(ids)
                /\ UNCHANGED run /\ Goes(r, "poll")
           ELSE /\ control' = [c \in Controls |->
                                 IF c \in left THEN "superseded" ELSE Acknowledged(ids)[c]]
                /\ run' = [run EXCEPT ![r] = status] /\ Goes(r, "closed")

-----------------------------------------------------------------------------
(***************************************************************************)
(* Attempts of the task.                                                   *)
(***************************************************************************)

\* lease_tasks, and the handler up to the state of the run.
Lease ==
    /\ task = "pending" /\ attempts < MaxAttempts
    /\ task' = "leased" /\ attempts' = attempts + 1
    /\ UNCHANGED <<run, control, saved, journal, process, discarded>>

\* Harness.run without resume: start_run.
Starts(r) ==
    /\ run[r] = "none"
    /\ run' = [run EXCEPT ![r] = "running"]
    /\ Remembers(r, NoMemory)
    /\ UNCHANGED <<control, saved, discarded>>

\* Mutant: the unresolved effects are not restored.
ResumesSaved_EffectsForgotten(r) ==
    /\ run[r] = "running"
    /\ Remembers(r, [NoMemory EXCEPT !.kept = [saved[r].kept EXCEPT !.unresolved = FALSE]])
    /\ control' = IF r = Root THEN Acknowledged(saved[r].kept.applied) ELSE control
    /\ UNCHANGED <<run, saved, discarded>>

\* Harness.run with resume: the checkpoint, if there is one, is restored and
\* its controls are acknowledged again.
ResumesSaved(r) ==
    /\ run[r] = "running"
    /\ Remembers(r, [NoMemory EXCEPT !.kept = saved[r].kept])
    /\ control' = IF r = Root THEN Acknowledged(saved[r].kept.applied) ELSE control
    /\ UNCHANGED <<run, saved, discarded>>

\* _validate_checkpoint fails, because the evidence or the definition changed.
ResumesStale(r) ==
    /\ run[r] = "running" /\ saved[r].exists
    /\ saved' = [saved EXCEPT ![r] = [exists |-> FALSE, kept |-> Fresh]]
    /\ discarded' = TRUE
    /\ Remembers(r, NoMemory)
    /\ UNCHANGED <<run, control>>

Enters(r) == Starts(r) \/ ResumesSaved(r) \/ ResumesStale(r)

Begin ==
    /\ task = "leased" /\ at[Root] = "off"
    /\ Enters(Root) /\ Goes(Root, "poll")
    /\ UNCHANGED <<task, attempts, journal, call>>

\* The handler finds the outcome of a run that has ended; it does not run it.
FindOutcome ==
    /\ task = "leased" /\ at[Root] = "off" /\ run[Root] \in Ended
    /\ Goes(Root, "closed")
    /\ UNCHANGED <<rows, journal, mem, call, discarded>>

AllOff ==
    /\ at' = [r \in Runs |-> "off"]
    /\ mem' = [r \in Runs |-> NoMemory]
    /\ call' = [r \in Runs |-> <<>>]

\* _result, and complete_with_outbox by the worker.
Settle ==
    /\ task = "leased" /\ at[Root] = "closed"
    /\ task' = IF run[Root] = "completed" THEN "succeeded" ELSE run[Root]
    /\ AllOff
    /\ UNCHANGED <<attempts, run, control, saved, journal, discarded>>

\* The attempt ends without an outcome: the process dies, the lease is lost or
\* an exception gets past the harness.  After the last attempt the worker
\* settles the task with the handler's failure result.
Abort ==
    /\ task = "leased"
    /\ task' = IF attempts < MaxAttempts THEN "pending" ELSE "failed"
    /\ AllOff
    /\ UNCHANGED <<attempts, run, control, saved, journal, discarded>>

-----------------------------------------------------------------------------
(***************************************************************************)
(* Turns of the harness loop.                                              *)
(***************************************************************************)

\* ContextEngine.build leaves optional evidence out and compacts the journal;
\* it raises ValueError when what is required is still too long.
Builds(r) == Goes(r, "model") \/ Goes(r, "fail")

\* The safe boundary that opens a turn; the model request follows it.
Poll(r) ==
    LET m == Heard(r, mem[r])
    IN  /\ at[r] = "poll"
        /\ Remembers(r, m)
        /\ IF m.stop THEN Goes(r, "cancel") ELSE Builds(r)
        /\ UNCHANGED <<rows, journal, call, discarded>>

\* The model answered; the run passes the safe boundary behind it.
Replies(r) == at[r] = "model" /\ Remembers(r, Heard(r, mem[r]))

ReplyStops(r) ==
    /\ Replies(r) /\ mem'[r].stop
    /\ Goes(r, "cancel") /\ UNCHANGED call

ReplyAnswers(r) ==
    /\ Replies(r) /\ ~mem'[r].stop
    /\ Goes(r, "answer") /\ UNCHANGED call

\* The calls a reply of the model can make.
Callable(r) == {k \in Writes : k[1] = r} \union (IF r = Root THEN {r} \X Children ELSE {})

\* Mutant: the budget is consumed without a look at its limit.
ReplyCalls_Unlimited(r) ==
    LET m == Heard(r, mem[r])
    IN  /\ at[r] = "model" /\ ~m.stop
        /\ \E k \in Callable(r) :
              /\ Remembers(r, [m EXCEPT !.kept.used = @ + 1])
              /\ Goes(r, "call") /\ call' = [call EXCEPT ![r] = k]

\* BudgetLedger.consume of the call.
Consumed(m) == [m EXCEPT !.kept.used = @ + 1]

\* consume raises ValueError when the budget is gone.
ReplyCalls(r) ==
    LET m == Heard(r, mem[r])
    IN  /\ at[r] = "model" /\ ~m.stop
        /\ \E k \in Callable(r) :
              IF m.kept.used < MaxCalls[r]
              THEN /\ Remembers(r, Consumed(m))
                   /\ Goes(r, "call") /\ call' = [call EXCEPT ![r] = k]
              ELSE Remembers(r, m) /\ Goes(r, "fail") /\ UNCHANGED call

Reply(r) ==
    /\ ReplyStops(r) \/ ReplyAnswers(r) \/ ReplyCalls(r)
    /\ UNCHANGED <<rows, journal, discarded>>

\* _outcome: only a delegated run must have a verified effect to show, and
\* only when it has a tool that writes.
Outcome(r) ==
    IF mem[r].kept.unresolved \/ (r # Root /\ ToolsOf[r] # {} /\ ~mem[r].kept.verified)
    THEN "failed" ELSE "completed"

\* Mutant: the controls are acknowledged before the checkpoint has them.
Answer_AcknowledgesFirst(r) ==
    /\ at[r] = "answer"
    /\ \/ /\ mem[r].acks # {}
          /\ Goes(r, "acknowledge") /\ UNCHANGED <<run, control>>
       \/ /\ mem[r].acks = {}
          /\ TryFinish(r, Outcome(r), {})
    /\ UNCHANGED <<task, attempts, saved, journal, mem, call, discarded>>

\* A reply without a tool call.  Controls that were just heard make it a turn
\* like any other; otherwise the run tries to close.
Answer(r) ==
    /\ at[r] = "answer"
    /\ \/ /\ mem[r].acks # {}
          /\ Goes(r, "save") /\ UNCHANGED <<run, control>>
       \/ /\ mem[r].acks = {}
          /\ TryFinish(r, Outcome(r), {})
    /\ UNCHANGED <<task, attempts, saved, journal, mem, call, discarded>>

\* save_checkpoint.
Save(r) ==
    /\ at[r] = "save"
    /\ saved' = [saved EXCEPT ![r] = [exists |-> TRUE, kept |-> mem[r].kept]]
    /\ Goes(r, "acknowledge")
    /\ UNCHANGED <<task, attempts, run, control, journal, mem, call, discarded>>

\* acknowledge_controls, and the end of the turn.
Acknowledge(r) ==
    /\ at[r] = "acknowledge"
    /\ control' = Acknowledged(mem[r].acks)
    /\ Remembers(r, [mem[r] EXCEPT !.acks = {}]) /\ Goes(r, "poll")
    /\ UNCHANGED <<task, attempts, run, saved, journal, call, discarded>>

\* CancelledByPolicyError.
Cancel(r) ==
    /\ at[r] = "cancel" /\ TryFinish(r, "cancelled", mem[r].acks)
    /\ UNCHANGED <<task, attempts, saved, journal, mem, call, discarded>>

\* LookupError, ValueError, RuntimeError and an exhausted wall time.
Fail(r) ==
    /\ at[r] = "fail" /\ TryFinish(r, "failed", {})
    /\ UNCHANGED <<task, attempts, saved, journal, mem, call, discarded>>

ModelFails(r) ==
    /\ at[r] = "model" /\ Goes(r, "fail")
    /\ UNCHANGED <<rows, journal, mem, call, discarded>>

\* Mutant: only the wait for the model is charged.
WallTimeExpires_ModelOnly ==
    /\ at[Root] = "model" /\ Goes(Root, "fail")
    /\ UNCHANGED <<rows, journal, mem, call, discarded>>

\* The wall time of the root runs out while it waits for the model or for a
\* tool.  Leaving the tool cancels it, and a child with it.
WallTimeExpires ==
    /\ at[Root] \in {"model"} \union ToolPlaces
    /\ at' = [r \in Runs |-> IF r = Root THEN "fail" ELSE "off"]
    /\ call' = [r \in Runs |-> <<>>]
    /\ UNCHANGED <<rows, journal, mem, discarded>>

-----------------------------------------------------------------------------
(***************************************************************************)
(* Tool calls.  Verdict is the verification of the result: "verified",     *)
(* "unresolved" (a write without a verification) or "read".                *)
(***************************************************************************)

\* The tool result enters the journal, and the run passes a safe boundary.
Returns(r, verdict) ==
    LET m == Heard(r, [mem[r] EXCEPT
                 !.kept.verified = @ \/ verdict = "verified",
                 !.kept.unresolved = @ \/ verdict = "unresolved"])
    IN  /\ Remembers(r, m) /\ Goes(r, IF m.stop THEN "cancel" ELSE "save")
        /\ call' = [call EXCEPT ![r] = <<>>]

IsWrite(k) == k \in Writes
Key(r) == call[r]

\* Validation, policy, or the write scope refuse the call.
Refuse(r) ==
    /\ at[r] = "call"
    /\ Returns(r, IF IsWrite(Key(r)) THEN "unresolved" ELSE "read")
    /\ UNCHANGED <<rows, journal, discarded>>

Permit(r) ==
    /\ at[r] = "call" /\ IsWrite(Key(r)) /\ Key(r)[2] \notin Destructive
    /\ Goes(r, "claim")
    /\ UNCHANGED <<rows, journal, mem, call, discarded>>

\* The first request inserts the row and posts the card.  TaskDeferred is a
\* RuntimeError, for this request and for every one before the decision.
AskApproval(r) ==
    /\ approval[Key(r)] \in {"none", "pending"}
    /\ approval' = [approval EXCEPT ![Key(r)] = "pending"]
    /\ Goes(r, "fail") /\ call' = [call EXCEPT ![r] = <<>>]
    /\ UNCHANGED mem

ApprovalGranted(r) ==
    /\ approval[Key(r)] = "approved"
    /\ Goes(r, "claim") /\ UNCHANGED <<approval, mem, call>>

\* Mutant: a rejected request is taken for a decided one.
ApprovalRefused_NotRead(r) ==
    /\ approval[Key(r)] \in {"rejected", "expired", "overdue"}
    /\ approval' = [approval EXCEPT ![Key(r)] = IF @ = "overdue" THEN "expired" ELSE @]
    /\ Goes(r, "claim") /\ UNCHANGED <<mem, call>>

ApprovalRefused(r) ==
    /\ approval[Key(r)] \in {"rejected", "expired", "overdue"}
    /\ approval' = [approval EXCEPT ![Key(r)] = IF @ = "overdue" THEN "expired" ELSE @]
    /\ Returns(r, "unresolved")

\* ApprovalBroker.request and request_approval.
RequestApproval(r) ==
    /\ at[r] = "call" /\ IsWrite(Key(r)) /\ Key(r)[2] \in Destructive
    /\ AskApproval(r) \/ ApprovalGranted(r) \/ ApprovalRefused(r)
    /\ UNCHANGED <<rows, claim, sent, landed, forgotten, discarded>>

SetClaim(k, state, live) == claim' = [claim EXCEPT ![k] = [state |-> state, live |-> live]]

\* Mutant: a lapsed claim is taken over as if nothing had been executed.
ClaimLapsed_Fresh(r) ==
    /\ claim[Key(r)].state \in {"claimed", "reconciliation_required"} /\ ~claim[Key(r)].live
    /\ SetClaim(Key(r), "claimed", TRUE)
    /\ Goes(r, "execute") /\ UNCHANGED <<mem, call>>

ClaimFresh(r) ==
    /\ claim[Key(r)].state = "none"
    /\ SetClaim(Key(r), "claimed", TRUE)
    /\ Goes(r, "execute") /\ UNCHANGED <<mem, call>>

ClaimReplay(r) ==
    /\ claim[Key(r)].state = "completed"
    /\ Returns(r, "verified") /\ UNCHANGED claim

ClaimHeld(r) ==
    /\ claim[Key(r)].state \in {"claimed", "reconciliation_required"} /\ claim[Key(r)].live
    /\ Returns(r, "unresolved") /\ UNCHANGED claim

ClaimLapsed(r) ==
    /\ claim[Key(r)].state \in {"claimed", "reconciliation_required"} /\ ~claim[Key(r)].live
    /\ SetClaim(Key(r), "reconciliation_required", TRUE)
    /\ Goes(r, "reconcile") /\ UNCHANGED <<mem, call>>

\* _claim_write over claim_idempotency.
Claim(r) ==
    /\ at[r] = "claim"
    /\ ClaimFresh(r) \/ ClaimReplay(r) \/ ClaimHeld(r) \/ ClaimLapsed(r)
    /\ UNCHANGED <<rows, approval, sent, landed, forgotten, discarded>>

\* The tool looks for the effect; no tool says that it is safe to execute
\* again, so the write is not repeated.
Reconcile(r) ==
    /\ at[r] = "reconcile"
    /\ \/ /\ Key(r) \in landed
          /\ SetClaim(Key(r), "completed", claim[Key(r)].live) /\ Returns(r, "verified")
       \/ Returns(r, "unresolved") /\ UNCHANGED claim
    /\ UNCHANGED <<rows, approval, sent, landed, forgotten, discarded>>

\* tool.execute sends the write, or fails before it does.
Execute(r) ==
    /\ at[r] = "execute"
    /\ \/ /\ sent' = [sent EXCEPT ![Key(r)] = @ + 1]
          /\ Goes(r, "wire") /\ UNCHANGED <<mem, call>>
       \/ Returns(r, "unresolved") /\ UNCHANGED sent
    /\ UNCHANGED <<rows, approval, claim, landed, forgotten, discarded>>

\* The service makes the write, whether or not anybody still waits for it.
Land(k) ==
    /\ sent[k] > 0 /\ k \notin landed
    /\ landed' = landed \union {k}
    /\ UNCHANGED <<rows, approval, claim, sent, forgotten, process, discarded>>

\* tool.execute returns, or raises: a timeout, a lost answer.
Answered(r) ==
    /\ at[r] = "wire"
    /\ \/ Key(r) \in landed /\ Goes(r, "verify") /\ UNCHANGED <<mem, call>>
       \/ Returns(r, "unresolved")
    /\ UNCHANGED <<rows, journal, discarded>>

\* tool.verify, and complete_idempotency for a verified effect.
Verify(r) ==
    /\ at[r] = "verify"
    /\ \/ /\ SetClaim(Key(r), "completed", claim[Key(r)].live) /\ Returns(r, "verified")
       \/ Returns(r, "unresolved") /\ UNCHANGED claim
    /\ UNCHANGED <<rows, approval, sent, landed, forgotten, discarded>>

\* agent.delegate runs the child, or resumes it; the root waits.
Delegate ==
    LET c == call[Root][2]
    IN  /\ at[Root] = "call" /\ ~IsWrite(Key(Root))
        /\ Enters(c)
        /\ at' = [at EXCEPT ![Root] = "wait", ![c] = "poll"]
        /\ UNCHANGED <<task, attempts, journal, call>>

\* The child has ended, now or in an earlier attempt: an artifact or a
\* RuntimeError, and a tool result without an effect either way.
ChildEnds ==
    /\ at[Root] \in {"call", "wait"} /\ ~IsWrite(Key(Root))
    /\ run[call[Root][2]] \in Ended
    /\ Returns(Root, "read")
    /\ UNCHANGED <<rows, journal, discarded>>

-----------------------------------------------------------------------------
(***************************************************************************)
(* The requester and the clock.                                            *)
(***************************************************************************)

\* decide_approval by the requester; a decision that comes late expires.
Decide(k) ==
    /\ \/ approval[k] = "pending"
          /\ \E d \in {"approved", "rejected"} : approval' = [approval EXCEPT ![k] = d]
       \/ approval[k] = "overdue" /\ approval' = [approval EXCEPT ![k] = "expired"]
    /\ UNCHANGED <<rows, claim, sent, landed, forgotten, process, discarded>>

ApprovalLapses(k) ==
    /\ approval[k] = "pending" /\ approval' = [approval EXCEPT ![k] = "overdue"]
    /\ UNCHANGED <<rows, claim, sent, landed, forgotten, process, discarded>>

\* expires_at_ms of a claim passes; its run may still be working.
ClaimLapses(k) ==
    /\ claim[k].state # "none" /\ claim[k].live
    /\ SetClaim(k, claim[k].state, FALSE)
    /\ UNCHANGED <<rows, approval, sent, landed, forgotten, process, discarded>>

\* garbage_collect, for which the Gateway has to be stopped, deletes a row of
\* the journal once it has expired, whatever its state.
CollectClaim(k) ==
    /\ \A r \in Runs : at[r] = "off"
    /\ claim[k].state # "none" /\ ~claim[k].live
    /\ SetClaim(k, "none", FALSE)
    /\ forgotten' = forgotten \union {k}
    /\ UNCHANGED <<rows, approval, sent, landed, process, discarded>>

-----------------------------------------------------------------------------
Turn(r) ==
    Poll(r) \/ Answer(r) \/ Save(r) \/ Acknowledge(r) \/ Cancel(r) \/ Fail(r)

ToolCall(r) ==
    \/ Refuse(r) \/ Permit(r) \/ RequestApproval(r) \/ Claim(r) \/ Reconcile(r)
    \/ Execute(r) \/ Answered(r) \/ Verify(r)

Handler == Lease \/ Begin \/ FindOutcome \/ Settle

World ==
    \/ \E c \in Controls : AdmitControl(c)
    \/ \E k \in Writes :
          Land(k) \/ Decide(k) \/ ApprovalLapses(k) \/ ClaimLapses(k) \/ CollectClaim(k)

Next ==
    \/ Handler \/ Abort \/ World \/ Delegate \/ ChildEnds \/ WallTimeExpires
    \/ \E r \in Runs : Turn(r) \/ Reply(r) \/ ModelFails(r) \/ ToolCall(r)

\* The gateway keeps leasing and running.  The wall time adds up over the
\* turns of the root, so a root that waits again and again breaks off at
\* some wait: strong fairness.  Nothing is assumed of the model, of a tool,
\* of a child or of the world.
Spec ==
    /\ Init /\ [][Next]_vars
    /\ WF_vars(Handler) /\ WF_vars(Turn(Root)) /\ SF_vars(WallTimeExpires)

-----------------------------------------------------------------------------
(***************************************************************************)
(* Properties.                                                             *)
(***************************************************************************)

\* An external write is sent at most once, across crashes, lapsed claims and
\* resumed attempts: a claim whose owner may have executed is reconciled and
\* never executed again (_claim_write, claim_idempotency).  Garbage collection
\* between two attempts makes the journal forget the write.
AtMostOnce == \A k \in Writes : k \in forgotten \/ sent[k] <= 1

\* A control that was acknowledged to be applied is in the checkpoint a
\* restart resumes from, so the message to the run survives a crash; a
\* cancelled run needs none, and a discarded checkpoint takes it along.
AppliedIsSaved ==
    \A c \in Controls :
        control[c] = "applied" =>
            discarded \/ run[Root] = "cancelled" \/ c \in saved[Root].kept.applied

\* The root never ends and leaves a control behind that nobody will hear
\* (the closing transaction of try_finish_with_outcome).  A child row left
\* running by a crash can still attract one.
NoControlStranded ==
    (run[Root] \in Ended /\ \A c \in Children : run[c] # "running") => Pending = {}

\* A run that completes has no write whose effect it could not verify: none
\* in its checkpoint, whatever attempts wrote it, and none in the journal
\* when a single attempt did the work (_outcome).
CompletionIsVerified ==
    \A r \in Runs : (run[r] = "completed" /\ ~discarded) =>
        /\ ~saved[r].kept.unresolved
        /\ attempts = 1 => \A k \in Writes :
              k[1] = r => claim[k].state \in {"none", "completed"}

\* A destructive write is only sent after the requester approved that call
\* (request_approval, decide_approval).
SentIsApproved ==
    \A k \in Writes : (k[2] \in Destructive /\ sent[k] > 0) => approval[k] = "approved"
-----------------------------------------------------------------------------
\* A run that asked for an approval keeps running until it is decided
\* (docs/agent-harness.md section 7): what request_approval relies on to be
\* asked again after the decision.
DeferralKeepsRun ==
    \A k \in Writes : approval[k] = "pending" => run[k[1]] \notin Ended

\* A write counts once for its clients, unless the journal forgot it.
Counted == [k \in Writes |-> IF k \in forgotten /\ sent[k] > 0 THEN 1 ELSE sent[k]]
Lifecycle == INSTANCE RunLifecycle WITH sent <- Counted
\* The runs end once, controls are heard or dropped once, writes are sent at
\* most once while their rows are kept: AgentRun implements RunLifecycle.
ImplementsRunLifecycle == Lifecycle!Spec

\* The task of a mention ends, whatever its model and its tools do.
TaskSettles == <>(task \in TaskEnded)
=============================================================================
