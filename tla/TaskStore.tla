------------------------------ MODULE TaskStore ------------------------------
(***************************************************************************)
(* The durable task queue of storage/runtime_store.py: the runtime_tasks   *)
(* rows, the runtime_scheduler_lanes cursors and the transactions that     *)
(* change them.  The SQLite actor runs one transaction at a time, so each  *)
(* store method is one action here.                                        *)
(*                                                                         *)
(* Time is abstracted to what the statements compare with it: a row knows  *)
(* whether its available_at_ms has been reached (ready) and whether its    *)
(* lease_expires_at_ms is still ahead (live).  Cursors are only compared   *)
(* with one another, so a lane kind keeps the relation "was served less    *)
(* recently than" instead of the sequence numbers.                         *)
(***************************************************************************)
EXTENDS Integers, FiniteSets

CONSTANTS
    Tasks,         \* task ids, numbered by (priority DESC, created_at_ms, task_id)
    Scope,         \* Scope[t]: record of the lane keys of a task, and its chat
    NoGroup,       \* the group key of a task whose group_id is NULL
    Revokers,      \* the tasks whose command_type is im.revoke_chat_access
    MaxAttempts,   \* max_attempts of every task
    Batch,         \* the limit argument of lease_tasks (worker concurrency)
    GlobalLimit, TenantLimit, AppLimit, GroupLimit

LaneKinds == {"tenant", "app", "group", "session"}
ScopeKeys(k) == {Scope[t][k] : t \in Tasks}
Outcomes == {"succeeded", "blocked", "failed", "cancelled"}

ASSUME TasksAssumption ==
    /\ Tasks \subseteq Nat
    /\ IsFiniteSet(Tasks)
    /\ Revokers \subseteq Tasks
ASSUME AttemptsAssumption == MaxAttempts \in Nat \ {0}
\* core/scheduling.py TaskConcurrencyLimits.__post_init__, and limit > 0.
ASSUME LimitsAssumption ==
    /\ Batch \in Nat \ {0}
    /\ {GroupLimit, AppLimit, TenantLimit, GlobalLimit} \subseteq Nat \ {0}
    /\ GroupLimit <= AppLimit
    /\ AppLimit <= TenantLimit
    /\ TenantLimit <= GlobalLimit

VARIABLES
    tasks,   \* tasks[t]: the row of t
    older    \* older[k]: pairs <<x, y>> of lanes with x's cursor below y's

storeVars == <<tasks, older>>

Row == [state : {"none", "pending", "leased"} \cup Outcomes,
        attempts : 0 .. MaxAttempts,
        exhausted : BOOLEAN,  \* last_error_code is one of the *retry_exhausted codes
        ready : BOOLEAN,      \* available_at_ms <= now
        live : BOOLEAN]       \* leased with lease_expires_at_ms > now

NoRow == [state |-> "none", attempts |-> 0, exhausted |-> FALSE,
          ready |-> FALSE, live |-> FALSE]

StoreTypeOK ==
    /\ tasks \in [Tasks -> Row]
    /\ older \in [LaneKinds -> SUBSET ((UNION {ScopeKeys(k) : k \in LaneKinds})
                                       \X (UNION {ScopeKeys(k) : k \in LaneKinds}))]

StoreInit ==
    /\ tasks = [t \in Tasks |-> NoRow]
    /\ older = [k \in LaneKinds |-> {}]

Terminal(t) == tasks[t].state \in Outcomes
Owned(t) == tasks[t].state = "leased"   \* every lease carries the one worker id
Known(t) == tasks[t].state # "none"

-----------------------------------------------------------------------------
(***************************************************************************)
(* Selection.  The operators take the rows they look at, because the       *)
(* statement runs again after each row the same transaction leases.        *)
(***************************************************************************)

\* Mutant of Reclaimed: the second UPDATE does not mark the exhausted rows.
Reclaimed_Unmarked ==
    [t \in Tasks |->
        IF tasks[t].state = "leased" /\ ~tasks[t].live
        THEN [tasks[t] EXCEPT !.state = "pending"] ELSE tasks[t]]

\* The two UPDATEs that open lease_tasks.
Reclaimed ==
    [t \in Tasks |->
        IF tasks[t].state = "leased" /\ ~tasks[t].live
        THEN [tasks[t] EXCEPT !.state = "pending",
                              !.exhausted = @ \/ tasks[t].attempts >= MaxAttempts]
        ELSE tasks[t]]

Leased(rows) == {t \in Tasks : rows[t].state = "leased" /\ rows[t].live}
LeasedIn(rows, k, t) == {u \in Leased(rows) : Scope[u][k] = Scope[t][k]}

\* Mutant of Eligible: without the NOT EXISTS over the session's live leases.
Eligible_SessionUnchecked(rows) ==
    {t \in Tasks :
        /\ rows[t].state = "pending" /\ rows[t].ready
        /\ rows[t].attempts < MaxAttempts \/ rows[t].exhausted}

\* The inner SELECT: pending, due, with an attempt left or a finalization
\* owed, and no live lease in the session.
Eligible(rows) ==
    {t \in Tasks :
        /\ rows[t].state = "pending" /\ rows[t].ready
        /\ rows[t].attempts < MaxAttempts \/ rows[t].exhausted
        /\ LeasedIn(rows, "session", t) = {}}

\* Mutant of Candidates: the group limit is not part of the outer SELECT.
Candidates_GroupUnchecked(rows) ==
    {t \in Eligible(rows) :
        /\ \A u \in Eligible(rows) :
              Scope[u].session = Scope[t].session => t <= u
        /\ Cardinality(LeasedIn(rows, "tenant", t)) < TenantLimit
        /\ Cardinality(LeasedIn(rows, "app", t)) < AppLimit}

\* The outer SELECT: first of its session, every scope below its limit.
Candidates(rows) ==
    {t \in Eligible(rows) :
        /\ \A u \in Eligible(rows) :
              Scope[u].session = Scope[t].session => t <= u
        /\ Cardinality(LeasedIn(rows, "tenant", t)) < TenantLimit
        /\ Cardinality(LeasedIn(rows, "app", t)) < AppLimit
        /\ \/ Scope[t].group = NoGroup
           \/ Cardinality(LeasedIn(rows, "group", t)) < GroupLimit}

\* Mutant of Before: the candidates are ordered by rank alone.
Before_CursorsIgnored(cur, c, d) == c < d

\* ORDER BY tenant_served, app_served, group_served, session_served, and then
\* the rank, over the cursors cur.
Before(cur, c, d) ==
    LET lt(k) == <<Scope[c][k], Scope[d][k]>> \in cur[k]
        tie(k) == ~lt(k) /\ <<Scope[d][k], Scope[c][k]>> \notin cur[k]
    IN  \/ lt("tenant")
        \/ tie("tenant") /\ lt("app")
        \/ tie("tenant") /\ tie("app") /\ lt("group")
        \/ tie("tenant") /\ tie("app") /\ tie("group") /\ lt("session")
        \/ (\A k \in LaneKinds : tie(k)) /\ c < d

\* Mutant of Grant: every lease consumes an attempt.
Grant_AlwaysCounts(row) ==
    [row EXCEPT !.state = "leased", !.live = TRUE, !.attempts = @ + 1]

\* _lease_task: a finalization lease does not consume an attempt.
Grant(row) ==
    [row EXCEPT !.state = "leased", !.live = TRUE,
                !.attempts = IF row.exhausted THEN @ ELSE @ + 1]

\* The rows, and the cursors of _advance_scheduler_lanes, once the first i
\* tasks of picks have been leased.
RowsAfter(rows, picks, i) ==
    [t \in Tasks |-> IF \E j \in 1 .. i : picks[j] = t
                     THEN Grant(rows[t]) ELSE rows[t]]

CursorsAfter(picks, i) ==
    [k \in LaneKinds |->
        LET served(j, x) == Scope[picks[j]][k] = x /\ x # NoGroup
        IN  {p \in ScopeKeys(k) \X ScopeKeys(k) :
                \/ \E j \in 1 .. i : /\ served(j, p[2])
                                     /\ \A m \in j .. i : ~served(m, p[1])
                \/ /\ p \in older[k]
                   /\ \A j \in 1 .. i : ~served(j, p[1]) /\ ~served(j, p[2])}]

-----------------------------------------------------------------------------
(***************************************************************************)
(* Transactions.                                                           *)
(***************************************************************************)

\* admit of an event not seen before, due at once (available_at_ms is the time
\* of receipt).  A redelivered event finds its task and changes nothing.
Admit(t) ==
    /\ tasks[t].state = "none"
    /\ tasks' = [tasks EXCEPT ![t].state = "pending", ![t].ready = TRUE]
    /\ UNCHANGED older

Room(rows) ==
    LET free == GlobalLimit - Cardinality(Leased(rows))
    IN  IF free <= 0 THEN 0 ELSE IF free < Batch THEN free ELSE Batch

\* picks[1], ..., picks[n] is what the loop of _select_task_ids chooses.
IsSelection(n, picks) ==
    /\ n <= Room(Reclaimed)
    /\ \A i \in 1 .. n :
          LET choice == Candidates(RowsAfter(Reclaimed, picks, i - 1))
          IN  /\ picks[i] \in choice
              /\ \A d \in choice \ {picks[i]} :
                    Before(CursorsAfter(picks, i - 1), picks[i], d)
    /\ n = Room(Reclaimed) \/ Candidates(RowsAfter(Reclaimed, picks, n)) = {}

LeaseTasks(n, picks) ==
    /\ IsSelection(n, picks)
    /\ tasks' = RowsAfter(Reclaimed, picks, n)
    /\ older' = CursorsAfter(picks, n)

\* Mutant of FinishTask: the UPDATE is keyed by task_id alone.
FinishTask_AnyState(t, outcome) ==
    /\ tasks' = [tasks EXCEPT ![t] = [@ EXCEPT !.state = outcome, !.live = FALSE,
                                               !.exhausted = FALSE]]
    /\ UNCHANGED older

\* Mutant of RetryTask: the UPDATE is keyed by task_id alone.
RetryTask_AnyState(t) ==
    /\ tasks' = [tasks EXCEPT ![t] =
                    [@ EXCEPT !.state = "pending", !.live = FALSE, !.ready = FALSE,
                              !.exhausted = tasks[t].attempts >= MaxAttempts]]
    /\ UNCHANGED older

\* MAX(attempt_count - 1, 0)
HandedBack(attempts) == IF attempts = 0 THEN 0 ELSE attempts - 1

\* Mutant of DeferTask: the attempt is not handed back.
DeferTask_KeepsAttempt(t, due) ==
    /\ Owned(t)
    /\ tasks' = [tasks EXCEPT ![t] =
                    [@ EXCEPT !.state = "pending", !.live = FALSE, !.ready = due,
                              !.exhausted = FALSE]]
    /\ UNCHANGED older

\* finish_task, retry_task and defer_task raise unless the row is leased by
\* the caller; they look at neither the expiry nor the attempt of the lease.
FinishTask(t, outcome) ==
    /\ Owned(t)
    /\ tasks' = [tasks EXCEPT ![t] = [@ EXCEPT !.state = outcome, !.live = FALSE,
                                               !.exhausted = FALSE]]
    /\ UNCHANGED older

RetryTask(t) ==
    /\ Owned(t)
    /\ tasks' = [tasks EXCEPT ![t] =
                    [@ EXCEPT !.state = "pending", !.live = FALSE, !.ready = FALSE,
                              !.exhausted = tasks[t].attempts >= MaxAttempts]]
    /\ UNCHANGED older

DeferTask(t, due) ==
    /\ Owned(t)
    /\ tasks' = [tasks EXCEPT ![t] =
                    [@ EXCEPT !.state = "pending", !.live = FALSE, !.ready = due,
                              !.exhausted = FALSE,
                              !.attempts = HandedBack(tasks[t].attempts)]]
    /\ UNCHANGED older

\* Mutant of CancelPendingOfChat: leased tasks are cancelled too.
CancelPendingOfChat_LeasedToo(chat) ==
    /\ tasks' = [t \in Tasks |->
                    IF /\ Scope[t].chat = chat
                       /\ tasks[t].state \in {"pending", "leased"}
                       /\ t \notin Revokers
                    THEN [tasks[t] EXCEPT !.state = "cancelled"]
                    ELSE tasks[t]]
    /\ UNCHANGED older

\* The UPDATE at the end of capabilities/im/repository.py revoke_chat_access.
CancelPendingOfChat(chat) ==
    /\ tasks' = [t \in Tasks |->
                    IF /\ Scope[t].chat = chat /\ tasks[t].state = "pending"
                       /\ t \notin Revokers
                    THEN [tasks[t] EXCEPT !.state = "cancelled"]
                    ELSE tasks[t]]
    /\ UNCHANGED older

\* The clock passes available_at_ms, or lease_expires_at_ms.
BackoffElapses(t) ==
    /\ tasks[t].state = "pending" /\ ~tasks[t].ready
    /\ tasks' = [tasks EXCEPT ![t].ready = TRUE]
    /\ UNCHANGED older

LeaseExpires(t) ==
    /\ Owned(t) /\ tasks[t].live
    /\ tasks' = [tasks EXCEPT ![t].live = FALSE]
    /\ UNCHANGED older

\* Any transaction, called by anyone at any time.
StoreNext ==
    \/ \E t \in Tasks :
          \/ Admit(t) \/ RetryTask(t) \/ BackoffElapses(t) \/ LeaseExpires(t)
          \/ \E o \in Outcomes : FinishTask(t, o)
          \/ \E due \in BOOLEAN : DeferTask(t, due)
          \/ CancelPendingOfChat(Scope[t].chat)
    \/ \E n \in 0 .. Batch : \E picks \in [1 .. n -> Tasks] : LeaseTasks(n, picks)

StoreSpec == StoreInit /\ [][StoreNext]_storeVars

-----------------------------------------------------------------------------
(***************************************************************************)
(* What the transactions keep true, whoever calls them and in what order.  *)
(***************************************************************************)

\* One live lease per SessionKey, whatever mixture of expiries, retries,
\* restarts and late commits led here (_select_task_ids, lease_tasks).
SessionExclusive ==
    \A t, u \in Leased(tasks) : t # u => Scope[t].session # Scope[u].session

\* The four limits of TaskConcurrencyLimits hold for live leases although a
\* batch is chosen row by row inside one transaction.
LimitsHold ==
    /\ Cardinality(Leased(tasks)) <= GlobalLimit
    /\ \A t \in Tasks :
          /\ Cardinality(LeasedIn(tasks, "tenant", t)) <= TenantLimit
          /\ Cardinality(LeasedIn(tasks, "app", t)) <= AppLimit
          /\ Scope[t].group # NoGroup =>
                Cardinality(LeasedIn(tasks, "group", t)) <= GroupLimit

\* A pending row can be leased again once it is due: either an attempt is
\* left or it is marked for finalization, and never both, so that no path of
\* retry_task, defer_task and lease reclaim strands an acknowledged request.
NothingStranded ==
    \A t \in Tasks : tasks[t].state \in {"pending", "leased"} =>
        /\ tasks[t].exhausted => tasks[t].attempts = MaxAttempts
        /\ tasks[t].state = "pending" =>
              (tasks[t].attempts < MaxAttempts \/ tasks[t].exhausted)

\* A task reaches one terminal state, once: no late commit of an orphan and
\* no chat revocation replaces it (finish_task, revoke_chat_access).
TerminalIsFinal ==
    [][\A t \in Tasks : Terminal(t) => tasks'[t] = tasks[t]]_storeVars

\* How a client sees a row: a live lease is a running request, an expired one
\* is queued again before any worker notices.
StatusOf(row) ==
    CASE row.state = "none" -> "absent"
      [] row.state \in Outcomes -> "done"
      [] row.state = "leased" /\ row.live -> "running"
      [] OTHER -> "queued"

Lifecycle == INSTANCE TaskLifecycle WITH
    Requests <- Tasks,
    SessionOf <- [t \in Tasks |-> Scope[t].session],
    Capacity <- GlobalLimit,
    status <- [t \in Tasks |-> StatusOf(tasks[t])]

\* Every transaction is a step of the abstract lifecycle or leaves it unchanged
\* (the task methods of RuntimeStore and revoke_chat_access).
ImplementsLifecycle == Lifecycle!Spec
=============================================================================
