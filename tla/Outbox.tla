-------------------------------- MODULE Outbox --------------------------------
(***************************************************************************)
(* The transactional outbox: the runtime_outbox rows of                    *)
(* storage/runtime_store.py, the transactions that post replies next to    *)
(* the task transitions that cause them, and runtime/outbox.py             *)
(* OutboxDispatcher as V3Gateway._drain_once calls it, before and after    *)
(* each batch of tasks.                                                    *)
(*                                                                         *)
(* created_at_ms orders the replies of a task and is kept, on a clock that *)
(* stops at MaxNow (replies posted from then on share a millisecond);      *)
(* available_at_ms and lease_expires_at_ms are kept as the truth of the    *)
(* comparisons made with them (ready, live).  A task is kept to the        *)
(* transitions that post replies.                                          *)
(***************************************************************************)
EXTENDS Integers, FiniteSets

CONSTANTS
    Tasks,
    Messages,      \* replies, numbered by outbox_id
    TaskOf,        \* TaskOf[m]: the task of reply m
    Kind,          \* Kind[m]: what it says
    MaxAttempts,   \* max_attempts of every row (8)
    Batch,         \* limit of lease_outbox (10)
    MaxNow, MaxFaults, MaxRestarts

\* A control is the acknowledgement of a mention that became a control of the
\* task, a decision that of an answer to its approval card (message_kind
\* "acknowledgement" and "progress" in the rows).
Kinds == {"ack", "control", "progress", "approval", "decision", "terminal"}

ASSUME OutboxAssumption ==
    /\ Messages \subseteq Nat /\ IsFiniteSet(Messages) /\ IsFiniteSet(Tasks)
    /\ TaskOf \in [Messages -> Tasks]
    /\ Kind \in [Messages -> Kinds]
    \* a task has one terminal key, and so one terminal row
    /\ \A m, n \in Messages : /\ TaskOf[m] = TaskOf[n] /\ Kind[m] = Kind[n]
                              /\ Kind[m] \in {"ack", "progress", "terminal"}
                              => m = n
    /\ MaxAttempts \in Nat \ {0} /\ Batch \in Nat \ {0}
    /\ MaxNow \in Nat /\ MaxFaults \in Nat /\ MaxRestarts \in Nat

VARIABLES
    task,      \* task[t]: state of the runtime_tasks row and its handler
    outbox,    \* outbox[m]: the runtime_outbox row
    loop,      \* where V3Gateway is
    pass,      \* which of its calls of run_once
    passNow,   \* the now_ms that _drain_once read
    items,     \* rows leased by run_once and not dealt with yet
    answer,    \* of the publisher, for the first of items
    accepted,  \* accepted[m]: how often the chat service took the message
    now, faults, restarts

gateway == <<loop, pass, passNow, items, answer>>
bounds == <<faults, restarts>>
vars == <<task, outbox, gateway, accepted, now, bounds>>

TaskStates == {"none", "pending", "leased", "started", "done"}
\* run_once leases, then sends.  It is called before the tasks of a drain (when
\* the loop is working), after them, and by stop().
Places == {"idle", "lease", "send", "working", "down"}
Passes == {"first", "second", "last"}
MessageRow == [state : {"none", "pending", "leased", "sent", "failed"},
               created : 0 .. MaxNow, attempts : 0 .. MaxAttempts,
               ready : BOOLEAN, live : BOOLEAN]

TypeOK ==
    /\ task \in [Tasks -> TaskStates]
    /\ outbox \in [Messages -> MessageRow]
    /\ loop \in Places /\ pass \in Passes /\ passNow \in 0 .. MaxNow
    /\ items \subseteq Messages
    /\ answer \in {"none", "confirmed", "refused"}
    /\ accepted \in [Messages -> 0 .. MaxAttempts]
    /\ now \in 0 .. MaxNow /\ faults \in 0 .. MaxFaults /\ restarts \in 0 .. MaxRestarts

Init ==
    /\ task = [t \in Tasks |-> "none"]
    /\ outbox = [m \in Messages |-> [state |-> "none", created |-> 0, attempts |-> 0,
                                     ready |-> FALSE, live |-> FALSE]]
    /\ loop = "idle" /\ pass = "first" /\ passNow = 0 /\ items = {} /\ answer = "none"
    /\ accepted = [m \in Messages |-> 0]
    /\ now = 0 /\ faults = 0 /\ restarts = 0

Posted(m) == outbox[m].state # "none"

-----------------------------------------------------------------------------
(***************************************************************************)
(* Posting.                                                                *)
(***************************************************************************)

\* Mutant: ON CONFLICT DO UPDATE in place of OR IGNORE.
Post_Replaces(S, at) ==
    outbox' = [m \in Messages |->
                  IF m \in S
                  THEN [outbox[m] EXCEPT !.state = "pending", !.created = at, !.ready = TRUE]
                  ELSE outbox[m]]

\* _insert_outbox of the replies S: INSERT OR IGNORE on the idempotency key.
Post(S, at) ==
    outbox' = [m \in Messages |->
                  IF m \in S /\ ~Posted(m)
                  THEN [outbox[m] EXCEPT !.state = "pending", !.created = at, !.ready = TRUE]
                  ELSE outbox[m]]
RepliesOf(t, k) == {m \in Messages : TaskOf[m] = t /\ Kind[m] = k}

Moves(t, s) == task' = [task EXCEPT ![t] = s]
Alive == loop # "down"

\* admit: the task and its acknowledgement, in one transaction.
Admit(t) ==
    /\ Alive /\ task[t] = "none"
    /\ Moves(t, "pending") /\ Post(RepliesOf(t, "ack"), now)
    /\ UNCHANGED <<gateway, accepted, now, bounds>>

\* admit_control: a task that has not ended takes the mention as a control.
\* created_at_ms is the time of receipt, which the mirror's work precedes.
Control(m) ==
    /\ Alive /\ Kind[m] = "control" /\ ~Posted(m)
    /\ task[TaskOf[m]] \in {"pending", "leased", "started"}
    /\ \E at \in 0 .. now : at >= now - 1 /\ Post({m}, at)
    /\ UNCHANGED <<task, gateway, accepted, now, bounds>>

\* The first step of a mention handler; its now_ms is that of the drain.
Begin(t) ==
    /\ loop = "working" /\ task[t] = "leased"
    /\ Moves(t, "started") /\ Post(RepliesOf(t, "progress"), passNow)
    /\ UNCHANGED <<gateway, accepted, now, bounds>>

\* request_approval, called by a tool of the handler, posts the card.
Ask(t) ==
    /\ loop = "working" /\ task[t] = "started"
    /\ Post(RepliesOf(t, "approval"), now)
    /\ UNCHANGED <<task, gateway, accepted, now, bounds>>

\* decide_approval: an answer to a card that was seen, at any time after it.
Decide(m) ==
    /\ Alive /\ Kind[m] = "decision" /\ ~Posted(m)
    /\ \E p \in RepliesOf(TaskOf[m], "approval") : accepted[p] > 0
    /\ Post({m}, now)
    /\ UNCHANGED <<task, gateway, accepted, now, bounds>>

\* retry_task or defer_task.
GiveBack(t) ==
    /\ loop = "working" /\ task[t] \in {"leased", "started"}
    /\ Moves(t, "pending")
    /\ UNCHANGED <<outbox, gateway, accepted, now, bounds>>

\* finish_task: the terminal state and its reply, at a fresh clock.
Finish(t) ==
    /\ loop = "working" /\ task[t] \in {"leased", "started"}
    /\ Moves(t, "done") /\ Post(RepliesOf(t, "terminal"), now)
    /\ UNCHANGED <<gateway, accepted, now, bounds>>

-----------------------------------------------------------------------------
(***************************************************************************)
(* lease_outbox.                                                           *)
(***************************************************************************)

Rank(m) == CASE Kind[m] \in {"ack", "control"} -> 0
             [] Kind[m] \in {"progress", "decision"} -> 1
             [] Kind[m] = "approval" -> 2
             [] OTHER -> 3

\* Mutant: the expiry is looked at and the state is not.
Reclaimed_AnyState ==
    [m \in Messages |->
        IF Posted(m) /\ ~outbox[m].live /\ outbox[m].attempts < MaxAttempts
        THEN [outbox[m] EXCEPT !.state = "pending"] ELSE outbox[m]]

\* The two UPDATEs that open lease_outbox.
Reclaimed ==
    [m \in Messages |->
        IF outbox[m].state = "leased" /\ ~outbox[m].live
        THEN [outbox[m] EXCEPT !.state = IF outbox[m].attempts < MaxAttempts
                                         THEN "pending" ELSE "failed"]
        ELSE outbox[m]]

\* p comes before m by (created_at_ms, kind): ties are left to the rest.
Earlier(p, m) ==
    \/ outbox[p].created < outbox[m].created
    \/ outbox[p].created = outbox[m].created /\ Rank(p) < Rank(m)

\* Mutants: replies of one millisecond are not ordered; replies wait for one
\* another whatever their order.
Unblocked_TiesIgnored(rows, m) ==
    ~\E p \in Messages : /\ Posted(p) /\ TaskOf[p] = TaskOf[m]
                         /\ rows[p].state # "sent" /\ outbox[p].created < outbox[m].created
Unblocked_ByAny(rows, m) ==
    ~\E p \in Messages \ {m} : Posted(p) /\ TaskOf[p] = TaskOf[m] /\ rows[p].state # "sent"

\* NOT EXISTS a reply of the same task that comes before and is not sent.
Unblocked(rows, m) ==
    ~\E p \in Messages : /\ Posted(p) /\ TaskOf[p] = TaskOf[m]
                         /\ rows[p].state # "sent" /\ Earlier(p, m)

Due(rows) ==
    {m \in Messages : /\ rows[m].state = "pending" /\ rows[m].ready
                      /\ rows[m].attempts < MaxAttempts
                      /\ Unblocked(rows, m)}

\* ORDER BY created_at_ms, kind, outbox_id
Precedes(m, n) == Earlier(m, n) \/ (~Earlier(n, m) /\ m < n)
FirstOf(S) == CHOOSE m \in S : \A n \in S \ {m} : Precedes(m, n)

\* S is what LIMIT leaves of the rows that are due.
IsPrefix(S, due) ==
    /\ S \subseteq due
    /\ Cardinality(S) = IF Cardinality(due) < Batch THEN Cardinality(due) ELSE Batch
    /\ \A m \in S, n \in due \ S : Precedes(m, n)

\* Mutant: attempt_count is left alone.
LeaseOutbox_NotCounted ==
    /\ loop = "lease"
    /\ \E S \in SUBSET Messages :
          /\ IsPrefix(S, Due(Reclaimed))
          /\ items' = S
          /\ outbox' = [m \in Messages |->
                IF m \in S THEN [Reclaimed[m] EXCEPT !.state = "leased", !.live = TRUE]
                ELSE Reclaimed[m]]
    /\ loop' = "send"
    /\ UNCHANGED <<task, pass, passNow, answer, accepted, now, bounds>>

LeaseOutbox ==
    /\ loop = "lease"
    /\ \E S \in SUBSET Messages :
          /\ IsPrefix(S, Due(Reclaimed))
          /\ items' = S
          /\ outbox' = [m \in Messages |->
                IF m \in S
                THEN [Reclaimed[m] EXCEPT !.state = "leased", !.live = TRUE,
                                          !.attempts = @ + 1]
                ELSE Reclaimed[m]]
    /\ loop' = "send"
    /\ UNCHANGED <<task, pass, passNow, answer, accepted, now, bounds>>

-----------------------------------------------------------------------------
(***************************************************************************)
(* OutboxDispatcher.run_once.                                              *)
(***************************************************************************)

\* publisher.publish: the service takes the message or not, and the caller
\* learns that it did, or sees an exception.
Publish ==
    /\ loop = "send" /\ items # {} /\ answer = "none"
    /\ LET m == FirstOf(items)
       IN  \/ /\ answer' = "confirmed"
              /\ accepted' = [accepted EXCEPT ![m] = @ + 1]
              /\ UNCHANGED faults
           \/ /\ faults < MaxFaults /\ faults' = faults + 1
              /\ answer' = "refused"
              /\ \/ accepted' = [accepted EXCEPT ![m] = @ + 1]
                 \/ UNCHANGED accepted
    /\ UNCHANGED <<task, outbox, loop, pass, passNow, items, now, restarts>>

\* Mutant: retry_outbox without the CASE on attempt_count.
Record_NeverGivesUp ==
    /\ loop = "send" /\ answer # "none"
    /\ LET m == FirstOf(items)
       IN  /\ outbox[m].state = "leased"
           /\ outbox' = [outbox EXCEPT ![m] =
                 [outbox[m] EXCEPT !.live = FALSE,
                           !.ready = IF answer = "confirmed" THEN outbox[m].ready ELSE FALSE,
                           !.state = IF answer = "confirmed" THEN "sent" ELSE "pending"]]
           /\ items' = items \ {m}
    /\ answer' = "none"
    /\ UNCHANGED <<task, loop, pass, passNow, accepted, now, bounds>>

\* mark_outbox_sent or retry_outbox, in the state the row was leased in.
Record ==
    /\ loop = "send" /\ answer # "none"
    /\ LET m == FirstOf(items)
       IN  /\ outbox[m].state = "leased"
           /\ outbox' = [outbox EXCEPT ![m] =
                 [outbox[m] EXCEPT !.live = FALSE,
                           !.ready = IF answer = "confirmed" THEN outbox[m].ready ELSE FALSE,
                           !.state = IF answer = "confirmed" THEN "sent"
                                     ELSE IF outbox[m].attempts >= MaxAttempts THEN "failed"
                                     ELSE "pending"]]
           /\ items' = items \ {m}
    /\ answer' = "none"
    /\ UNCHANGED <<task, loop, pass, passNow, accepted, now, bounds>>

AfterPass == IF pass = "last" THEN "down" ELSE "idle"

\* A store call of run_once raises, and _run goes back to the top of the loop
\* (or stop() goes on): the rest of items keeps its leases.
PassRaises ==
    /\ loop \in {"lease", "send"}
    /\ faults < MaxFaults /\ faults' = faults + 1
    /\ loop' = AfterPass /\ pass' = "first"
    /\ items' = {} /\ answer' = "none"
    /\ UNCHANGED <<task, outbox, passNow, accepted, now, restarts>>

-----------------------------------------------------------------------------
(***************************************************************************)
(* The loop.                                                               *)
(***************************************************************************)

BeginDrain ==
    /\ loop = "idle"
    /\ loop' = "lease" /\ passNow' = now
    /\ UNCHANGED <<task, outbox, pass, items, answer, accepted, now, bounds>>

\* The first pass is over and a batch of tasks due at passNow is leased.
LeaseTasks ==
    /\ loop = "send" /\ pass = "first" /\ items = {}
    /\ \E S \in SUBSET {t \in Tasks :
                          /\ task[t] = "pending"
                          /\ \A m \in RepliesOf(t, "ack") : outbox[m].created <= passNow} :
          task' = [t \in Tasks |-> IF t \in S THEN "leased" ELSE task[t]]
    /\ loop' = "working"
    /\ UNCHANGED <<outbox, pass, passNow, items, answer, accepted, now, bounds>>

\* The batch has ended.
BatchEnds ==
    /\ loop = "working" /\ \A t \in Tasks : task[t] \notin {"leased", "started"}
    /\ loop' = "lease" /\ pass' = "second"
    /\ UNCHANGED <<task, outbox, passNow, items, answer, accepted, now, bounds>>

PassEnds ==
    /\ loop = "send" /\ pass # "first" /\ items = {}
    /\ loop' = AfterPass /\ pass' = "first"
    /\ UNCHANGED <<task, outbox, passNow, items, answer, accepted, now, bounds>>

\* No handler runs on: its task is pending, or will be when its lease expires.
NoHandler ==
    task' = [t \in Tasks |-> IF task[t] \in {"leased", "started"} THEN "pending" ELSE task[t]]

\* stop(): the loop ends, or is cancelled wherever it is at the deadline, and
\* one more pass sends what is due.
Stop ==
    /\ Alive /\ pass # "last" /\ restarts < MaxRestarts /\ restarts' = restarts + 1
    /\ loop' = "lease" /\ pass' = "last"
    /\ NoHandler /\ items' = {} /\ answer' = "none"
    /\ UNCHANGED <<outbox, passNow, accepted, now, faults>>

Crash ==
    /\ Alive /\ restarts < MaxRestarts /\ restarts' = restarts + 1
    /\ loop' = "down" /\ pass' = "first"
    /\ NoHandler /\ items' = {} /\ answer' = "none"
    /\ UNCHANGED <<outbox, passNow, accepted, now, faults>>

Start ==
    /\ loop = "down"
    /\ loop' = "idle"
    /\ UNCHANGED <<task, outbox, pass, passNow, items, answer, accepted, now, bounds>>

Tick ==
    /\ now < MaxNow /\ now' = now + 1
    /\ UNCHANGED <<task, outbox, gateway, accepted, bounds>>

\* The clock passes available_at_ms, or lease_expires_at_ms.
TimePasses(m) ==
    /\ \/ /\ outbox[m].state = "pending" /\ ~outbox[m].ready
          /\ outbox' = [outbox EXCEPT ![m].ready = TRUE]
       \/ /\ outbox[m].state = "leased" /\ outbox[m].live
          /\ outbox' = [outbox EXCEPT ![m].live = FALSE]
    /\ UNCHANGED <<task, gateway, accepted, now, bounds>>

Next ==
    \/ \E t \in Tasks : Admit(t) \/ Begin(t) \/ Ask(t) \/ GiveBack(t) \/ Finish(t)
    \/ \E m \in Messages : Control(m) \/ Decide(m) \/ TimePasses(m)
    \/ BeginDrain \/ LeaseOutbox \/ Publish \/ Record \/ PassRaises
    \/ LeaseTasks \/ BatchEnds \/ PassEnds
    \/ Stop \/ Crash \/ Start \/ Tick

Spec == Init /\ [][Next]_vars

-----------------------------------------------------------------------------
(***************************************************************************)
(* Safety.                                                                 *)
(***************************************************************************)

\* "acknowledgement intent is always leased before progress, approval, or
\* terminal intents" (docs/group-agent-runtime.md), and the terminal reply comes
\* after every other but the answer to a late approval: no message reaches the
\* chat while one it must follow is unsent, whatever pass, retry or stale
\* now_ms posted it.
RepliesInOrder ==
    \A m, p \in Messages :
        accepted[m] > 0 /\ p # m /\ TaskOf[p] = TaskOf[m] /\ Posted(p) =>
            /\ Kind[p] = "ack" /\ Kind[m] # "control" => outbox[p].state = "sent"
            /\ Kind[m] = "terminal" /\ Kind[p] # "decision" => outbox[p].state = "sent"

\* A reply that is not sent can still be leased, or has used up its attempts.
NoReplyStranded ==
    \A m \in Messages :
        /\ outbox[m].state = "pending" => outbox[m].attempts < MaxAttempts
        /\ outbox[m].state = "failed" => outbox[m].attempts = MaxAttempts

\* At-least-once, and no worse: each repeated delivery and each attempt beyond
\* the first is paid for by a fault or a restart of its own, so leases that
\* expire under a slow pass alone never repeat or exhaust a reply
\* (OutboxDispatcher.run_once, lease_outbox).
RepeatsNeedFaults ==
    \A m \in Messages : /\ accepted[m] <= 1 + faults + restarts
                        /\ outbox[m].attempts <= 1 + faults + restarts

\* What is sent stays sent and is not offered to the chat service again.
SentIsFinal ==
    [][\A m \in Messages :
          outbox[m].state = "sent" =>
              outbox'[m] = outbox[m] /\ accepted'[m] = accepted[m]]_vars

-----------------------------------------------------------------------------
(***************************************************************************)
(* Liveness.  The loop is one coroutine that runs until it is stopped, a   *)
(* new process is started after it, time passes, and a handler returns.    *)
(***************************************************************************)
FairSpec ==
    /\ Spec
    /\ WF_vars(BeginDrain) /\ WF_vars(LeaseOutbox) /\ WF_vars(Publish) /\ WF_vars(Record)
    /\ WF_vars(LeaseTasks) /\ WF_vars(BatchEnds) /\ WF_vars(PassEnds) /\ WF_vars(Start)
    /\ \A m \in Messages : WF_vars(TimePasses(m))
    /\ \A t \in Tasks : WF_vars(Begin(t) \/ Ask(t) \/ GiveBack(t) \/ Finish(t))

Terminal(m) == Kind[m] = "terminal" /\ Posted(m)

\* "Terminal reply intent commits with the terminal state and is sent by the
\* outbox worker" (docs/architecture.md): a finished task is answered in the
\* end, when no reply of it meets as many failures as it has attempts.
TerminalReplySent == \A m \in Messages : Terminal(m) ~> outbox[m].state = "sent"

\* The same promise when replies may run out of attempts: the terminal reply is
\* sent, or tried until it fails itself (lease_outbox).
TerminalReplySettles ==
    \A m \in Messages : Terminal(m) ~> outbox[m].state \in {"sent", "failed"}
=============================================================================
