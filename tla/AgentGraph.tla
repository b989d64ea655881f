------------------------------ MODULE AgentGraph ------------------------------
(***************************************************************************)
(* Delegation below one root run: the node, budget, lock, artifact and     *)
(* mailbox rows (storage/agent_store.py), the supervisor that runs ready   *)
(* nodes (runtime/multi_agent.py), the coordinator behind agent.delegate   *)
(* and agent.message (runtime/delegation.py), and the write scope of the   *)
(* tool executor (runtime/tools.py).                                       *)
(*                                                                         *)
(* The root calls tools in batches.  The calls of a batch are coroutines   *)
(* of one event loop: each step below runs from one await to the next.     *)
(* What a child's harness does is AgentRun; here it works, writes and ends.*)
(* Nodes have no dependencies, because agent.delegate names none.          *)
(***************************************************************************)
EXTENDS Integers, FiniteSets

CONSTANTS
    Children,      \* names of direct children; a name is one node of the graph
    Calls,         \* agent.delegate calls a batch of the root can hold
    ChildOf,       \* ChildOf[c]: the child call c names
    Resources,     \* canonical write targets
    TargetsOf,     \* TargetsOf[n]: the targets declared for child n
    Mails,         \* agent.message calls, named by their correlation id
    RecipientOf,   \* RecipientOf[m]: the child m is for
    Limit, Cost,   \* a budget of the root, and what each child takes of it
    MaxConcurrency,\* max_concurrency of the graph
    MaxTurns,      \* bound: batches of calls and writes the root makes
    MaxCrashes     \* bound: process deaths

Root == "root"
Other == "other"   \* any other graph of the tenant
Nobody == "nobody"
Nodes == {Root} \union Children

ASSUME NamesAssumption ==
    /\ {Root, Other, Nobody} \intersect Children = {}
    /\ ChildOf \in [Calls -> Children]
    /\ TargetsOf \in [Children -> SUBSET Resources]
    /\ RecipientOf \in [Mails -> Children]
    /\ IsFiniteSet(Children)
\* A child's budget is a constant of delegate(), below that of every root.
ASSUME BudgetAssumption == Limit \in Nat /\ Cost \in Nat /\ Cost <= Limit
ASSUME LimitAssumption == MaxConcurrency \in Nat \ {0}
ASSUME BoundsAssumption == MaxTurns \in Nat /\ MaxCrashes \in Nat

VARIABLES
    graph,      \* status of the runtime_graphs row
    node,       \* node[n]: status of the runtime_agent_nodes row
    live,       \* the nodes whose lease has not expired
    reserved,   \* reserved of the root's runtime_budget_ledger row
    artifact,   \* the children with a runtime_artifacts row
    lock,       \* lock[r]: owner and lease of the runtime_resource_locks row
    mail,       \* mail[m]: state of the runtime_mailbox row
    outcome,    \* the outcome of the root run, once it has one
    rootAt,     \* is an attempt of the root run under way
    gate,       \* holder of the coordinator's _delegation_gate
    pc,         \* pc[c]: where call c is
    batch,      \* batch[c]: the nodes call c leased and awaits
    work,       \* work[n]: where the worker coroutine of n is
    writing,    \* writing[n]: the target of the write n has under way
    heard,      \* the mail in the input of its recipient's last execution
    early,      \* history: the mail sent before its recipient was first leased
    lapsed,     \* history: the nodes whose lock lapsed during their write
    again,      \* history: a child that had failed was delegated to again
    turns, crashes

rows == <<graph, node, live, reserved, artifact, lock, mail, outcome>>
process == <<rootAt, gate, pc, batch, work, writing>>
history == <<heard, early, lapsed, again>>
bounds == <<turns, crashes>>
vars == <<rows, process, history, bounds>>

Terminal == {"completed", "failed", "cancelled"}
NodeStatus == {"none", "created", "ready", "running", "waiting"} \union Terminal
Owners == Nodes \union {Other, Nobody}
Free == [owner |-> Nobody, live |-> FALSE]

TypeOK ==
    /\ graph \in {"active"} \union Terminal
    /\ node \in [Nodes -> NodeStatus]
    /\ live \subseteq Nodes /\ Cardinality(live) <= MaxConcurrency
    /\ reserved \in 0 .. Limit
    /\ artifact \subseteq Children
    /\ lock \in [Resources -> [owner : Owners, live : BOOLEAN]]
    /\ mail \in [Mails -> {"none", "pending", "delivered", "acknowledged"}]
    /\ outcome \in {"none"} \union Terminal
    /\ rootAt \in {"off", "turn"}
    /\ gate \in Calls \union {Nobody}
    /\ pc \in [Calls -> {"idle", "gate", "lock", "activate", "undo", "barrier", "lease", "run", "wait"}]
    /\ batch \in [Calls -> SUBSET Nodes]
    /\ work \in [Nodes -> {"off", "receive", "work", "acknowledge"}]
    /\ writing \in [Nodes -> Resources \union {Nobody}]
    /\ heard \subseteq Mails /\ early \subseteq Mails
    /\ lapsed \subseteq Nodes /\ again \in BOOLEAN
    /\ turns \in 0 .. MaxTurns /\ crashes \in 0 .. MaxCrashes

\* create_graph: prepare() of the first attempt.
Init ==
    /\ graph = "active" /\ outcome = "none"
    /\ node = [n \in Nodes |-> IF n = Root THEN "ready" ELSE "none"]
    /\ live = {} /\ reserved = 0 /\ artifact = {}
    /\ lock = [r \in Resources |-> Free]
    /\ mail = [m \in Mails |-> "none"]
    /\ rootAt = "off" /\ gate = Nobody
    /\ pc = [c \in Calls |-> "idle"] /\ batch = [c \in Calls |-> {}]
    /\ work = [n \in Nodes |-> "off"] /\ writing = [n \in Nodes |-> Nobody]
    /\ heard = {} /\ early = {} /\ lapsed = {} /\ again = FALSE
    /\ turns = 0 /\ crashes = 0

Open(nodes, n) == nodes[n] \notin Terminal \union {"none"}
OpenChildren(nodes) == {n \in Children : Open(nodes, n)}
Goes(c, place) == pc' = [pc EXCEPT ![c] = place]
Works(n, place) == work' = [work EXCEPT ![n] = place]

-----------------------------------------------------------------------------
(***************************************************************************)
(* What the transactions of agent_store.py share.                          *)
(***************************************************************************)

\* Mutant: the parent is not woken when its last child is cancelled.
Woken_Forgotten(nodes) == nodes

\* _wake_parent, after a child took its new status in nodes.
Woken(nodes) ==
    IF OpenChildren(nodes) = {} /\ nodes[Root] = "waiting"
    THEN [nodes EXCEPT ![Root] = "ready"] ELSE nodes

\* DELETE FROM runtime_resource_locks WHERE owner_node_id = n.
Released(n) == [r \in Resources |-> IF lock[r].owner = n THEN Free ELSE lock[r]]
\* DELETE ... WHERE lease_expires_at_ms <= now.
Unexpired == [r \in Resources |-> IF lock[r].live THEN lock[r] ELSE Free]

\* _release_parent_budget: the root's own row has no parent to give back to.
GivenBack(n) ==
    IF n = Root THEN reserved
    ELSE IF reserved >= Cost THEN reserved - Cost ELSE 0

\* Mutant: a node that ends keeps what it had reserved.
Ends_BudgetKept(n, status) ==
    /\ node' = Woken([node EXCEPT ![n] = status])
    /\ live' = live \ {n}
    /\ lock' = Released(n)
    /\ UNCHANGED reserved

\* What complete_node, fail_node and cancel_subtree of a child do to its row,
\* to its locks, to the ledger and to its parent.
Ends(n, status) ==
    /\ node' = Woken([node EXCEPT ![n] = status])
    /\ live' = live \ {n}
    /\ lock' = Released(n)
    /\ reserved' = GivenBack(n)

\* Mutant: INSERT OR REPLACE of the lock row.
Acquirable_Replaced(r, n) == TRUE

\* The INSERT of acquire_lock and acquire_root_write_scope succeeds, or finds
\* a row of the same owner to renew.
Acquirable(r, n) == ~lock[r].live \/ lock[r].owner = n
Acquired(r, n) == [Unexpired EXCEPT ![r] = [owner |-> n, live |-> TRUE]]

\* release_write_scope: only the row of that owner for that target.
ScopeReleased(n, r) ==
    IF n = Root THEN [lock EXCEPT ![r] = IF @.owner = n THEN Free ELSE @] ELSE lock

\* _reserve_parent_budget finds the row with enough left.
Affordable == Limit - reserved >= Cost

\* _insert_node: a node with targets is created, and ready once they are locked.
Inserted(n) == [node EXCEPT ![n] = IF TargetsOf[n] = {} THEN "ready" ELSE "created"]

\* cancel_subtree of the root: each open node releases its locks and gives back
\* its budget.
CancelTree ==
    /\ node' = [n \in Nodes |-> IF Open(node, n) THEN "cancelled" ELSE node[n]]
    /\ live' = {}
    /\ lock' = [r \in Resources |-> IF lock[r].owner \in Nodes /\ Open(node, lock[r].owner)
                                   THEN Free ELSE lock[r]]
    /\ reserved' = reserved - Cost * Cardinality(OpenChildren(node))
    /\ graph' = "cancelled"

\* finish_graph: the graph row and nothing else.
FinishGraph == graph' = outcome /\ UNCHANGED <<node, live, lock, reserved>>

-----------------------------------------------------------------------------
(***************************************************************************)
(* agent.delegate: MultiAgentCoordinator.delegate.                         *)
(***************************************************************************)

\* One turn of the root makes the calls of S side by side, as far as their
\* writers declare targets; otherwise they are batches of one.
CallBatch(S) ==
    /\ rootAt = "turn" /\ turns < MaxTurns /\ turns' = turns + 1
    /\ \A c \in Calls : pc[c] = "idle"
    /\ \A n \in Nodes : writing[n] = Nobody
    /\ graph = "active" /\ S # {}
    /\ pc' = [c \in Calls |-> IF c \in S THEN "gate" ELSE "idle"]
    /\ UNCHANGED <<rows, rootAt, gate, batch, work, writing, history, crashes>>

\* _resolve_targets: a writer declares targets, and the tool that resolves one
\* may raise.
MayNotResolve(n) == TargetsOf[n] # {}

\* The call takes the gate.  A child that has its artifact needs no work; a
\* declared target may not resolve; a new child may exceed the budget.
Enter(c) ==
    /\ pc[c] = "gate" /\ gate = Nobody
    /\ \/ ChildOf[c] \in artifact
       \/ MayNotResolve(ChildOf[c])
       \/ node[ChildOf[c]] = "none" /\ ~Affordable
    /\ Goes(c, "idle")
    /\ UNCHANGED <<rows, rootAt, gate, batch, work, writing, history, bounds>>

\* spawn_child of a name the graph does not have yet.
SpawnChild(n) ==
    /\ node[n] = "none" /\ Affordable
    /\ node' = [Inserted(n) EXCEPT ![Root] = IF @ = "ready" THEN "waiting" ELSE @]
    /\ reserved' = reserved + Cost

\* The call takes the gate and finds or spawns its child.
Prepare(c) ==
    /\ pc[c] = "gate" /\ gate = Nobody /\ ChildOf[c] \notin artifact
    /\ \/ SpawnChild(ChildOf[c])
       \/ node[ChildOf[c]] # "none" /\ UNCHANGED <<node, reserved>>
    /\ IF TargetsOf[ChildOf[c]] = {}
       THEN Goes(c, "barrier") /\ UNCHANGED gate
       ELSE Goes(c, "lock") /\ gate' = c
    /\ UNCHANGED <<graph, live, artifact, lock, mail, outcome, rootAt, batch, work, writing,
                   history, bounds>>

Lockable == {"created", "ready", "running"}

\* acquire_lock of each target in turn.  It raises when the node cannot own a
\* lock; when another owner has one, the child gives back those it got.
AcquireLocks(c) ==
    LET n == ChildOf[c]
    IN  /\ pc[c] = "lock"
        /\ \/ /\ node[n] \notin Lockable
              /\ Goes(c, "idle") /\ gate' = Nobody /\ UNCHANGED lock
           \/ /\ node[n] \in Lockable /\ \A r \in TargetsOf[n] : Acquirable(r, n)
              /\ lock' = [r \in Resources |-> IF r \in TargetsOf[n]
                                             THEN [owner |-> n, live |-> TRUE] ELSE Unexpired[r]]
              /\ Goes(c, "activate") /\ UNCHANGED gate
           \/ /\ node[n] \in Lockable /\ \E r \in TargetsOf[n] : ~Acquirable(r, n)
              /\ lock' = Released(n) /\ Goes(c, "undo") /\ UNCHANGED gate
        /\ UNCHANGED <<graph, node, live, reserved, artifact, mail, outcome, rootAt, batch,
                       work, writing, history, bounds>>

\* cancel_subtree of the child that did not get its locks.
Undo(c) ==
    /\ pc[c] = "undo"
    /\ IF Open(node, ChildOf[c])
       THEN Ends(ChildOf[c], "cancelled")
       ELSE UNCHANGED <<node, live, lock, reserved>>
    /\ Goes(c, "idle") /\ gate' = Nobody
    /\ UNCHANGED <<graph, artifact, mail, outcome, rootAt, batch, work, writing, history, bounds>>

\* Every target was locked: activate_node, and the gate is left.
Activate(c) ==
    /\ pc[c] = "activate"
    /\ node' = [node EXCEPT ![ChildOf[c]] = IF @ = "created" THEN "ready" ELSE @]
    /\ Goes(c, "barrier") /\ gate' = Nobody
    /\ UNCHANGED <<graph, live, reserved, artifact, lock, mail, outcome, rootAt, batch,
                   work, writing, history, bounds>>

\* The second visit of the gate: the preparations of the batch go first.
Barrier(c) ==
    /\ pc[c] = "barrier" /\ gate = Nobody
    /\ Goes(c, IF ChildOf[c] \in artifact THEN "idle" ELSE "lease")
    /\ UNCHANGED <<rows, rootAt, gate, batch, work, writing, history, bounds>>

\* The first UPDATE of lease_ready: leases that expired are taken back.
Reclaimed == [n \in Nodes |-> IF node[n] = "running" /\ n \notin live THEN "ready" ELSE node[n]]
Running(nodes) == {n \in Nodes : nodes[n] = "running"}
\* Ready nodes without an open child; the deeper ones come first.
Leasable(nodes) ==
    {n \in Nodes : nodes[n] = "ready" /\ (n = Root => OpenChildren(nodes) = {})}

\* Mutant: the nodes that run already are not counted.
FreeSlots_Uncounted == MaxConcurrency
FreeSlots == MaxConcurrency - Cardinality(Running(Reclaimed))

\* lease_ready, by execute_ready.
LeaseReady(c) ==
    /\ pc[c] = "lease"
    /\ lock' = Unexpired
    /\ \E L \in SUBSET (IF graph = "active" THEN Leasable(Reclaimed) ELSE {}) :
          /\ Cardinality(L) <= FreeSlots
          /\ Cardinality(L) < FreeSlots => graph # "active" \/ L = Leasable(Reclaimed)
          /\ Root \in L => Leasable(Reclaimed) \ L = {}
          /\ node' = [n \in Nodes |-> IF n \in L THEN "running" ELSE Reclaimed[n]]
          /\ live' = (live \intersect Running(node)) \union L
          /\ batch' = [batch EXCEPT ![c] = L]
          /\ work' = [n \in Nodes |-> IF n \in L THEN "receive" ELSE work[n]]
    /\ again' = (again \/ node[ChildOf[c]] \in Terminal)
    /\ Goes(c, "run")
    /\ UNCHANGED <<graph, reserved, artifact, mail, outcome, rootAt, gate, writing,
                   heard, early, lapsed, bounds>>

\* The batch has ended.  A child of it that failed, or one that has its
\* artifact, is the answer; otherwise the call waits for another's work.
BatchEnds(c) ==
    /\ pc[c] = "run" /\ \A n \in batch[c] : work[n] = "off"
    /\ Goes(c, IF ChildOf[c] \in batch[c] \union artifact THEN "idle" ELSE "wait")
    /\ batch' = [batch EXCEPT ![c] = {}]
    /\ UNCHANGED <<rows, rootAt, gate, work, writing, history, bounds>>

\* Mutant: nothing ends the wait for the work of another call.
WaitEnds_NoTimeout(c) ==
    /\ pc[c] = "wait" /\ ChildOf[c] \in artifact /\ Goes(c, "idle")
    /\ UNCHANGED <<rows, rootAt, gate, batch, work, writing, history, bounds>>

\* _wait_for_artifact returns, at the latest after its timeout.
WaitEnds(c) ==
    /\ pc[c] = "wait" /\ Goes(c, "idle")
    /\ UNCHANGED <<rows, rootAt, gate, batch, work, writing, history, bounds>>

-----------------------------------------------------------------------------
(***************************************************************************)
(* agent.message: MultiAgentCoordinator.message.                           *)
(***************************************************************************)

\* The recipient is looked at and the item is sent in two transactions behind
\* the gate, which a lease of the recipient does not take: by the time of the
\* second one the recipient may be running.
Accepts(m) ==
    \/ node[RecipientOf[m]] \in {"created", "ready"} /\ early' = early \union {m}
    \/ node[RecipientOf[m]] = "running" /\ (\E c \in Calls : pc[c] = "run") /\ UNCHANGED early

\* send_mail: a correlation id that is known adds nothing.
Posts(m) == mail[m] = "none" /\ mail' = [mail EXCEPT ![m] = "pending"]

SendMail(m) ==
    /\ rootAt = "turn" /\ gate = Nobody /\ graph = "active"
    /\ Accepts(m) /\ Posts(m)
    /\ UNCHANGED <<graph, node, live, reserved, artifact, lock, outcome, process,
                   heard, lapsed, again, bounds>>

Inbox(n, states) == {m \in Mails : RecipientOf[m] = n /\ mail[m] \in states}

-----------------------------------------------------------------------------
(***************************************************************************)
(* The worker of a leased node: execute_node of execute_ready, with        *)
(* DelegatedHarnessWorker.                                                 *)
(***************************************************************************)

\* Mutant: only new mail is read, so that of an execution cut short is lost.
Receive_PendingOnly(n) ==
    /\ work[n] = "receive"
    /\ heard' = (heard \ {m \in Mails : RecipientOf[m] = n}) \union Inbox(n, {"pending"})
    /\ mail' = [m \in Mails |-> IF m \in Inbox(n, {"pending"}) THEN "delivered" ELSE mail[m]]
    /\ Works(n, "work")
    /\ UNCHANGED <<graph, node, live, reserved, artifact, lock, outcome, rootAt, gate, pc,
                   batch, writing, early, lapsed, again, bounds>>

\* receive_mail: what was not acknowledged is delivered again.
Receive(n) ==
    /\ work[n] = "receive"
    /\ heard' = (heard \ {m \in Mails : RecipientOf[m] = n})
                    \union Inbox(n, {"pending", "delivered"})
    /\ mail' = [m \in Mails |-> IF m \in Inbox(n, {"pending"}) THEN "delivered" ELSE mail[m]]
    /\ Works(n, "work")
    /\ UNCHANGED <<graph, node, live, reserved, artifact, lock, outcome, rootAt, gate, pc,
                   batch, writing, early, lapsed, again, bounds>>

\* renew_write_scope finds the exact row of the owner, unexpired.
Holds(n, r) == lock[r] = [owner |-> n, live |-> TRUE]

\* A write of a delegated child: its lock is renewed just before.
StartWrite(n, r) ==
    /\ work[n] = "work" /\ n \in Children /\ writing[n] = Nobody
    /\ r \in TargetsOf[n] /\ Holds(n, r)
    /\ writing' = [writing EXCEPT ![n] = r]
    /\ lapsed' = lapsed \ {n}
    /\ UNCHANGED <<rows, rootAt, gate, pc, batch, work, heard, early, again, bounds>>

\* A renewal that fails cancels the operation beside it.
Heartbeat(n) ==
    /\ writing[n] # Nobody /\ ~Holds(n, writing[n])
    /\ writing' = [writing EXCEPT ![n] = Nobody]
    /\ lock' = ScopeReleased(n, writing[n])
    /\ UNCHANGED <<graph, node, live, reserved, artifact, mail, outcome, rootAt, gate, pc,
                   batch, work, history, bounds>>

\* The write of a child ends; that of the root also releases its target.
EndWrite(n) ==
    /\ writing[n] # Nobody
    /\ writing' = [writing EXCEPT ![n] = Nobody]
    /\ lock' = ScopeReleased(n, writing[n])
    /\ UNCHANGED <<graph, node, live, reserved, artifact, mail, outcome, rootAt, gate, pc,
                   batch, work, history, bounds>>

\* The harness of a child ends completed: complete_node.  Its worker never
\* runs the root node, whose tools the child registry does not have.
Complete(n) ==
    /\ work[n] = "work" /\ n \in Children /\ writing[n] = Nobody /\ node[n] = "running"
    /\ Ends(n, "completed") /\ artifact' = artifact \union {n}
    /\ Works(n, "acknowledge")
    /\ UNCHANGED <<graph, mail, outcome, rootAt, gate, pc, batch, writing, history, bounds>>

\* acknowledge_mail of the input, in transactions of their own.
AcknowledgeMail(n) ==
    /\ work[n] = "acknowledge"
    /\ mail' = [m \in Mails |-> IF RecipientOf[m] = n /\ m \in heard THEN "acknowledged"
                                ELSE mail[m]]
    /\ Works(n, "off")
    /\ UNCHANGED <<graph, node, live, reserved, artifact, lock, outcome, rootAt, gate, pc,
                   batch, writing, history, bounds>>

\* The harness ends otherwise, or raises: fail_node.
FailNode(n) ==
    /\ work[n] = "work" /\ writing[n] = Nobody /\ node[n] = "running"
    /\ Ends(n, "failed") /\ Works(n, "off")
    /\ UNCHANGED <<graph, artifact, mail, outcome, rootAt, gate, pc, batch, writing, history, bounds>>

\* complete_node or fail_node finds the node in other hands and raises: the
\* gather of the batch ends, and its siblings go on by themselves.
LoseNode(n) ==
    /\ work[n] = "work" /\ writing[n] = Nobody /\ node[n] # "running"
    /\ Works(n, "off")
    /\ \E c \in Calls :
          /\ n \in batch[c] /\ Goes(c, "idle") /\ batch' = [batch EXCEPT ![c] = {}]
    /\ UNCHANGED <<rows, rootAt, gate, writing, history, bounds>>

-----------------------------------------------------------------------------
(***************************************************************************)
(* The root run, its process, and the rest of the tenant.                  *)
(***************************************************************************)
AllIdle == (\A c \in Calls : pc[c] = "idle") /\ writing[Root] = Nobody

\* The handler runs or resumes the root.
Resume ==
    /\ rootAt = "off" /\ outcome = "none" /\ rootAt' = "turn"
    /\ UNCHANGED <<rows, gate, pc, batch, work, writing, history, bounds>>

\* acquire_root_write_scope: the root node could be running.
RootScope(r) ==
    /\ graph = "active" /\ node[Root] \in Lockable /\ Acquirable(r, Root)
    /\ lock' = Acquired(r, Root)

\* A write of the root takes the lock of its target for the call.
StartRootWrite(r) ==
    /\ rootAt = "turn" /\ AllIdle /\ turns < MaxTurns /\ turns' = turns + 1
    /\ RootScope(r)
    /\ writing' = [writing EXCEPT ![Root] = r] /\ lapsed' = lapsed \ {Root}
    /\ UNCHANGED <<graph, node, live, reserved, artifact, mail, outcome, rootAt, gate, pc,
                   batch, work, heard, early, again, crashes>>

\* The root run ends at a safe boundary.
Decide(status) ==
    /\ rootAt = "turn" /\ AllIdle
    /\ outcome' = status /\ rootAt' = "off"
    /\ UNCHANGED <<graph, node, live, reserved, artifact, lock, mail, gate, pc, batch, work,
                   writing, history, bounds>>

StopCoroutines ==
    /\ rootAt' = "off" /\ gate' = Nobody
    /\ pc' = [c \in Calls |-> "idle"] /\ batch' = [c \in Calls |-> {}]
    /\ work' = [n \in Nodes |-> "off"] /\ writing' = [n \in Nodes |-> Nobody]

\* The wall time of the root runs out in a batch; its coroutines are cancelled.
TimeOut ==
    /\ rootAt = "turn" /\ ~AllIdle
    /\ outcome' = "failed" /\ StopCoroutines
    /\ lock' = IF writing[Root] = Nobody THEN lock ELSE ScopeReleased(Root, writing[Root])
    /\ UNCHANGED <<graph, node, live, reserved, artifact, mail, history, bounds>>

Crash ==
    /\ rootAt = "turn" /\ crashes < MaxCrashes /\ crashes' = crashes + 1
    /\ StopCoroutines
    /\ UNCHANGED <<rows, history, turns>>

\* MultiAgentCoordinator.finish: a cancelled root cancels what is open below
\* it, any other outcome closes the graph and nothing else.
Finish ==
    /\ outcome # "none" /\ graph = "active"
    /\ IF outcome = "cancelled" THEN CancelTree ELSE FinishGraph
    /\ UNCHANGED <<artifact, mail, outcome, process, history, bounds>>

\* A node lease expires.  It outlives the calls of one batch, all but the last
\* of which are past lease_ready before any is awaited.
NodeLapses(n) ==
    /\ n \in live /\ \A c \in Calls : pc[c] \in {"idle", "run", "wait"}
    /\ live' = live \ {n}
    /\ UNCHANGED <<graph, node, reserved, artifact, lock, mail, outcome, process, history, bounds>>

\* A lock lease expires, whether or not its owner is writing.
LockLapses(r) ==
    /\ lock[r].live /\ lock' = [lock EXCEPT ![r].live = FALSE]
    /\ lapsed' = lapsed \union {n \in Nodes : writing[n] = r /\ lock[r].owner = n}
    /\ UNCHANGED <<graph, node, live, reserved, artifact, mail, outcome, process,
                   heard, early, again, bounds>>

\* Another graph writes, with the lock of its own call or child.
OtherGraph(r) ==
    /\ \/ Acquirable(r, Other) /\ lock[r].owner # Other /\ lock' = Acquired(r, Other)
       \/ lock[r].owner = Other /\ lock' = [lock EXCEPT ![r] = Free]
    /\ UNCHANGED <<graph, node, live, reserved, artifact, mail, outcome, process, history, bounds>>

-----------------------------------------------------------------------------
Delegation(c) ==
    \/ Enter(c) \/ Prepare(c) \/ AcquireLocks(c) \/ Undo(c) \/ Activate(c)
    \/ Barrier(c) \/ LeaseReady(c) \/ BatchEnds(c) \/ WaitEnds(c)

Worker(n) ==
    \/ Receive(n) \/ Complete(n) \/ AcknowledgeMail(n) \/ FailNode(n) \/ LoseNode(n)
    \/ Heartbeat(n) \/ EndWrite(n)

Next ==
    \/ \E S \in SUBSET Calls : CallBatch(S)
    \/ \E c \in Calls : Delegation(c)
    \/ \E m \in Mails : SendMail(m)
    \/ \E n \in Nodes : Worker(n) \/ NodeLapses(n)
    \/ \E r \in Resources : StartRootWrite(r) \/ LockLapses(r) \/ OtherGraph(r)
    \/ \E n \in Nodes, r \in Resources : StartWrite(n, r)
    \/ \E s \in Terminal : Decide(s)
    \/ Resume \/ TimeOut \/ Crash \/ Finish

\* What a working child comes to.
WorkEnds(n) == Complete(n) \/ FailNode(n) \/ LoseNode(n)

\* The event loop runs its coroutines.  A child that works may write again and
\* again, but its own budgets run out: strong fairness of its end.
Spec ==
    /\ Init /\ [][Next]_vars
    /\ \A c \in Calls : WF_vars(Delegation(c))
    /\ \A n \in Nodes : WF_vars(Worker(n)) /\ SF_vars(WorkEnds(n))

-----------------------------------------------------------------------------
(***************************************************************************)
(* Properties.                                                             *)
(***************************************************************************)

\* The root's ledger row holds what its open children took and nothing else:
\* each end of a child gives back its share once, whichever of its worker, a
\* failed preparation and a cancelled root ends it (_reserve_parent_budget,
\* _release_parent_budget).
BudgetReserved == reserved = Cost * Cardinality(OpenChildren(node))

\* The root node waits only for an open child, so its writes are refused for
\* no longer than a child is open; and only a delegation that repeats a failed
\* one can take the root node for work and fail it (delegate, lease_ready).
RootIsFreed ==
    /\ node[Root] = "waiting" => OpenChildren(node) # {}
    /\ node[Root] \in {"running", "failed"} => again

\* A failed preparation gives up its child, and cancelling a tree its nodes: the
\* worker hears of it at its next heartbeat.
GivenUp(n) == node[n] = "cancelled" \/ \E c \in Calls : pc[c] = "undo" /\ ChildOf[c] = n

\* Whoever writes owns the lock of its target, unless that lock lapsed during
\* the write or its node was given up: the end of a sibling, the preparation of
\* another child and another graph do not take it away, and a worker left
\* behind by its call keeps it (acquire_lock, release_locks, cancel_subtree,
\* _execute_with_lease_heartbeat).
WriterOwnsTarget ==
    \A n \in Nodes : writing[n] # Nobody =>
        lock[writing[n]].owner = n \/ n \in lapsed \/ GivenUp(n)

\* A message accepted before its child was leased is in the input that led to
\* the child's artifact, through crashes and new leases (message, receive_mail).
MailIsHeard ==
    \A m \in early : RecipientOf[m] \in artifact => m \in heard

\* Every call of a batch comes back, whatever its child, the other calls of the
\* batch and the other graphs do (delegate, execute_ready).
CallsReturn == \A c \in Calls : pc[c] # "idle" ~> pc[c] = "idle"
=============================================================================
