--------------------------- MODULE AgentGraphProofs ---------------------------
(***************************************************************************)
(* For any children, calls, targets, mail, budget and number of crashes:   *)
(* the ledger has what the open children took, the root waits only for an  *)
(* open child, a writer keeps its lock until it lapses or its node is given*)
(* up, and early mail is heard.                                            *)
(***************************************************************************)
EXTENDS AgentGraph, FiniteSetTheorems, TLAPS

\* The nodes of a call: its child exists once the call is past the gate, and
\* it holds a batch only while it awaits it.
CallsKnowChild ==
    \A c \in Calls : /\ pc[c] \notin {"idle", "gate"} => node[ChildOf[c]] # "none"
                     /\ batch[c] # {} => pc[c] = "run"

\* A worker outlives the lease of its node, but not its end by that worker.
Settled == {"completed", "failed", "none"}
WorkersAreOpen ==
    \A n \in Nodes : /\ node[n] \in Settled => work[n] \in {"off", "acknowledge"}
                     /\ node[n] \in Settled => writing[n] = Nobody

\* The lock of a writer is held, not only owned.
WritersHold ==
    \A n \in Nodes : writing[n] # Nobody => Holds(n, writing[n]) \/ n \in lapsed \/ GivenUp(n)

\* A mail is acknowledged after its recipient completed, and what a running
\* worker has in hand contains the early mail.
MailKept ==
    /\ \A n \in artifact : node[n] = "completed"
    /\ \A n \in Children : work[n] = "acknowledge" => n \in artifact
    /\ \A m \in Mails : mail[m] = "acknowledged" => RecipientOf[m] \in artifact
    /\ \A m \in early : /\ mail[m] # "none"
                        /\ node[RecipientOf[m]] = "running" /\ work[RecipientOf[m]] = "work"
                              => m \in heard

\* The inductive invariant.
GraphInv ==
    /\ TypeOK /\ BudgetReserved
    /\ RootIsFreed /\ CallsKnowChild
    /\ WorkersAreOpen /\ WritersHold
    /\ MailKept /\ MailIsHeard

-----------------------------------------------------------------------------
(***************************************************************************)
(* Helpers.                                                                *)
(***************************************************************************)

\* The names of the owners differ.
LEMMA NamesDiffer ==
    /\ Root \notin Children /\ Other \notin Nodes /\ Nobody \notin Nodes /\ Nobody # Other
    /\ Root \in Nodes /\ Children \subseteq Nodes
BY NamesAssumption DEF Nodes, Root, Other, Nobody

\* The nodes are finitely many, and so are their subsets.
LEMMA NodesAreFinite ==
    /\ IsFiniteSet(Nodes)
    /\ \A S \in SUBSET Nodes : IsFiniteSet(S) /\ Cardinality(S) \in Nat
<1>1. IsFiniteSet(Children)
  BY NamesAssumption
<1>2. IsFiniteSet(Children \union {Root})
  BY <1>1, FS_AddElement
<1>3. Nodes = Children \union {Root}
  BY DEF Nodes
<1>4. IsFiniteSet(Nodes)
  BY <1>2, <1>3
<1>5. ASSUME NEW S \in SUBSET Nodes
      PROVE  IsFiniteSet(S) /\ Cardinality(S) \in Nat
  BY <1>4, <1>5, FS_Subset, FS_CardinalityType
<1> QED
  BY <1>4, <1>5

\* The shares of k children.
LEMMA Shares ==
    ASSUME NEW k \in Nat
    PROVE  /\ Cost * k \in Nat
           /\ Cost * (k + 1) = Cost * k + Cost
           /\ k > 0 => Cost * k >= Cost /\ Cost * (k - 1) = Cost * k - Cost
           /\ Cost * 0 = 0
<1>1. Cost \in Nat
  BY BudgetAssumption
<1>2. Cost * k \in Nat /\ Cost * (k + 1) = Cost * k + Cost /\ Cost * 0 = 0
  BY <1>1, SMT
<1>3. ASSUME k > 0
      PROVE  Cost * k >= Cost /\ Cost * (k - 1) = Cost * k - Cost
  <2>1. k - 1 \in Nat /\ (k - 1) + 1 = k
    BY <1>3
  <2>2. Cost * (k - 1) \in Nat /\ Cost * ((k - 1) + 1) = Cost * (k - 1) + Cost
    BY <1>1, <2>1, SMT
  <2> QED
    BY <1>1, <2>1, <2>2
<1> QED
  BY <1>2, <1>3

\* The open children are a finite set, which depends on the children only.
LEMMA OpenIsFinite ==
    ASSUME NEW nodes
    PROVE  /\ OpenChildren(nodes) \subseteq Children
           /\ IsFiniteSet(OpenChildren(nodes)) /\ Cardinality(OpenChildren(nodes)) \in Nat
<1>1. OpenChildren(nodes) \subseteq Children
  BY DEF OpenChildren
<1> QED
  BY <1>1, NodesAreFinite, NamesDiffer

LEMMA OpenIsSame ==
    ASSUME NEW old, NEW new, \A n \in Children : Open(old, n) <=> Open(new, n)
    PROVE  OpenChildren(new) = OpenChildren(old)
BY DEF OpenChildren

\* spawn_child: one more open child.
LEMMA OpenGrows ==
    ASSUME NEW old, NEW new, NEW c \in Children, ~Open(old, c), Open(new, c),
           \A n \in Children \ {c} : Open(old, n) <=> Open(new, n)
    PROVE  /\ OpenChildren(new) = OpenChildren(old) \union {c}
           /\ Cardinality(OpenChildren(new)) = Cardinality(OpenChildren(old)) + 1
<1>1. OpenChildren(new) = OpenChildren(old) \union {c} /\ c \notin OpenChildren(old)
  BY DEF OpenChildren
<1> QED
  BY <1>1, OpenIsFinite, FS_AddElement

\* complete_node, fail_node, cancel_subtree: one open child less.
LEMMA OpenShrinks ==
    ASSUME NEW old, NEW new, NEW c \in Children, Open(old, c), ~Open(new, c),
           \A n \in Children \ {c} : Open(old, n) <=> Open(new, n)
    PROVE  /\ Cardinality(OpenChildren(old)) > 0
           /\ Cardinality(OpenChildren(new)) = Cardinality(OpenChildren(old)) - 1
<1>1. OpenChildren(new) = OpenChildren(old) \ {c} /\ c \in OpenChildren(old)
  BY DEF OpenChildren
<1>2. Cardinality(OpenChildren(new)) = Cardinality(OpenChildren(old)) - 1
  BY <1>1, OpenIsFinite, FS_RemoveElement
<1>3. Cardinality(OpenChildren(old)) \in Nat /\ Cardinality(OpenChildren(new)) \in Nat
  BY OpenIsFinite
<1> QED
  BY <1>2, <1>3

\* _wake_parent touches the root's row only, and only if it waits for no one.
LEMMA WokenKeepsRest ==
    ASSUME NEW nodes \in [Nodes -> NodeStatus]
    PROVE  /\ Woken(nodes) \in [Nodes -> NodeStatus]
           /\ \A n \in Children : Woken(nodes)[n] = nodes[n]
           /\ Woken(nodes)[Root] # nodes[Root] =>
                 Woken(nodes)[Root] = "ready" /\ nodes[Root] = "waiting"
           /\ Woken(nodes)[Root] = "waiting" => OpenChildren(nodes) # {}
BY NamesDiffer DEF Woken, NodeStatus

\* What the statements on the lock table leave is a lock table.
LockRows == [owner : Owners, live : BOOLEAN]
LEMMA LocksAreLocks ==
    ASSUME lock \in [Resources -> LockRows], NEW n \in Owners, NEW r \in Resources
    PROVE  /\ Released(n) \in [Resources -> LockRows]
           /\ Unexpired \in [Resources -> LockRows]
           /\ Acquired(r, n) \in [Resources -> LockRows]
           /\ ScopeReleased(n, r) \in [Resources -> LockRows]
<1>1. Free \in LockRows /\ [owner |-> n, live |-> TRUE] \in LockRows
  BY DEF Free, LockRows, Owners
<1>2. Released(n) \in [Resources -> LockRows] /\ Unexpired \in [Resources -> LockRows]
  BY <1>1 DEF Released, Unexpired
<1>3. Acquired(r, n) \in [Resources -> LockRows]
  BY <1>1, <1>2 DEF Acquired
<1>4. ScopeReleased(n, r) \in [Resources -> LockRows]
  BY <1>1 DEF ScopeReleased
<1> QED
  BY <1>2, <1>3, <1>4

\* A lease that goes leaves the others within max_concurrency.
LEMMA LiveShrinks ==
    ASSUME TypeOK, NEW S \in SUBSET live
    PROVE  S \subseteq Nodes /\ Cardinality(S) <= MaxConcurrency
<1>1. live \subseteq Nodes /\ Cardinality(live) <= MaxConcurrency
  BY DEF TypeOK
<1>2. IsFiniteSet(live) /\ Cardinality(live) \in Nat /\ Cardinality(S) \in Nat
  BY <1>1, NodesAreFinite
<1>3. Cardinality(S) <= Cardinality(live)
  BY <1>2, FS_Subset
<1> QED
  BY <1>1, <1>2, <1>3, LimitAssumption

\* What the ledger has is a budget.
LEMMA ReservedIsShares ==
    ASSUME TypeOK
    PROVE  reserved \in Nat /\ reserved <= Limit /\ Limit \in Nat /\ Cost \in Nat
BY BudgetAssumption DEF TypeOK

-----------------------------------------------------------------------------
(***************************************************************************)
(* What the transactions do to the rows.                                   *)
(***************************************************************************)

\* complete_node, fail_node and cancel_subtree of an open node.
LEMMA EndsEffect ==
    ASSUME TypeOK, BudgetReserved, NEW n \in Nodes, NEW status \in Terminal,
           Open(node, n), Ends(n, status)
    PROVE  /\ node' \in [Nodes -> NodeStatus] /\ node'[n] = status
           /\ \A x \in Children \ {n} : node'[x] = node[x]
           /\ n # Root /\ node'[Root] # node[Root] =>
                 node'[Root] = "ready" /\ node[Root] = "waiting"
           /\ node'[Root] = "waiting" => OpenChildren(node') # {}
           /\ live' = live \ {n} /\ lock' = Released(n)
           /\ reserved' \in 0 .. Limit /\ BudgetReserved'
<1> DEFINE ended == [node EXCEPT ![n] = status]
<1>1. node \in [Nodes -> NodeStatus]
  BY DEF TypeOK
<1>2. ended \in [Nodes -> NodeStatus] /\ ended[n] = status
      /\ \A x \in Nodes \ {n} : ended[x] = node[x]
  BY <1>1 DEF NodeStatus
<1>3. node' = Woken(ended) /\ live' = live \ {n} /\ lock' = Released(n) /\ reserved' = GivenBack(n)
  BY DEF Ends
<1>4. status # "waiting" /\ status \notin {"none"} /\ status \in Terminal
  BY DEF Terminal
<1> HIDE DEF ended
<1>5. /\ node' \in [Nodes -> NodeStatus]
      /\ \A x \in Children : node'[x] = ended[x]
      /\ node'[Root] # ended[Root] => node'[Root] = "ready" /\ ended[Root] = "waiting"
      /\ node'[Root] = "waiting" => OpenChildren(ended) # {}
  BY <1>2, <1>3, WokenKeepsRest
<1>6. \A x \in Children : Open(ended, x) <=> Open(node', x)
  BY <1>5 DEF Open
<1>7. OpenChildren(node') = OpenChildren(ended)
  BY <1>6, OpenIsSame
<1>8. node'[n] = status
  <2>1. CASE n = Root
    BY <2>1, <1>2, <1>4, <1>5
  <2>2. CASE n # Root
    BY <2>2, <1>2, <1>5 DEF Nodes
  <2> QED
    BY <2>1, <2>2
<1>9. \A x \in Children \ {n} : node'[x] = node[x]
  BY <1>2, <1>5, NamesDiffer
<1>10. n # Root /\ node'[Root] # node[Root] => node'[Root] = "ready" /\ node[Root] = "waiting"
  BY <1>2, <1>5, NamesDiffer
<1>11. reserved' \in 0 .. Limit /\ BudgetReserved'
  <2>1. CASE n = Root
    <3>1. \A x \in Children : Open(node, x) <=> Open(node', x)
      BY <2>1, <1>9, NamesDiffer DEF Open
    <3>2. OpenChildren(node') = OpenChildren(node)
      BY <3>1, OpenIsSame
    <3> QED
      BY <2>1, <3>2, <1>3 DEF GivenBack, BudgetReserved, TypeOK
  <2>2. CASE n # Root
    <3>1. n \in Children /\ ~Open(node', n)
      BY <2>2, <1>4, <1>8 DEF Nodes, Open
    <3>2. \A x \in Children \ {n} : Open(node, x) <=> Open(node', x)
      BY <1>9 DEF Open
    <3> DEFINE k == Cardinality(OpenChildren(node))
    <3>3. k \in Nat /\ k > 0 /\ Cardinality(OpenChildren(node')) = k - 1
      BY <3>1, <3>2, OpenShrinks, OpenIsFinite
    <3>4. reserved = Cost * k
      BY DEF BudgetReserved
    <3>5. reserved' = IF reserved >= Cost THEN reserved - Cost ELSE 0
      BY <2>2, <1>3 DEF GivenBack
    <3>6. BudgetReserved' <=> reserved' = Cost * (k - 1)
      BY <3>3 DEF BudgetReserved
    <3> HIDE DEF k
    <3>7. reserved >= Cost /\ Cost * (k - 1) = reserved - Cost
      BY <3>3, <3>4, Shares
    <3>8. reserved' = reserved - Cost
      BY <3>5, <3>7
    <3> QED
      BY <3>6, <3>7, <3>8, ReservedIsShares
  <2> QED
    BY <2>1, <2>2
<1> QED
  BY <1>3, <1>5, <1>7, <1>8, <1>9, <1>10, <1>11

\* spawn_child of a new name.
LEMMA SpawnEffect ==
    ASSUME TypeOK, BudgetReserved, NEW n \in Children, SpawnChild(n)
    PROVE  /\ node' \in [Nodes -> NodeStatus] /\ node'[n] \in {"created", "ready"}
           /\ node[n] = "none"
           /\ \A x \in Children \ {n} : node'[x] = node[x]
           /\ node'[Root] # node[Root] => node'[Root] = "waiting" /\ node[Root] = "ready"
           /\ OpenChildren(node') # {}
           /\ reserved' \in 0 .. Limit /\ BudgetReserved'
<1> DEFINE status == IF TargetsOf[n] = {} THEN "ready" ELSE "created"
<1>1. node \in [Nodes -> NodeStatus] /\ n \in Nodes /\ Root \in Nodes /\ n # Root
  BY NamesDiffer DEF TypeOK
<1>2. node[n] = "none" /\ Affordable /\ reserved' = reserved + Cost
  BY DEF SpawnChild
<1>3. status \in {"created", "ready"} /\ status \in NodeStatus
  BY DEF NodeStatus
<1>4. Inserted(n) = [node EXCEPT ![n] = status]
  BY DEF Inserted
<1> HIDE DEF status
<1>5. Inserted(n) \in [Nodes -> NodeStatus] /\ Inserted(n)[n] = status
      /\ \A x \in Nodes \ {n} : Inserted(n)[x] = node[x]
  BY <1>1, <1>3, <1>4
<1>6. node' = [Inserted(n) EXCEPT ![Root] = IF Inserted(n)[Root] = "ready" THEN "waiting"
                                             ELSE Inserted(n)[Root]]
  BY DEF SpawnChild
<1>7. /\ node' \in [Nodes -> NodeStatus] /\ node'[n] = status
      /\ \A x \in Children \ {n} : node'[x] = node[x]
  BY <1>1, <1>5, <1>6, NamesDiffer DEF NodeStatus
<1>8. node'[Root] # node[Root] => node'[Root] = "waiting" /\ node[Root] = "ready"
  BY <1>1, <1>5, <1>6
<1>9. ~Open(node, n) /\ Open(node', n) /\ \A x \in Children \ {n} : Open(node, x) <=> Open(node', x)
  BY <1>2, <1>3, <1>7 DEF Open, Terminal
<1>10. OpenChildren(node') # {}
  BY <1>9 DEF OpenChildren
<1>11. reserved' \in 0 .. Limit /\ BudgetReserved'
  <2> DEFINE k == Cardinality(OpenChildren(node))
  <2>1. k \in Nat /\ Cardinality(OpenChildren(node')) = k + 1
    BY <1>9, OpenGrows, OpenIsFinite
  <2>2. reserved = Cost * k /\ (BudgetReserved' <=> reserved' = Cost * (k + 1))
    BY <2>1 DEF BudgetReserved
  <2> HIDE DEF k
  <2>3. reserved' = Cost * (k + 1)
    BY <1>2, <2>1, <2>2, Shares
  <2> QED
    BY <1>2, <2>2, <2>3, ReservedIsShares DEF Affordable
<1> QED
  BY <1>2, <1>3, <1>7, <1>8, <1>10, <1>11

\* lease_ready: the rows it takes and the rows it takes back.
LEMMA LeaseEffect ==
    ASSUME TypeOK, NEW c \in Calls, LeaseReady(c)
    PROVE  /\ node' \in [Nodes -> NodeStatus]
           /\ \E L \in SUBSET Nodes :
                /\ batch' = [batch EXCEPT ![c] = L]
                /\ work' = [n \in Nodes |-> IF n \in L THEN "receive" ELSE work[n]]
                /\ \A n \in L : node'[n] = "running" /\ node[n] \in {"ready", "running"}
                /\ \A n \in Nodes \ L : \/ node'[n] = node[n]
                                        \/ node[n] = "running" /\ node'[n] = "ready"
                /\ Root \in L => OpenChildren(node) = {}
           /\ OpenChildren(node') = OpenChildren(node)
           /\ live' \subseteq Nodes /\ Cardinality(live') <= MaxConcurrency
           /\ lock' = Unexpired
<1>1. PICK L \in SUBSET (IF graph = "active" THEN Leasable(Reclaimed) ELSE {}) :
         /\ Cardinality(L) <= FreeSlots
         /\ node' = [n \in Nodes |-> IF n \in L THEN "running" ELSE Reclaimed[n]]
         /\ live' = (live \intersect Running(node)) \union L
         /\ batch' = [batch EXCEPT ![c] = L]
         /\ work' = [n \in Nodes |-> IF n \in L THEN "receive" ELSE work[n]]
  BY DEF LeaseReady
<1>2. node \in [Nodes -> NodeStatus] /\ live \subseteq Nodes
  BY DEF TypeOK
<1>3. L \subseteq Leasable(Reclaimed) /\ L \in SUBSET Nodes
  BY <1>1 DEF Leasable
<1>4. \A n \in Nodes : Reclaimed[n] = IF node[n] = "running" /\ n \notin live THEN "ready" ELSE node[n]
  BY DEF Reclaimed
<1>5. Reclaimed \in [Nodes -> NodeStatus]
  BY <1>2 DEF Reclaimed, NodeStatus
<1>6. \A n \in Children : Open(node, n) <=> Open(Reclaimed, n)
  BY <1>4, NamesDiffer DEF Open, Terminal
<1>7. OpenChildren(Reclaimed) = OpenChildren(node)
  BY <1>6, OpenIsSame
<1>8. \A n \in L : Reclaimed[n] = "ready" /\ (n = Root => OpenChildren(Reclaimed) = {})
  BY <1>3 DEF Leasable
<1>9. node' \in [Nodes -> NodeStatus]
  BY <1>1, <1>5 DEF NodeStatus
<1>10. \A n \in L : node'[n] = "running" /\ node[n] \in {"ready", "running"}
  BY <1>1, <1>3, <1>4, <1>8
<1>11. \A n \in Nodes \ L : \/ node'[n] = node[n]
                            \/ node[n] = "running" /\ node'[n] = "ready"
  BY <1>1, <1>4
<1>12. \A n \in Children : Open(node, n) <=> Open(node', n)
  BY <1>10, <1>11, NamesDiffer DEF Open, Terminal
<1>13. OpenChildren(node') = OpenChildren(node)
  BY <1>12, OpenIsSame
<1>14. live' \subseteq Nodes /\ Cardinality(live') <= MaxConcurrency
  <2> DEFINE kept == live \intersect Running(node)
  <2>1. kept = Running(Reclaimed) /\ kept \subseteq Nodes
    BY <1>2, <1>4 DEF Running
  <2>2. /\ IsFiniteSet(kept) /\ Cardinality(kept) \in Nat
        /\ IsFiniteSet(L) /\ Cardinality(L) \in Nat
        /\ Cardinality(kept \intersect L) \in Nat
    BY <1>3, <2>1, NodesAreFinite
  <2>3. Cardinality(kept \union L) = Cardinality(kept) + Cardinality(L) - Cardinality(kept \intersect L)
    BY <2>2, FS_Union
  <2>4. Cardinality(L) <= MaxConcurrency - Cardinality(kept)
    BY <1>1, <2>1 DEF FreeSlots
  <2>5. live' = kept \union L
    BY <1>1
  <2> HIDE DEF kept
  <2>6. Cardinality(kept \union L) <= MaxConcurrency
    BY <2>2, <2>3, <2>4, LimitAssumption
  <2> QED
    BY <2>1, <2>5, <2>6, <1>3
<1>15. lock' = Unexpired
  BY DEF LeaseReady
<1> QED
  BY <1>1, <1>3, <1>7, <1>8, <1>9, <1>10, <1>11, <1>13, <1>14, <1>15

\* cancel_subtree of the root.
LEMMA CancelEffect ==
    ASSUME TypeOK, BudgetReserved, CancelTree
    PROVE  /\ node' \in [Nodes -> NodeStatus]
           /\ \A n \in Nodes : node'[n] = IF Open(node, n) THEN "cancelled" ELSE node[n]
           /\ live' \subseteq Nodes /\ Cardinality(live') <= MaxConcurrency
           /\ lock' \in [Resources -> LockRows]
           /\ \A r \in Resources : lock'[r] = lock[r] \/ Open(node, lock[r].owner)
           /\ reserved' \in 0 .. Limit /\ BudgetReserved'
<1>1. node \in [Nodes -> NodeStatus] /\ lock \in [Resources -> LockRows]
  BY DEF TypeOK, LockRows
<1>2. node' = [n \in Nodes |-> IF Open(node, n) THEN "cancelled" ELSE node[n]]
  BY DEF CancelTree
<1>3. node' \in [Nodes -> NodeStatus]
  BY <1>1, <1>2 DEF NodeStatus, Terminal
<1>4. live' = {} /\ Cardinality({}) = 0
  BY FS_EmptySet DEF CancelTree
<1>5. live' \subseteq Nodes /\ Cardinality(live') <= MaxConcurrency
  BY <1>4, LimitAssumption
<1>6. Free \in LockRows
  BY DEF Free, LockRows, Owners
<1>7. /\ lock' \in [Resources -> LockRows]
      /\ \A r \in Resources : lock'[r] = lock[r] \/ Open(node, lock[r].owner)
  BY <1>1, <1>6 DEF CancelTree
<1>8. reserved' = 0
  <2>1. reserved' = reserved - Cost * Cardinality(OpenChildren(node))
    BY DEF CancelTree
  <2>2. reserved = Cost * Cardinality(OpenChildren(node))
    BY DEF BudgetReserved
  <2> QED
    BY <2>1, <2>2, ReservedIsShares
<1>9. \A n \in Children : ~Open(node', n)
  BY <1>2, NamesDiffer DEF Open, Terminal
<1>10. OpenChildren(node') = {}
  BY <1>9 DEF OpenChildren
<1>11. BudgetReserved'
  BY <1>4, <1>8, <1>10, BudgetAssumption, Shares DEF BudgetReserved
<1> QED
  BY <1>2, <1>3, <1>5, <1>7, <1>8, <1>11, BudgetAssumption

-----------------------------------------------------------------------------
(***************************************************************************)
(* Types and the budget.                                                   *)
(***************************************************************************)
RowTypes ==
    /\ graph \in {"active"} \union Terminal
    /\ node \in [Nodes -> NodeStatus]
    /\ live \subseteq Nodes /\ Cardinality(live) <= MaxConcurrency
    /\ reserved \in 0 .. Limit
    /\ artifact \subseteq Children
    /\ lock \in [Resources -> LockRows]
    /\ mail \in [Mails -> {"none", "pending", "delivered", "acknowledged"}]
    /\ outcome \in {"none"} \union Terminal
ProcessTypes ==
    /\ rootAt \in {"off", "turn"}
    /\ gate \in Calls \union {Nobody}
    /\ pc \in [Calls -> {"idle", "gate", "lock", "activate", "undo", "barrier", "lease", "run", "wait"}]
    /\ batch \in [Calls -> SUBSET Nodes]
    /\ work \in [Nodes -> {"off", "receive", "work", "acknowledge"}]
    /\ writing \in [Nodes -> Resources \union {Nobody}]
HistoryTypes ==
    /\ heard \subseteq Mails /\ early \subseteq Mails
    /\ lapsed \subseteq Nodes /\ again \in BOOLEAN
    /\ turns \in 0 .. MaxTurns /\ crashes \in 0 .. MaxCrashes

LEMMA TypeParts == TypeOK <=> RowTypes /\ ProcessTypes /\ HistoryTypes
BY DEF TypeOK, RowTypes, ProcessTypes, HistoryTypes, LockRows

LEMMA RowTypesSame ==
    ASSUME RowTypes, BudgetReserved, UNCHANGED rows
    PROVE  RowTypes' /\ BudgetReserved'
BY DEF RowTypes, BudgetReserved, rows, OpenChildren, Open

\* The rows keep their types and the ledger its sum.
LEMMA RowTypesStep ==
    ASSUME TypeOK, BudgetReserved, [Next]_vars
    PROVE  RowTypes' /\ BudgetReserved'
<1>1. RowTypes
  BY TypeParts
<1>2. /\ \A c \in Calls : ChildOf[c] \in Children /\ ChildOf[c] \in Nodes
      /\ \A n \in Nodes : n \in Owners
      /\ Other \in Owners
  BY NamesAssumption, NamesDiffer DEF Owners
<1>3. ASSUME NEW S \in SUBSET Calls, CallBatch(S)
      PROVE  RowTypes' /\ BudgetReserved'
  BY <1>1, <1>3, RowTypesSame DEF CallBatch
<1>4. ASSUME NEW c \in Calls, Enter(c) \/ Barrier(c) \/ BatchEnds(c) \/ WaitEnds(c)
      PROVE  RowTypes' /\ BudgetReserved'
  BY <1>1, <1>4, RowTypesSame DEF Enter, Barrier, BatchEnds, WaitEnds
<1>5. ASSUME NEW c \in Calls, Prepare(c)
      PROVE  RowTypes' /\ BudgetReserved'
  <2>1. UNCHANGED <<graph, live, artifact, lock, mail, outcome>>
    BY <1>5 DEF Prepare
  <2>2. CASE SpawnChild(ChildOf[c])
    BY <2>1, <2>2, <1>1, <1>2, SpawnEffect DEF RowTypes
  <2>3. CASE UNCHANGED <<node, reserved>>
    BY <2>1, <2>3, <1>1, RowTypesSame DEF rows
  <2> QED
    BY <1>5, <2>2, <2>3 DEF Prepare
<1>6. ASSUME NEW c \in Calls, AcquireLocks(c)
      PROVE  RowTypes' /\ BudgetReserved'
  <2>1. UNCHANGED <<graph, node, live, reserved, artifact, mail, outcome>>
    BY <1>6 DEF AcquireLocks
  <2>2. lock \in [Resources -> LockRows]
    BY <1>1 DEF RowTypes
  <2>3. /\ Released(ChildOf[c]) \in [Resources -> LockRows]
        /\ [owner |-> ChildOf[c], live |-> TRUE] \in LockRows
        /\ \A r \in Resources : Unexpired[r] \in LockRows
    BY <2>2, <1>2 DEF Released, Unexpired, Free, LockRows, Owners
  <2>4. \/ UNCHANGED lock \/ lock' = Released(ChildOf[c])
        \/ lock' = [r \in Resources |-> IF r \in TargetsOf[ChildOf[c]]
                                       THEN [owner |-> ChildOf[c], live |-> TRUE] ELSE Unexpired[r]]
    BY <1>6 DEF AcquireLocks
  <2>5. lock' \in [Resources -> LockRows]
    BY <2>2, <2>3, <2>4
  <2> QED
    BY <2>1, <2>5, <1>1 DEF RowTypes, BudgetReserved, OpenChildren, Open
<1>7. ASSUME NEW n \in Nodes, NEW status \in Terminal, Open(node, n), Ends(n, status),
             artifact' \subseteq Children, UNCHANGED <<graph, mail, outcome>>
      PROVE  RowTypes' /\ BudgetReserved'
  <2>1. lock' \in [Resources -> LockRows]
    <3>1. lock' = Released(n)
      BY <1>7 DEF Ends
    <3> QED
      BY <3>1, <1>1 DEF RowTypes, Released, Free, LockRows, Owners
  <2>2. live' \subseteq Nodes /\ Cardinality(live') <= MaxConcurrency
    BY <1>7, EndsEffect, LiveShrinks
  <2> QED
    BY <2>1, <2>2, <1>1, <1>7, EndsEffect DEF RowTypes
<1>8. ASSUME NEW c \in Calls, Undo(c)
      PROVE  RowTypes' /\ BudgetReserved'
  <2>1. UNCHANGED <<graph, artifact, mail, outcome>>
    BY <1>8 DEF Undo
  <2>2. CASE Open(node, ChildOf[c])
    <3>1. Ends(ChildOf[c], "cancelled") /\ "cancelled" \in Terminal
      BY <1>8, <2>2 DEF Undo, Terminal
    <3> QED
      BY <2>1, <2>2, <3>1, <1>1, <1>2, <1>7 DEF RowTypes
  <2>3. CASE ~Open(node, ChildOf[c])
    BY <2>1, <2>3, <1>1, <1>8, RowTypesSame DEF Undo, rows
  <2> QED
    BY <2>2, <2>3
<1>9. ASSUME NEW c \in Calls, Activate(c)
      PROVE  RowTypes' /\ BudgetReserved'
  <2>1. UNCHANGED <<graph, live, reserved, artifact, lock, mail, outcome>>
    BY <1>9 DEF Activate
  <2>2. /\ node' \in [Nodes -> NodeStatus]
        /\ \A n \in Nodes : node'[n] = node[n] \/ (node[n] = "created" /\ node'[n] = "ready")
    BY <1>1, <1>2, <1>9 DEF Activate, RowTypes, NodeStatus
  <2>3. \A n \in Children : Open(node, n) <=> Open(node', n)
    BY <2>2, NamesDiffer DEF Open, Terminal
  <2>4. OpenChildren(node') = OpenChildren(node)
    BY <2>3, OpenIsSame
  <2> QED
    BY <2>1, <2>2, <2>4, <1>1 DEF RowTypes, BudgetReserved
<1>10. ASSUME NEW c \in Calls, LeaseReady(c)
       PROVE  RowTypes' /\ BudgetReserved'
  <2>1. UNCHANGED <<graph, reserved, artifact, mail, outcome>>
    BY <1>10 DEF LeaseReady
  <2>2. lock' \in [Resources -> LockRows]
    <3>1. lock' = Unexpired
      BY <1>10 DEF LeaseReady
    <3> QED
      BY <3>1, <1>1 DEF RowTypes, Unexpired, Free, LockRows, Owners
  <2> QED
    BY <2>1, <2>2, <1>1, <1>10, LeaseEffect DEF RowTypes, BudgetReserved
<1>11. ASSUME NEW m \in Mails, SendMail(m)
       PROVE  RowTypes' /\ BudgetReserved'
  BY <1>1, <1>11 DEF SendMail, Posts, RowTypes, BudgetReserved, OpenChildren, Open
<1>12. ASSUME NEW n \in Nodes, Receive(n) \/ AcknowledgeMail(n)
       PROVE  RowTypes' /\ BudgetReserved'
  BY <1>1, <1>12 DEF Receive, AcknowledgeMail, RowTypes, BudgetReserved, OpenChildren, Open
<1>13. ASSUME NEW n \in Nodes, Complete(n)
       PROVE  RowTypes' /\ BudgetReserved'
  <2>1. /\ Open(node, n) /\ Ends(n, "completed") /\ "completed" \in Terminal
        /\ artifact' = artifact \union {n} /\ n \in Children /\ UNCHANGED <<graph, mail, outcome>>
    BY <1>13 DEF Complete, Open, Terminal
  <2> QED
    BY <2>1, <1>1, <1>7 DEF RowTypes
<1>14. ASSUME NEW n \in Nodes, FailNode(n)
       PROVE  RowTypes' /\ BudgetReserved'
  <2>1. /\ Open(node, n) /\ Ends(n, "failed") /\ "failed" \in Terminal
        /\ UNCHANGED <<graph, artifact, mail, outcome>>
    BY <1>14 DEF FailNode, Open, Terminal
  <2> QED
    BY <2>1, <1>1, <1>7 DEF RowTypes
<1>15. ASSUME NEW n \in Nodes, LoseNode(n)
       PROVE  RowTypes' /\ BudgetReserved'
  BY <1>1, <1>15, RowTypesSame DEF LoseNode
<1>16. ASSUME UNCHANGED <<graph, node, live, reserved, artifact, mail, outcome>>,
              lock' \in [Resources -> LockRows]
       PROVE  RowTypes' /\ BudgetReserved'
  BY <1>1, <1>16 DEF RowTypes, BudgetReserved, OpenChildren, Open
<1>17. lock \in [Resources -> LockRows]
  BY <1>1 DEF RowTypes
<1>18. ASSUME NEW n \in Nodes, Heartbeat(n) \/ EndWrite(n)
       PROVE  RowTypes' /\ BudgetReserved'
  <2>1. /\ writing[n] \in Resources
        /\ UNCHANGED <<graph, node, live, reserved, artifact, mail, outcome>>
        /\ lock' = ScopeReleased(n, writing[n])
    BY <1>18, TypeParts DEF Heartbeat, EndWrite, ProcessTypes
  <2> QED
    BY <2>1, <1>2, <1>16, <1>17, LocksAreLocks
<1>19. ASSUME NEW n \in Nodes, NodeLapses(n)
       PROVE  RowTypes' /\ BudgetReserved'
  <2>1. live' \subseteq live /\ UNCHANGED <<graph, node, reserved, artifact, lock, mail, outcome>>
    BY <1>19 DEF NodeLapses
  <2>2. live' \subseteq Nodes /\ Cardinality(live') <= MaxConcurrency
    BY <2>1, LiveShrinks
  <2> QED
    BY <2>1, <2>2, <1>1 DEF RowTypes, BudgetReserved, OpenChildren, Open
<1>20. ASSUME NEW r \in Resources, StartRootWrite(r)
       PROVE  RowTypes' /\ BudgetReserved'
  BY <1>2, <1>16, <1>17, <1>20, LocksAreLocks, NamesDiffer DEF StartRootWrite, RootScope
<1>21. ASSUME NEW r \in Resources, LockLapses(r)
       PROVE  RowTypes' /\ BudgetReserved'
  <2>1. /\ lock' = [lock EXCEPT ![r] = [lock[r] EXCEPT !.live = FALSE]]
        /\ UNCHANGED <<graph, node, live, reserved, artifact, mail, outcome>>
    BY <1>17, <1>21 DEF LockLapses
  <2>2. [lock[r] EXCEPT !.live = FALSE] \in LockRows
    BY <1>17 DEF LockRows
  <2>3. lock' \in [Resources -> LockRows]
    BY <2>1, <2>2, <1>17
  <2> QED
    BY <2>1, <2>3, <1>16
<1>22. ASSUME NEW r \in Resources, OtherGraph(r)
       PROVE  RowTypes' /\ BudgetReserved'
  <2>1. UNCHANGED <<graph, node, live, reserved, artifact, mail, outcome>>
    BY <1>22 DEF OtherGraph
  <2>2. Free \in LockRows
    BY DEF Free, LockRows, Owners
  <2>3. lock' \in [Resources -> LockRows]
    BY <2>2, <1>2, <1>17, <1>22, LocksAreLocks DEF OtherGraph
  <2> QED
    BY <2>1, <2>3, <1>16
<1>23. ASSUME NEW n \in Nodes, NEW r \in Resources, StartWrite(n, r)
       PROVE  RowTypes' /\ BudgetReserved'
  BY <1>1, <1>23, RowTypesSame DEF StartWrite
<1>24. ASSUME NEW s \in Terminal, Decide(s)
       PROVE  RowTypes' /\ BudgetReserved'
  BY <1>1, <1>24 DEF Decide, RowTypes, BudgetReserved, OpenChildren, Open
<1>25. CASE TimeOut
  <2>1. /\ outcome' \in Terminal /\ UNCHANGED <<graph, node, live, reserved, artifact, mail>>
        /\ lock' = IF writing[Root] = Nobody THEN lock ELSE ScopeReleased(Root, writing[Root])
    BY <1>25 DEF TimeOut, Terminal
  <2>2. writing[Root] = Nobody \/ writing[Root] \in Resources
    BY TypeParts, NamesDiffer DEF ProcessTypes
  <2>3. lock' \in [Resources -> LockRows]
    BY <2>1, <2>2, <1>2, <1>17, LocksAreLocks, NamesDiffer
  <2> QED
    BY <2>1, <2>3, <1>1 DEF RowTypes, BudgetReserved, OpenChildren, Open
<1>26. CASE Resume \/ Crash \/ UNCHANGED vars
  BY <1>1, <1>26, RowTypesSame DEF Resume, Crash, vars
<1>27. CASE Finish
  <2>1. UNCHANGED <<artifact, mail, outcome>> /\ outcome \in Terminal
    BY <1>1, <1>27 DEF Finish, RowTypes
  <2>2. CASE outcome = "cancelled"
    <3>1. CancelTree /\ graph' = "cancelled"
      BY <1>27, <2>2 DEF Finish, CancelTree
    <3> QED
      BY <2>1, <3>1, <1>1, CancelEffect DEF RowTypes, Terminal
  <2>3. CASE outcome # "cancelled"
    <3>1. graph' = outcome /\ UNCHANGED <<node, live, lock, reserved>>
      BY <1>27, <2>3 DEF Finish, FinishGraph
    <3> QED
      BY <2>1, <3>1, <1>1 DEF RowTypes, BudgetReserved, OpenChildren, Open
  <2> QED
    BY <2>2, <2>3
<1> QED
  BY <1>3, <1>4, <1>5, <1>6, <1>8, <1>9, <1>10, <1>11, <1>12, <1>13, <1>14, <1>15, <1>18, <1>19,
     <1>20, <1>21, <1>22, <1>23, <1>24, <1>25, <1>26, <1>27 DEF Next, Delegation, Worker

\* A call at its next await, a worker at its next step.
Places == {"idle", "gate", "lock", "activate", "undo", "barrier", "lease", "run", "wait"}
LEMMA ProcessTypesStep ==
    ASSUME TypeOK, [Next]_vars
    PROVE  ProcessTypes'
<1>1. ProcessTypes
  BY TypeParts
<1>2. /\ pc \in [Calls -> Places] /\ batch \in [Calls -> SUBSET Nodes]
      /\ work \in [Nodes -> {"off", "receive", "work", "acknowledge"}]
      /\ writing \in [Nodes -> Resources \union {Nobody}] /\ Root \in Nodes
  BY <1>1, NamesDiffer DEF ProcessTypes, Places
<1>3. ASSUME pc' \in [Calls -> Places], batch' \in [Calls -> SUBSET Nodes],
             gate' \in Calls \union {Nobody}, UNCHANGED <<rootAt, work, writing>>
      PROVE  ProcessTypes'
  BY <1>1, <1>3 DEF ProcessTypes, Places
<1>4. ASSUME NEW S \in SUBSET Calls, CallBatch(S)
      PROVE  ProcessTypes'
  BY <1>1, <1>2, <1>3, <1>4 DEF CallBatch, ProcessTypes, Places
<1>5. ASSUME NEW c \in Calls, Enter(c) \/ Prepare(c) \/ AcquireLocks(c) \/ Undo(c) \/ Activate(c)
                              \/ Barrier(c) \/ BatchEnds(c) \/ WaitEnds(c)
      PROVE  ProcessTypes'
  <2>1. pc' \in [Calls -> Places]
    BY <1>2, <1>5 DEF Enter, Prepare, AcquireLocks, Undo, Activate, Barrier, BatchEnds, WaitEnds,
                      Goes, Places
  <2>2. batch' \in [Calls -> SUBSET Nodes] /\ gate' \in Calls \union {Nobody}
    BY <1>1, <1>2, <1>5 DEF Enter, Prepare, AcquireLocks, Undo, Activate, Barrier, BatchEnds,
                            WaitEnds, ProcessTypes
  <2>3. UNCHANGED <<rootAt, work, writing>>
    BY <1>5 DEF Enter, Prepare, AcquireLocks, Undo, Activate, Barrier, BatchEnds, WaitEnds
  <2> QED
    BY <2>1, <2>2, <2>3, <1>3
<1>6. ASSUME NEW c \in Calls, LeaseReady(c)
      PROVE  ProcessTypes'
  <2>1. pc' \in [Calls -> Places]
    BY <1>2, <1>6 DEF LeaseReady, Goes, Places
  <2>2. batch' \in [Calls -> SUBSET Nodes]
        /\ work' \in [Nodes -> {"off", "receive", "work", "acknowledge"}]
    BY <1>2, <1>6, LeaseEffect
  <2> QED
    BY <2>1, <2>2, <1>1, <1>6 DEF LeaseReady, ProcessTypes, Places
<1>7. ASSUME NEW n \in Nodes, Receive(n) \/ Complete(n) \/ AcknowledgeMail(n) \/ FailNode(n)
      PROVE  ProcessTypes'
  BY <1>1, <1>7 DEF Receive, Complete, AcknowledgeMail, FailNode, Works, ProcessTypes
<1>8. ASSUME NEW n \in Nodes, LoseNode(n)
      PROVE  ProcessTypes'
  BY <1>1, <1>8 DEF LoseNode, Works, Goes, ProcessTypes
<1>9. ASSUME NEW n \in Nodes, Heartbeat(n) \/ EndWrite(n)
      PROVE  ProcessTypes'
  BY <1>1, <1>9 DEF Heartbeat, EndWrite, ProcessTypes
<1>10. ASSUME NEW n \in Nodes, NEW r \in Resources,
              StartWrite(n, r) \/ StartRootWrite(r) \/ LockLapses(r) \/ OtherGraph(r) \/ NodeLapses(n)
       PROVE  ProcessTypes'
  BY <1>1, <1>2, <1>10 DEF StartWrite, StartRootWrite, LockLapses, OtherGraph, NodeLapses,
                           ProcessTypes, process
<1>11. ASSUME NEW m \in Mails, SendMail(m)
       PROVE  ProcessTypes'
  BY <1>1, <1>11 DEF SendMail, ProcessTypes, process
<1>12. ASSUME NEW s \in Terminal, Decide(s)
       PROVE  ProcessTypes'
  BY <1>1, <1>12 DEF Decide, ProcessTypes
<1>13. CASE TimeOut \/ Crash
  BY <1>1, <1>13 DEF TimeOut, Crash, StopCoroutines, ProcessTypes
<1>14. CASE Resume \/ Finish \/ UNCHANGED vars
  BY <1>1, <1>14 DEF Resume, Finish, vars, process, ProcessTypes
<1>15. ASSUME NEW r \in Resources, StartRootWrite(r) \/ LockLapses(r) \/ OtherGraph(r)
       PROVE  ProcessTypes'
  BY <1>2, <1>10, <1>15
<1>16. ASSUME NEW n \in Nodes, NodeLapses(n)
       PROVE  ProcessTypes'
  BY <1>1, <1>16 DEF NodeLapses, ProcessTypes, process
<1> QED
  BY <1>4, <1>5, <1>6, <1>7, <1>8, <1>9, <1>10, <1>11, <1>12, <1>13, <1>14, <1>15, <1>16
     DEF Next, Delegation, Worker

LEMMA HistoryTypesStep ==
    ASSUME TypeOK, [Next]_vars
    PROVE  HistoryTypes'
<1>1. HistoryTypes /\ Root \in Nodes
  BY TypeParts, NamesDiffer
<1>2. ASSUME UNCHANGED history, UNCHANGED bounds
      PROVE  HistoryTypes'
  BY <1>1, <1>2 DEF HistoryTypes, history, bounds
<1>3. ASSUME NEW S \in SUBSET Calls, CallBatch(S)
      PROVE  HistoryTypes'
  <2>1. turns \in 0 .. MaxTurns /\ turns < MaxTurns /\ turns' = turns + 1
    BY <1>1, <1>3 DEF CallBatch, HistoryTypes
  <2>2. turns' \in 0 .. MaxTurns
    BY <2>1, BoundsAssumption
  <2> QED
    BY <2>2, <1>1, <1>3 DEF CallBatch, HistoryTypes, history
<1>4. ASSUME NEW r \in Resources, StartRootWrite(r)
      PROVE  HistoryTypes'
  <2>1. turns \in 0 .. MaxTurns /\ turns < MaxTurns /\ turns' = turns + 1
    BY <1>1, <1>4 DEF StartRootWrite, HistoryTypes
  <2>2. turns' \in 0 .. MaxTurns
    BY <2>1, BoundsAssumption
  <2> QED
    BY <2>2, <1>1, <1>4 DEF StartRootWrite, HistoryTypes
<1>5. CASE Crash
  <2>1. crashes \in 0 .. MaxCrashes /\ crashes < MaxCrashes /\ crashes' = crashes + 1
    BY <1>1, <1>5 DEF Crash, HistoryTypes
  <2>2. crashes' \in 0 .. MaxCrashes
    BY <2>1, BoundsAssumption
  <2> QED
    BY <2>2, <1>1, <1>5 DEF Crash, HistoryTypes, history
<1>6. ASSUME NEW c \in Calls, Enter(c) \/ Prepare(c) \/ AcquireLocks(c) \/ Undo(c) \/ Activate(c)
                              \/ Barrier(c) \/ BatchEnds(c) \/ WaitEnds(c)
      PROVE  HistoryTypes'
  BY <1>2, <1>6 DEF Enter, Prepare, AcquireLocks, Undo, Activate, Barrier, BatchEnds, WaitEnds
<1>7. ASSUME NEW c \in Calls, LeaseReady(c)
      PROVE  HistoryTypes'
  <2>1. again' \in BOOLEAN
    BY <1>7 DEF LeaseReady
  <2> QED
    BY <2>1, <1>1, <1>7 DEF LeaseReady, HistoryTypes, bounds
<1>8. ASSUME NEW m \in Mails, SendMail(m)
      PROVE  HistoryTypes'
  BY <1>1, <1>8 DEF SendMail, Accepts, HistoryTypes, bounds
<1>9. ASSUME NEW n \in Nodes, Receive(n)
      PROVE  HistoryTypes'
  BY <1>1, <1>9 DEF Receive, Inbox, HistoryTypes, bounds
<1>10. ASSUME NEW n \in Nodes, Complete(n) \/ AcknowledgeMail(n) \/ FailNode(n) \/ LoseNode(n)
                               \/ Heartbeat(n) \/ EndWrite(n) \/ NodeLapses(n)
       PROVE  HistoryTypes'
  BY <1>2, <1>10 DEF Complete, AcknowledgeMail, FailNode, LoseNode, Heartbeat, EndWrite, NodeLapses
<1>11. ASSUME NEW r \in Resources, LockLapses(r)
       PROVE  HistoryTypes'
  BY <1>1, <1>11 DEF LockLapses, HistoryTypes, bounds
<1>12. ASSUME NEW n \in Nodes, NEW r \in Resources, StartWrite(n, r)
       PROVE  HistoryTypes'
  BY <1>1, <1>12 DEF StartWrite, HistoryTypes, bounds
<1>13. ASSUME NEW r \in Resources, OtherGraph(r)
       PROVE  HistoryTypes'
  BY <1>2, <1>13 DEF OtherGraph
<1>14. ASSUME NEW s \in Terminal, Decide(s)
       PROVE  HistoryTypes'
  BY <1>2, <1>14 DEF Decide
<1>15. CASE Resume \/ TimeOut \/ Finish \/ UNCHANGED vars
  BY <1>2, <1>15 DEF Resume, TimeOut, Finish, vars
<1> QED
  BY <1>3, <1>4, <1>5, <1>6, <1>7, <1>8, <1>9, <1>10, <1>11, <1>12, <1>13, <1>14, <1>15
     DEF Next, Delegation, Worker

LEMMA TypesStep ==
    ASSUME TypeOK, BudgetReserved, [Next]_vars
    PROVE  TypeOK' /\ BudgetReserved'
<1>1. TypeOK' <=> RowTypes' /\ ProcessTypes' /\ HistoryTypes'
  BY DEF TypeOK, RowTypes, ProcessTypes, HistoryTypes, LockRows
<1> QED
  BY <1>1, RowTypesStep, ProcessTypesStep, HistoryTypesStep

-----------------------------------------------------------------------------
(***************************************************************************)
(* The graph: statuses are final, calls know their child, the root is      *)
(* freed.                                                                  *)
(***************************************************************************)

\* The steps that write runtime_agent_nodes.
LEMMA NodesMove ==
    ASSUME [Next]_vars
    PROVE  \/ UNCHANGED node
           \/ \E c \in Calls : Prepare(c) \/ Undo(c) \/ Activate(c) \/ LeaseReady(c)
           \/ \E n \in Nodes : Complete(n) \/ FailNode(n)
           \/ Finish
<1>1. ASSUME NEW c \in Calls, Enter(c) \/ AcquireLocks(c) \/ Barrier(c) \/ BatchEnds(c) \/ WaitEnds(c)
       PROVE  UNCHANGED node
  BY <1>1 DEF Enter, AcquireLocks, Barrier, BatchEnds, WaitEnds, rows
<1>2. ASSUME NEW n \in Nodes, Receive(n) \/ AcknowledgeMail(n) \/ LoseNode(n) \/ Heartbeat(n)
                               \/ EndWrite(n) \/ NodeLapses(n)
       PROVE  UNCHANGED node
  BY <1>2 DEF Receive, AcknowledgeMail, LoseNode, Heartbeat, EndWrite, NodeLapses, rows
<1>3. ASSUME NEW r \in Resources, StartRootWrite(r) \/ LockLapses(r) \/ OtherGraph(r)
       PROVE  UNCHANGED node
  BY <1>3 DEF StartRootWrite, LockLapses, OtherGraph
<1>4. ASSUME NEW S \in SUBSET Calls, CallBatch(S)
       PROVE  UNCHANGED node
  BY <1>4 DEF CallBatch, rows
<1>5. ASSUME NEW m \in Mails, SendMail(m)
       PROVE  UNCHANGED node
  BY <1>5 DEF SendMail
<1>6. ASSUME NEW n \in Nodes, NEW r \in Resources, StartWrite(n, r)
       PROVE  UNCHANGED node
  BY <1>6 DEF StartWrite, rows
<1>7. ASSUME NEW s \in Terminal, Decide(s)
       PROVE  UNCHANGED node
  BY <1>7 DEF Decide
<1>8. ASSUME Resume \/ TimeOut \/ Crash \/ UNCHANGED vars
       PROVE  UNCHANGED node
  BY <1>8 DEF Resume, TimeOut, Crash, vars, rows
<1> QED
  BY <1>1, <1>2, <1>3, <1>4, <1>5, <1>6, <1>7, <1>8 DEF Next, Delegation, Worker

\* A node that ended keeps its status, and a node that exists goes on existing.
EndsOnce(n) == /\ node[n] \in Terminal => node'[n] = node[n]
               /\ node[n] # "none" => node'[n] # "none"

LEMMA NodesEndOnce ==
    ASSUME TypeOK, BudgetReserved, [Next]_vars
    PROVE  \A n \in Nodes : EndsOnce(n)
<1>1. /\ node \in [Nodes -> NodeStatus] /\ Root \in Nodes /\ Root \notin Children
      /\ \A n \in Nodes : n = Root \/ n \in Children
      /\ \A c \in Calls : ChildOf[c] \in Children /\ ChildOf[c] \in Nodes
  BY NamesAssumption, NamesDiffer DEF TypeOK, Nodes
<1>2. ASSUME UNCHANGED node
      PROVE  \A n \in Nodes : EndsOnce(n)
  BY <1>2 DEF EndsOnce
<1>3. ASSUME NEW n \in Nodes, NEW status \in Terminal, Open(node, n), Ends(n, status)
      PROVE  \A x \in Nodes : EndsOnce(x)
  <2>1. \A x \in Nodes : x = n \/ x = Root \/ x \in Children \ {n}
    BY <1>1
  <2>2. node[n] \notin Terminal /\ node'[n] # "none"
    BY <1>3, EndsEffect DEF Open, Terminal
  <2> QED
    BY <2>1, <2>2, <1>3, EndsEffect DEF EndsOnce, Terminal
<1>4. ASSUME NEW c \in Calls, Prepare(c)
      PROVE  \A n \in Nodes : EndsOnce(n)
  <2>1. CASE SpawnChild(ChildOf[c])
    BY <2>1, <1>1, SpawnEffect DEF EndsOnce, Terminal
  <2>2. CASE UNCHANGED <<node, reserved>>
    BY <2>2, <1>2
  <2> QED
    BY <2>1, <2>2, <1>4 DEF Prepare
<1>5. ASSUME NEW c \in Calls, Undo(c)
      PROVE  \A n \in Nodes : EndsOnce(n)
  <2>1. CASE Open(node, ChildOf[c])
    <3>1. Ends(ChildOf[c], "cancelled") /\ "cancelled" \in Terminal
      BY <1>5, <2>1 DEF Undo, Terminal
    <3> QED
      BY <2>1, <3>1, <1>1, <1>3
  <2>2. CASE ~Open(node, ChildOf[c])
    BY <2>2, <1>2, <1>5 DEF Undo
  <2> QED
    BY <2>1, <2>2
<1>6. ASSUME NEW c \in Calls, Activate(c)
      PROVE  \A n \in Nodes : EndsOnce(n)
  BY <1>1, <1>6 DEF Activate, EndsOnce, Terminal
<1>7. ASSUME NEW c \in Calls, LeaseReady(c)
      PROVE  \A n \in Nodes : EndsOnce(n)
  BY <1>7, LeaseEffect DEF EndsOnce, Terminal
<1>8. ASSUME NEW n \in Nodes, Complete(n) \/ FailNode(n)
      PROVE  \A x \in Nodes : EndsOnce(x)
  <2>1. \E status \in Terminal : Open(node, n) /\ Ends(n, status)
    BY <1>8 DEF Complete, FailNode, Open, Terminal
  <2> QED
    BY <2>1, <1>3
<1>9. CASE Finish
  <2>1. CASE outcome = "cancelled"
    <3>1. CancelTree
      BY <1>9, <2>1 DEF Finish
    <3> QED
      BY <3>1, CancelEffect DEF EndsOnce, Open, Terminal
  <2>2. CASE outcome # "cancelled"
    BY <2>2, <1>2, <1>9 DEF Finish, FinishGraph
  <2> QED
    BY <2>1, <2>2
<1> QED
  BY <1>2, <1>4, <1>5, <1>6, <1>7, <1>8, <1>9, NodesMove

\* A call past the gate has a child, and a batch only while it awaits one.
LEMMA CallsStep ==
    ASSUME TypeOK, BudgetReserved, CallsKnowChild, [Next]_vars
    PROVE  CallsKnowChild'
<1>1. /\ pc \in [Calls -> Places] /\ batch \in [Calls -> SUBSET Nodes]
      /\ \A c \in Calls : ChildOf[c] \in Children /\ ChildOf[c] \in Nodes
  BY NamesAssumption, NamesDiffer DEF TypeOK, Places
<1>2. \A c \in Calls : node[ChildOf[c]] # "none" => node'[ChildOf[c]] # "none"
  BY <1>1, NodesEndOnce DEF EndsOnce
<1>3. ASSUME NEW c \in Calls, NEW place \in Places, Goes(c, place),
             place \notin {"idle", "gate"} => node'[ChildOf[c]] # "none",
             batch'[c] # {} => place = "run", \A x \in Calls \ {c} : batch'[x] = batch[x]
      PROVE  CallsKnowChild'
  BY <1>1, <1>2, <1>3 DEF Goes, CallsKnowChild
<1>4. ASSUME UNCHANGED <<pc, batch>>
      PROVE  CallsKnowChild'
  BY <1>2, <1>4 DEF CallsKnowChild
<1>5. ASSUME NEW S \in SUBSET Calls, CallBatch(S)
      PROVE  CallsKnowChild'
  BY <1>2, <1>5 DEF CallBatch, CallsKnowChild
<1>6. ASSUME NEW c \in Calls, Enter(c) \/ WaitEnds(c)
      PROVE  CallsKnowChild'
  BY <1>1, <1>2, <1>6 DEF Enter, WaitEnds, Goes, CallsKnowChild
<1>7. ASSUME NEW c \in Calls, Prepare(c)
      PROVE  CallsKnowChild'
  <2>1. node'[ChildOf[c]] # "none"
    <3>1. CASE SpawnChild(ChildOf[c])
      BY <3>1, <1>1, SpawnEffect
    <3>2. CASE node[ChildOf[c]] # "none"
      BY <3>2, <1>1, <1>2
    <3> QED
      BY <3>1, <3>2, <1>7 DEF Prepare
  <2> QED
    BY <2>1, <1>1, <1>2, <1>7 DEF Prepare, Goes, CallsKnowChild
<1>8. ASSUME NEW c \in Calls, AcquireLocks(c) \/ Undo(c) \/ Activate(c) \/ Barrier(c)
      PROVE  CallsKnowChild'
  BY <1>1, <1>2, <1>8 DEF AcquireLocks, Undo, Activate, Barrier, Goes, CallsKnowChild
<1>9. ASSUME NEW c \in Calls, LeaseReady(c)
      PROVE  CallsKnowChild'
  <2>1. pc[c] = "lease" /\ Goes(c, "run") /\ \A x \in Calls \ {c} : batch'[x] = batch[x]
    BY <1>1, <1>9, LeaseEffect DEF LeaseReady
  <2>2. node'[ChildOf[c]] # "none"
    BY <2>1, <1>2 DEF CallsKnowChild
  <2> QED
    BY <2>1, <2>2, <1>3 DEF Places
<1>10. ASSUME NEW c \in Calls, BatchEnds(c)
       PROVE  CallsKnowChild'
  BY <1>1, <1>2, <1>10 DEF BatchEnds, Goes, CallsKnowChild
<1>11. ASSUME NEW n \in Nodes, LoseNode(n)
       PROVE  CallsKnowChild'
  BY <1>1, <1>2, <1>11 DEF LoseNode, Goes, CallsKnowChild
<1>12. ASSUME NEW n \in Nodes, Receive(n) \/ Complete(n) \/ AcknowledgeMail(n) \/ FailNode(n)
                               \/ Heartbeat(n) \/ EndWrite(n) \/ NodeLapses(n)
       PROVE  UNCHANGED <<pc, batch>>
  BY <1>12 DEF Receive, Complete, AcknowledgeMail, FailNode, Heartbeat, EndWrite, NodeLapses, process
<1>13. ASSUME NEW r \in Resources, StartRootWrite(r) \/ LockLapses(r) \/ OtherGraph(r)
       PROVE  UNCHANGED <<pc, batch>>
  BY <1>13 DEF StartRootWrite, LockLapses, OtherGraph, process
<1>14. ASSUME NEW m \in Mails, SendMail(m)
       PROVE  UNCHANGED <<pc, batch>>
  BY <1>14 DEF SendMail, process
<1>15. ASSUME NEW n \in Nodes, NEW r \in Resources, StartWrite(n, r)
       PROVE  UNCHANGED <<pc, batch>>
  BY <1>15 DEF StartWrite
<1>16. ASSUME NEW s \in Terminal, Decide(s)
       PROVE  UNCHANGED <<pc, batch>>
  BY <1>16 DEF Decide
<1>17. ASSUME Resume \/ Finish \/ UNCHANGED vars
       PROVE  UNCHANGED <<pc, batch>>
  BY <1>17 DEF Resume, Finish, vars, process
<1>18. CASE TimeOut \/ Crash
  BY <1>18 DEF TimeOut, Crash, StopCoroutines, CallsKnowChild
<1> QED
  BY <1>4, <1>5, <1>6, <1>7, <1>8, <1>9, <1>10, <1>11, <1>12, <1>13, <1>14, <1>15, <1>16, <1>17, <1>18
     DEF Next, Delegation, Worker

\* The root waits only for an open child, and only a repeated delegation runs it.
LEMMA RootStep ==
    ASSUME TypeOK, BudgetReserved, CallsKnowChild, RootIsFreed, [Next]_vars
    PROVE  RootIsFreed'
<1>1. /\ node \in [Nodes -> NodeStatus] /\ Root \in Nodes /\ Root \notin Children
      /\ \A c \in Calls : ChildOf[c] \in Children /\ ChildOf[c] \in Nodes
  BY NamesAssumption, NamesDiffer DEF TypeOK
<1>2. again => again'
  <2>1. UNCHANGED again \/ \E c \in Calls : LeaseReady(c)
    BY DEF Next, vars, history, Delegation, Worker, Enter, Prepare, AcquireLocks, Undo, Activate,
           Barrier, BatchEnds, WaitEnds, CallBatch, SendMail, Receive, Complete, AcknowledgeMail,
           FailNode, LoseNode, Heartbeat, EndWrite, NodeLapses, StartWrite, StartRootWrite,
           LockLapses, OtherGraph, Decide, Resume, TimeOut, Crash, Finish
  <2> QED
    BY <2>1 DEF LeaseReady
<1>3. ASSUME node'[Root] = node[Root], OpenChildren(node') = OpenChildren(node)
      PROVE  RootIsFreed'
  BY <1>2, <1>3 DEF RootIsFreed
<1>4. CASE UNCHANGED node
  BY <1>3, <1>4 DEF OpenChildren, Open
<1>5. ASSUME NEW c \in Calls, Prepare(c)
      PROVE  RootIsFreed'
  <2>1. CASE SpawnChild(ChildOf[c])
    <3>1. OpenChildren(node') # {} /\ (node'[Root] = node[Root] \/ node'[Root] = "waiting")
      BY <2>1, <1>1, SpawnEffect
    <3> QED
      BY <3>1, <1>2 DEF RootIsFreed
  <2>2. CASE UNCHANGED <<node, reserved>>
    BY <2>2, <1>4
  <2> QED
    BY <2>1, <2>2, <1>5 DEF Prepare
<1>6. ASSUME NEW n \in Children, NEW status \in Terminal, Open(node, n), Ends(n, status)
      PROVE  RootIsFreed'
  <2>1. /\ node'[Root] = node[Root] \/ node'[Root] = "ready"
        /\ node'[Root] = "waiting" => OpenChildren(node') # {}
    BY <1>1, <1>6, EndsEffect, NamesDiffer
  <2> QED
    BY <2>1, <1>2 DEF RootIsFreed
<1>7. ASSUME NEW c \in Calls, Undo(c)
      PROVE  RootIsFreed'
  <2>1. CASE Open(node, ChildOf[c])
    <3>1. Ends(ChildOf[c], "cancelled") /\ "cancelled" \in Terminal
      BY <1>7, <2>1 DEF Undo, Terminal
    <3> QED
      BY <2>1, <3>1, <1>1, <1>6
  <2>2. CASE ~Open(node, ChildOf[c])
    BY <2>2, <1>4, <1>7 DEF Undo
  <2> QED
    BY <2>1, <2>2
<1>8. ASSUME NEW c \in Calls, Activate(c)
      PROVE  RootIsFreed'
  <2>1. /\ node'[Root] = node[Root]
        /\ \A n \in Children : node'[n] = node[n] \/ (node[n] = "created" /\ node'[n] = "ready")
    BY <1>1, <1>8, NamesDiffer DEF Activate
  <2>2. \A n \in Children : Open(node, n) <=> Open(node', n)
    BY <2>1 DEF Open, Terminal
  <2> QED
    BY <2>1, <2>2, <1>3, OpenIsSame
<1>9. ASSUME NEW c \in Calls, LeaseReady(c)
      PROVE  RootIsFreed'
  <2>1. PICK L \in SUBSET Nodes :
           /\ \A n \in L : node'[n] = "running"
           /\ \A n \in Nodes \ L : \/ node'[n] = node[n]
                                   \/ node[n] = "running" /\ node'[n] = "ready"
           /\ Root \in L => OpenChildren(node) = {}
    BY <1>9, LeaseEffect
  <2>2. OpenChildren(node') = OpenChildren(node)
    BY <1>9, LeaseEffect
  <2>3. CASE Root \in L
    <3>1. pc[c] = "lease" /\ again' = (again \/ node[ChildOf[c]] \in Terminal)
      BY <1>9 DEF LeaseReady
    <3>2. node[ChildOf[c]] # "none" /\ ~Open(node, ChildOf[c])
      BY <2>1, <2>3, <3>1, <1>1 DEF CallsKnowChild, OpenChildren
    <3>3. again'
      BY <3>1, <3>2 DEF Open
    <3> QED
      BY <2>1, <2>3, <3>3 DEF RootIsFreed
  <2>4. CASE Root \notin L
    BY <2>1, <2>2, <2>4, <1>1, <1>2 DEF RootIsFreed
  <2> QED
    BY <2>3, <2>4
<1>10. ASSUME NEW n \in Nodes, Complete(n)
       PROVE  RootIsFreed'
  <2>1. n \in Children /\ Open(node, n) /\ Ends(n, "completed") /\ "completed" \in Terminal
    BY <1>10 DEF Complete, Open, Terminal
  <2> QED
    BY <2>1, <1>6
<1>11. ASSUME NEW n \in Nodes, FailNode(n)
       PROVE  RootIsFreed'
  <2>1. node[n] = "running" /\ Open(node, n) /\ Ends(n, "failed") /\ "failed" \in Terminal
    BY <1>11 DEF FailNode, Open, Terminal
  <2>2. CASE n = Root
    <3>1. node'[Root] = "failed"
      BY <2>1, <2>2, EndsEffect
    <3>2. again
      BY <2>1, <2>2 DEF RootIsFreed
    <3> QED
      BY <3>1, <3>2, <1>2 DEF RootIsFreed
  <2>3. CASE n # Root
    BY <2>1, <2>3, <1>6 DEF Nodes
  <2> QED
    BY <2>2, <2>3
<1>12. CASE Finish
  <2>1. CASE outcome = "cancelled"
    <3>1. CancelTree
      BY <1>12, <2>1 DEF Finish
    <3>2. node'[Root] = IF Open(node, Root) THEN "cancelled" ELSE node[Root]
      BY <3>1, <1>1, CancelEffect
    <3>3. node[Root] = "waiting" => Open(node, Root)
      BY DEF Open, Terminal
    <3> QED
      BY <3>2, <3>3, <1>2 DEF RootIsFreed
  <2>2. CASE outcome # "cancelled"
    BY <2>2, <1>4, <1>12 DEF Finish, FinishGraph
  <2> QED
    BY <2>1, <2>2
<1> QED
  BY <1>4, <1>5, <1>7, <1>8, <1>9, <1>10, <1>11, <1>12, NodesMove

-----------------------------------------------------------------------------
(***************************************************************************)
(* Workers, writes and locks.                                              *)
(***************************************************************************)

\* A worker completes or fails the node it has, and nothing else settles one.
LEMMA SettledByWorker ==
    ASSUME TypeOK, BudgetReserved, [Next]_vars, NEW n \in Nodes, node'[n] \in Settled
    PROVE  node[n] \in Settled \/ Complete(n) \/ FailNode(n)
<1>1. /\ node \in [Nodes -> NodeStatus] /\ Root \in Nodes /\ Root \notin Children
      /\ n = Root \/ n \in Children
      /\ \A c \in Calls : ChildOf[c] \in Children /\ ChildOf[c] \in Nodes
  BY NamesAssumption, NamesDiffer DEF TypeOK, Nodes
<1>2. ASSUME NEW x \in Nodes, NEW status \in Terminal, Open(node, x), Ends(x, status),
             x # n \/ status = "cancelled"
      PROVE  node[n] \in Settled
  BY <1>1, <1>2, EndsEffect DEF Settled
<1>3. ASSUME NEW c \in Calls, Prepare(c)
      PROVE  node[n] \in Settled
  BY <1>1, <1>3, SpawnEffect DEF Prepare, Settled
<1>4. ASSUME NEW c \in Calls, Undo(c)
      PROVE  node[n] \in Settled
  <2>1. CASE Open(node, ChildOf[c])
    <3>1. Ends(ChildOf[c], "cancelled") /\ "cancelled" \in Terminal
      BY <1>4, <2>1 DEF Undo, Terminal
    <3> QED
      BY <2>1, <3>1, <1>1, <1>2
  <2>2. CASE ~Open(node, ChildOf[c])
    BY <2>2, <1>4 DEF Undo
  <2> QED
    BY <2>1, <2>2
<1>5. ASSUME NEW c \in Calls, Activate(c)
      PROVE  node[n] \in Settled
  BY <1>1, <1>5 DEF Activate, Settled
<1>6. ASSUME NEW c \in Calls, LeaseReady(c)
      PROVE  node[n] \in Settled
  BY <1>6, LeaseEffect DEF Settled
<1>7. ASSUME NEW x \in Nodes, Complete(x) \/ FailNode(x)
      PROVE  node[n] \in Settled \/ Complete(n) \/ FailNode(n)
  <2>1. \E status \in Terminal : Open(node, x) /\ Ends(x, status)
    BY <1>7 DEF Complete, FailNode, Open, Terminal
  <2> QED
    BY <2>1, <1>2, <1>7
<1>8. ASSUME Finish
      PROVE  node[n] \in Settled
  <2>1. CASE outcome = "cancelled"
    <3>1. CancelTree
      BY <1>8, <2>1 DEF Finish
    <3> QED
      BY <3>1, CancelEffect DEF Settled
  <2>2. CASE outcome # "cancelled"
    BY <2>2, <1>8 DEF Finish, FinishGraph
  <2> QED
    BY <2>1, <2>2
<1> QED
  BY <1>3, <1>4, <1>5, <1>6, <1>7, <1>8, NodesMove

\* The steps of the worker coroutine of a node.
LEMMA WorkMoves ==
    ASSUME TypeOK, [Next]_vars, NEW n \in Nodes
    PROVE  \/ work'[n] \in {work[n], "off"}
           \/ work'[n] = "acknowledge" /\ Complete(n)
           \/ work'[n] = "work" /\ Receive(n)
           \/ work'[n] = "receive" /\ \E c \in Calls : LeaseReady(c) /\ node'[n] = "running"
<1>1. work \in [Nodes -> {"off", "receive", "work", "acknowledge"}]
  BY DEF TypeOK
<1>2. ASSUME NEW c \in Calls, LeaseReady(c)
      PROVE  work'[n] = work[n] \/ (work'[n] = "receive" /\ node'[n] = "running")
  BY <1>2, LeaseEffect
<1>3. ASSUME NEW x \in Nodes, Worker(x)
      PROVE  \/ work'[n] \in {work[n], "off"}
             \/ work'[n] = "acknowledge" /\ Complete(n)
             \/ work'[n] = "work" /\ Receive(n)
  BY <1>1, <1>3 DEF Worker, Receive, Complete, AcknowledgeMail, FailNode, LoseNode, Heartbeat,
                    EndWrite, Works
<1>4. ASSUME NEW c \in Calls, Delegation(c)
      PROVE  LeaseReady(c) \/ work' = work
  BY <1>4 DEF Delegation, Enter, Prepare, AcquireLocks, Undo, Activate, Barrier, BatchEnds, WaitEnds
<1>5. ASSUME NEW x \in Nodes, NEW r \in Resources,
             NodeLapses(x) \/ StartRootWrite(r) \/ LockLapses(r) \/ OtherGraph(r) \/ StartWrite(x, r)
      PROVE  work' = work
  BY <1>5 DEF NodeLapses, StartRootWrite, LockLapses, OtherGraph, StartWrite, process
<1>6. ASSUME NEW x \in Nodes, NodeLapses(x)
      PROVE  work' = work
  BY <1>6 DEF NodeLapses, process
<1>7. ASSUME NEW r \in Resources, StartRootWrite(r) \/ LockLapses(r) \/ OtherGraph(r)
      PROVE  work' = work
  BY <1>5, <1>7
<1>8. ASSUME NEW S \in SUBSET Calls, CallBatch(S)
      PROVE  work' = work
  BY <1>8 DEF CallBatch
<1>9. ASSUME NEW m \in Mails, SendMail(m)
      PROVE  work' = work
  BY <1>9 DEF SendMail, process
<1>10. ASSUME NEW s \in Terminal, Decide(s)
       PROVE  work' = work
  BY <1>10 DEF Decide
<1>11. ASSUME Resume \/ TimeOut \/ Crash \/ Finish \/ UNCHANGED vars
       PROVE  work'[n] \in {work[n], "off"}
  BY <1>11 DEF Resume, TimeOut, Crash, StopCoroutines, Finish, vars, process
<1> QED
  BY <1>2, <1>3, <1>4, <1>5, <1>6, <1>7, <1>8, <1>9, <1>10, <1>11 DEF Next

\* A write begins in two places, and so does what a lapse is forgotten for.
LEMMA WritingMoves ==
    ASSUME TypeOK, [Next]_vars, NEW n \in Nodes
    PROVE  \/ /\ writing'[n] \in {writing[n], Nobody}
              /\ n \in lapsed => n \in lapsed'
           \/ \E r \in Resources : StartWrite(n, r)
           \/ \E r \in Resources : n = Root /\ StartRootWrite(r)
<1>1. writing \in [Nodes -> Resources \union {Nobody}]
  BY DEF TypeOK
<1>2. ASSUME UNCHANGED <<writing, lapsed>>
      PROVE  writing'[n] \in {writing[n], Nobody} /\ (n \in lapsed => n \in lapsed')
  BY <1>2
<1>3. ASSUME NEW x \in Nodes, Worker(x)
      PROVE  writing'[n] \in {writing[n], Nobody} /\ (n \in lapsed => n \in lapsed')
  BY <1>1, <1>3 DEF Worker, Receive, Complete, AcknowledgeMail, FailNode, LoseNode, Heartbeat,
                    EndWrite, history
<1>4. ASSUME NEW c \in Calls, Delegation(c)
      PROVE  UNCHANGED <<writing, lapsed>>
  BY <1>4 DEF Delegation, Enter, Prepare, AcquireLocks, Undo, Activate, Barrier, LeaseReady,
              BatchEnds, WaitEnds, history
<1>5. ASSUME NEW x \in Nodes, NEW r \in Resources, StartWrite(x, r)
      PROVE  \/ x = n
             \/ writing'[n] = writing[n] /\ (n \in lapsed => n \in lapsed')
  BY <1>1, <1>5 DEF StartWrite
<1>6. ASSUME NEW r \in Resources, StartRootWrite(r)
      PROVE  \/ n = Root
             \/ writing'[n] = writing[n] /\ (n \in lapsed => n \in lapsed')
  BY <1>1, <1>6 DEF StartRootWrite
<1>7. ASSUME NEW r \in Resources, LockLapses(r) \/ OtherGraph(r)
      PROVE  writing' = writing /\ (n \in lapsed => n \in lapsed')
  BY <1>7 DEF LockLapses, OtherGraph, process, history
<1>8. ASSUME NEW x \in Nodes, NodeLapses(x)
      PROVE  UNCHANGED <<writing, lapsed>>
  BY <1>8 DEF NodeLapses, process, history
<1>9. ASSUME NEW S \in SUBSET Calls, CallBatch(S)
      PROVE  UNCHANGED <<writing, lapsed>>
  BY <1>9 DEF CallBatch, history
<1>10. ASSUME NEW m \in Mails, SendMail(m)
       PROVE  UNCHANGED <<writing, lapsed>>
  BY <1>10 DEF SendMail, process
<1>11. ASSUME NEW s \in Terminal, Decide(s)
       PROVE  UNCHANGED <<writing, lapsed>>
  BY <1>11 DEF Decide, history
<1>12. ASSUME Resume \/ TimeOut \/ Crash \/ Finish \/ UNCHANGED vars
       PROVE  writing'[n] \in {writing[n], Nobody} /\ (n \in lapsed => n \in lapsed')
  BY <1>12 DEF Resume, TimeOut, Crash, StopCoroutines, Finish, vars, process, history
<1> QED
  BY <1>2, <1>3, <1>4, <1>5, <1>6, <1>7, <1>8, <1>9, <1>10, <1>11, <1>12 DEF Next

\* Nobody works on, or writes for, a node that was completed or failed.
LEMMA WorkersStep ==
    ASSUME TypeOK, BudgetReserved, WorkersAreOpen, [Next]_vars
    PROVE  WorkersAreOpen'
<1> SUFFICES ASSUME NEW n \in Nodes, node'[n] \in Settled
             PROVE  work'[n] \in {"off", "acknowledge"} /\ writing'[n] = Nobody
  BY DEF WorkersAreOpen
<1>1. /\ work \in [Nodes -> {"off", "receive", "work", "acknowledge"}]
      /\ writing \in [Nodes -> Resources \union {Nobody}] /\ Nobody \notin Nodes
  BY NamesDiffer DEF TypeOK
<1>2. CASE Complete(n) \/ FailNode(n)
  BY <1>1, <1>2 DEF Complete, FailNode, Works
<1>3. CASE node[n] \in Settled
  <2>1. work[n] \in {"off", "acknowledge"} /\ writing[n] = Nobody
    BY <1>3 DEF WorkersAreOpen
  <2>2. work'[n] \in {"off", "acknowledge"}
    BY <2>1, WorkMoves DEF Receive, Settled
  <2>3. ASSUME NEW r \in Resources, StartWrite(n, r)
        PROVE  FALSE
    BY <2>1, <2>3 DEF StartWrite
  <2>4. ASSUME NEW r \in Resources, n = Root, StartRootWrite(r)
        PROVE  FALSE
    BY <2>4, <1>3 DEF StartRootWrite, RootScope, Lockable, Settled
  <2> QED
    BY <2>1, <2>2, <2>3, <2>4, WritingMoves
<1> QED
  BY <1>2, <1>3, SettledByWorker

\* A node that is given up stays so, until its write ends.
LEMMA GivenUpStays ==
    ASSUME TypeOK, BudgetReserved, CallsKnowChild, WorkersAreOpen, [Next]_vars,
           NEW n \in Nodes, writing[n] # Nobody, GivenUp(n)
    PROVE  GivenUp(n)' \/ writing'[n] = Nobody
<1>1. pc \in [Calls -> Places] /\ "cancelled" \in Terminal
  BY DEF TypeOK, Places, Terminal
<1>2. CASE node[n] = "cancelled"
  <2>1. node'[n] = "cancelled"
    BY <1>1, <1>2, NodesEndOnce DEF EndsOnce
  <2> QED
    BY <2>1 DEF GivenUp
<1>3. ASSUME NEW c \in Calls, pc[c] = "undo", ChildOf[c] = n
      PROVE  GivenUp(n)' \/ writing'[n] = Nobody
  <2>1. CASE pc'[c] = "undo"
    BY <2>1, <1>3 DEF GivenUp
  <2>2. CASE Undo(c)
    <3>1. node[n] \notin Settled
      BY DEF WorkersAreOpen
    <3>2. CASE Open(node, n)
      <4>1. Ends(n, "cancelled")
        BY <2>2, <3>2, <1>3 DEF Undo
      <4>2. node'[n] = "cancelled"
        BY <4>1, <3>2, <1>1, EndsEffect
      <4> QED
        BY <4>2 DEF GivenUp
    <3>3. CASE ~Open(node, n)
      <4>1. node[n] = "cancelled"
        BY <3>1, <3>3 DEF Open, Terminal, Settled
      <4> QED
        BY <4>1, <1>2
    <3> QED
      BY <3>2, <3>3
  <2>3. CASE TimeOut \/ Crash
    BY <2>3 DEF TimeOut, Crash, StopCoroutines
  <2>4. pc'[c] = "undo" \/ Undo(c) \/ TimeOut \/ Crash
    <3>1. ASSUME NEW x \in Calls, Delegation(x)
          PROVE  pc'[c] = "undo" \/ Undo(c)
      BY <3>1, <1>1, <1>3 DEF Delegation, Enter, Prepare, AcquireLocks, Undo, Activate, Barrier,
                              LeaseReady, BatchEnds, WaitEnds, Goes
    <3>2. ASSUME NEW x \in Nodes, Worker(x) \/ NodeLapses(x)
          PROVE  pc'[c] = "undo"
      <4>1. CASE LoseNode(x)
        <5>1. PICK y \in Calls : x \in batch[y] /\ Goes(y, "idle")
          BY <4>1 DEF LoseNode
        <5>2. y # c
          BY <5>1, <1>3 DEF CallsKnowChild
        <5> QED
          BY <5>1, <5>2, <1>1, <1>3 DEF Goes
      <4>2. CASE ~LoseNode(x)
        BY <4>2, <3>2, <1>3 DEF Worker, Receive, Complete, AcknowledgeMail, FailNode, Heartbeat,
                                EndWrite, NodeLapses, process
      <4> QED
        BY <4>1, <4>2
    <3>3. ASSUME NEW S \in SUBSET Calls, CallBatch(S)
          PROVE  FALSE
      BY <3>3, <1>3 DEF CallBatch
    <3>4. ASSUME NEW x \in Nodes, NEW r \in Resources, StartWrite(x, r)
          PROVE  pc' = pc
      BY <3>4 DEF StartWrite
    <3>5. ASSUME NEW r \in Resources, StartRootWrite(r) \/ LockLapses(r) \/ OtherGraph(r)
          PROVE  pc' = pc
      BY <3>5 DEF StartRootWrite, LockLapses, OtherGraph, process
    <3>6. ASSUME NEW m \in Mails, SendMail(m)
          PROVE  pc' = pc
      BY <3>6 DEF SendMail, process
    <3>7. ASSUME NEW s \in Terminal, Decide(s)
          PROVE  pc' = pc
      BY <3>7 DEF Decide
    <3>8. ASSUME Resume \/ Finish \/ UNCHANGED vars
          PROVE  pc' = pc
      BY <3>8 DEF Resume, Finish, vars, process
    <3> QED
      BY <3>1, <3>2, <3>3, <3>4, <3>5, <3>6, <3>7, <3>8, <1>3 DEF Next
  <2> QED
    BY <2>1, <2>2, <2>3, <2>4
<1> QED
  BY <1>2, <1>3 DEF GivenUp

\* The steps that write runtime_resource_locks.
LEMMA LocksMove ==
    ASSUME [Next]_vars
    PROVE  \/ UNCHANGED lock
           \/ \E c \in Calls : AcquireLocks(c) \/ Undo(c) \/ LeaseReady(c)
           \/ \E n \in Nodes : Complete(n) \/ FailNode(n) \/ Heartbeat(n) \/ EndWrite(n)
           \/ \E r \in Resources : StartRootWrite(r) \/ LockLapses(r) \/ OtherGraph(r)
           \/ TimeOut \/ Finish
<1>1. ASSUME NEW c \in Calls, Enter(c) \/ Prepare(c) \/ Activate(c) \/ Barrier(c) \/ BatchEnds(c)
                              \/ WaitEnds(c)
      PROVE  UNCHANGED lock
  BY <1>1 DEF Enter, Prepare, Activate, Barrier, BatchEnds, WaitEnds, rows
<1>2. ASSUME NEW n \in Nodes, Receive(n) \/ AcknowledgeMail(n) \/ LoseNode(n) \/ NodeLapses(n)
      PROVE  UNCHANGED lock
  BY <1>2 DEF Receive, AcknowledgeMail, LoseNode, NodeLapses, rows
<1>3. ASSUME NEW S \in SUBSET Calls, CallBatch(S)
      PROVE  UNCHANGED lock
  BY <1>3 DEF CallBatch, rows
<1>4. ASSUME NEW m \in Mails, SendMail(m)
      PROVE  UNCHANGED lock
  BY <1>4 DEF SendMail
<1>5. ASSUME NEW n \in Nodes, NEW r \in Resources, StartWrite(n, r)
      PROVE  UNCHANGED lock
  BY <1>5 DEF StartWrite, rows
<1>6. ASSUME NEW s \in Terminal, Decide(s)
      PROVE  UNCHANGED lock
  BY <1>6 DEF Decide
<1>7. ASSUME Resume \/ Crash \/ UNCHANGED vars
      PROVE  UNCHANGED lock
  BY <1>7 DEF Resume, Crash, vars, rows
<1> QED
  BY <1>1, <1>2, <1>3, <1>4, <1>5, <1>6, <1>7 DEF Next, Delegation, Worker

\* A live lock under a write stays with its writer; it may only lapse or be
\* given up with the node.
LEMMA HoldStays ==
    ASSUME TypeOK, BudgetReserved, [Next]_vars, NEW n \in Nodes, NEW r \in Resources,
           writing[n] = r, Holds(n, r), r # Nobody
    PROVE  Holds(n, r)' \/ n \in lapsed' \/ GivenUp(n)' \/ writing'[n] = Nobody
<1>1. /\ lock \in [Resources -> LockRows] /\ writing \in [Nodes -> Resources \union {Nobody}]
      /\ lock[r] = [owner |-> n, live |-> TRUE] /\ lock[r].owner = n /\ lock[r].live
  BY DEF TypeOK, LockRows, Holds
<1>2. /\ Root \notin Children /\ Root \in Nodes /\ Other \notin Nodes
      /\ \A c \in Calls : ChildOf[c] \in Children /\ ChildOf[c] \in Nodes
  BY NamesAssumption, NamesDiffer
<1>3. Holds(n, r)' <=> lock'[r] = lock[r]
  BY <1>1 DEF Holds
<1>4. CASE UNCHANGED lock
  BY <1>3, <1>4
<1>5. Unexpired[r] = lock[r]
  BY <1>1 DEF Unexpired
<1>6. ASSUME NEW x, x # n
      PROVE  Released(x)[r] = lock[r]
  BY <1>1, <1>6 DEF Released
<1>7. ASSUME NEW x \in Owners \ {n}, NEW s \in Resources, Acquirable(s, x)
      PROVE  Acquired(s, x)[r] = lock[r] /\ s # r
  <2>1. s # r
    BY <1>1, <1>7 DEF Acquirable
  <2>2. Unexpired \in [Resources -> LockRows]
    BY <1>1 DEF Unexpired, Free, LockRows, Owners
  <2> QED
    BY <2>1, <2>2, <1>5 DEF Acquired
<1>8. ASSUME NEW c \in Calls, AcquireLocks(c)
      PROVE  Holds(n, r)' \/ GivenUp(n)'
  <2> DEFINE x == ChildOf[c]
  <2>1. CASE UNCHANGED lock
    BY <2>1, <1>4, <1>3
  <2>2. CASE /\ \A s \in TargetsOf[x] : Acquirable(s, x)
             /\ lock' = [s \in Resources |-> IF s \in TargetsOf[x]
                                            THEN [owner |-> x, live |-> TRUE] ELSE Unexpired[s]]
    <3>1. CASE r \in TargetsOf[x]
      <4>1. x = n
        BY <2>2, <3>1, <1>1 DEF Acquirable
      <4> QED
        BY <2>2, <3>1, <4>1, <1>1, <1>3
    <3>2. CASE r \notin TargetsOf[x]
      BY <2>2, <3>2, <1>3, <1>5
    <3> QED
      BY <3>1, <3>2
  <2>3. CASE lock' = Released(x) /\ Goes(c, "undo")
    <3>1. CASE x = n
      <4>1. pc'[c] = "undo"
        BY <2>3 DEF Goes, TypeOK
      <4> QED
        BY <3>1, <4>1 DEF GivenUp
    <3>2. CASE x # n
      BY <2>3, <3>2, <1>3, <1>6
    <3> QED
      BY <3>1, <3>2
  <2> QED
    BY <2>1, <2>2, <2>3, <1>8 DEF AcquireLocks
<1>9. ASSUME NEW x \in Nodes, NEW status \in Terminal, Open(node, x), Ends(x, status),
             x = n => status = "cancelled"
      PROVE  Holds(n, r)' \/ GivenUp(n)'
  <2>1. lock' = Released(x) /\ node'[x] = status
    BY <1>9, EndsEffect
  <2>2. CASE x = n
    BY <2>1, <2>2, <1>9 DEF GivenUp
  <2>3. CASE x # n
    BY <2>1, <2>3, <1>3, <1>6
  <2> QED
    BY <2>2, <2>3
<1>10. ASSUME NEW c \in Calls, Undo(c)
       PROVE  Holds(n, r)' \/ GivenUp(n)'
  <2>1. CASE Open(node, ChildOf[c])
    <3>1. Ends(ChildOf[c], "cancelled") /\ "cancelled" \in Terminal
      BY <1>10, <2>1 DEF Undo, Terminal
    <3> QED
      BY <2>1, <3>1, <1>2, <1>9
  <2>2. CASE ~Open(node, ChildOf[c])
    BY <2>2, <1>3, <1>4, <1>10 DEF Undo
  <2> QED
    BY <2>1, <2>2
<1>11. ASSUME NEW c \in Calls, LeaseReady(c)
       PROVE  Holds(n, r)'
  <2>1. lock' = Unexpired
    BY <1>11 DEF LeaseReady
  <2> QED
    BY <2>1, <1>3, <1>5
<1>12. ASSUME NEW x \in Nodes, Complete(x) \/ FailNode(x)
       PROVE  Holds(n, r)' \/ GivenUp(n)'
  <2>1. x # n
    BY <1>1, <1>12 DEF Complete, FailNode
  <2>2. \E status \in Terminal : Open(node, x) /\ Ends(x, status)
    BY <1>12 DEF Complete, FailNode, Open, Terminal
  <2> QED
    BY <2>1, <2>2, <1>9
<1>13. ASSUME NEW x \in Nodes, Heartbeat(x) \/ EndWrite(x)
       PROVE  Holds(n, r)' \/ writing'[n] = Nobody
  <2>1. CASE x = n
    BY <2>1, <1>1, <1>13 DEF Heartbeat, EndWrite
  <2>2. CASE x # n
    <3>1. lock' = ScopeReleased(x, writing[x])
      BY <1>13 DEF Heartbeat, EndWrite
    <3>2. lock'[r] = lock[r]
      BY <2>2, <3>1, <1>1 DEF ScopeReleased
    <3> QED
      BY <3>2, <1>3
  <2> QED
    BY <2>1, <2>2
<1>14. ASSUME NEW s \in Resources, StartRootWrite(s)
       PROVE  Holds(n, r)'
  <2>1. n # Root
    BY <1>1, <1>14 DEF StartRootWrite, AllIdle
  <2>2. Acquirable(s, Root) /\ lock' = Acquired(s, Root) /\ Root \in Owners
    BY <1>14, <1>2 DEF StartRootWrite, RootScope, Owners
  <2> QED
    BY <2>1, <2>2, <1>3, <1>7
<1>15. ASSUME NEW s \in Resources, LockLapses(s)
       PROVE  Holds(n, r)' \/ n \in lapsed'
  <2>1. CASE s = r
    BY <2>1, <1>1, <1>15 DEF LockLapses
  <2>2. CASE s # r
    BY <2>2, <1>1, <1>3, <1>15 DEF LockLapses
  <2> QED
    BY <2>1, <2>2
<1>16. ASSUME NEW s \in Resources, OtherGraph(s)
       PROVE  Holds(n, r)'
  <2>1. CASE Acquirable(s, Other) /\ lock' = Acquired(s, Other)
    BY <2>1, <1>2, <1>3, <1>7 DEF Owners
  <2>2. CASE lock[s].owner = Other /\ lock' = [lock EXCEPT ![s] = Free]
    BY <2>2, <1>1, <1>2, <1>3
  <2> QED
    BY <2>1, <2>2, <1>16 DEF OtherGraph
<1>17. CASE TimeOut
  BY <1>17 DEF TimeOut, StopCoroutines
<1>18. CASE Finish
  <2>1. CASE outcome = "cancelled"
    <3>1. CancelTree
      BY <1>18, <2>1 DEF Finish
    <3>2. \/ lock'[r] = lock[r]
          \/ Open(node, n) /\ node'[n] = "cancelled"
      BY <3>1, <1>1, CancelEffect
    <3> QED
      BY <3>2, <1>3 DEF GivenUp
  <2>2. CASE outcome # "cancelled"
    BY <2>2, <1>3, <1>18 DEF Finish, FinishGraph
  <2> QED
    BY <2>1, <2>2
<1> QED
  BY <1>3, <1>4, <1>8, <1>10, <1>11, <1>12, <1>13, <1>14, <1>15, <1>16, <1>17, <1>18, LocksMove

\* acquire_lock, release_locks, renew_write_scope: a writer holds its lock.
LEMMA WritersStep ==
    ASSUME TypeOK, BudgetReserved, CallsKnowChild, WorkersAreOpen, WritersHold, [Next]_vars
    PROVE  WritersHold'
<1> SUFFICES ASSUME NEW n \in Nodes, writing'[n] # Nobody
             PROVE  Holds(n, writing[n])' \/ n \in lapsed' \/ GivenUp(n)'
  BY DEF WritersHold
<1>1. /\ lock \in [Resources -> LockRows] /\ writing \in [Nodes -> Resources \union {Nobody}]
      /\ Root \in Nodes
  BY NamesDiffer DEF TypeOK, LockRows
<1>2. ASSUME NEW r \in Resources, StartWrite(n, r)
      PROVE  Holds(n, writing[n])'
  <2>1. writing'[n] = r /\ lock' = lock /\ Holds(n, r)
    BY <1>1, <1>2 DEF StartWrite, rows
  <2> QED
    BY <2>1 DEF Holds
<1>3. ASSUME NEW r \in Resources, n = Root, StartRootWrite(r)
      PROVE  Holds(n, writing[n])'
  <2>1. writing'[Root] = r /\ lock' = Acquired(r, Root)
    BY <1>1, <1>3 DEF StartRootWrite, RootScope
  <2>2. Acquired(r, Root)[r] = [owner |-> Root, live |-> TRUE]
    BY DEF Acquired, Unexpired
  <2> QED
    BY <2>1, <2>2, <1>3 DEF Holds
<1>4. CASE writing'[n] \in {writing[n], Nobody} /\ (n \in lapsed => n \in lapsed')
  <2>1. writing'[n] = writing[n] /\ writing[n] # Nobody /\ writing[n] \in Resources
    BY <1>1, <1>4
  <2>2. CASE n \in lapsed
    BY <2>2, <1>4
  <2>3. CASE GivenUp(n)
    BY <2>1, <2>3, GivenUpStays
  <2>4. CASE Holds(n, writing[n])
    <3> DEFINE r == writing[n]
    <3>1. r \in Resources /\ writing[n] = r /\ Holds(n, r) /\ r # Nobody
      BY <2>1, <2>4
    <3>2. lock'[r] = [owner |-> n, live |-> TRUE] \/ n \in lapsed' \/ GivenUp(n)'
      BY <3>1, HoldStays DEF Holds
    <3> QED
      BY <2>1, <3>2 DEF Holds
  <2> QED
    BY <2>1, <2>2, <2>3, <2>4 DEF WritersHold
<1> QED
  BY <1>2, <1>3, <1>4, WritingMoves

-----------------------------------------------------------------------------
(***************************************************************************)
(* Mail.                                                                   *)
(***************************************************************************)

\* The steps that write runtime_mailbox, or what is heard of it.
LEMMA MailMoves ==
    ASSUME [Next]_vars
    PROVE  \/ UNCHANGED <<mail, heard, early>>
           \/ \E m \in Mails : SendMail(m)
           \/ \E n \in Nodes : Receive(n) \/ AcknowledgeMail(n)
<1>1. ASSUME NEW c \in Calls, Delegation(c)
      PROVE  UNCHANGED <<mail, heard, early>>
  BY <1>1 DEF Delegation, Enter, Prepare, AcquireLocks, Undo, Activate, Barrier, LeaseReady,
              BatchEnds, WaitEnds, rows, history
<1>2. ASSUME NEW n \in Nodes, Complete(n) \/ FailNode(n) \/ LoseNode(n) \/ Heartbeat(n) \/ EndWrite(n)
                              \/ NodeLapses(n)
      PROVE  UNCHANGED <<mail, heard, early>>
  BY <1>2 DEF Complete, FailNode, LoseNode, Heartbeat, EndWrite, NodeLapses, rows, history
<1>3. ASSUME NEW r \in Resources, StartRootWrite(r) \/ LockLapses(r) \/ OtherGraph(r)
      PROVE  UNCHANGED <<mail, heard, early>>
  BY <1>3 DEF StartRootWrite, LockLapses, OtherGraph, history
<1>4. ASSUME NEW n \in Nodes, NEW r \in Resources, StartWrite(n, r)
      PROVE  UNCHANGED <<mail, heard, early>>
  BY <1>4 DEF StartWrite, rows
<1>5. ASSUME NEW S \in SUBSET Calls, CallBatch(S)
      PROVE  UNCHANGED <<mail, heard, early>>
  BY <1>5 DEF CallBatch, rows, history
<1>6. ASSUME NEW s \in Terminal, Decide(s)
      PROVE  UNCHANGED <<mail, heard, early>>
  BY <1>6 DEF Decide, history
<1>7. ASSUME Resume \/ TimeOut \/ Crash \/ Finish \/ UNCHANGED vars
      PROVE  UNCHANGED <<mail, heard, early>>
  BY <1>7 DEF Resume, TimeOut, Crash, Finish, vars, rows, history
<1> QED
  BY <1>1, <1>2, <1>3, <1>4, <1>5, <1>6, <1>7 DEF Next, Worker

\* complete_node publishes the artifact, and nothing takes one back.
LEMMA ArtifactMoves ==
    ASSUME [Next]_vars
    PROVE  artifact' = artifact \/ \E n \in Nodes : Complete(n) /\ artifact' = artifact \union {n}
<1>1. ASSUME NEW c \in Calls, Delegation(c)
      PROVE  artifact' = artifact
  BY <1>1 DEF Delegation, Enter, Prepare, AcquireLocks, Undo, Activate, Barrier, LeaseReady,
              BatchEnds, WaitEnds, rows
<1>2. ASSUME NEW n \in Nodes, Receive(n) \/ AcknowledgeMail(n) \/ FailNode(n) \/ LoseNode(n)
                              \/ Heartbeat(n) \/ EndWrite(n) \/ NodeLapses(n)
      PROVE  artifact' = artifact
  BY <1>2 DEF Receive, AcknowledgeMail, FailNode, LoseNode, Heartbeat, EndWrite, NodeLapses, rows
<1>3. ASSUME NEW r \in Resources, StartRootWrite(r) \/ LockLapses(r) \/ OtherGraph(r)
      PROVE  artifact' = artifact
  BY <1>3 DEF StartRootWrite, LockLapses, OtherGraph
<1>4. ASSUME NEW n \in Nodes, NEW r \in Resources, StartWrite(n, r)
      PROVE  artifact' = artifact
  BY <1>4 DEF StartWrite, rows
<1>5. ASSUME NEW S \in SUBSET Calls, CallBatch(S)
      PROVE  artifact' = artifact
  BY <1>5 DEF CallBatch, rows
<1>6. ASSUME NEW m \in Mails, SendMail(m)
      PROVE  artifact' = artifact
  BY <1>6 DEF SendMail
<1>7. ASSUME NEW s \in Terminal, Decide(s)
      PROVE  artifact' = artifact
  BY <1>7 DEF Decide
<1>8. ASSUME Resume \/ TimeOut \/ Crash \/ Finish \/ UNCHANGED vars
      PROVE  artifact' = artifact
  BY <1>8 DEF Resume, TimeOut, Crash, Finish, vars, rows
<1>9. ASSUME NEW n \in Nodes, Complete(n)
      PROVE  artifact' = artifact \union {n}
  BY <1>9 DEF Complete
<1> QED
  BY <1>1, <1>2, <1>3, <1>4, <1>5, <1>6, <1>7, <1>8, <1>9 DEF Next, Worker

\* A node runs because it was leased, with a worker that reads its mail first.
LEMMA RunningIsLeased ==
    ASSUME TypeOK, BudgetReserved, [Next]_vars, NEW n \in Children, node'[n] = "running"
    PROVE  node[n] = "running" \/ work'[n] = "receive"
<1>1. /\ node \in [Nodes -> NodeStatus] /\ n \in Nodes /\ n # Root
      /\ \A c \in Calls : ChildOf[c] \in Children /\ ChildOf[c] \in Nodes
  BY NamesAssumption, NamesDiffer DEF TypeOK
<1>2. ASSUME NEW x \in Nodes, NEW status \in Terminal, Open(node, x), Ends(x, status)
      PROVE  node[n] = "running"
  <2>1. x # n
    BY <1>2, EndsEffect DEF Terminal
  <2> QED
    BY <2>1, <1>1, <1>2, EndsEffect
<1>3. ASSUME NEW c \in Calls, Prepare(c)
      PROVE  node[n] = "running"
  BY <1>1, <1>3, SpawnEffect DEF Prepare
<1>4. ASSUME NEW c \in Calls, Undo(c)
      PROVE  node[n] = "running"
  <2>1. CASE Open(node, ChildOf[c])
    <3>1. Ends(ChildOf[c], "cancelled") /\ "cancelled" \in Terminal
      BY <1>4, <2>1 DEF Undo, Terminal
    <3> QED
      BY <2>1, <3>1, <1>1, <1>2
  <2>2. CASE ~Open(node, ChildOf[c])
    BY <2>2, <1>4 DEF Undo
  <2> QED
    BY <2>1, <2>2
<1>5. ASSUME NEW c \in Calls, Activate(c)
      PROVE  node[n] = "running"
  BY <1>1, <1>5 DEF Activate
<1>6. ASSUME NEW c \in Calls, LeaseReady(c)
      PROVE  node[n] = "running" \/ work'[n] = "receive"
  BY <1>1, <1>6, LeaseEffect
<1>7. ASSUME NEW x \in Nodes, Complete(x) \/ FailNode(x)
      PROVE  node[n] = "running"
  <2>1. \E status \in Terminal : Open(node, x) /\ Ends(x, status)
    BY <1>7 DEF Complete, FailNode, Open, Terminal
  <2> QED
    BY <2>1, <1>2
<1>8. ASSUME Finish
      PROVE  node[n] = "running"
  <2>1. CASE outcome = "cancelled"
    <3>1. CancelTree
      BY <1>8, <2>1 DEF Finish
    <3> QED
      BY <3>1, <1>1, CancelEffect
  <2>2. CASE outcome # "cancelled"
    BY <2>2, <1>8 DEF Finish, FinishGraph
  <2> QED
    BY <2>1, <2>2
<1> QED
  BY <1>3, <1>4, <1>5, <1>6, <1>7, <1>8, NodesMove

\* What a step does to one item of the mail.
LEMMA ItemMoves ==
    ASSUME TypeOK, [Next]_vars, NEW m \in Mails
    PROVE  /\ mail[m] # "none" => mail'[m] # "none"
           /\ mail'[m] = "acknowledged" =>
                 mail[m] = "acknowledged" \/ work[RecipientOf[m]] = "acknowledge"
           /\ m \in early' => m \in early \/ (/\ node[RecipientOf[m]] \in {"created", "ready"}
                                              /\ mail'[m] = "pending" /\ UNCHANGED <<node, artifact>>)
           /\ m \in heard => m \in heard' \/ Receive(RecipientOf[m])
<1>1. mail \in [Mails -> {"none", "pending", "delivered", "acknowledged"}]
      /\ RecipientOf[m] \in Children
  BY NamesAssumption DEF TypeOK
<1>2. CASE UNCHANGED <<mail, heard, early>>
  BY <1>2
<1>3. ASSUME NEW x \in Mails, SendMail(x)
      PROVE  /\ mail[m] # "none" => mail'[m] # "none"
             /\ mail'[m] = "acknowledged" => mail[m] = "acknowledged"
             /\ m \in early' => m \in early \/ (/\ node[RecipientOf[m]] \in {"created", "ready"}
                                                /\ mail'[m] = "pending" /\ UNCHANGED <<node, artifact>>)
             /\ heard' = heard
  BY <1>1, <1>3 DEF SendMail, Accepts, Posts
<1>4. ASSUME NEW n \in Nodes, Receive(n)
      PROVE  /\ mail[m] # "none" => mail'[m] # "none"
             /\ mail'[m] = "acknowledged" => mail[m] = "acknowledged"
             /\ early' = early
             /\ m \in heard => m \in heard' \/ n = RecipientOf[m]
  BY <1>1, <1>4 DEF Receive
<1>5. ASSUME NEW n \in Nodes, AcknowledgeMail(n)
      PROVE  /\ mail[m] # "none" => mail'[m] # "none"
             /\ mail'[m] = "acknowledged" => mail[m] = "acknowledged" \/ work[RecipientOf[m]] = "acknowledge"
             /\ early' = early /\ heard' = heard
  BY <1>1, <1>5 DEF AcknowledgeMail, history
<1> QED
  BY <1>2, <1>3, <1>4, <1>5, MailMoves

LEMMA MailStep ==
    ASSUME TypeOK, BudgetReserved, WorkersAreOpen, MailKept, MailIsHeard, [Next]_vars
    PROVE  MailKept' /\ MailIsHeard'
<1>1. /\ node \in [Nodes -> NodeStatus] /\ work \in [Nodes -> {"off", "receive", "work", "acknowledge"}]
      /\ artifact \subseteq Children /\ Children \subseteq Nodes /\ early \subseteq Mails
      /\ mail \in [Mails -> {"none", "pending", "delivered", "acknowledged"}]
      /\ \A m \in Mails : RecipientOf[m] \in Children /\ RecipientOf[m] \in Nodes
  BY NamesAssumption, NamesDiffer DEF TypeOK
<1>2. artifact \subseteq artifact' /\ \A n \in artifact' : n \in artifact \/ Complete(n)
  BY ArtifactMoves
<1>3. artifact' \subseteq Children
  BY <1>1, <1>2 DEF Complete
<1>4. \A n \in artifact : node[n] = "completed" /\ work[n] \in {"off", "acknowledge"}
  BY <1>1 DEF MailKept, WorkersAreOpen, Settled
<1>5. ASSUME NEW n \in artifact'
      PROVE  node'[n] = "completed"
  <2>1. CASE n \in artifact
    BY <2>1, <1>1, <1>4, NodesEndOnce DEF EndsOnce, Terminal
  <2>2. CASE Complete(n)
    <3>1. n \in Nodes /\ Open(node, n) /\ Ends(n, "completed") /\ "completed" \in Terminal
      BY <2>2, <1>1 DEF Complete, Open, Terminal
    <3> QED
      BY <3>1, EndsEffect
  <2> QED
    BY <2>1, <2>2, <1>2
<1>6. ASSUME NEW n \in Children, work'[n] = "acknowledge"
      PROVE  n \in artifact'
  <2>1. CASE Complete(n)
    BY <2>1 DEF Complete
  <2>2. CASE work[n] = "acknowledge"
    BY <2>2, <1>2 DEF MailKept
  <2> QED
    BY <2>1, <2>2, <1>1, <1>6, WorkMoves
<1>7. ASSUME NEW m \in Mails, mail'[m] = "acknowledged"
      PROVE  RecipientOf[m] \in artifact'
  BY <1>1, <1>2, <1>7, ItemMoves DEF MailKept
<1>8. ASSUME NEW m \in early', m \in Mails
      PROVE  mail'[m] # "none"
  BY <1>8, ItemMoves DEF MailKept
<1>9. ASSUME NEW m \in early, Receive(RecipientOf[m])
      PROVE  m \in heard'
  <2>1. work[RecipientOf[m]] = "receive" /\ m \in Mails
    BY <1>1, <1>9 DEF Receive
  <2>2. RecipientOf[m] \notin artifact
    BY <2>1, <1>4
  <2>3. mail[m] \in {"pending", "delivered"}
    BY <2>1, <2>2, <1>1 DEF MailKept
  <2> QED
    BY <2>1, <2>3, <1>9 DEF Receive, Inbox
<1>10. ASSUME NEW m \in early', m \in Mails, node'[RecipientOf[m]] = "running",
              work'[RecipientOf[m]] = "work"
       PROVE  m \in heard'
  <2> DEFINE n == RecipientOf[m]
  <2>1. n \in Children /\ n \in Nodes /\ node[n] = "running"
    BY <1>1, <1>10, RunningIsLeased
  <2>2. m \in early
    BY <2>1, <1>10, ItemMoves
  <2>3. CASE Receive(n)
    BY <2>2, <2>3, <1>9
  <2>4. CASE ~Receive(n)
    <3>1. work[n] = "work"
      BY <2>1, <2>4, <1>1, <1>10, WorkMoves
    <3>2. m \in heard
      BY <2>1, <2>2, <3>1 DEF MailKept
    <3> QED
      BY <3>2, <2>4, <1>10, ItemMoves
  <2> QED
    BY <2>3, <2>4
<1>11. ASSUME NEW m \in early', m \in Mails, RecipientOf[m] \in artifact'
       PROVE  m \in heard'
  <2> DEFINE n == RecipientOf[m]
  <2>1. CASE n \in artifact
    <3>1. node[n] = "completed" /\ work[n] # "receive"
      BY <2>1, <1>4
    <3>2. m \in early /\ ~Receive(n)
      BY <3>1, <1>11, ItemMoves DEF Receive
    <3>3. m \in heard
      BY <2>1, <3>2 DEF MailIsHeard
    <3> QED
      BY <3>2, <3>3, <1>11, ItemMoves
  <2>2. CASE n \notin artifact /\ Complete(n)
    <3>1. node[n] = "running" /\ work[n] = "work" /\ UNCHANGED <<heard, early>>
      BY <2>2 DEF Complete, history
    <3> QED
      BY <3>1, <1>11 DEF MailKept
  <2> QED
    BY <2>1, <2>2, <1>2, <1>11
<1>12. early' \subseteq Mails
  BY HistoryTypesStep DEF HistoryTypes
<1> QED
  BY <1>5, <1>6, <1>7, <1>8, <1>10, <1>11, <1>12 DEF MailKept, MailIsHeard

-----------------------------------------------------------------------------
(***************************************************************************)
(* The results.                                                            *)
(***************************************************************************)

LEMMA GraphStart == Init => GraphInv
<1> SUFFICES ASSUME Init
             PROVE  GraphInv
  OBVIOUS
<1>1. Cardinality({}) = 0 /\ 0 \in 0 .. Limit /\ 0 \in 0 .. MaxTurns /\ 0 \in 0 .. MaxCrashes
  BY FS_EmptySet, BudgetAssumption, BoundsAssumption
<1>2. RowTypes
  <2>1. node \in [Nodes -> NodeStatus]
    BY DEF Init, NodeStatus
  <2>2. lock \in [Resources -> LockRows]
    BY DEF Init, Free, LockRows, Owners
  <2>3. live \subseteq Nodes /\ Cardinality(live) <= MaxConcurrency
    BY <1>1, LimitAssumption DEF Init
  <2> QED
    BY <1>1, <2>1, <2>2, <2>3 DEF Init, RowTypes
<1>3. ProcessTypes
  BY DEF Init, ProcessTypes
<1>4. HistoryTypes
  BY <1>1 DEF Init, HistoryTypes
<1>5. BudgetReserved
  <2>1. OpenChildren(node) = {}
    BY NamesDiffer DEF Init, OpenChildren, Open
  <2> QED
    BY <1>1, <2>1, BudgetAssumption, Shares DEF Init, BudgetReserved
<1>6. RootIsFreed /\ CallsKnowChild /\ MailKept /\ MailIsHeard
  BY NamesDiffer DEF Init, RootIsFreed, CallsKnowChild, MailKept, MailIsHeard
<1>7. WorkersAreOpen /\ WritersHold
  BY DEF Init, WorkersAreOpen, WritersHold
<1> QED
  BY <1>2, <1>3, <1>4, <1>5, <1>6, <1>7, TypeParts DEF GraphInv

LEMMA GraphStep ==
    ASSUME GraphInv, [Next]_vars
    PROVE  GraphInv'
BY TypesStep, RootStep, CallsStep, WorkersStep, WritersStep, MailStep DEF GraphInv

\* The inductive invariant holds in every state of the graph, its calls and
\* its workers.
THEOREM GraphInvariant == Spec => []GraphInv
BY GraphStart, GraphStep, PTL DEF Spec

\* The rows, the calls and the workers keep their types, max_concurrency bounds
\* the leases and the budget of the root bounds what is reserved (lease_ready,
\* _reserve_parent_budget).
THEOREM GraphTypes == Spec => []TypeOK
<1>1. GraphInv => TypeOK
  BY DEF GraphInv
<1> QED
  BY <1>1, GraphInvariant, PTL

\* The ledger holds what the open children took: each end of a child gives back
\* its share once (_reserve_parent_budget, _release_parent_budget).
THEOREM BudgetIsConserved == Spec => []BudgetReserved
<1>1. GraphInv => BudgetReserved
  BY DEF GraphInv
<1> QED
  BY <1>1, GraphInvariant, PTL

\* The root waits only for an open child, and only a repeated delegation can
\* take the root node for work (_wake_parent, lease_ready).
THEOREM RootIsAlwaysFreed == Spec => []RootIsFreed
<1>1. GraphInv => RootIsFreed
  BY DEF GraphInv
<1> QED
  BY <1>1, GraphInvariant, PTL

\* A writer keeps the lock of its target until the lock lapses or the node is
\* given up (acquire_lock, release_locks, cancel_subtree, renew_write_scope).
THEOREM WritersOwnTargets == Spec => []WriterOwnsTarget
<1>1. ASSUME GraphInv
      PROVE  WriterOwnsTarget
  <2>1. \A n \in Nodes, r \in Resources : Holds(n, r) => lock[r].owner = n
    BY DEF Holds
  <2>2. \A n \in Nodes : writing[n] \in Resources \union {Nobody}
    BY <1>1 DEF GraphInv, TypeOK
  <2> QED
    BY <1>1, <2>1, <2>2 DEF GraphInv, WritersHold, WriterOwnsTarget
<1> QED
  BY <1>1, GraphInvariant, PTL

\* Mail accepted before its recipient was leased is in the input that led to
\* the artifact (send_mail, receive_mail, complete_node).
THEOREM EarlyMailIsHeard == Spec => []MailIsHeard
<1>1. GraphInv => MailIsHeard
  BY DEF GraphInv
<1> QED
  BY <1>1, GraphInvariant, PTL

\* A node that completed, failed or was cancelled keeps that status, through
\* late workers, lapsed leases and repeated delegations (complete_node,
\* fail_node, cancel_subtree, lease_ready).
THEOREM NodesStayEnded ==
    Spec => [][\A n \in Nodes : node[n] \in Terminal => node'[n] = node[n]]_vars
<1>1. ASSUME GraphInv, [Next]_vars
      PROVE  [\A n \in Nodes : node[n] \in Terminal => node'[n] = node[n]]_vars
  BY <1>1, NodesEndOnce DEF GraphInv, EndsOnce
<1> QED
  BY <1>1, GraphInvariant, PTL DEF Spec

===============================================================================
