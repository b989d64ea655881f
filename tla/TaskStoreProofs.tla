--------------------------- MODULE TaskStoreProofs ---------------------------
(***************************************************************************)
(* Proofs about the transactions of TaskStore, for every set of tasks and  *)
(* every limit.  They hold for any order of calls (StoreNext), so for any  *)
(* worker: TaskWorkerProofs shows that the modelled one makes no other.    *)
(***************************************************************************)
EXTENDS TaskStore, TLAPS, FiniteSetTheorems, NaturalsInduction

\* A task that was never admitted has an empty row.
Untouched == \A t \in Tasks : tasks[t].state = "none" => tasks[t] = NoRow

StoreInv ==
    /\ StoreTypeOK /\ Untouched /\ NothingStranded
    /\ SessionExclusive /\ LimitsHold

(***************************************************************************)
(* Selection.                                                              *)
(***************************************************************************)

\* The rows after the two UPDATEs that open lease_tasks are well formed.
LEMMA ReclaimedIsTyped ==
    ASSUME StoreTypeOK
    PROVE  Reclaimed \in [Tasks -> Row]
BY DEF StoreTypeOK, Reclaimed, Row

\* Reclaiming touches only rows whose lease has expired.
LEMMA ReclaimedKeepsLive ==
    ASSUME StoreTypeOK, NEW t \in Tasks,
           ~(tasks[t].state = "leased" /\ ~tasks[t].live)
    PROVE  Reclaimed[t] = tasks[t]
BY DEF Reclaimed

\* A granted row is leased, so it is no longer eligible.
LEMMA GrantIsLeased ==
    ASSUME NEW row \in Row
    PROVE  Grant(row).state = "leased" /\ Grant(row).live = TRUE
BY DEF Grant, Row

\* A lease keeps the row well formed if an attempt is left, or none is taken.
LEMMA GrantIsTyped ==
    ASSUME NEW row \in Row, row.attempts < MaxAttempts \/ row.exhausted
    PROVE  Grant(row) \in Row
<1>1. CASE row.exhausted
  BY <1>1 DEF Grant, Row
<1>2. CASE ~row.exhausted
  <2>1. row.attempts + 1 \in 0 .. MaxAttempts
    BY <1>2, AttemptsAssumption DEF Row
  <2> QED
    BY <1>2, <2>1 DEF Grant, Row
<1> QED
  BY <1>1, <1>2

\* Each task of a selection was eligible when the statement began, and its
\* session was free when its turn came (_select_task_ids).
LEMMA SelectedIsEligible ==
    ASSUME StoreTypeOK, NEW n \in 0 .. Batch, NEW picks \in [1 .. n -> Tasks],
           IsSelection(n, picks), NEW i \in 1 .. n
    PROVE  /\ picks[i] \in Tasks
           /\ Reclaimed[picks[i]].state = "pending"
           /\ Reclaimed[picks[i]].ready
           /\ Reclaimed[picks[i]].attempts < MaxAttempts \/ Reclaimed[picks[i]].exhausted
           /\ LeasedIn(RowsAfter(Reclaimed, picks, i - 1), "session", picks[i]) = {}
           /\ \A j \in 1 .. (i - 1) : picks[j] # picks[i]
<1> DEFINE before == RowsAfter(Reclaimed, picks, i - 1)
           t == picks[i]
<1>1. t \in Tasks
  OBVIOUS
<1>2. t \in Eligible(before)
  BY DEF IsSelection, Candidates
<1>3. before[t].state = "pending"
  BY <1>2 DEF Eligible
<1>4. Reclaimed \in [Tasks -> Row]
  BY ReclaimedIsTyped
<1>5. \A j \in 1 .. (i - 1) : picks[j] # t
  <2> SUFFICES ASSUME NEW j \in 1 .. (i - 1), picks[j] = t PROVE FALSE
    OBVIOUS
  <2>1. before[t] = Grant(Reclaimed[t])
    BY <1>1 DEF RowsAfter
  <2>2. Reclaimed[t] \in Row
    BY <1>1, <1>4
  <2>3. Grant(Reclaimed[t]).state = "leased"
    BY <2>2, GrantIsLeased
  <2> HIDE DEF before, t
  <2> QED
    BY <2>1, <2>3, <1>3
<1>6. before[t] = Reclaimed[t]
  BY <1>1, <1>5 DEF RowsAfter
<1> QED
  BY <1>1, <1>2, <1>5, <1>6 DEF Eligible

\* The row of a task after a selection has been leased.
LEMMA RowOfSelection ==
    ASSUME StoreTypeOK, NEW n \in 0 .. Batch, NEW picks \in [1 .. n -> Tasks],
           LeaseTasks(n, picks), NEW t \in Tasks
    PROVE  /\ (\E i \in 1 .. n : picks[i] = t) => tasks'[t] = Grant(Reclaimed[t])
           /\ ~(\E i \in 1 .. n : picks[i] = t) => tasks'[t] = Reclaimed[t]
BY DEF LeaseTasks, RowsAfter

(***************************************************************************)
(* Invariants.                                                             *)
(***************************************************************************)

LEMMA InitStoreInv == StoreInit => StoreInv
<1> SUFFICES ASSUME StoreInit PROVE StoreInv
  OBVIOUS
<1> USE DEF StoreInit, NoRow
<1>1. StoreTypeOK
  BY AttemptsAssumption DEF StoreTypeOK, Row, Outcomes
<1>2. Untouched /\ NothingStranded
  BY DEF Untouched, NothingStranded
<1>3. SessionExclusive
  BY DEF SessionExclusive, Leased
<1>4. LimitsHold
  <2>1. Leased(tasks) = {} /\ \A k, t : LeasedIn(tasks, k, t) = {}
    BY DEF Leased, LeasedIn
  <2>2. Cardinality({}) = 0
    BY FS_EmptySet
  <2>3. 0 <= GroupLimit /\ 0 <= AppLimit /\ 0 <= TenantLimit /\ 0 <= GlobalLimit
    BY LimitsAssumption
  <2>4. Cardinality(Leased(tasks)) <= GlobalLimit
    BY <2>1, <2>2, <2>3
  <2>5. ASSUME NEW t \in Tasks
        PROVE  /\ Cardinality(LeasedIn(tasks, "tenant", t)) <= TenantLimit
               /\ Cardinality(LeasedIn(tasks, "app", t)) <= AppLimit
               /\ Cardinality(LeasedIn(tasks, "group", t)) <= GroupLimit
    BY <2>1, <2>2, <2>3
  <2> QED
    BY <2>4, <2>5 DEF LimitsHold
<1> QED
  BY <1>1, <1>2, <1>3, <1>4 DEF StoreInv

\* Leasing keeps the rows well formed: a granted row has an attempt left or
\* is a finalization, which does not consume one.
LEMMA LeaseKeepsType ==
    ASSUME StoreTypeOK, NEW n \in 0 .. Batch, NEW picks \in [1 .. n -> Tasks],
           LeaseTasks(n, picks)
    PROVE  StoreTypeOK'
<1>1. Reclaimed \in [Tasks -> Row]
  BY ReclaimedIsTyped
<1>2. ASSUME NEW t \in Tasks PROVE tasks'[t] \in Row
  <2>1. CASE \E i \in 1 .. n : picks[i] = t
    <3>1. PICK i \in 1 .. n : picks[i] = t
      BY <2>1
    <3>2. Reclaimed[t].attempts < MaxAttempts \/ Reclaimed[t].exhausted
      BY <3>1, SelectedIsEligible DEF LeaseTasks
    <3>3. Reclaimed[t] \in Row
      BY <1>1
    <3>4. Grant(Reclaimed[t]) \in Row
      BY <3>2, <3>3, GrantIsTyped
    <3> QED
      BY <2>1, <3>4, RowOfSelection
  <2>2. CASE ~(\E i \in 1 .. n : picks[i] = t)
    BY <2>2, <1>1, RowOfSelection
  <2> QED
    BY <2>1, <2>2
<1>3. DOMAIN tasks' = Tasks /\ tasks' = [t \in Tasks |-> tasks'[t]]
  BY DEF LeaseTasks, RowsAfter
<1>4. tasks' \in [Tasks -> Row]
  BY <1>2, <1>3
<1>5. older' \in [LaneKinds -> SUBSET ((UNION {ScopeKeys(k) : k \in LaneKinds})
                                      \X (UNION {ScopeKeys(k) : k \in LaneKinds}))]
  <2>1. \A k \in LaneKinds :
           ScopeKeys(k) \subseteq UNION {ScopeKeys(kk) : kk \in LaneKinds}
    OBVIOUS
  <2>2. \A k \in LaneKinds : CursorsAfter(picks, n)[k] \subseteq ScopeKeys(k) \X ScopeKeys(k)
    BY DEF CursorsAfter
  <2>3. CursorsAfter(picks, n) = [k \in LaneKinds |-> CursorsAfter(picks, n)[k]]
    BY DEF CursorsAfter
  <2>4. older' = CursorsAfter(picks, n)
    BY DEF LeaseTasks
  <2> HIDE DEF LaneKinds
  <2> QED
    BY <2>1, <2>2, <2>3, <2>4
<1> QED
  BY <1>4, <1>5 DEF StoreTypeOK

\* When a task is picked, no other task of its session is leased and live:
\* neither one picked earlier in the batch nor one leased before it.
LEMMA SessionWasFree ==
    ASSUME StoreTypeOK, NEW n \in 0 .. Batch, NEW picks \in [1 .. n -> Tasks],
           IsSelection(n, picks), NEW i \in 1 .. n, NEW u \in Tasks,
           \/ \E j \in 1 .. (i - 1) : picks[j] = u
           \/ /\ ~(\E j \in 1 .. n : picks[j] = u)
              /\ Reclaimed[u].state = "leased" /\ Reclaimed[u].live
    PROVE  Scope[u].session # Scope[picks[i]].session
<1> DEFINE before == RowsAfter(Reclaimed, picks, i - 1)
<1>1. before[u].state = "leased" /\ before[u].live
  <2>1. CASE \E j \in 1 .. (i - 1) : picks[j] = u
    <3>1. before[u] = Grant(Reclaimed[u])
      BY <2>1 DEF RowsAfter
    <3>2. Reclaimed[u] \in Row
      BY ReclaimedIsTyped
    <3>3. Grant(Reclaimed[u]).state = "leased" /\ Grant(Reclaimed[u]).live = TRUE
      BY <3>2, GrantIsLeased
    <3> HIDE DEF before
    <3> QED
      BY <3>1, <3>3
  <2>2. CASE /\ ~(\E j \in 1 .. n : picks[j] = u)
             /\ Reclaimed[u].state = "leased" /\ Reclaimed[u].live
    <3>1. before[u] = Reclaimed[u]
      BY <2>2 DEF RowsAfter
    <3> QED
      BY <2>2, <3>1
  <2> QED
    BY <2>1, <2>2
<1>2. u \in Leased(before)
  BY <1>1 DEF Leased
<1>3. LeasedIn(before, "session", picks[i]) = {}
  BY SelectedIsEligible
<1> HIDE DEF before
<1> QED
  BY <1>2, <1>3 DEF LeasedIn

\* A live lease after a selection was picked, or was live before it.
LEMMA LiveAfterSelection ==
    ASSUME StoreTypeOK, NEW n \in 0 .. Batch, NEW picks \in [1 .. n -> Tasks],
           LeaseTasks(n, picks), NEW t \in Leased(tasks'),
           ~(\E i \in 1 .. n : picks[i] = t)
    PROVE  /\ t \in Leased(tasks)
           /\ Reclaimed[t].state = "leased" /\ Reclaimed[t].live
<1>1. t \in Tasks /\ tasks'[t].state = "leased" /\ tasks'[t].live
  BY DEF Leased
<1>2. tasks'[t] = Reclaimed[t]
  BY <1>1, RowOfSelection
<1>3. Reclaimed[t].state = "leased" => Reclaimed[t] = tasks[t]
  BY <1>1 DEF Reclaimed, StoreTypeOK, Row
<1> QED
  BY <1>1, <1>2, <1>3 DEF Leased

\* Leasing keeps one live lease per session, although the batch is chosen row
\* by row.
LEMMA LeaseKeepsExclusive ==
    ASSUME StoreTypeOK, SessionExclusive,
           NEW n \in 0 .. Batch, NEW picks \in [1 .. n -> Tasks],
           LeaseTasks(n, picks)
    PROVE  SessionExclusive'
<1> SUFFICES ASSUME NEW t \in Leased(tasks'), NEW u \in Leased(tasks'), t # u
             PROVE  Scope[t].session # Scope[u].session
  BY DEF SessionExclusive
<1>1. IsSelection(n, picks)
  BY DEF LeaseTasks
<1>2. t \in Tasks /\ u \in Tasks
  BY DEF Leased
<1>3. CASE ~(\E i \in 1 .. n : picks[i] = t) /\ ~(\E i \in 1 .. n : picks[i] = u)
  BY <1>3, LiveAfterSelection DEF SessionExclusive
<1>4. ASSUME NEW i \in 1 .. n, picks[i] = t, ~(\E j \in 1 .. n : picks[j] = u)
      PROVE  Scope[t].session # Scope[u].session
  BY <1>1, <1>2, <1>4, LiveAfterSelection, SessionWasFree
<1>5. ASSUME NEW i \in 1 .. n, picks[i] = u, ~(\E j \in 1 .. n : picks[j] = t)
      PROVE  Scope[t].session # Scope[u].session
  BY <1>1, <1>2, <1>5, LiveAfterSelection, SessionWasFree
<1>6. ASSUME NEW i \in 1 .. n, NEW j \in 1 .. n, picks[i] = t, picks[j] = u
      PROVE  Scope[t].session # Scope[u].session
  <2>1. CASE j < i
    <3>1. j \in 1 .. (i - 1)
      BY <2>1
    <3> QED
      BY <1>1, <1>2, <1>6, <3>1, SessionWasFree
  <2>2. CASE i < j
    <3>1. i \in 1 .. (j - 1)
      BY <2>2
    <3> QED
      BY <1>1, <1>2, <1>6, <3>1, SessionWasFree
  <2>3. CASE i = j
    BY <1>6, <2>3
  <2> QED
    BY <2>1, <2>2, <2>3
<1> QED
  BY <1>3, <1>4, <1>5, <1>6

\* A step that grants no lease cannot give a session a second one.
LEMMA FewerLeasesKeepExclusive ==
    ASSUME SessionExclusive, Leased(tasks') \subseteq Leased(tasks)
    PROVE  SessionExclusive'
BY DEF SessionExclusive

\* Leasing strands no row: what it does not grant it leaves eligible, and a
\* finalization lease has used up its attempts.
LEMMA LeaseStrandsNothing ==
    ASSUME StoreTypeOK, Untouched, NothingStranded,
           NEW n \in 0 .. Batch, NEW picks \in [1 .. n -> Tasks],
           LeaseTasks(n, picks)
    PROVE  Untouched' /\ NothingStranded'
<1>1. ASSUME NEW t \in Tasks
      PROVE  /\ Reclaimed[t] \in Row
             /\ Reclaimed[t].state = "none" => Reclaimed[t] = NoRow
             /\ Reclaimed[t].state \in {"pending", "leased"} =>
                  (Reclaimed[t].exhausted => Reclaimed[t].attempts = MaxAttempts)
             /\ Reclaimed[t].state = "pending" =>
                  (Reclaimed[t].attempts < MaxAttempts \/ Reclaimed[t].exhausted)
  <2>1. tasks[t] \in Row
    BY DEF StoreTypeOK
  <2>2. Reclaimed[t] \in Row
    BY ReclaimedIsTyped
  <2>3. CASE tasks[t].state = "leased" /\ ~tasks[t].live
    <3> DEFINE x == tasks[t].exhausted \/ tasks[t].attempts >= MaxAttempts
    <3>1. x \in BOOLEAN /\ (x <=> tasks[t].exhausted \/ tasks[t].attempts >= MaxAttempts)
      BY <2>1 DEF Row
    <3>2. Reclaimed[t] = [tasks[t] EXCEPT !.state = "pending", !.exhausted = x]
      BY <2>1, <2>3 DEF Reclaimed, Row
    <3>3. (tasks[t].exhausted => tasks[t].attempts = MaxAttempts)
          /\ tasks[t].attempts \in 0 .. MaxAttempts
      BY <2>1, <2>3 DEF NothingStranded, Row
    <3> HIDE DEF x
    <3>4. /\ Reclaimed[t].state = "pending" /\ Reclaimed[t].exhausted = x
          /\ Reclaimed[t].attempts = tasks[t].attempts
      BY <2>1, <3>1, <3>2 DEF Row
    <3> QED
      BY <2>2, <3>1, <3>3, <3>4, AttemptsAssumption
  <2>4. CASE ~(tasks[t].state = "leased" /\ ~tasks[t].live)
    BY <2>2, <2>4, ReclaimedKeepsLive DEF Untouched, NothingStranded
  <2> QED
    BY <2>3, <2>4
<1>2. ASSUME NEW t \in Tasks
      PROVE  /\ tasks'[t].state = "none" => tasks'[t] = NoRow
             /\ tasks'[t].state \in {"pending", "leased"} =>
                  (tasks'[t].exhausted => tasks'[t].attempts = MaxAttempts)
             /\ tasks'[t].state = "pending" =>
                  (tasks'[t].attempts < MaxAttempts \/ tasks'[t].exhausted)
  <2>1. CASE \E i \in 1 .. n : picks[i] = t
    <3>1. tasks'[t] = Grant(Reclaimed[t])
      BY <2>1, RowOfSelection
    <3>2. Reclaimed[t].state = "pending"
      BY <2>1, SelectedIsEligible DEF LeaseTasks
    <3>3. /\ Grant(Reclaimed[t]).state = "leased"
          /\ Grant(Reclaimed[t]).exhausted = Reclaimed[t].exhausted
          /\ Reclaimed[t].exhausted =>
               Grant(Reclaimed[t]).attempts = Reclaimed[t].attempts
      BY <1>1 DEF Grant, Row
    <3> QED
      BY <3>1, <3>2, <3>3, <1>1
  <2>2. CASE ~(\E i \in 1 .. n : picks[i] = t)
    BY <2>2, <1>1, RowOfSelection
  <2> QED
    BY <2>1, <2>2
<1> QED
  BY <1>2 DEF Untouched, NothingStranded

(***************************************************************************)
(* The limits.                                                             *)
(***************************************************************************)

\* A nonempty set of positions of a batch has a last one.
LEMMA LastPosition ==
    ASSUME NEW n \in Nat, NEW I \in SUBSET (1 .. n), I # {}
    PROVE  \E i \in I : \A j \in I : j <= i
<1> DEFINE T == {n - i : i \in I}
<1>1. T \subseteq Nat /\ T # {}
  <2>1. \A i \in I : n - i \in Nat
    OBVIOUS
  <2>2. PICK i \in I : TRUE
    OBVIOUS
  <2> QED
    BY <2>1, <2>2
<1>2. PICK x \in T : \A y \in T : ~(<<y, x>> \in OpToRel(<, Nat))
  BY <1>1, NatLessThanWellFounded, WFMin
<1>3. \A y \in T : ~(y < x)
  BY <1>1, <1>2 DEF OpToRel
<1>4. PICK i \in I : x = n - i
  OBVIOUS
<1>5. \A j \in I : n - j \in T
  OBVIOUS
<1>6. \A j \in I : j <= i
  BY <1>3, <1>4, <1>5
<1> QED
  BY <1>6

LEMMA LeasedIsFinite ==
    ASSUME NEW rows PROVE IsFiniteSet(Leased(rows))
BY TasksAssumption, FS_Subset DEF Leased

\* Leasing keeps a scope within a limit that was tested before each grant.
LEMMA LeaseKeepsScopeLimit ==
    ASSUME StoreTypeOK, NEW n \in 0 .. Batch, NEW picks \in [1 .. n -> Tasks],
           LeaseTasks(n, picks), NEW k, NEW limit \in Nat, NEW t \in Tasks,
           Cardinality(LeasedIn(tasks, k, t)) <= limit,
           \A i \in 1 .. n : Scope[picks[i]][k] = Scope[t][k] =>
              Cardinality(LeasedIn(RowsAfter(Reclaimed, picks, i - 1), k, picks[i])) < limit
    PROVE  Cardinality(LeasedIn(tasks', k, t)) <= limit
<1> DEFINE I == {i \in 1 .. n : Scope[picks[i]][k] = Scope[t][k]}
           now == LeasedIn(tasks', k, t)
<1>0. \A u \in now : u \in Tasks /\ u \in Leased(tasks') /\ Scope[u][k] = Scope[t][k]
  BY DEF LeasedIn, Leased
<1>1. CASE I = {}
  <2>1. now \subseteq LeasedIn(tasks, k, t)
    <3> SUFFICES ASSUME NEW u \in now PROVE u \in LeasedIn(tasks, k, t)
      OBVIOUS
    <3>1. ~(\E i \in 1 .. n : picks[i] = u)
      BY <1>0, <1>1
    <3> HIDE DEF now
    <3> QED
      BY <1>0, <3>1, LiveAfterSelection DEF LeasedIn
  <2>2. IsFiniteSet(LeasedIn(tasks, k, t))
    BY LeasedIsFinite, FS_Subset DEF LeasedIn
  <2>3. now \in SUBSET LeasedIn(tasks, k, t)
    BY <2>1
  <2> HIDE DEF now
  <2>4. IsFiniteSet(now) /\ Cardinality(now) <= Cardinality(LeasedIn(tasks, k, t))
    BY <2>2, <2>3, FS_Subset
  <2>5. Cardinality(now) \in Nat /\ Cardinality(LeasedIn(tasks, k, t)) \in Nat
    BY <2>2, <2>4, FS_CardinalityType
  <2> QED
    BY <2>4, <2>5 DEF now
<1>2. CASE I # {}
  <2>1. PICK i \in I : \A j \in I : j <= i
    <3>1. I \in SUBSET (1 .. n) /\ n \in Nat
      BY LimitsAssumption
    <3> HIDE DEF I
    <3> QED
      BY <1>2, <3>1, LastPosition
  <2> DEFINE before == RowsAfter(Reclaimed, picks, i - 1)
             then == LeasedIn(before, k, picks[i])
  <2>2. now \subseteq then \cup {picks[i]}
    <3> SUFFICES ASSUME NEW u \in now, u # picks[i] PROVE u \in then
      OBVIOUS
    <3>1. Scope[u][k] = Scope[picks[i]][k]
      BY <1>0
    <3>2. before[u].state = "leased" /\ before[u].live
      <4>1. CASE \E j \in 1 .. n : picks[j] = u
        <5>1. PICK j \in 1 .. n : picks[j] = u
          BY <4>1
        <5>2. j \in I /\ j # i
          BY <5>1, <1>0
        <5>3. j \in 1 .. (i - 1)
          BY <5>2, <2>1
        <5>4. before[u] = Grant(Reclaimed[u])
          BY <5>1, <5>3, <1>0 DEF RowsAfter
        <5>5. Grant(Reclaimed[u]).state = "leased" /\ Grant(Reclaimed[u]).live
          BY <1>0, ReclaimedIsTyped, GrantIsLeased
        <5> HIDE DEF before
        <5> QED
          BY <5>4, <5>5
      <4>2. CASE ~(\E j \in 1 .. n : picks[j] = u)
        <5>1. before[u] = Reclaimed[u]
          BY <4>2, <1>0 DEF RowsAfter
        <5> HIDE DEF before, now
        <5> QED
          BY <5>1, <4>2, <1>0, LiveAfterSelection
      <4> QED
        BY <4>1, <4>2
    <3> HIDE DEF before
    <3> QED
      BY <3>1, <3>2, <1>0 DEF LeasedIn, Leased
  <2>3. IsFiniteSet(then)
    BY LeasedIsFinite, FS_Subset DEF LeasedIn
  <2>4. Cardinality(then) < limit /\ Cardinality(then) \in Nat
    BY <2>3, FS_CardinalityType
  <2> HIDE DEF now, then
  <2>a. /\ IsFiniteSet(then \cup {picks[i]})
        /\ Cardinality(then \cup {picks[i]}) =
             IF picks[i] \in then THEN Cardinality(then) ELSE Cardinality(then) + 1
    BY <2>3, FS_AddElement
  <2>5. Cardinality(then \cup {picks[i]}) <= Cardinality(then) + 1
    BY <2>a, <2>4
  <2>6. /\ IsFiniteSet(now)
        /\ Cardinality(now) <= Cardinality(then \cup {picks[i]})
    BY <2>2, <2>a, FS_Subset
  <2>7. Cardinality(now) \in Nat /\ Cardinality(then \cup {picks[i]}) \in Nat
    BY <2>a, <2>6, FS_CardinalityType
  <2> QED
    BY <2>4, <2>5, <2>6, <2>7 DEF now
<1> QED
  BY <1>1, <1>2

LEMMA LeaseKeepsLimits ==
    ASSUME StoreTypeOK, LimitsHold,
           NEW n \in 0 .. Batch, NEW picks \in [1 .. n -> Tasks],
           LeaseTasks(n, picks)
    PROVE  LimitsHold'
<1>0. IsSelection(n, picks) /\ {GroupLimit, AppLimit, TenantLimit, GlobalLimit} \subseteq Nat
  BY LimitsAssumption DEF LeaseTasks
<1>a. ASSUME NEW i \in 1 .. n
      PROVE  LET before == RowsAfter(Reclaimed, picks, i - 1)
             IN  /\ Cardinality(LeasedIn(before, "tenant", picks[i])) < TenantLimit
                 /\ Cardinality(LeasedIn(before, "app", picks[i])) < AppLimit
                 /\ \/ Scope[picks[i]].group = NoGroup
                    \/ Cardinality(LeasedIn(before, "group", picks[i])) < GroupLimit
  BY <1>0 DEF IsSelection, Candidates
<1>b. ASSUME NEW k, NEW t \in Tasks PROVE IsFiniteSet(LeasedIn(tasks, k, t))
  BY LeasedIsFinite, FS_Subset DEF LeasedIn
<1>1. Cardinality(Leased(tasks')) <= GlobalLimit
  <2> DEFINE P == {picks[i] : i \in 1 .. n}
             old == Leased(Reclaimed)
  <2>1. IsFiniteSet(old) /\ Cardinality(old) \in Nat
    BY LeasedIsFinite, FS_CardinalityType
  <2>2. old \subseteq Leased(tasks)
    BY DEF Leased, Reclaimed, StoreTypeOK, Row
  <2>3. Cardinality(old) <= GlobalLimit
    <3>1. Cardinality(old) <= Cardinality(Leased(tasks)) /\ Cardinality(Leased(tasks)) \in Nat
      BY <2>2, LeasedIsFinite, FS_Subset, FS_CardinalityType
    <3> HIDE DEF old
    <3> QED
      BY <3>1, <2>1, <1>0 DEF LimitsHold
  <2>4. IsFiniteSet(1 .. n) /\ Cardinality(1 .. n) = n
    BY FS_Interval, LimitsAssumption
  <2>5. picks \in Surjection(1 .. n, P)
    BY DEF Surjection
  <2>6. IsFiniteSet(P) /\ Cardinality(P) <= n /\ Cardinality(P) \in Nat
    BY <2>4, <2>5, FS_Surjection, FS_CardinalityType
  <2>7. Leased(tasks') \subseteq old \cup P
    <3> SUFFICES ASSUME NEW u \in Leased(tasks'), ~(\E i \in 1 .. n : picks[i] = u)
                 PROVE  u \in old
      OBVIOUS
    <3>1. u \in Tasks
      BY DEF Leased
    <3> QED
      BY <3>1, LiveAfterSelection DEF Leased
  <2>8. Cardinality(old) + n <= GlobalLimit
    <3>1. n <= Room(Reclaimed)
      BY <1>0 DEF IsSelection
    <3>2. n \in Nat /\ Batch \in Nat
      BY LimitsAssumption
    <3> HIDE DEF P
    <3> QED
      BY <3>1, <3>2, <2>1, <2>3, <1>0 DEF Room
  <2> HIDE DEF P, old
  <2>9. /\ IsFiniteSet(old \cup P)
        /\ Cardinality(old \cup P) = Cardinality(old) + Cardinality(P) - Cardinality(old \cap P)
        /\ Cardinality(old \cap P) \in Nat
    BY <2>1, <2>6, FS_Union, FS_Intersection, FS_CardinalityType
  <2>10. /\ Cardinality(Leased(tasks')) <= Cardinality(old \cup P)
         /\ Cardinality(Leased(tasks')) \in Nat
    BY <2>7, <2>9, LeasedIsFinite, FS_Subset, FS_CardinalityType
  <2>11. n \in Nat
    BY LimitsAssumption
  <2> QED
    BY <2>1, <2>6, <2>8, <2>9, <2>10, <2>11, <1>0
<1>2. ASSUME NEW t \in Tasks
      PROVE  Cardinality(LeasedIn(tasks', "tenant", t)) <= TenantLimit
  BY <1>0, <1>a, LeaseKeepsScopeLimit DEF LimitsHold
<1>3. ASSUME NEW t \in Tasks
      PROVE  Cardinality(LeasedIn(tasks', "app", t)) <= AppLimit
  BY <1>0, <1>a, LeaseKeepsScopeLimit DEF LimitsHold
<1>4. ASSUME NEW t \in Tasks, Scope[t].group # NoGroup
      PROVE  Cardinality(LeasedIn(tasks', "group", t)) <= GroupLimit
  <2>1. \A i \in 1 .. n : Scope[picks[i]]["group"] = Scope[t]["group"] =>
           Cardinality(LeasedIn(RowsAfter(Reclaimed, picks, i - 1), "group", picks[i]))
             < GroupLimit
    BY <1>4, <1>a
  <2> QED
    BY <2>1, <1>0, <1>4, LeaseKeepsScopeLimit DEF LimitsHold
<1> QED
  BY <1>1, <1>2, <1>3, <1>4 DEF LimitsHold

\* A step that grants no lease keeps every limit.
LEMMA FewerLeasesKeepLimits ==
    ASSUME LimitsHold, Leased(tasks') \subseteq Leased(tasks)
    PROVE  LimitsHold'
<1>1. ASSUME NEW S, NEW T, IsFiniteSet(T), S \subseteq T, NEW limit \in Nat,
             Cardinality(T) <= limit
      PROVE  Cardinality(S) <= limit
  <2>1. IsFiniteSet(S) /\ Cardinality(S) <= Cardinality(T)
    BY <1>1, FS_Subset
  <2>2. Cardinality(S) \in Nat /\ Cardinality(T) \in Nat
    BY <1>1, <2>1, FS_CardinalityType
  <2> QED
    BY <1>1, <2>1, <2>2
<1>2. {GroupLimit, AppLimit, TenantLimit, GlobalLimit} \subseteq Nat
  BY LimitsAssumption
<1>3. Cardinality(Leased(tasks')) <= GlobalLimit
  BY <1>1, <1>2, LeasedIsFinite DEF LimitsHold
<1>4. ASSUME NEW k, NEW t \in Tasks
      PROVE  /\ LeasedIn(tasks', k, t) \subseteq LeasedIn(tasks, k, t)
             /\ IsFiniteSet(LeasedIn(tasks, k, t))
  BY LeasedIsFinite, FS_Subset DEF LeasedIn
<1>5. ASSUME NEW t \in Tasks
      PROVE  Cardinality(LeasedIn(tasks', "tenant", t)) <= TenantLimit
  BY <1>1, <1>2, <1>4 DEF LimitsHold
<1>6. ASSUME NEW t \in Tasks
      PROVE  Cardinality(LeasedIn(tasks', "app", t)) <= AppLimit
  BY <1>1, <1>2, <1>4 DEF LimitsHold
<1>7. ASSUME NEW t \in Tasks, Scope[t].group # NoGroup
      PROVE  Cardinality(LeasedIn(tasks', "group", t)) <= GroupLimit
  BY <1>1, <1>2, <1>4, <1>7 DEF LimitsHold
<1> QED
  BY <1>3, <1>5, <1>6, <1>7 DEF LimitsHold

(***************************************************************************)
(* The steps.                                                              *)
(***************************************************************************)

LEMMA StepStoreInv == StoreInv /\ [StoreNext]_storeVars => StoreInv'
<1> SUFFICES ASSUME StoreInv, [StoreNext]_storeVars PROVE StoreInv'
  OBVIOUS
<1> USE DEF StoreInv
<1>a. \A t \in Tasks : tasks[t] \in Row
  BY DEF StoreTypeOK
\* An action that changes the row of one task, and grants no lease.
<1>b. ASSUME NEW t \in Tasks, NEW row \in Row,
             tasks' = [tasks EXCEPT ![t] = row], UNCHANGED older,
             row.state # "none",
             row.state = "leased" /\ row.live => t \in Leased(tasks),
             row.state \in {"pending", "leased"} =>
                /\ row.exhausted => row.attempts = MaxAttempts
                /\ row.state = "pending" => (row.attempts < MaxAttempts \/ row.exhausted)
      PROVE  StoreInv'
  <2>1. StoreTypeOK'
    BY <1>b DEF StoreTypeOK
  <2>2. \A u \in Tasks : tasks'[u] = IF u = t THEN row ELSE tasks[u]
    BY <1>b DEF StoreTypeOK
  <2>3. Untouched' /\ NothingStranded'
    BY <1>b, <2>2 DEF Untouched, NothingStranded
  <2>4. Leased(tasks') \subseteq Leased(tasks)
    BY <1>b, <2>2 DEF Leased
  <2> QED
    BY <2>1, <2>3, <2>4, FewerLeasesKeepExclusive, FewerLeasesKeepLimits
<1>1. ASSUME NEW t \in Tasks, Admit(t) PROVE StoreInv'
  <2> DEFINE row == [tasks[t] EXCEPT !.state = "pending", !.ready = TRUE]
  <2>1. tasks' = [tasks EXCEPT ![t] = row]
    BY <1>1, <1>a DEF Admit, Row, StoreTypeOK
  <2>2. tasks[t] = NoRow
    BY <1>1 DEF Admit, Untouched
  <2>3. tasks[t].attempts = 0 /\ ~tasks[t].exhausted
    BY <2>2 DEF NoRow
  <2>4. /\ row \in Row /\ row.state = "pending"
        /\ row.exhausted = tasks[t].exhausted /\ row.attempts = tasks[t].attempts
    BY <1>a DEF Row
  <2> HIDE DEF row
  <2>5. row.attempts < MaxAttempts /\ ~row.exhausted
    BY <2>3, <2>4, AttemptsAssumption
  <2>6. row.state # "none" /\ row.state # "leased" /\ UNCHANGED older
    BY <2>4, <1>1 DEF Admit
  <2> QED
    BY <2>1, <2>4, <2>5, <2>6, <1>b
<1>2. ASSUME NEW t \in Tasks, NEW o \in Outcomes, FinishTask(t, o) PROVE StoreInv'
  <2> DEFINE row == [tasks[t] EXCEPT !.state = o, !.live = FALSE, !.exhausted = FALSE]
  <2>1. tasks' = [tasks EXCEPT ![t] = row]
    BY <1>2 DEF FinishTask, StoreTypeOK
  <2>2. row \in Row /\ row.state = o
    BY <1>a DEF Row
  <2>3. o \notin {"none", "pending", "leased"}
    BY DEF Outcomes
  <2> HIDE DEF row
  <2> QED
    BY <2>1, <2>2, <2>3, <1>2, <1>b DEF FinishTask
<1>3. ASSUME NEW t \in Tasks, RetryTask(t) PROVE StoreInv'
  <2> DEFINE x == tasks[t].attempts >= MaxAttempts
             row == [tasks[t] EXCEPT !.state = "pending", !.live = FALSE,
                                     !.ready = FALSE, !.exhausted = x]
  <2>1. tasks' = [tasks EXCEPT ![t] = row]
    BY <1>3 DEF RetryTask, StoreTypeOK
  <2>a. x \in BOOLEAN /\ (x <=> tasks[t].attempts >= MaxAttempts)
    OBVIOUS
  <2> HIDE DEF x
  <2>b. /\ row \in Row /\ row.state = "pending"
        /\ row.exhausted = x /\ row.attempts = tasks[t].attempts
    BY <2>a, <1>a DEF Row
  <2> HIDE DEF row
  <2>2. /\ row.exhausted => row.attempts = MaxAttempts
        /\ row.attempts < MaxAttempts \/ row.exhausted
    BY <2>a, <2>b, <1>a, AttemptsAssumption DEF Row
  <2> QED
    BY <2>1, <2>b, <2>2, <1>3, <1>b DEF RetryTask
<1>4. ASSUME NEW t \in Tasks, NEW due \in BOOLEAN, DeferTask(t, due) PROVE StoreInv'
  <2> DEFINE left == HandedBack(tasks[t].attempts)
             row == [tasks[t] EXCEPT !.state = "pending", !.live = FALSE, !.ready = due,
                                     !.exhausted = FALSE, !.attempts = left]
  <2>a. tasks[t] \in Row
    BY <1>a
  <2>1. tasks' = [tasks EXCEPT ![t] = row]
    BY <1>4 DEF DeferTask, StoreTypeOK
  <2>b. left \in 0 .. MaxAttempts /\ left < MaxAttempts
    BY <2>a, AttemptsAssumption DEF Row, HandedBack
  <2> HIDE DEF left
  <2>2. /\ row \in Row /\ row.state = "pending" /\ ~row.exhausted
        /\ row.attempts < MaxAttempts
    BY <2>a, <2>b DEF Row
  <2> HIDE DEF row
  <2> QED
    BY <2>1, <2>2, <1>4, <1>b DEF DeferTask
<1>5. ASSUME NEW t \in Tasks, BackoffElapses(t) PROVE StoreInv'
  <2> DEFINE row == [tasks[t] EXCEPT !.ready = TRUE]
  <2>1. tasks' = [tasks EXCEPT ![t] = row]
    BY <1>5, <1>a DEF BackoffElapses, StoreTypeOK, Row
  <2>2. /\ row \in Row /\ row.state = "pending"
        /\ row.exhausted = tasks[t].exhausted /\ row.attempts = tasks[t].attempts
    BY <1>5, <1>a DEF BackoffElapses, Row
  <2>3. /\ tasks[t].exhausted => tasks[t].attempts = MaxAttempts
        /\ tasks[t].attempts < MaxAttempts \/ tasks[t].exhausted
    BY <1>5 DEF BackoffElapses, NothingStranded
  <2> HIDE DEF row
  <2> QED
    BY <2>1, <2>2, <2>3, <1>5, <1>b DEF BackoffElapses
<1>6. ASSUME NEW t \in Tasks, LeaseExpires(t) PROVE StoreInv'
  <2> DEFINE row == [tasks[t] EXCEPT !.live = FALSE]
  <2>1. tasks' = [tasks EXCEPT ![t] = row]
    BY <1>6, <1>a DEF LeaseExpires, StoreTypeOK, Row
  <2>2. /\ row \in Row /\ row.state = "leased" /\ ~row.live
        /\ row.exhausted = tasks[t].exhausted /\ row.attempts = tasks[t].attempts
    BY <1>6, <1>a DEF LeaseExpires, Owned, Row
  <2>3. tasks[t].exhausted => tasks[t].attempts = MaxAttempts
    BY <1>6 DEF LeaseExpires, Owned, NothingStranded
  <2> HIDE DEF row
  <2> QED
    BY <2>1, <2>2, <2>3, <1>6, <1>b DEF LeaseExpires
<1>7. ASSUME NEW chat, CancelPendingOfChat(chat) PROVE StoreInv'
  <2>1. ASSUME NEW u \in Tasks
        PROVE  \/ tasks'[u] = tasks[u]
               \/ tasks'[u] = [tasks[u] EXCEPT !.state = "cancelled"]
    BY <1>7 DEF CancelPendingOfChat
  <2>2. ASSUME NEW u \in Tasks
        PROVE  /\ [tasks[u] EXCEPT !.state = "cancelled"] \in Row
               /\ [tasks[u] EXCEPT !.state = "cancelled"].state = "cancelled"
    BY <1>a DEF Row, Outcomes
  <2>3. ASSUME NEW u \in Tasks
        PROVE  tasks'[u] \in Row /\ (tasks'[u] = tasks[u] \/ tasks'[u].state = "cancelled")
    BY <1>a, <2>1, <2>2
  <2>4. StoreTypeOK'
    <3>1. tasks' = [u \in Tasks |-> tasks'[u]]
      BY <1>7 DEF CancelPendingOfChat
    <3>2. tasks' \in [Tasks -> Row]
      BY <2>3, <3>1
    <3> QED
      BY <1>7, <3>2 DEF CancelPendingOfChat, StoreTypeOK
  <2>5. Untouched' /\ NothingStranded'
    BY <2>3 DEF Untouched, NothingStranded
  <2>6. Leased(tasks') \subseteq Leased(tasks)
    BY <2>3 DEF Leased
  <2> QED
    BY <2>4, <2>5, <2>6, FewerLeasesKeepExclusive, FewerLeasesKeepLimits
<1>8. ASSUME NEW n \in 0 .. Batch, NEW picks \in [1 .. n -> Tasks], LeaseTasks(n, picks)
      PROVE  StoreInv'
  BY <1>8, LeaseKeepsType, LeaseStrandsNothing, LeaseKeepsExclusive,
     LeaseKeepsLimits
<1>9. CASE UNCHANGED storeVars
  BY <1>9 DEF storeVars, StoreTypeOK, Untouched, NothingStranded, SessionExclusive,
            LimitsHold, Leased, LeasedIn
<1> QED
  BY <1>1, <1>2, <1>3, <1>4, <1>5, <1>6, <1>7, <1>8, <1>9 DEF StoreNext

\* No transaction changes a row that has reached a terminal state.
LEMMA StepKeepsTerminal ==
    ASSUME StoreInv, StoreNext, NEW t \in Tasks, Terminal(t)
    PROVE  tasks'[t] = tasks[t]
<1> USE DEF StoreInv, Terminal, Outcomes
<1>1. ASSUME NEW u \in Tasks, Admit(u) PROVE tasks'[t] = tasks[t]
  BY <1>1 DEF Admit, StoreTypeOK
<1>2. ASSUME NEW u \in Tasks, NEW o \in Outcomes, FinishTask(u, o) PROVE tasks'[t] = tasks[t]
  BY <1>2 DEF FinishTask, Owned, StoreTypeOK
<1>3. ASSUME NEW u \in Tasks, RetryTask(u) PROVE tasks'[t] = tasks[t]
  BY <1>3 DEF RetryTask, Owned, StoreTypeOK
<1>4. ASSUME NEW u \in Tasks, NEW due \in BOOLEAN, DeferTask(u, due) PROVE tasks'[t] = tasks[t]
  BY <1>4 DEF DeferTask, Owned, StoreTypeOK
<1>5. ASSUME NEW u \in Tasks, BackoffElapses(u) PROVE tasks'[t] = tasks[t]
  BY <1>5 DEF BackoffElapses, StoreTypeOK
<1>6. ASSUME NEW u \in Tasks, LeaseExpires(u) PROVE tasks'[t] = tasks[t]
  BY <1>6 DEF LeaseExpires, Owned, StoreTypeOK
<1>7. ASSUME NEW chat, CancelPendingOfChat(chat) PROVE tasks'[t] = tasks[t]
  BY <1>7 DEF CancelPendingOfChat
<1>8. ASSUME NEW n \in 0 .. Batch, NEW picks \in [1 .. n -> Tasks], LeaseTasks(n, picks)
      PROVE  tasks'[t] = tasks[t]
  <2>1. Reclaimed[t] = tasks[t]
    BY ReclaimedKeepsLive
  <2>2. ~(\E i \in 1 .. n : picks[i] = t)
    BY <1>8, <2>1, SelectedIsEligible DEF LeaseTasks
  <2> QED
    BY <1>8, <2>1, <2>2, RowOfSelection
<1> QED
  BY <1>1, <1>2, <1>3, <1>4, <1>5, <1>6, <1>7, <1>8 DEF StoreNext


(***************************************************************************)
(* Refinement of TaskLifecycle.                                            *)
(***************************************************************************)

\* The four views a client has of a row are told apart by its state and lease.
LEMMA StatusCases ==
    ASSUME NEW row \in Row
    PROVE  /\ StatusOf(row) = "absent" <=> row.state = "none"
           /\ StatusOf(row) = "done" <=> row.state \in Outcomes
           /\ StatusOf(row) = "running" <=> row.state = "leased" /\ row.live
           /\ StatusOf(row) = "queued" <=>
                row.state = "pending" \/ (row.state = "leased" /\ ~row.live)
BY DEF StatusOf, Row, Outcomes

Status == [t \in Tasks |-> StatusOf(tasks[t])]

\* A transaction that changes the view of the tasks of S to s.
LEMMA MoveIs ==
    ASSUME NEW S, NEW s,
           \A t \in Tasks : StatusOf(tasks'[t]) = IF t \in S THEN s ELSE StatusOf(tasks[t])
    PROVE  Lifecycle!Move(S, s)
BY DEF Lifecycle!Move

\* A request is in the set In(s) of the abstract state when its view is s.
LEMMA InIs ==
    ASSUME NEW t \in Tasks, NEW s
    PROVE  t \in Lifecycle!In(s) <=> StatusOf(tasks[t]) = s
BY DEF Lifecycle!In

\* Leasing dispatches the picked requests: with the ones still running they
\* are the live leases of the next state.
LEMMA LeaseDispatches ==
    ASSUME StoreInv, StoreInv', NEW n \in 0 .. Batch, NEW picks \in [1 .. n -> Tasks],
           LeaseTasks(n, picks)
    PROVE  \E S \in SUBSET Tasks : Lifecycle!Dispatch(S)
<1> DEFINE S == {picks[i] : i \in 1 .. n}
<1>1. S \in SUBSET Tasks
  OBVIOUS
<1>a. \A t \in Tasks : tasks[t] \in Row /\ tasks'[t] \in Row /\ Reclaimed[t] \in Row
  BY ReclaimedIsTyped DEF StoreInv, StoreTypeOK
<1>2. ASSUME NEW t \in Tasks PROVE StatusOf(Reclaimed[t]) = StatusOf(tasks[t])
  <2>1. CASE tasks[t].state = "leased" /\ ~tasks[t].live
    <3>1. Reclaimed[t].state = "pending"
      BY <2>1, <1>a DEF Reclaimed, Row
    <3> QED
      BY <2>1, <3>1, <1>a, StatusCases
  <2>2. CASE ~(tasks[t].state = "leased" /\ ~tasks[t].live)
    BY <2>2, ReclaimedKeepsLive DEF StoreInv
  <2> QED
    BY <2>1, <2>2
<1>3. ASSUME NEW t \in S
      PROVE  StatusOf(tasks'[t]) = "running" /\ StatusOf(tasks[t]) = "queued"
  <2>1. PICK i \in 1 .. n : picks[i] = t
    OBVIOUS
  <2>2. Reclaimed[t].state = "pending"
    BY <2>1, SelectedIsEligible DEF LeaseTasks, StoreInv
  <2>3. tasks'[t] = Grant(Reclaimed[t])
    BY <2>1, <1>1, RowOfSelection DEF StoreInv
  <2>4. t \in Tasks
    BY <1>1
  <2> HIDE DEF S
  <2>5. StatusOf(tasks'[t]) = "running"
    BY <2>3, <2>4, <1>a, GrantIsLeased, StatusCases
  <2>6. StatusOf(tasks[t]) = "queued"
    BY <2>2, <2>4, <1>a, <1>2, StatusCases
  <2> QED
    BY <2>5, <2>6
<1>4. ASSUME NEW t \in Tasks, t \notin S PROVE StatusOf(tasks'[t]) = StatusOf(tasks[t])
  <2>1. tasks'[t] = Reclaimed[t]
    BY <1>4, RowOfSelection DEF StoreInv
  <2> QED
    BY <2>1, <1>2
<1> HIDE DEF S
<1>5. Lifecycle!Move(S, "running")
  BY <1>3, <1>4, MoveIs
<1>6. S \subseteq Lifecycle!In("queued")
  BY <1>1, <1>3, InIs
<1>7. S \cup Lifecycle!In("running") = Leased(tasks')
  <2>1. ASSUME NEW t \in Tasks
        PROVE  t \in S \cup Lifecycle!In("running") <=> t \in Leased(tasks')
    <3>1. t \in Leased(tasks') <=> StatusOf(tasks'[t]) = "running"
      BY <1>a, StatusCases DEF Leased
    <3> QED
      BY <3>1, <1>3, <1>4, InIs
  <2>2. Lifecycle!In("running") \subseteq Tasks /\ Leased(tasks') \subseteq Tasks
    BY DEF Lifecycle!In, Leased
  <2> QED
    BY <1>1, <2>1, <2>2
<1>8. Lifecycle!Startable(S)
  <2>1. Cardinality(Leased(tasks')) <= GlobalLimit
    BY DEF StoreInv, LimitsHold
  <2>2. \A r, q \in Leased(tasks') : r # q => Scope[r].session # Scope[q].session
    BY DEF StoreInv, SessionExclusive
  <2>3. Leased(tasks') \subseteq Tasks
    BY DEF Leased
  <2>4. Cardinality(S \cup Lifecycle!In("running")) <= GlobalLimit
    BY <1>7, <2>1
  <2>5. \A r \in S, q \in S \cup Lifecycle!In("running") :
           r # q => [t \in Tasks |-> Scope[t].session][r] # [t \in Tasks |-> Scope[t].session][q]
    BY <1>7, <2>2, <2>3
  <2> QED
    BY <2>4, <2>5 DEF Lifecycle!Startable, Cardinality, Lifecycle!Cardinality
<1> QED
  BY <1>1, <1>5, <1>6, <1>8 DEF Lifecycle!Dispatch

\* Every transaction is a step of TaskLifecycle, or leaves the view unchanged.
LEMMA StepRefines ==
    ASSUME StoreInv, StoreInv', [StoreNext]_storeVars
    PROVE  [Lifecycle!Next]_Status
<1>a. \A t \in Tasks : tasks[t] \in Row /\ tasks'[t] \in Row
  BY DEF StoreInv, StoreTypeOK
\* A change of one row that a client sees as a step from view a to view b.
<1>b. ASSUME NEW t \in Tasks, NEW row, tasks' = [tasks EXCEPT ![t] = row]
      PROVE  /\ Lifecycle!Move({t}, StatusOf(row))
             /\ StatusOf(row) = StatusOf(tasks[t]) => UNCHANGED Status
             /\ tasks'[t] = row
  <2>1. \A u \in Tasks : tasks'[u] = IF u = t THEN row ELSE tasks[u]
    BY <1>b DEF StoreInv, StoreTypeOK
  <2>2. Lifecycle!Move({t}, StatusOf(row))
    BY <2>1, MoveIs
  <2>3. ASSUME StatusOf(row) = StatusOf(tasks[t]) PROVE UNCHANGED Status
    BY <2>1, <2>3 DEF Status
  <2> QED
    BY <2>1, <2>2, <2>3
<1>1. ASSUME NEW t \in Tasks, Admit(t) PROVE Lifecycle!Accept(t)
  <2> DEFINE row == [tasks[t] EXCEPT !.state = "pending", !.ready = TRUE]
  <2>a. tasks' = [tasks EXCEPT ![t] = row]
    BY <1>1, <1>a DEF Admit, StoreInv, StoreTypeOK, Row
  <2>b. row.state = "pending"
    BY <1>a DEF Row
  <2> HIDE DEF row
  <2>1. tasks'[t] = row
    BY <1>b, <2>a
  <2>2. StatusOf(row) = "queued" /\ StatusOf(tasks[t]) = "absent"
    BY <1>1, <1>a, <2>1, <2>b, StatusCases DEF Admit
  <2> QED
    BY <1>b, <2>a, <2>2, InIs DEF Lifecycle!Accept
<1>2. ASSUME NEW t \in Tasks, NEW o \in Outcomes, FinishTask(t, o)
      PROVE  \E S \in SUBSET Tasks : Lifecycle!Settle(S)
  <2> DEFINE row == [tasks[t] EXCEPT !.state = o, !.live = FALSE, !.exhausted = FALSE]
  <2>a. tasks' = [tasks EXCEPT ![t] = row]
    BY <1>2 DEF FinishTask, StoreInv, StoreTypeOK
  <2>b. row.state = o
    BY <1>a DEF Row
  <2> HIDE DEF row
  <2>1. tasks'[t] = row
    BY <1>b, <2>a
  <2>2. StatusOf(row) = "done"
    BY <1>a, <2>1, <2>b, StatusCases
  <2>3. StatusOf(tasks[t]) = "queued" \/ StatusOf(tasks[t]) = "running"
    BY <1>2, <1>a, StatusCases DEF FinishTask, Owned
  <2>4. {t} \subseteq Lifecycle!In("queued") \cup Lifecycle!In("running")
    BY <2>3, InIs
  <2>5. Lifecycle!Settle({t})
    BY <1>b, <2>a, <2>2, <2>4 DEF Lifecycle!Settle
  <2> QED
    BY <2>5
\* retry_task, defer_task and an expiry put a leased row back.
<1>c. ASSUME NEW t \in Tasks, NEW row, tasks' = [tasks EXCEPT ![t] = row],
             tasks[t].state = "leased",
             row.state = "pending" \/ (row.state = "leased" /\ ~row.live)
      PROVE  [Lifecycle!Next]_Status
  <2>1. StatusOf(row) = "queued"
    BY <1>a, <1>b, <1>c, StatusCases
  <2>2. CASE tasks[t].live
    <3>1. StatusOf(tasks[t]) = "running"
      BY <1>a, <1>c, <2>2, StatusCases
    <3>2. Lifecycle!GiveBack(t)
      BY <1>b, <1>c, <2>1, <3>1, InIs DEF Lifecycle!GiveBack
    <3> QED
      BY <3>2 DEF Lifecycle!Next
  <2>3. CASE ~tasks[t].live
    <3>1. StatusOf(tasks[t]) = "queued"
      BY <1>a, <1>c, <2>3, StatusCases
    <3> QED
      BY <1>b, <1>c, <2>1, <3>1
  <2> QED
    BY <2>2, <2>3
<1>3. ASSUME NEW t \in Tasks, RetryTask(t) PROVE [Lifecycle!Next]_Status
  <2> DEFINE row == [tasks[t] EXCEPT !.state = "pending", !.live = FALSE, !.ready = FALSE,
                                     !.exhausted = tasks[t].attempts >= MaxAttempts]
  <2>1. tasks' = [tasks EXCEPT ![t] = row]
    BY <1>3, <1>a DEF RetryTask, Owned, StoreInv, StoreTypeOK, Row
  <2>2. row.state = "pending"
    BY <1>3, <1>a DEF RetryTask, Owned, Row
  <2>3. tasks[t].state = "leased"
    BY <1>3 DEF RetryTask, Owned
  <2> HIDE DEF row
  <2> QED
    BY <2>1, <2>2, <2>3, <1>c
<1>4. ASSUME NEW t \in Tasks, NEW due \in BOOLEAN, DeferTask(t, due)
      PROVE  [Lifecycle!Next]_Status
  <2> DEFINE row == [tasks[t] EXCEPT !.state = "pending", !.live = FALSE, !.ready = due,
                                     !.exhausted = FALSE,
                                     !.attempts = HandedBack(tasks[t].attempts)]
  <2>1. tasks' = [tasks EXCEPT ![t] = row]
    BY <1>4, <1>a DEF DeferTask, Owned, StoreInv, StoreTypeOK, Row
  <2>2. row.state = "pending"
    BY <1>4, <1>a DEF DeferTask, Owned, Row
  <2>3. tasks[t].state = "leased"
    BY <1>4 DEF DeferTask, Owned
  <2> HIDE DEF row
  <2> QED
    BY <2>1, <2>2, <2>3, <1>c
<1>5. ASSUME NEW t \in Tasks, BackoffElapses(t) PROVE UNCHANGED Status
  <2> DEFINE row == [tasks[t] EXCEPT !.ready = TRUE]
  <2>1. tasks' = [tasks EXCEPT ![t] = row]
    BY <1>5, <1>a DEF BackoffElapses, StoreInv, StoreTypeOK, Row
  <2>2. row.state = "pending"
    BY <1>5, <1>a DEF BackoffElapses, Row
  <2> HIDE DEF row
  <2>3. tasks'[t] = row
    BY <1>b, <2>1
  <2>4. StatusOf(row) = "queued" /\ StatusOf(tasks[t]) = "queued"
    BY <1>5, <1>a, <2>2, <2>3, StatusCases DEF BackoffElapses
  <2> QED
    BY <1>b, <2>1, <2>4
<1>6. ASSUME NEW t \in Tasks, LeaseExpires(t) PROVE [Lifecycle!Next]_Status
  <2> DEFINE row == [tasks[t] EXCEPT !.live = FALSE]
  <2>1. tasks' = [tasks EXCEPT ![t] = row]
    BY <1>6, <1>a DEF LeaseExpires, Owned, StoreInv, StoreTypeOK, Row
  <2>2. row.state = "leased" /\ ~row.live
    BY <1>6, <1>a DEF LeaseExpires, Owned, Row
  <2>3. tasks[t].state = "leased"
    BY <1>6 DEF LeaseExpires, Owned
  <2> HIDE DEF row
  <2> QED
    BY <2>1, <2>2, <2>3, <1>c
<1>7. ASSUME NEW chat, CancelPendingOfChat(chat)
      PROVE  \E S \in SUBSET Tasks : Lifecycle!Settle(S)
  <2> DEFINE S == {t \in Tasks : /\ Scope[t].chat = chat /\ tasks[t].state = "pending"
                                 /\ t \notin Revokers}
  <2>1. ASSUME NEW t \in Tasks
        PROVE  StatusOf(tasks'[t]) = IF t \in S THEN "done" ELSE StatusOf(tasks[t])
    <3>1. CASE t \in S
      <4>1. tasks'[t].state = "cancelled"
        BY <1>7, <1>a, <3>1 DEF CancelPendingOfChat, Row
      <4> QED
        BY <1>a, <3>1, <4>1, StatusCases DEF Outcomes
    <3>2. CASE t \notin S
      BY <1>7, <3>2 DEF CancelPendingOfChat
    <3> QED
      BY <3>1, <3>2
  <2>2. \A t \in S : t \in Lifecycle!In("queued")
    BY <1>a, InIs, StatusCases
  <2>3. S \in SUBSET Tasks
    OBVIOUS
  <2> HIDE DEF S
  <2> QED
    BY <2>1, <2>2, <2>3, MoveIs DEF Lifecycle!Settle
<1>8. ASSUME NEW n \in 0 .. Batch, NEW picks \in [1 .. n -> Tasks], LeaseTasks(n, picks)
      PROVE  \E S \in SUBSET Tasks : Lifecycle!Dispatch(S)
  BY <1>8, LeaseDispatches
<1>9. CASE UNCHANGED storeVars
  BY <1>9 DEF storeVars, Status
<1> QED
  BY <1>1, <1>2, <1>3, <1>4, <1>5, <1>6, <1>7, <1>8, <1>9 DEF StoreNext, Lifecycle!Next

(***************************************************************************)
(* Theorems.                                                               *)
(***************************************************************************)

\* The inductive invariant: rows are well formed, no acknowledged task is
\* stranded, and live leases respect sessions and limits (RuntimeStore).
THEOREM StoreInvariant == StoreSpec => []StoreInv
BY InitStoreInv, StepStoreInv, PTL DEF StoreSpec

\* A terminal row is never changed again, whoever calls (finish_task, retry_task,
\* defer_task, revoke_chat_access, lease_tasks).
THEOREM StoreTerminalIsFinal == StoreSpec => TerminalIsFinal
<1>1. StoreInv /\ [StoreNext]_storeVars
        => [\A t \in Tasks : Terminal(t) => tasks'[t] = tasks[t]]_storeVars
  BY StepKeepsTerminal
<1> QED
  BY <1>1, StoreInvariant, PTL DEF StoreSpec, TerminalIsFinal

\* The queue implements TaskLifecycle (RuntimeStore and its lease protocol).
THEOREM StoreRefinement == StoreSpec => ImplementsLifecycle
<1>1. StoreInit => Lifecycle!Init
  <2>1. NoRow \in Row /\ NoRow.state = "none"
    BY AttemptsAssumption DEF NoRow, Row
  <2>2. StatusOf(NoRow) = "absent"
    BY <2>1, StatusCases
  <2> QED
    BY <2>2 DEF StoreInit, Lifecycle!Init
<1>2. StoreInv /\ StoreInv' /\ [StoreNext]_storeVars => [Lifecycle!Next]_Status
  BY StepRefines
<1> QED
  BY <1>1, <1>2, StoreInvariant, PTL DEF StoreSpec, ImplementsLifecycle, Lifecycle!Spec, Status
=============================================================================
