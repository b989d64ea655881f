----------------------------- MODULE OutboxProofs -----------------------------
(***************************************************************************)
(* For any number of tasks and replies, any batch limit and any number of  *)
(* faults and restarts: the replies of a task reach the chat in order, a   *)
(* sent reply is final, none is stranded, and repeats are paid for.        *)
(***************************************************************************)
EXTENDS Outbox, WellFoundedInduction, TLAPS

\* m is the reply of S that run_once sends next.
IsFirst(m, S) == m \in S /\ \A n \in S \ {m} : Precedes(m, n)

\* The batch is the dispatcher's while it sends, and its rows are leased.
BatchIsLeased ==
    /\ items # {} => loop = "send"
    /\ answer # "none" => items # {}
    /\ \A m \in items : outbox[m].state = "leased"

\* A row that was never posted was never leased; each delivery was leased first.
DeliveriesAreLeased ==
    \A m \in Messages :
        /\ ~Posted(m) => outbox[m].attempts = 0
        /\ accepted[m] <= outbox[m].attempts
        /\ m \in items => \/ accepted[m] < outbox[m].attempts
                          \/ answer # "none" /\ IsFirst(m, items)

\* The attempts of a row: all but the one under way, or the one that sent it,
\* met a fault or a restart.
AttemptsNeedFaults ==
    \A m \in Messages :
        /\ outbox[m].attempts <= 1 + faults + restarts
        /\ \/ m \in items /\ ~(answer = "refused" /\ IsFirst(m, items))
           \/ outbox[m].state = "sent"
           \/ outbox[m].attempts <= faults + restarts

\* Which replies a task has by now: its acknowledgement first, its terminal
\* reply with its end.
RepliesFollowTask ==
    /\ \A m \in Messages : Posted(m) => task[TaskOf[m]] # "none"
    /\ \A m \in Messages : Kind[m] = "ack" /\ task[TaskOf[m]] # "none" => Posted(m)
    /\ \A m \in Messages : Kind[m] = "terminal" /\ Posted(m) => task[TaskOf[m]] = "done"

\* The clocks of a drain: handlers run in one, on tasks that were due in it.
DrainClock ==
    /\ passNow <= now
    /\ \A m \in Messages : outbox[m].created <= now
    /\ \A t \in Tasks : task[t] \in {"leased", "started"} =>
          /\ loop = "working"
          /\ \A m \in RepliesOf(t, "ack") : outbox[m].created <= passNow

\* The pairs of replies that RepliesInOrder is about.
MustPrecede(p, m) ==
    /\ p # m /\ TaskOf[p] = TaskOf[m]
    /\ \/ Kind[p] = "ack" /\ Kind[m] \notin {"ack", "control"}
       \/ Kind[m] = "terminal" /\ Kind[p] \notin {"terminal", "decision"}

\* The order of the rows is that of the replies, and a reply is leased only
\* behind those that it follows.
OrderOfRows ==
    \A p, m \in Messages : MustPrecede(p, m) /\ Posted(p) /\ Posted(m) => Earlier(p, m)
LeasedInOrder ==
    \A p, m \in Messages :
        MustPrecede(p, m) /\ Posted(p) /\ (m \in items \/ accepted[m] > 0)
            => outbox[p].state = "sent"

\* The inductive invariant.
OutboxInv ==
    /\ TypeOK /\ NoReplyStranded
    /\ BatchIsLeased /\ DeliveriesAreLeased /\ AttemptsNeedFaults
    /\ RepliesFollowTask /\ DrainClock /\ OrderOfRows /\ LeasedInOrder

-----------------------------------------------------------------------------
(***************************************************************************)
(* The order of the rows.                                                  *)
(***************************************************************************)

LEMMA RowFacts ==
    ASSUME TypeOK, NEW m \in Messages
    PROVE  /\ outbox[m] \in MessageRow
           /\ outbox[m].state \in {"none", "pending", "leased", "sent", "failed"}
           /\ outbox[m].created \in Nat /\ outbox[m].attempts \in Nat
           /\ outbox[m].created <= MaxNow /\ outbox[m].attempts <= MaxAttempts
           /\ accepted[m] \in Nat
           /\ m \in Nat /\ Rank(m) \in 0 .. 3 /\ TaskOf[m] \in Tasks /\ Kind[m] \in Kinds
           /\ faults \in Nat /\ restarts \in Nat /\ now \in Nat /\ passNow \in Nat
           /\ MaxNow \in Nat /\ MaxAttempts \in Nat /\ MaxAttempts > 0
BY OutboxAssumption DEF TypeOK, MessageRow, Rank, Kinds

LEMMA LeastOfNat ==
    ASSUME NEW T \in SUBSET Nat, T # {}
    PROVE  \E x \in T : \A y \in T : x <= y
<1> DEFINE R == OpToRel(<, Nat)
<1>1. \E x \in T : \A y \in T : ~(<<y, x>> \in R)
  <2>1. IsWellFoundedOn(R, Nat)
    BY NatLessThanWellFounded
  <2> HIDE DEF R
  <2> QED
    BY <2>1, WFMin
<1>2. \A x, y \in Nat : ~(<<y, x>> \in R) => x <= y
  BY DEF OpToRel
<1> QED
  BY <1>1, <1>2

LEMMA PrecedesIsAnOrder ==
    ASSUME TypeOK, NEW m \in Messages, NEW n \in Messages, Precedes(m, n), Precedes(n, m)
    PROVE  m = n
<1>1. Earlier(m, n) => ~Earlier(n, m)
  BY RowFacts DEF Earlier
<1> QED
  BY <1>1, RowFacts DEF Precedes

\* run_once sends the rows of a batch in the order of lease_outbox, so a batch
\* has a first row.
LEMMA FirstExists ==
    ASSUME TypeOK, NEW S \in SUBSET Messages, S # {}
    PROVE  IsFirst(FirstOf(S), S)
<1> DEFINE Cs == {outbox[m].created : m \in S}
<1>1. PICK c \in Cs : \A d \in Cs : c <= d
  <2>1. Cs # {} /\ Cs \subseteq Nat
    BY RowFacts
  <2> HIDE DEF Cs
  <2> QED
    BY <2>1, LeastOfNat
<1> DEFINE S1 == {m \in S : outbox[m].created = c}
           Rs == {Rank(m) : m \in S1}
<1>2. PICK r \in Rs : \A q \in Rs : r <= q
  <2>1. Rs # {} /\ Rs \subseteq Nat
    BY <1>1, RowFacts
  <2> HIDE DEF Rs
  <2> QED
    BY <2>1, LeastOfNat
<1> DEFINE S2 == {m \in S1 : Rank(m) = r}
<1>3. PICK m \in S2 : \A n \in S2 : m <= n
  <2>1. S2 # {} /\ S2 \subseteq Nat
    BY <1>2, RowFacts
  <2> HIDE DEF S2
  <2> QED
    BY <2>1, LeastOfNat
<1>4. ASSUME NEW n \in S \ {m}
      PROVE  Precedes(m, n)
  <2>1. m \in S /\ outbox[m].created = c /\ Rank(m) = r
    OBVIOUS
  <2>2. outbox[n].created \in Nat /\ c \in Nat /\ c <= outbox[n].created
    BY <1>1, RowFacts
  <2>3. outbox[n].created = c => Rank(n) >= r /\ Rank(n) \in Nat /\ r \in Nat
    BY <1>2, RowFacts
  <2>4. outbox[n].created = c /\ Rank(n) = r => m < n
    <3>1. m \in Nat /\ n \in Nat /\ m # n
      BY <1>4, RowFacts
    <3> QED
      BY <3>1, <1>3, <1>4
  <2> HIDE DEF S2, Rs, Cs
  <2> QED
    BY <2>1, <2>2, <2>3, <2>4 DEF Precedes, Earlier
<1>5. IsFirst(m, S)
  BY <1>4 DEF IsFirst
<1> QED
  BY <1>5 DEF IsFirst, FirstOf

LEMMA FirstIsUnique ==
    ASSUME TypeOK, NEW S \in SUBSET Messages, NEW m, NEW n, IsFirst(m, S), IsFirst(n, S)
    PROVE  m = n
BY PrecedesIsAnOrder DEF IsFirst

\* The first row stays first whatever is posted beside the batch.
LEMMA FirstIsStable ==
    ASSUME items' = items, items \subseteq Messages,
           \A n \in items : outbox'[n].created = outbox[n].created
    PROVE  \A m : IsFirst(m, items)' <=> IsFirst(m, items)
BY DEF IsFirst, Precedes, Earlier, Rank

LEMMA MustPrecedeRanks ==
    ASSUME TypeOK, NEW p \in Messages, NEW m \in Messages, MustPrecede(p, m)
    PROVE  Rank(p) < Rank(m)
BY OutboxAssumption DEF MustPrecede, Rank, Kinds

-----------------------------------------------------------------------------
(***************************************************************************)
(* Steps by their effect on the rows.                                      *)
(***************************************************************************)

\* What every step but one of the clocks and of the tasks keeps.
RowInv ==
    /\ NoReplyStranded /\ BatchIsLeased /\ DeliveriesAreLeased /\ AttemptsNeedFaults
    /\ OrderOfRows /\ LeasedInOrder

\* _insert_outbox, for replies of one kind that no reply follows yet and that
\* are not older than those they follow.
LEMMA PostKeepsRows ==
    ASSUME OutboxInv, NEW S \in SUBSET Messages, NEW at \in 0 .. now, Post(S, at),
           UNCHANGED <<gateway, accepted, now, bounds>>,
           \A p, m \in S : Kind[p] = Kind[m],
           \A p \in S, m \in Messages :
              ~Posted(p) /\ MustPrecede(p, m) => ~Posted(m),
           \A m \in S, p \in Messages :
              ~Posted(m) /\ MustPrecede(p, m) /\ Posted(p) => outbox[p].created <= at
    PROVE  /\ RowInv'
           /\ outbox' \in [Messages -> MessageRow]
           /\ \A m \in Messages : outbox'[m].created <= now
           /\ \A m \in Messages : Posted(m)' <=> Posted(m) \/ m \in S
           /\ \A m \in Messages : Posted(m) => outbox'[m] = outbox[m]
<1> DEFINE New(m) == m \in S /\ ~Posted(m)
<1>1. TypeOK
  BY DEF OutboxInv
<1>2. \A m \in Messages :
         /\ New(m) => outbox'[m] = [outbox[m] EXCEPT !.state = "pending", !.created = at,
                                                     !.ready = TRUE]
         /\ ~New(m) => outbox'[m] = outbox[m]
  BY DEF Post
<1>3. at \in 0 .. MaxNow /\ at \in Nat /\ at <= now
  BY <1>1, OutboxAssumption DEF TypeOK
<1>4. \A m \in Messages :
         /\ outbox'[m] \in MessageRow
         /\ outbox'[m].attempts = outbox[m].attempts
         /\ New(m) => outbox'[m].state = "pending" /\ outbox'[m].created = at
  <2> SUFFICES ASSUME NEW m \in Messages
               PROVE  /\ outbox'[m] \in MessageRow
                      /\ outbox'[m].attempts = outbox[m].attempts
                      /\ New(m) => outbox'[m].state = "pending" /\ outbox'[m].created = at
    OBVIOUS
  <2>1. outbox[m] \in MessageRow
    BY <1>1, RowFacts
  <2>2. CASE New(m)
    <3>1. outbox'[m] = [outbox[m] EXCEPT !.state = "pending", !.created = at, !.ready = TRUE]
      BY <1>2, <2>2
    <3> QED
      BY <2>1, <3>1, <1>3 DEF MessageRow
  <2>3. CASE ~New(m)
    BY <1>2, <2>1, <2>3
  <2> HIDE DEF New
  <2> QED
    BY <2>2, <2>3
<1>5. outbox' \in [Messages -> MessageRow]
  BY <1>4 DEF Post
<1>6. /\ items' = items /\ answer' = answer /\ loop' = loop /\ accepted' = accepted
      /\ faults' = faults /\ restarts' = restarts /\ now' = now
  BY DEF gateway, bounds
<1>7. /\ items \subseteq Messages
      /\ \A m \in items : Posted(m)
      /\ \A m \in Messages : accepted[m] > 0 => Posted(m)
  <2>1. \A m \in Messages : accepted[m] \in Nat /\ outbox[m].attempts \in Nat
    BY <1>1, RowFacts
  <2> QED
    BY <1>1, <2>1 DEF OutboxInv, TypeOK, BatchIsLeased, DeliveriesAreLeased, Posted
<1> DEFINE P(m) == Posted(m)
<1>8. \A m \in Messages : Posted(m)' <=> Posted(m) \/ m \in S
  BY <1>2, <1>4 DEF Posted
<1>9. \A m \in Messages : Posted(m) => outbox'[m] = outbox[m]
  BY <1>2
<1>10. \A m : IsFirst(m, items)' <=> IsFirst(m, items)
  BY <1>6, <1>7, <1>9, FirstIsStable
<1>11. \A m \in Messages : outbox'[m].created <= now
  BY <1>2, <1>3, <1>4 DEF OutboxInv, DrainClock
<1>12. NoReplyStranded'
  <2> SUFFICES ASSUME NEW m \in Messages
               PROVE  /\ outbox'[m].state = "pending" => outbox'[m].attempts < MaxAttempts
                      /\ outbox'[m].state = "failed" => outbox'[m].attempts = MaxAttempts
    BY DEF NoReplyStranded
  <2>1. CASE New(m)
    BY <2>1, <1>4, OutboxAssumption DEF OutboxInv, DeliveriesAreLeased
  <2>2. CASE ~New(m)
    BY <2>2, <1>2 DEF OutboxInv, NoReplyStranded
  <2> QED
    BY <2>1, <2>2
<1>13. BatchIsLeased'
  BY <1>6, <1>7, <1>9 DEF OutboxInv, BatchIsLeased
<1>14. DeliveriesAreLeased'
  BY <1>4, <1>6, <1>8, <1>10 DEF OutboxInv, DeliveriesAreLeased
<1>15. AttemptsNeedFaults'
  <2> SUFFICES ASSUME NEW m \in Messages
               PROVE  /\ outbox'[m].attempts <= 1 + faults + restarts
                      /\ \/ m \in items /\ ~(answer = "refused" /\ IsFirst(m, items))
                         \/ outbox'[m].state = "sent"
                         \/ outbox'[m].attempts <= faults + restarts
    BY <1>6, <1>10 DEF AttemptsNeedFaults
  <2>1. outbox[m].state = "sent" => outbox'[m].state = "sent"
    BY <1>9 DEF Posted
  <2> QED
    BY <2>1, <1>4 DEF OutboxInv, AttemptsNeedFaults
<1>16. OrderOfRows'
  <2> SUFFICES ASSUME NEW p \in Messages, NEW m \in Messages, MustPrecede(p, m),
                      Posted(p)', Posted(m)'
               PROVE  Earlier(p, m)'
    BY DEF OrderOfRows, MustPrecede
  <2>1. Rank(p) < Rank(m) /\ Rank(p)' = Rank(p) /\ Rank(m)' = Rank(m)
    BY <1>1, MustPrecedeRanks DEF Rank
  <2>2. ~New(p)
    <3> SUFFICES ASSUME New(p)
                 PROVE  FALSE
      OBVIOUS
    <3>1. m \in S /\ ~Posted(m)
      BY <1>8
    <3>2. Kind[p] = Kind[m]
      BY <3>1
    <3> QED
      BY <3>2 DEF MustPrecede
  <2>3. Posted(p)
    BY <1>8, <2>2
  <2>4. CASE New(m)
    <3>1. outbox'[p].created <= outbox'[m].created
      BY <1>2, <1>4, <2>2, <2>3, <2>4
    <3>2. outbox'[p].created \in Nat /\ outbox'[m].created \in Nat
      BY <1>4, OutboxAssumption DEF MessageRow
    <3> QED
      BY <3>1, <3>2, <2>1 DEF Earlier
  <2>5. CASE ~New(m)
    BY <1>8, <1>9, <2>1, <2>3, <2>5 DEF Earlier, OutboxInv, OrderOfRows
  <2> QED
    BY <2>4, <2>5
<1>17. LeasedInOrder'
  <2> SUFFICES ASSUME NEW p \in Messages, NEW m \in Messages, MustPrecede(p, m),
                      Posted(p)', m \in items \/ accepted[m] > 0
               PROVE  outbox'[p].state = "sent"
    BY <1>6 DEF LeasedInOrder, MustPrecede
  <2>1. Posted(m)
    BY <1>7
  <2>2. Posted(p)
    BY <2>1, <1>8
  <2> QED
    BY <2>2, <1>9 DEF OutboxInv, LeasedInOrder
<1> QED
  BY <1>5, <1>8, <1>9, <1>11, <1>12, <1>13, <1>14, <1>15, <1>16, <1>17 DEF RowInv

\* A step that leaves the rows to the batch: only flags and the clock move.
LEMMA BatchKeepsRows ==
    ASSUME OutboxInv, UNCHANGED <<items, answer, accepted, bounds, loop>>,
           outbox' \in [Messages -> MessageRow],
           \A m \in Messages : /\ outbox'[m].state = outbox[m].state
                               /\ outbox'[m].created = outbox[m].created
                               /\ outbox'[m].attempts = outbox[m].attempts
    PROVE  RowInv' /\ \A m \in Messages : Posted(m)' <=> Posted(m)
<1>1. TypeOK /\ items \subseteq Messages
  BY DEF OutboxInv, TypeOK
<1>2. \A m : IsFirst(m, items)' <=> IsFirst(m, items)
  BY <1>1, FirstIsStable
<1>3. \A m \in Messages : Posted(m)' <=> Posted(m)
  BY DEF Posted
<1>4. NoReplyStranded'
  BY DEF OutboxInv, NoReplyStranded
<1>5. BatchIsLeased'
  BY <1>1 DEF OutboxInv, BatchIsLeased
<1>6. DeliveriesAreLeased'
  BY <1>2, <1>3 DEF OutboxInv, DeliveriesAreLeased
<1>7. AttemptsNeedFaults'
  BY <1>2 DEF OutboxInv, AttemptsNeedFaults, bounds
<1>8. OrderOfRows'
  BY <1>3 DEF OutboxInv, OrderOfRows, MustPrecede, Earlier, Rank
<1>9. LeasedInOrder'
  BY <1>3 DEF OutboxInv, LeasedInOrder, MustPrecede
<1> QED
  BY <1>3, <1>4, <1>5, <1>6, <1>7, <1>8, <1>9 DEF RowInv

\* A step without a batch, or one that leaves its batch behind for a fault.
LEMMA LeavingKeepsRows ==
    ASSUME OutboxInv, UNCHANGED <<outbox, accepted>>, items' = {}, answer' = "none",
           \/ items = {} /\ faults' = faults /\ restarts' = restarts
           \/ faults' = faults + 1 /\ restarts' = restarts
           \/ faults' = faults /\ restarts' = restarts + 1
    PROVE  RowInv' /\ \A m \in Messages : Posted(m)' <=> Posted(m)
<1>1. TypeOK /\ items \subseteq Messages
  BY DEF OutboxInv, TypeOK
<1>3. \A m \in Messages : Posted(m)' <=> Posted(m)
  BY DEF Posted
<1>4. NoReplyStranded'
  BY DEF OutboxInv, NoReplyStranded
<1>5. BatchIsLeased'
  BY <1>1 DEF BatchIsLeased
<1>6. DeliveriesAreLeased'
  BY <1>3 DEF OutboxInv, DeliveriesAreLeased
<1>7. AttemptsNeedFaults'
  <2> SUFFICES ASSUME NEW m \in Messages
               PROVE  /\ outbox[m].attempts <= 1 + faults' + restarts'
                      /\ \/ outbox[m].state = "sent"
                         \/ outbox[m].attempts <= faults' + restarts'
    BY DEF AttemptsNeedFaults
  <2>1. outbox[m].attempts \in Nat /\ faults \in Nat /\ restarts \in Nat
    BY <1>1, RowFacts
  <2> QED
    BY <2>1 DEF OutboxInv, AttemptsNeedFaults
<1>8. OrderOfRows'
  BY <1>3 DEF OutboxInv, OrderOfRows, MustPrecede, Earlier, Rank
<1>9. LeasedInOrder'
  BY <1>3 DEF OutboxInv, LeasedInOrder, MustPrecede
<1> QED
  BY <1>3, <1>4, <1>5, <1>6, <1>7, <1>8, <1>9 DEF RowInv

\* OutboxDispatcher.run_once takes the reply whose turn it is.
LEMMA FirstIsLeased ==
    ASSUME OutboxInv, answer # "none" \/ items # {}
    PROVE  /\ IsFirst(FirstOf(items), items)
           /\ FirstOf(items) \in items /\ FirstOf(items) \in Messages
           /\ outbox[FirstOf(items)].state = "leased"
<1>1. TypeOK /\ items \subseteq Messages /\ items # {}
  BY DEF OutboxInv, TypeOK, BatchIsLeased
<1>2. IsFirst(FirstOf(items), items)
  BY <1>1, FirstExists
<1>3. FirstOf(items) \in items
  BY <1>2 DEF IsFirst
<1> QED
  BY <1>1, <1>2, <1>3 DEF OutboxInv, BatchIsLeased

LEMMA PublishKeepsRows ==
    ASSUME OutboxInv, Publish
    PROVE  RowInv' /\ accepted' \in [Messages -> 0 .. MaxAttempts]
<1> DEFINE f == FirstOf(items)
<1>0. /\ TypeOK /\ items \subseteq Messages
      /\ accepted \in [Messages -> 0 .. MaxAttempts]
  BY DEF OutboxInv, TypeOK
<1>1. /\ TypeOK /\ items \subseteq Messages /\ items' = items /\ loop' = loop
      /\ answer = "none" /\ outbox' = outbox /\ restarts' = restarts
      /\ \/ answer' = "confirmed" /\ faults' = faults
         \/ answer' = "refused" /\ faults' = faults + 1
      /\ accepted' = accepted \/ accepted' = [accepted EXCEPT ![f] = accepted[f] + 1]
  BY <1>0 DEF Publish
<1>2. IsFirst(f, items) /\ f \in items /\ f \in Messages
  BY FirstIsLeased DEF Publish
<1>3. \A m : IsFirst(m, items)' <=> IsFirst(m, items)
  BY <1>1, FirstIsStable
<1> HIDE DEF f
<1>4. \A m \in Messages : \/ accepted'[m] = accepted[m]
                          \/ m = f /\ accepted'[m] = accepted[m] + 1
  BY <1>0, <1>1, <1>2
<1>5. \A m \in Messages : m \in items => accepted[m] < outbox[m].attempts
  BY <1>1 DEF OutboxInv, DeliveriesAreLeased
<1>6. \A m \in Messages : accepted'[m] \in 0 .. MaxAttempts /\ accepted'[m] <= outbox[m].attempts
  <2> SUFFICES ASSUME NEW m \in Messages
               PROVE  accepted'[m] \in 0 .. MaxAttempts /\ accepted'[m] <= outbox[m].attempts
    OBVIOUS
  <2>1. /\ accepted[m] \in Nat /\ outbox[m].attempts \in Nat /\ MaxAttempts \in Nat
        /\ outbox[m].attempts <= MaxAttempts
    BY <1>1, RowFacts
  <2>2. accepted[m] <= outbox[m].attempts
    BY DEF OutboxInv, DeliveriesAreLeased
  <2> QED
    BY <1>2, <1>4, <1>5, <2>1, <2>2
<1>7. accepted' \in [Messages -> 0 .. MaxAttempts]
  BY <1>0, <1>1, <1>6
<1>8. NoReplyStranded'
  BY <1>1 DEF OutboxInv, NoReplyStranded
<1>9. BatchIsLeased'
  BY <1>1, <1>2 DEF OutboxInv, BatchIsLeased
<1>10. DeliveriesAreLeased'
  <2> SUFFICES ASSUME NEW m \in Messages
               PROVE  /\ ~Posted(m) => outbox[m].attempts = 0
                      /\ accepted'[m] <= outbox[m].attempts
                      /\ m \in items => \/ accepted'[m] < outbox[m].attempts
                                        \/ IsFirst(m, items)
    BY <1>1, <1>3 DEF DeliveriesAreLeased, Posted
  <2> QED
    BY <1>2, <1>4, <1>5, <1>6 DEF OutboxInv, DeliveriesAreLeased
<1>11. AttemptsNeedFaults'
  <2> SUFFICES ASSUME NEW m \in Messages
               PROVE  /\ outbox[m].attempts <= 1 + faults' + restarts
                      /\ \/ m \in items /\ ~(answer' = "refused" /\ IsFirst(m, items))
                         \/ outbox[m].state = "sent"
                         \/ outbox[m].attempts <= faults' + restarts
    BY <1>1, <1>3 DEF AttemptsNeedFaults
  <2>1. outbox[m].attempts \in Nat /\ faults \in Nat /\ restarts \in Nat
    BY <1>1, RowFacts
  <2> QED
    BY <1>1, <2>1 DEF OutboxInv, AttemptsNeedFaults
<1>12. OrderOfRows'
  BY <1>1 DEF OutboxInv, OrderOfRows, MustPrecede, Posted, Earlier, Rank
<1>13. LeasedInOrder'
  <2>1. \A m \in Messages : accepted'[m] > 0 => m \in items \/ accepted[m] > 0
    BY <1>2, <1>4
  <2> QED
    BY <1>1, <2>1 DEF OutboxInv, LeasedInOrder, MustPrecede, Posted
<1> QED
  BY <1>7, <1>8, <1>9, <1>10, <1>11, <1>12, <1>13 DEF RowInv

LEMMA RecordKeepsRows ==
    ASSUME OutboxInv, Record
    PROVE  /\ RowInv' /\ outbox' \in [Messages -> MessageRow]
           /\ \A m \in Messages : /\ Posted(m)' <=> Posted(m)
                                  /\ outbox'[m].created = outbox[m].created
           /\ \A m \in Messages : outbox[m].state = "sent" => outbox'[m] = outbox[m]
<1> DEFINE f == FirstOf(items)
           Verdict == IF answer = "confirmed" THEN "sent"
                      ELSE IF outbox[f].attempts >= MaxAttempts THEN "failed" ELSE "pending"
           Still == IF answer = "confirmed" THEN outbox[f].ready ELSE FALSE
<1>1. /\ TypeOK /\ items \subseteq Messages /\ items' = items \ {f} /\ loop' = loop
      /\ answer # "none" /\ answer' = "none" /\ accepted' = accepted
      /\ faults' = faults /\ restarts' = restarts
      /\ outbox' = [outbox EXCEPT ![f] =
            [outbox[f] EXCEPT !.live = FALSE, !.ready = Still,
                              !.state = Verdict]]
  <2>1. TypeOK /\ items \subseteq Messages
    BY DEF OutboxInv, TypeOK
  <2>2. /\ items' = items \ {f} /\ loop' = loop
        /\ answer # "none" /\ answer' = "none" /\ accepted' = accepted
        /\ faults' = faults /\ restarts' = restarts
    BY DEF Record, bounds
  <2>3. outbox' = [outbox EXCEPT ![f] =
            [outbox[f] EXCEPT !.live = FALSE, !.ready = Still,
                              !.state = Verdict]]
    BY DEF Record
  <2> QED
    BY <2>1, <2>2, <2>3
<1>2. IsFirst(f, items) /\ f \in items /\ f \in Messages /\ outbox[f].state = "leased"
  BY <1>1, FirstIsLeased
<1> HIDE DEF f
<1>3. \A m \in Messages : m # f => outbox'[m] = outbox[m]
  BY <1>1, <1>2 DEF TypeOK
<1>4. outbox[f] \in MessageRow /\ outbox[f].attempts \in Nat /\ MaxAttempts \in Nat
      /\ outbox[f].attempts <= MaxAttempts
  BY <1>1, <1>2, RowFacts
<1>5. outbox'[f] = [outbox[f] EXCEPT !.live = FALSE, !.ready = Still, !.state = Verdict]
  <2> DEFINE row == [outbox[f] EXCEPT !.live = FALSE, !.ready = Still, !.state = Verdict]
  <2>1. outbox' = [outbox EXCEPT ![f] = row]
    BY <1>1
  <2>2. outbox = [m \in Messages |-> outbox[m]]
    BY <1>1 DEF TypeOK
  <2> HIDE DEF row
  <2>3. outbox'[f] = row
    BY <2>1, <2>2, <1>2
  <2> QED
    BY <2>3 DEF row
<1>6. /\ outbox'[f] \in MessageRow /\ outbox'[f].state = Verdict
      /\ outbox'[f].created = outbox[f].created /\ outbox'[f].attempts = outbox[f].attempts
  <2>1. Still \in BOOLEAN /\ Verdict \in {"sent", "failed", "pending"}
    BY <1>4 DEF MessageRow
  <2> HIDE DEF Still, Verdict
  <2> QED
    BY <1>4, <1>5, <2>1 DEF MessageRow
<1>7. outbox' \in [Messages -> MessageRow]
  <2>1. \A m \in Messages : outbox'[m] \in MessageRow
    BY <1>1, <1>3, <1>6, RowFacts
  <2>2. outbox' = [m \in Messages |-> outbox'[m]]
    BY <1>1 DEF TypeOK
  <2> QED
    BY <2>1, <2>2
<1>8. \A m \in Messages : /\ Posted(m)' <=> Posted(m)
                          /\ outbox'[m].created = outbox[m].created
                          /\ outbox'[m].attempts = outbox[m].attempts
                          /\ outbox[m].state = "sent" => outbox'[m] = outbox[m]
  BY <1>2, <1>3, <1>6 DEF Posted
<1>9. NoReplyStranded'
  <2> SUFFICES ASSUME NEW m \in Messages
               PROVE  /\ outbox'[m].state = "pending" => outbox'[m].attempts < MaxAttempts
                      /\ outbox'[m].state = "failed" => outbox'[m].attempts = MaxAttempts
    BY DEF NoReplyStranded
  <2>1. CASE m = f
    BY <2>1, <1>4, <1>6
  <2>2. CASE m # f
    BY <2>2, <1>3 DEF OutboxInv, NoReplyStranded
  <2> QED
    BY <2>1, <2>2
<1>10. BatchIsLeased'
  BY <1>1, <1>3 DEF OutboxInv, BatchIsLeased
<1>11. \A m \in Messages : m \in items /\ m # f => ~IsFirst(m, items)
  BY <1>1, <1>2, FirstIsUnique
<1>12. DeliveriesAreLeased'
  BY <1>1, <1>8, <1>11 DEF OutboxInv, DeliveriesAreLeased
<1>13. AttemptsNeedFaults'
  <2> SUFFICES ASSUME NEW m \in Messages
               PROVE  /\ outbox'[m].attempts <= 1 + faults + restarts
                      /\ \/ m \in items \ {f}
                         \/ outbox'[m].state = "sent"
                         \/ outbox'[m].attempts <= faults + restarts
    BY <1>1 DEF AttemptsNeedFaults
  <2>1. CASE m = f
    <3>1. answer = "confirmed" \/ answer = "refused"
      BY <1>1 DEF TypeOK
    <3>2. answer = "confirmed" => outbox'[m].state = "sent"
      BY <2>1, <1>6
    <3> QED
      BY <2>1, <3>1, <3>2, <1>2, <1>8 DEF OutboxInv, AttemptsNeedFaults
  <2>2. CASE m # f
    BY <2>2, <1>3 DEF OutboxInv, AttemptsNeedFaults
  <2> QED
    BY <2>1, <2>2
<1>14. OrderOfRows'
  BY <1>8 DEF OutboxInv, OrderOfRows, MustPrecede, Earlier, Rank
<1>15. LeasedInOrder'
  BY <1>1, <1>8 DEF OutboxInv, LeasedInOrder, MustPrecede
<1> QED
  BY <1>7, <1>8, <1>9, <1>10, <1>12, <1>13, <1>14, <1>15 DEF RowInv

\* lease_outbox, with the reclaims that open it.
LEMMA LeaseKeepsRows ==
    ASSUME OutboxInv, LeaseOutbox
    PROVE  /\ RowInv' /\ outbox' \in [Messages -> MessageRow] /\ items' \subseteq Messages
           /\ \A m \in Messages : /\ Posted(m)' <=> Posted(m)
                                  /\ outbox'[m].created = outbox[m].created
           /\ \A m \in Messages : outbox[m].state = "sent" => outbox'[m] = outbox[m]
<1>1. /\ TypeOK /\ items = {} /\ answer = "none" /\ answer' = "none" /\ accepted' = accepted
      /\ faults' = faults /\ restarts' = restarts /\ loop' = "send"
  BY DEF OutboxInv, TypeOK, BatchIsLeased, LeaseOutbox, bounds
<1>2. PICK S \in SUBSET Messages :
         /\ S \subseteq Due(Reclaimed)
         /\ items' = S
         /\ outbox' = [m \in Messages |->
               IF m \in S
               THEN [Reclaimed[m] EXCEPT !.state = "leased", !.live = TRUE, !.attempts = @ + 1]
               ELSE Reclaimed[m]]
  BY DEF LeaseOutbox, IsPrefix
<1> DEFINE R(m) == Reclaimed[m]
<1>3. \A m \in Messages :
         /\ R(m) \in MessageRow
         /\ R(m).created = outbox[m].created /\ R(m).attempts = outbox[m].attempts
         /\ \/ R(m) = outbox[m]
            \/ /\ outbox[m].state = "leased"
               /\ R(m).state = IF outbox[m].attempts < MaxAttempts THEN "pending" ELSE "failed"
  <2> SUFFICES ASSUME NEW m \in Messages
               PROVE  /\ R(m) \in MessageRow
                      /\ R(m).created = outbox[m].created /\ R(m).attempts = outbox[m].attempts
                      /\ \/ R(m) = outbox[m]
                         \/ /\ outbox[m].state = "leased"
                            /\ R(m).state = IF outbox[m].attempts < MaxAttempts
                                            THEN "pending" ELSE "failed"
    OBVIOUS
  <2>1. outbox[m] \in MessageRow
    BY <1>1, RowFacts
  <2> DEFINE st == IF outbox[m].attempts < MaxAttempts THEN "pending" ELSE "failed"
  <2>2. R(m) = IF outbox[m].state = "leased" /\ ~outbox[m].live
               THEN [outbox[m] EXCEPT !.state = st] ELSE outbox[m]
    BY DEF Reclaimed
  <2>3. st \in {"pending", "failed"}
    OBVIOUS
  <2> HIDE DEF st, R
  <2>4. CASE outbox[m].state = "leased" /\ ~outbox[m].live
    <3>1. R(m) = [outbox[m] EXCEPT !.state = st]
      BY <2>2, <2>4
    <3>2. /\ R(m) \in MessageRow /\ R(m).state = st
          /\ R(m).created = outbox[m].created /\ R(m).attempts = outbox[m].attempts
      BY <2>1, <2>3, <3>1 DEF MessageRow
    <3> QED
      BY <2>4, <3>2 DEF st
  <2>5. CASE ~(outbox[m].state = "leased" /\ ~outbox[m].live)
    BY <2>1, <2>2, <2>5
  <2> QED
    BY <2>4, <2>5
<1>4. \A m \in S : /\ R(m).state = "pending" /\ outbox[m].attempts < MaxAttempts
                   /\ Unblocked(Reclaimed, m)
  BY <1>2, <1>3 DEF Due
<1>5. \A m \in S : /\ outbox'[m] \in MessageRow /\ outbox'[m].state = "leased"
                   /\ outbox'[m].attempts = outbox[m].attempts + 1
                   /\ outbox'[m].created = outbox[m].created
                   /\ outbox[m].state \in {"pending", "leased"}
  <2> SUFFICES ASSUME NEW m \in S
               PROVE  /\ outbox'[m] \in MessageRow /\ outbox'[m].state = "leased"
                      /\ outbox'[m].attempts = outbox[m].attempts + 1
                      /\ outbox'[m].created = outbox[m].created
                      /\ outbox[m].state \in {"pending", "leased"}
    OBVIOUS
  <2>1. m \in Messages
    OBVIOUS
  <2>2. outbox'[m] = [R(m) EXCEPT !.state = "leased", !.live = TRUE, !.attempts = @ + 1]
    BY <1>2, <2>1
  <2>3. /\ R(m) \in MessageRow /\ R(m).attempts < MaxAttempts
        /\ MaxAttempts \in Nat /\ R(m).attempts \in Nat
        /\ R(m).attempts = outbox[m].attempts /\ R(m).created = outbox[m].created
        /\ R(m).state = "pending"
    BY <1>1, <1>3, <1>4, <2>1, RowFacts
  <2>4. outbox[m].state \in {"pending", "leased"}
    BY <1>3, <2>1, <2>3
  <2> DEFINE k == R(m).attempts + 1
  <2>5. outbox'[m] = [R(m) EXCEPT !.state = "leased", !.live = TRUE, !.attempts = k]
    BY <2>2, <2>3 DEF MessageRow
  <2>6. k \in 0 .. MaxAttempts /\ k = outbox[m].attempts + 1
    BY <2>3
  <2> HIDE DEF R, k
  <2> QED
    BY <2>3, <2>4, <2>5, <2>6 DEF MessageRow
<1>6. \A m \in Messages \ S : outbox'[m] = R(m)
  BY <1>2
<1>7. outbox' \in [Messages -> MessageRow]
  <2>1. \A m \in Messages : outbox'[m] \in MessageRow
    BY <1>3, <1>5, <1>6
  <2> HIDE DEF R
  <2> QED
    BY <1>2, <2>1
<1> HIDE DEF R
<1>8. \A m \in Messages : /\ Posted(m)' <=> Posted(m)
                          /\ outbox'[m].created = outbox[m].created
                          /\ outbox[m].state = "sent" <=> outbox'[m].state = "sent"
                          /\ outbox[m].state = "sent" => outbox'[m] = outbox[m]
                          /\ Posted(m) \/ outbox'[m] = outbox[m]
  BY <1>3, <1>5, <1>6 DEF Posted
<1>9. NoReplyStranded'
  <2> SUFFICES ASSUME NEW m \in Messages
               PROVE  /\ outbox'[m].state = "pending" => outbox'[m].attempts < MaxAttempts
                      /\ outbox'[m].state = "failed" => outbox'[m].attempts = MaxAttempts
    BY DEF NoReplyStranded
  <2>1. CASE m \in S
    BY <2>1, <1>5
  <2>2. CASE m \notin S
    <3>1. /\ outbox[m].attempts \in Nat /\ MaxAttempts \in Nat
          /\ outbox[m].attempts <= MaxAttempts
      BY <1>1, RowFacts
    <3> QED
      BY <2>2, <3>1, <1>3, <1>6 DEF OutboxInv, NoReplyStranded
  <2> QED
    BY <2>1, <2>2
<1>10. BatchIsLeased'
  BY <1>1, <1>2, <1>5 DEF BatchIsLeased
<1>11. \A m \in Messages : accepted[m] <= outbox[m].attempts
  BY DEF OutboxInv, DeliveriesAreLeased
<1>12. \A m \in Messages : /\ m \in S => outbox'[m].attempts = outbox[m].attempts + 1
                           /\ m \notin S => outbox'[m].attempts = outbox[m].attempts
  BY <1>3, <1>5, <1>6
<1>13. DeliveriesAreLeased'
  <2> SUFFICES ASSUME NEW m \in Messages
               PROVE  /\ ~Posted(m)' => outbox'[m].attempts = 0
                      /\ accepted[m] <= outbox'[m].attempts
                      /\ m \in S => accepted[m] < outbox'[m].attempts
    BY <1>1, <1>2 DEF DeliveriesAreLeased
  <2>1. outbox[m].attempts \in Nat /\ accepted[m] \in Nat
    BY <1>1, RowFacts
  <2> QED
    BY <2>1, <1>8, <1>11, <1>12 DEF OutboxInv, DeliveriesAreLeased
<1>14. AttemptsNeedFaults'
  <2> SUFFICES ASSUME NEW m \in Messages
               PROVE  /\ outbox'[m].attempts <= 1 + faults + restarts
                      /\ \/ m \in S
                         \/ outbox'[m].state = "sent"
                         \/ outbox'[m].attempts <= faults + restarts
    BY <1>1, <1>2 DEF AttemptsNeedFaults
  <2>1. outbox[m].attempts \in Nat /\ faults \in Nat /\ restarts \in Nat
    BY <1>1, RowFacts
  <2>2. /\ outbox[m].attempts <= 1 + faults + restarts
        /\ outbox[m].state = "sent" \/ outbox[m].attempts <= faults + restarts
    BY <1>1 DEF OutboxInv, AttemptsNeedFaults
  <2>3. m \in S => outbox[m].state # "sent"
    BY <1>5
  <2> QED
    BY <2>1, <2>2, <2>3, <1>8, <1>12
<1>15. OrderOfRows'
  BY <1>8 DEF OutboxInv, OrderOfRows, MustPrecede, Earlier, Rank
<1>16. LeasedInOrder'
  <2> SUFFICES ASSUME NEW p \in Messages, NEW m \in Messages, MustPrecede(p, m),
                      Posted(p), m \in S \/ accepted[m] > 0
               PROVE  outbox'[p].state = "sent"
    BY <1>1, <1>2, <1>8 DEF LeasedInOrder, MustPrecede
  <2>1. CASE accepted[m] > 0
    BY <2>1, <1>8 DEF OutboxInv, LeasedInOrder
  <2>2. CASE m \in S
    <3>1. Unblocked(Reclaimed, m)
      BY <1>4, <2>2
    <3>2. Earlier(p, m)
      BY <1>5, <2>2 DEF OutboxInv, OrderOfRows, Posted
    <3>3. Reclaimed[p].state = "sent"
      BY <3>1, <3>2 DEF Unblocked, MustPrecede
    <3>4. p \notin S
      BY <1>4, <3>3 DEF R
    <3> QED
      BY <3>3, <3>4, <1>6 DEF R
  <2> QED
    BY <2>1, <2>2
<1> QED
  BY <1>2, <1>7, <1>8, <1>9, <1>10, <1>13, <1>14, <1>15, <1>16 DEF RowInv

-----------------------------------------------------------------------------
(***************************************************************************)
(* The steps.                                                              *)
(***************************************************************************)

\* What a transaction that posts S for task t does, whatever it says.
LEMMA PostingKeepsInv ==
    ASSUME OutboxInv, NEW t \in Tasks, NEW S \in SUBSET Messages, NEW at \in 0 .. now,
           Post(S, at), UNCHANGED <<gateway, accepted, now, bounds>>,
           RowInv',
           outbox' \in [Messages -> MessageRow],
           \A m \in Messages : outbox'[m].created <= now,
           \A m \in Messages : Posted(m)' <=> Posted(m) \/ m \in S,
           \A m \in Messages : Posted(m) => outbox'[m] = outbox[m],
           task' \in [Tasks -> TaskStates],
           \A u \in Tasks : u # t => task'[u] = task[u],
           \A m \in S : TaskOf[m] = t /\ (Kind[m] = "terminal" => task'[t] = "done"),
           task[t] = "none" => task'[t] = "pending" /\ RepliesOf(t, "ack") \subseteq S,
           task[t] # "none" => task'[t] # "none",
           task[t] = "none" => S \subseteq RepliesOf(t, "ack"),
           task[t] = "done" => task'[t] = "done",
           task'[t] \in {"leased", "started"} => task[t] \in {"leased", "started"}
    PROVE  OutboxInv'
<1>1. TypeOK'
  BY DEF OutboxInv, TypeOK, gateway, bounds
<1>2. RepliesFollowTask'
  <2> SUFFICES ASSUME NEW m \in Messages
               PROVE  /\ Posted(m)' => task'[TaskOf[m]] # "none"
                      /\ Kind[m] = "ack" /\ task'[TaskOf[m]] # "none" => Posted(m)'
                      /\ Kind[m] = "terminal" /\ Posted(m)' => task'[TaskOf[m]] = "done"
    BY DEF RepliesFollowTask
  <2>1. TaskOf[m] \in Tasks
    BY OutboxAssumption
  <2>2. CASE TaskOf[m] # t
    BY <2>1, <2>2 DEF OutboxInv, RepliesFollowTask
  <2>3. CASE TaskOf[m] = t
    BY <2>3 DEF OutboxInv, RepliesFollowTask, RepliesOf
  <2> QED
    BY <2>2, <2>3
<1>3. DrainClock'
  <2>1. passNow' = passNow /\ now' = now /\ loop' = loop
    BY DEF gateway
  <2>2. ASSUME NEW u \in Tasks, task'[u] \in {"leased", "started"}
        PROVE  /\ loop = "working"
               /\ \A m \in RepliesOf(u, "ack") : outbox'[m].created <= passNow
    <3>1. task[u] \in {"leased", "started"}
      BY <2>2
    <3>2. /\ loop = "working"
          /\ \A m \in RepliesOf(u, "ack") : outbox[m].created <= passNow
      BY <3>1 DEF OutboxInv, DrainClock
    <3>3. \A m \in RepliesOf(u, "ack") : Posted(m)
      BY <3>1 DEF OutboxInv, RepliesFollowTask, RepliesOf
    <3>4. RepliesOf(u, "ack") \subseteq Messages
      BY DEF RepliesOf
    <3> QED
      BY <3>2, <3>3, <3>4
  <2> QED
    BY <2>1, <2>2 DEF OutboxInv, DrainClock, RepliesOf
<1> QED
  BY <1>1, <1>2, <1>3 DEF OutboxInv, RowInv

LEMMA PostingStep ==
    ASSUME OutboxInv, NEW t \in Tasks,
           \/ Admit(t) \/ Begin(t) \/ Ask(t) \/ Finish(t)
           \/ \E m \in Messages : TaskOf[m] = t /\ (Control(m) \/ Decide(m))
    PROVE  OutboxInv'
<1>0. /\ TypeOK /\ task \in [Tasks -> TaskStates] /\ now \in Nat /\ passNow \in Nat
      /\ RepliesFollowTask /\ DrainClock /\ passNow \in 0 .. now /\ now \in 0 .. now
  BY OutboxAssumption DEF OutboxInv, TypeOK, DrainClock
<1>a. \A k : /\ RepliesOf(t, k) \in SUBSET Messages
             /\ \A m \in RepliesOf(t, k) : TaskOf[m] = t /\ Kind[m] = k
  BY DEF RepliesOf
<1>b. \A m \in Messages : outbox[m].created <= now
  BY <1>0 DEF DrainClock
<1>c. \A p, m \in Messages : MustPrecede(p, m) => TaskOf[p] = TaskOf[m]
  BY DEF MustPrecede
<1>1. CASE Admit(t)
  <2> DEFINE S == RepliesOf(t, "ack")
  <2>1. /\ task[t] = "none" /\ task' = [task EXCEPT ![t] = "pending"] /\ Post(S, now)
        /\ UNCHANGED <<gateway, accepted, now, bounds>>
    BY <1>1 DEF Admit, Moves
  <2>2. \A p \in S, m \in Messages : MustPrecede(p, m) => ~Posted(m)
    BY <1>0, <1>a, <1>c, <2>1 DEF RepliesFollowTask
  <2>3. \A m \in S, p \in Messages : ~MustPrecede(p, m)
    BY <1>a DEF MustPrecede
  <2>4. task' \in [Tasks -> TaskStates] /\ task'[t] = "pending"
        /\ \A u \in Tasks : u # t => task'[u] = task[u]
    BY <1>0, <2>1 DEF TaskStates
  <2> HIDE DEF S
  <2>5. S \in SUBSET Messages /\ \A m \in S : TaskOf[m] = t /\ Kind[m] = "ack"
    BY <1>a DEF S
  <2>6. S = RepliesOf(t, "ack")
    BY DEF S
  <2>7. \A p, m \in S : Kind[p] = Kind[m]
    BY <2>5
  <2>8. /\ RowInv' /\ outbox' \in [Messages -> MessageRow]
        /\ \A m \in Messages : outbox'[m].created <= now
        /\ \A m \in Messages : Posted(m)' <=> Posted(m) \/ m \in S
        /\ \A m \in Messages : Posted(m) => outbox'[m] = outbox[m]
    BY <1>0, <2>1, <2>2, <2>3, <2>5, <2>7, PostKeepsRows
  <2> QED
    BY <1>0, <2>1, <2>4, <2>5, <2>6, <2>8, PostingKeepsInv
<1>2. CASE Begin(t)
  <2> DEFINE S == RepliesOf(t, "progress")
  <2>1. /\ task[t] = "leased" /\ task' = [task EXCEPT ![t] = "started"] /\ Post(S, passNow)
        /\ UNCHANGED <<gateway, accepted, now, bounds>>
    BY <1>2 DEF Begin, Moves
  <2>2. \A p \in S, m \in Messages : MustPrecede(p, m) => ~Posted(m)
    BY <1>0, <1>a, <1>c, <2>1 DEF RepliesFollowTask, MustPrecede
  <2>3. \A m \in S, p \in Messages : MustPrecede(p, m) => outbox[p].created <= passNow
    BY <1>0, <1>a, <2>1 DEF MustPrecede, DrainClock, RepliesOf
  <2>4. task' \in [Tasks -> TaskStates] /\ task'[t] = "started"
        /\ \A u \in Tasks : u # t => task'[u] = task[u]
    BY <1>0, <2>1 DEF TaskStates
  <2> HIDE DEF S
  <2>5. S \in SUBSET Messages /\ \A m \in S : TaskOf[m] = t /\ Kind[m] = "progress"
    BY <1>a DEF S
  <2>7. \A p, m \in S : Kind[p] = Kind[m]
    BY <2>5
  <2>8. /\ RowInv' /\ outbox' \in [Messages -> MessageRow]
        /\ \A m \in Messages : outbox'[m].created <= now
        /\ \A m \in Messages : Posted(m)' <=> Posted(m) \/ m \in S
        /\ \A m \in Messages : Posted(m) => outbox'[m] = outbox[m]
    BY <1>0, <2>1, <2>2, <2>3, <2>5, <2>7, PostKeepsRows
  <2> QED
    BY <1>0, <2>1, <2>4, <2>5, <2>8, PostingKeepsInv
<1>3. CASE Ask(t)
  <2> DEFINE S == RepliesOf(t, "approval")
  <2>1. /\ task[t] = "started" /\ task' = task /\ Post(S, now)
        /\ UNCHANGED <<gateway, accepted, now, bounds>>
    BY <1>3 DEF Ask
  <2>2. \A p \in S, m \in Messages : MustPrecede(p, m) => ~Posted(m)
    BY <1>0, <1>a, <1>c, <2>1 DEF RepliesFollowTask, MustPrecede
  <2> HIDE DEF S
  <2>5. S \in SUBSET Messages /\ \A m \in S : TaskOf[m] = t /\ Kind[m] = "approval"
    BY <1>a DEF S
  <2>7. \A p, m \in S : Kind[p] = Kind[m]
    BY <2>5
  <2>8. /\ RowInv' /\ outbox' \in [Messages -> MessageRow]
        /\ \A m \in Messages : outbox'[m].created <= now
        /\ \A m \in Messages : Posted(m)' <=> Posted(m) \/ m \in S
        /\ \A m \in Messages : Posted(m) => outbox'[m] = outbox[m]
    BY <1>0, <1>b, <2>1, <2>2, <2>5, <2>7, PostKeepsRows
  <2> QED
    BY <1>0, <2>1, <2>5, <2>8, PostingKeepsInv
<1>4. CASE Finish(t)
  <2> DEFINE S == RepliesOf(t, "terminal")
  <2>1. /\ task[t] \in {"leased", "started"} /\ task' = [task EXCEPT ![t] = "done"] /\ Post(S, now)
        /\ UNCHANGED <<gateway, accepted, now, bounds>>
    BY <1>4 DEF Finish, Moves
  <2>2. \A p \in S, m \in Messages : ~MustPrecede(p, m)
    BY <1>a DEF MustPrecede
  <2>4. task' \in [Tasks -> TaskStates] /\ task'[t] = "done"
        /\ \A u \in Tasks : u # t => task'[u] = task[u]
    BY <1>0, <2>1 DEF TaskStates
  <2> HIDE DEF S
  <2>5. S \in SUBSET Messages /\ \A m \in S : TaskOf[m] = t /\ Kind[m] = "terminal"
    BY <1>a DEF S
  <2>7. \A p, m \in S : Kind[p] = Kind[m]
    BY <2>5
  <2>8. /\ RowInv' /\ outbox' \in [Messages -> MessageRow]
        /\ \A m \in Messages : outbox'[m].created <= now
        /\ \A m \in Messages : Posted(m)' <=> Posted(m) \/ m \in S
        /\ \A m \in Messages : Posted(m) => outbox'[m] = outbox[m]
    BY <1>0, <1>b, <2>1, <2>2, <2>5, <2>7, PostKeepsRows
  <2> QED
    BY <1>0, <2>1, <2>4, <2>5, <2>8, PostingKeepsInv
<1>5. ASSUME NEW c \in Messages, TaskOf[c] = t, Control(c)
      PROVE  OutboxInv'
  <2> DEFINE S == {c}
  <2>1. PICK at \in 0 .. now :
           /\ task[t] \in {"pending", "leased", "started"} /\ task' = task /\ Post(S, at)
           /\ Kind[c] = "control" /\ UNCHANGED <<gateway, accepted, now, bounds>>
    BY <1>5 DEF Control
  <2>2. \A p \in S, m \in Messages : MustPrecede(p, m) => ~Posted(m)
    BY <1>0, <1>5, <1>c, <2>1 DEF RepliesFollowTask, MustPrecede
  <2>3. \A m \in S, p \in Messages : ~MustPrecede(p, m)
    BY <2>1 DEF MustPrecede
  <2> HIDE DEF S
  <2>5. S \in SUBSET Messages /\ \A m \in S : TaskOf[m] = t /\ Kind[m] = "control"
    BY <1>5, <2>1 DEF S
  <2>7. \A p, m \in S : Kind[p] = Kind[m]
    BY <2>5
  <2>8. /\ RowInv' /\ outbox' \in [Messages -> MessageRow]
        /\ \A m \in Messages : outbox'[m].created <= now
        /\ \A m \in Messages : Posted(m)' <=> Posted(m) \/ m \in S
        /\ \A m \in Messages : Posted(m) => outbox'[m] = outbox[m]
    BY <1>0, <2>1, <2>2, <2>3, <2>5, <2>7, PostKeepsRows
  <2> QED
    BY <1>0, <2>1, <2>5, <2>8, PostingKeepsInv
<1>6. ASSUME NEW c \in Messages, TaskOf[c] = t, Decide(c)
      PROVE  OutboxInv'
  <2> DEFINE S == {c}
  <2>1. /\ task' = task /\ Post(S, now)
        /\ Kind[c] = "decision" /\ UNCHANGED <<gateway, accepted, now, bounds>>
    BY <1>6 DEF Decide
  <2>2. task[t] # "none"
    <3>1. PICK p \in RepliesOf(t, "approval") : accepted[p] > 0
      BY <1>6 DEF Decide
    <3>2. p \in Messages /\ TaskOf[p] = t
      BY DEF RepliesOf
    <3>3. accepted[p] \in Nat /\ outbox[p].attempts \in Nat
      BY <1>0, <3>2, RowFacts
    <3>4. Posted(p)
      BY <3>1, <3>2, <3>3 DEF OutboxInv, DeliveriesAreLeased
    <3> QED
      BY <1>0, <3>2, <3>4 DEF RepliesFollowTask
  <2>3. \A p \in S, m \in Messages : ~MustPrecede(p, m)
    BY <2>1 DEF MustPrecede
  <2> HIDE DEF S
  <2>5. S \in SUBSET Messages /\ \A m \in S : TaskOf[m] = t /\ Kind[m] = "decision"
    BY <1>6, <2>1 DEF S
  <2>7. \A p, m \in S : Kind[p] = Kind[m]
    BY <2>5
  <2>8. /\ RowInv' /\ outbox' \in [Messages -> MessageRow]
        /\ \A m \in Messages : outbox'[m].created <= now
        /\ \A m \in Messages : Posted(m)' <=> Posted(m) \/ m \in S
        /\ \A m \in Messages : Posted(m) => outbox'[m] = outbox[m]
    BY <1>0, <1>b, <2>1, <2>3, <2>5, <2>7, PostKeepsRows
  <2> QED
    BY <1>0, <2>1, <2>2, <2>5, <2>8, PostingKeepsInv
<1> QED
  BY <1>1, <1>2, <1>3, <1>4, <1>5, <1>6

\* What a step that posts nothing leaves of tasks, replies and clocks.
LEMMA NothingPosted ==
    ASSUME OutboxInv,
           \A m \in Messages : (Posted(m)' <=> Posted(m)) /\ outbox'[m].created = outbox[m].created,
           \A t \in Tasks : (task'[t] = "none" <=> task[t] = "none")
                            /\ (task'[t] = "done" <=> task[t] = "done"),
           passNow' \in Nat, now' \in Nat, passNow' <= now', now <= now',
           \/ \A t \in Tasks : task'[t] \notin {"leased", "started"}
           \/ /\ passNow' = passNow /\ loop' = loop
              /\ \A t \in Tasks : task'[t] \in {"leased", "started"} =>
                                     task[t] \in {"leased", "started"}
    PROVE  RepliesFollowTask' /\ DrainClock'
<1>1. RepliesFollowTask'
  BY OutboxAssumption DEF OutboxInv, RepliesFollowTask
<1>2. \A m \in Messages : outbox'[m].created <= now'
  <2> SUFFICES ASSUME NEW m \in Messages
               PROVE  outbox'[m].created <= now'
    OBVIOUS
  <2>1. outbox[m].created \in Nat /\ now \in Nat
    BY RowFacts DEF OutboxInv
  <2> QED
    BY <2>1 DEF OutboxInv, DrainClock
<1>3. ASSUME NEW t \in Tasks, task'[t] \in {"leased", "started"}
      PROVE  /\ loop' = "working"
             /\ \A m \in RepliesOf(t, "ack") : outbox'[m].created <= passNow'
  BY <1>3 DEF OutboxInv, DrainClock, RepliesOf
<1> QED
  BY <1>1, <1>2, <1>3 DEF DrainClock, RepliesOf

LEMMA DispatcherStep ==
    ASSUME OutboxInv, LeaseOutbox \/ Publish \/ Record
    PROVE  OutboxInv'
<1>1. TypeOK /\ now \in Nat /\ passNow \in Nat /\ passNow <= now
  BY OutboxAssumption DEF OutboxInv, TypeOK, DrainClock
<1>2. UNCHANGED <<task, passNow, now>> /\ loop' \in {"send"} /\ loop \in {"lease", "send"}
  BY DEF LeaseOutbox, Publish, Record
<1>3. \A t \in Tasks : task'[t] \notin {"leased", "started"}
  BY <1>2 DEF OutboxInv, DrainClock
<1>4. CASE LeaseOutbox
  <2>1. TypeOK'
    BY <1>1, <1>4, LeaseKeepsRows DEF TypeOK, LeaseOutbox, bounds, Places
  <2>2. RepliesFollowTask' /\ DrainClock'
    BY <1>1, <1>2, <1>3, <1>4, LeaseKeepsRows, NothingPosted
  <2> QED
    BY <1>4, <2>1, <2>2, LeaseKeepsRows DEF OutboxInv, RowInv
<1>5. CASE Publish
  <2>0. outbox' = outbox
    BY <1>5 DEF Publish
  <2>1. TypeOK'
    <3>1. faults' \in 0 .. MaxFaults
      BY <1>1, <1>5, OutboxAssumption DEF TypeOK, Publish
    <3> QED
      BY <1>1, <1>5, <3>1, PublishKeepsRows DEF TypeOK, Publish
  <2>2. RepliesFollowTask' /\ DrainClock'
    BY <1>1, <1>2, <1>3, <2>0, NothingPosted DEF Posted
  <2> QED
    BY <1>5, <2>1, <2>2, PublishKeepsRows DEF OutboxInv, RowInv
<1>6. CASE Record
  <2>1. TypeOK'
    BY <1>1, <1>6, RecordKeepsRows DEF TypeOK, Record, bounds
  <2>2. RepliesFollowTask' /\ DrainClock'
    BY <1>1, <1>2, <1>3, <1>6, RecordKeepsRows, NothingPosted
  <2> QED
    BY <1>6, <2>1, <2>2, RecordKeepsRows DEF OutboxInv, RowInv
<1> QED
  BY <1>4, <1>5, <1>6

LEMMA LoopStep ==
    ASSUME OutboxInv,
           \/ BeginDrain \/ PassRaises \/ LeaseTasks \/ BatchEnds \/ PassEnds
           \/ Stop \/ Crash \/ Start
    PROVE  OutboxInv'
<1>1. /\ TypeOK /\ now \in Nat /\ passNow \in Nat /\ passNow <= now
      /\ now \in 0 .. MaxNow /\ task \in [Tasks -> TaskStates]
      /\ faults \in Nat /\ restarts \in Nat
  BY OutboxAssumption DEF OutboxInv, TypeOK, DrainClock
<1>2. /\ UNCHANGED <<outbox, accepted, now>> /\ items' = {} /\ answer' = "none"
      /\ \/ items = {} /\ faults' = faults /\ restarts' = restarts
         \/ faults' = faults + 1 /\ restarts' = restarts
         \/ faults' = faults /\ restarts' = restarts + 1
  <2>1. items # {} \/ answer # "none" => loop = "send" /\ items # {}
    BY DEF OutboxInv, BatchIsLeased
  <2>2. CASE BeginDrain
    BY <2>1, <2>2 DEF BeginDrain, bounds
  <2>3. CASE PassRaises
    BY <2>3 DEF PassRaises
  <2>4. CASE LeaseTasks
    BY <2>1, <2>4 DEF LeaseTasks, bounds
  <2>5. CASE BatchEnds
    BY <2>1, <2>5 DEF BatchEnds, bounds
  <2>6. CASE PassEnds
    BY <2>1, <2>6 DEF PassEnds, bounds
  <2>7. CASE Stop
    BY <2>7 DEF Stop
  <2>8. CASE Crash
    BY <2>8 DEF Crash
  <2>9. CASE Start
    BY <2>1, <2>9 DEF Start, bounds
  <2> QED
    BY <2>2, <2>3, <2>4, <2>5, <2>6, <2>7, <2>8, <2>9
<1>3. RowInv' /\ \A m \in Messages : Posted(m)' <=> Posted(m)
  BY <1>2, LeavingKeepsRows
<1>4. /\ task' \in [Tasks -> TaskStates]
      /\ \A t \in Tasks : /\ task'[t] = "none" <=> task[t] = "none"
                          /\ task'[t] = "done" <=> task[t] = "done"
  <2>1. CASE LeaseTasks
    <3>1. PICK T \in SUBSET {t \in Tasks : task[t] = "pending"} :
             task' = [t \in Tasks |-> IF t \in T THEN "leased" ELSE task[t]]
      BY <2>1 DEF LeaseTasks
    <3> QED
      BY <1>1, <3>1 DEF TaskStates
  <2>2. CASE NoHandler
    BY <1>1, <2>2 DEF NoHandler, TaskStates
  <2>3. CASE task' = task
    BY <1>1, <2>3
  <2> QED
    BY <2>1, <2>2, <2>3
       DEF BeginDrain, PassRaises, BatchEnds, PassEnds, Stop, Crash, Start
<1>5. /\ loop' \in Places /\ pass' \in Passes /\ passNow' \in 0 .. MaxNow
      /\ passNow' \in Nat /\ passNow' <= now'
      /\ faults' \in 0 .. MaxFaults /\ restarts' \in 0 .. MaxRestarts
  <2>1. /\ loop \in Places /\ pass \in Passes /\ passNow \in 0 .. MaxNow
        /\ faults \in 0 .. MaxFaults /\ restarts \in 0 .. MaxRestarts
        /\ MaxFaults \in Nat /\ MaxRestarts \in Nat
    BY OutboxAssumption DEF OutboxInv, TypeOK
  <2>2. CASE BeginDrain
    BY <1>1, <2>1, <2>2 DEF BeginDrain, bounds, Places
  <2>3. CASE PassRaises
    BY <1>1, <2>1, <2>3 DEF PassRaises, AfterPass, Places, Passes
  <2>4. CASE LeaseTasks
    BY <1>1, <2>1, <2>4 DEF LeaseTasks, bounds, Places
  <2>5. CASE BatchEnds
    BY <1>1, <2>1, <2>5 DEF BatchEnds, bounds, Places, Passes
  <2>6. CASE PassEnds
    BY <1>1, <2>1, <2>6 DEF PassEnds, AfterPass, bounds, Places, Passes
  <2>7. CASE Stop
    BY <1>1, <2>1, <2>7 DEF Stop, Places, Passes
  <2>8. CASE Crash
    BY <1>1, <2>1, <2>8 DEF Crash, Places, Passes
  <2>9. CASE Start
    BY <1>1, <2>1, <2>9 DEF Start, bounds, Places
  <2> QED
    BY <2>2, <2>3, <2>4, <2>5, <2>6, <2>7, <2>8, <2>9
<1>6. TypeOK'
  BY <1>1, <1>2, <1>4, <1>5 DEF TypeOK
<1>7. CASE LeaseTasks
  <2>1. PICK T \in SUBSET {t \in Tasks :
                              /\ task[t] = "pending"
                              /\ \A m \in RepliesOf(t, "ack") : outbox[m].created <= passNow} :
           task' = [t \in Tasks |-> IF t \in T THEN "leased" ELSE task[t]]
    BY <1>7 DEF LeaseTasks
  <2>2. passNow' = passNow /\ loop' = "working" /\ loop = "send" /\ UNCHANGED <<outbox, now>>
    BY <1>7 DEF LeaseTasks
  <2>3. RepliesFollowTask'
    BY <1>3, <1>4, OutboxAssumption DEF OutboxInv, RepliesFollowTask
  <2>4. DrainClock'
    BY <2>1, <2>2 DEF OutboxInv, DrainClock, RepliesOf
  <2> QED
    BY <1>3, <1>6, <2>3, <2>4 DEF OutboxInv, RowInv
<1>8. CASE ~LeaseTasks
  <2>1. \A t \in Tasks : task'[t] \notin {"leased", "started"}
    <3>1. CASE NoHandler
      BY <3>1 DEF NoHandler
    <3>2. CASE BatchEnds
      BY <3>2 DEF BatchEnds
    <3>3. CASE task' = task /\ loop # "working"
      BY <3>3 DEF OutboxInv, DrainClock
    <3> QED
      BY <1>8, <3>1, <3>2, <3>3 DEF BeginDrain, PassRaises, PassEnds, Stop, Crash, Start
  <2>2. RepliesFollowTask' /\ DrainClock'
    BY <1>1, <1>2, <1>3, <1>4, <1>5, <2>1, NothingPosted
  <2> QED
    BY <1>3, <1>6, <2>2 DEF OutboxInv, RowInv
<1> QED
  BY <1>7, <1>8

LEMMA QuietStep ==
    ASSUME OutboxInv,
           \/ \E t \in Tasks : GiveBack(t)
           \/ \E m \in Messages : TimePasses(m)
           \/ Tick \/ UNCHANGED vars
    PROVE  OutboxInv'
<1>1. /\ TypeOK /\ now \in Nat /\ passNow \in Nat /\ passNow <= now
      /\ now \in 0 .. MaxNow /\ task \in [Tasks -> TaskStates] /\ MaxNow \in Nat
      /\ outbox \in [Messages -> MessageRow]
  BY OutboxAssumption DEF OutboxInv, TypeOK, DrainClock
<1>2. UNCHANGED <<gateway, accepted, bounds>>
  BY DEF GiveBack, TimePasses, Tick, vars
<1>3. /\ outbox' \in [Messages -> MessageRow]
      /\ \A m \in Messages : /\ outbox'[m].state = outbox[m].state
                             /\ outbox'[m].created = outbox[m].created
                             /\ outbox'[m].attempts = outbox[m].attempts
  <2>1. CASE outbox' = outbox
    BY <1>1, <2>1
  <2>2. ASSUME NEW m \in Messages, TimePasses(m)
        PROVE  <1>3!:
    <3>1. outbox[m] \in MessageRow
      BY <1>1
    <3>2. PICK row \in {[outbox[m] EXCEPT !.ready = TRUE], [outbox[m] EXCEPT !.live = FALSE]} :
             outbox' = [outbox EXCEPT ![m] = row]
      BY <2>2 DEF TimePasses
    <3>3. /\ row \in MessageRow /\ row.state = outbox[m].state
          /\ row.created = outbox[m].created /\ row.attempts = outbox[m].attempts
      BY <3>1 DEF MessageRow
    <3> QED
      BY <1>1, <3>2, <3>3
  <2> QED
    BY <2>1, <2>2 DEF GiveBack, Tick, vars
<1>4. RowInv' /\ \A m \in Messages : Posted(m)' <=> Posted(m)
  BY <1>2, <1>3, BatchKeepsRows DEF gateway
<1>5. /\ now' \in 0 .. MaxNow /\ now' \in Nat /\ now <= now'
  BY <1>1 DEF GiveBack, TimePasses, Tick, vars
<1>6. /\ task' \in [Tasks -> TaskStates]
      /\ \A t \in Tasks : /\ task'[t] = "none" <=> task[t] = "none"
                          /\ task'[t] = "done" <=> task[t] = "done"
                          /\ task'[t] \in {"leased", "started"} =>
                                task[t] \in {"leased", "started"}
  BY <1>1 DEF GiveBack, TimePasses, Tick, vars, Moves, TaskStates
<1>7. TypeOK'
  BY <1>1, <1>2, <1>3, <1>5, <1>6 DEF TypeOK, gateway, bounds
<1>8. RepliesFollowTask' /\ DrainClock'
  BY <1>1, <1>2, <1>3, <1>4, <1>5, <1>6, NothingPosted DEF gateway
<1> QED
  BY <1>4, <1>7, <1>8 DEF OutboxInv, RowInv

LEMMA OutboxStep ==
    ASSUME OutboxInv, [Next]_vars
    PROVE  OutboxInv'
BY PostingStep, DispatcherStep, LoopStep, QuietStep, OutboxAssumption DEF Next

LEMMA OutboxStart == Init => OutboxInv
<1> SUFFICES ASSUME Init
             PROVE  OutboxInv
  OBVIOUS
<1>1. TypeOK
  BY OutboxAssumption DEF Init, TypeOK, TaskStates, MessageRow, Places, Passes
<1>2. NoReplyStranded /\ BatchIsLeased /\ DeliveriesAreLeased /\ AttemptsNeedFaults
  BY OutboxAssumption
     DEF Init, NoReplyStranded, BatchIsLeased, DeliveriesAreLeased, AttemptsNeedFaults, Posted
<1>3. RepliesFollowTask /\ DrainClock /\ OrderOfRows /\ LeasedInOrder
  BY OutboxAssumption
     DEF Init, RepliesFollowTask, DrainClock, OrderOfRows, LeasedInOrder, Posted, RepliesOf
<1> QED
  BY <1>1, <1>2, <1>3 DEF OutboxInv

-----------------------------------------------------------------------------
(***************************************************************************)
(* The results.                                                            *)
(***************************************************************************)

\* The inductive invariant holds in every state of the dispatcher and of the
\* transactions that post replies.
THEOREM OutboxInvariant == Spec => []OutboxInv
BY OutboxStart, OutboxStep, PTL DEF Spec

\* Rows, leases, clocks and counters keep their types: no attempt beyond
\* max_attempts is made (lease_outbox).
THEOREM OutboxTypes == Spec => []TypeOK
<1>1. OutboxInv => TypeOK
  BY DEF OutboxInv
<1> QED
  BY <1>1, OutboxInvariant, PTL

\* A reply that is not sent can be leased again or has used up its attempts
\* (retry_outbox, lease_outbox).
THEOREM NoReplyIsStranded == Spec => []NoReplyStranded
<1>1. OutboxInv => NoReplyStranded
  BY DEF OutboxInv
<1> QED
  BY <1>1, OutboxInvariant, PTL

\* Repeated deliveries and attempts are paid for by faults and restarts
\* (OutboxDispatcher.run_once).
THEOREM RepeatsArePaidFor == Spec => []RepeatsNeedFaults
<1>1. OutboxInv => RepeatsNeedFaults
  <2> SUFFICES ASSUME OutboxInv, NEW m \in Messages
               PROVE  /\ accepted[m] <= 1 + faults + restarts
                      /\ outbox[m].attempts <= 1 + faults + restarts
    BY DEF RepeatsNeedFaults
  <2>1. /\ accepted[m] \in Nat /\ outbox[m].attempts \in Nat
        /\ faults \in Nat /\ restarts \in Nat
    BY RowFacts DEF OutboxInv
  <2> QED
    BY <2>1 DEF OutboxInv, DeliveriesAreLeased, AttemptsNeedFaults
<1> QED
  BY <1>1, OutboxInvariant, PTL

\* No message reaches the chat while one it must follow is unsent
\* (_insert_outbox, lease_outbox and the clocks of a drain).
THEOREM RepliesAreInOrder == Spec => []RepliesInOrder
<1>1. OutboxInv => RepliesInOrder
  <2> SUFFICES ASSUME OutboxInv, NEW m \in Messages, NEW p \in Messages,
                      accepted[m] > 0, p # m, TaskOf[p] = TaskOf[m], Posted(p)
               PROVE  /\ Kind[p] = "ack" /\ Kind[m] # "control" => outbox[p].state = "sent"
                      /\ Kind[m] = "terminal" /\ Kind[p] # "decision"
                            => outbox[p].state = "sent"
    BY DEF RepliesInOrder
  <2>1. ~(Kind[p] = Kind[m] /\ Kind[p] \in {"ack", "terminal"})
    BY OutboxAssumption
  <2> QED
    BY <2>1 DEF OutboxInv, LeasedInOrder, MustPrecede
<1> QED
  BY <1>1, OutboxInvariant, PTL

\* What is sent stays sent and is not offered to the chat service again
\* (_insert_outbox, lease_outbox, mark_outbox_sent, retry_outbox).
THEOREM SentStaysSent == Spec => SentIsFinal
<1> DEFINE Final == \A m \in Messages :
                       outbox[m].state = "sent" =>
                          outbox'[m] = outbox[m] /\ accepted'[m] = accepted[m]
<1>1. ASSUME OutboxInv, [Next]_vars
      PROVE  [Final]_vars
  <2>1. CASE outbox' = outbox /\ accepted' = accepted
    BY <2>1
  <2>2. ASSUME NEW S, NEW at, Post(S, at), accepted' = accepted
        PROVE  Final
    BY <2>2 DEF Post, Posted
  <2>3. CASE LeaseOutbox
    BY <1>1, <2>3, LeaseKeepsRows DEF LeaseOutbox
  <2>4. CASE Record
    BY <1>1, <2>4, RecordKeepsRows DEF Record
  <2>5. CASE Publish
    <3>1. accepted \in [Messages -> 0 .. MaxAttempts]
      BY <1>1 DEF OutboxInv, TypeOK
    <3>2. outbox' = outbox /\ outbox[FirstOf(items)].state = "leased"
      BY <1>1, <2>5, FirstIsLeased DEF Publish
    <3>3. \/ accepted' = accepted
          \/ accepted' = [accepted EXCEPT ![FirstOf(items)] = @ + 1]
      BY <2>5 DEF Publish
    <3> QED
      BY <3>1, <3>2, <3>3
  <2>6. ASSUME NEW m \in Messages, TimePasses(m)
        PROVE  Final
    <3>1. outbox \in [Messages -> MessageRow]
      BY <1>1 DEF OutboxInv, TypeOK
    <3>2. outbox[m].state # "sent" /\ accepted' = accepted
          /\ \A n \in Messages \ {m} : outbox'[n] = outbox[n]
      BY <2>6, <3>1 DEF TimePasses
    <3> QED
      BY <3>2
  <2> HIDE DEF Final
  <2>7. ASSUME NEW t \in Tasks, Admit(t) \/ Begin(t) \/ Ask(t) \/ GiveBack(t) \/ Finish(t)
        PROVE  [Final]_vars
    BY <2>1, <2>2, <2>7 DEF Admit, Begin, Ask, GiveBack, Finish
  <2>8. ASSUME NEW m \in Messages, Control(m) \/ Decide(m)
        PROVE  Final
    BY <2>2, <2>8 DEF Control, Decide
  <2>9. CASE \/ BeginDrain \/ PassRaises \/ LeaseTasks \/ BatchEnds \/ PassEnds
             \/ Stop \/ Crash \/ Start \/ Tick \/ UNCHANGED vars
    BY <2>1, <2>9
       DEF BeginDrain, PassRaises, LeaseTasks, BatchEnds, PassEnds, Stop, Crash, Start, Tick, vars
  <2> QED
    BY <1>1, <2>3, <2>4, <2>5, <2>6, <2>7, <2>8, <2>9 DEF Next
<1> QED
  BY <1>1, OutboxInvariant, PTL DEF Spec, SentIsFinal

===============================================================================
