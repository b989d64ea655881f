----------------------------- MODULE CapacityGate -----------------------------
(***************************************************************************)
(* runtime/capacity.py FairCapacityGate: the permits of one resource, a    *)
(* model provider or a plugin, which the harnesses and tool executors of   *)
(* all groups share.  The bodies of its methods do not suspend, so the     *)
(* asyncio lock around them is never contended and each is one step; what  *)
(* interleaves is between a permit's grant (future.set_result), the        *)
(* resumption of the call that waits for it, and the cancellation of that  *)
(* call, which is delivered after other steps have run.                    *)
(***************************************************************************)
EXTENDS Integers, Sequences, FiniteSets

CONSTANTS
    Calls,     \* calls that use the resource, again and again
    Lanes,
    LaneOf,    \* LaneOf[c]: the CapacityLane of call c
    Limit

ASSUME GateAssumption ==
    /\ IsFiniteSet(Calls)
    /\ LaneOf \in [Calls -> Lanes]
    /\ Limit \in Nat \ {0}

VARIABLES
    gate,     \* the _ResourceState, and which futures are done
    stage,    \* stage[c]: where the coroutine of c is
    passed    \* history: passed[l][k] counts, up to 2, the grants to lane k
              \* since lane l was last served or began to wait

vars == <<gate, stage, passed>>

Stages == {"idle", "waiting", "cancelling", "holding"}

Gate == [queues : [Lanes -> Seq(Calls)], roundRobin : Seq(Lanes),
         inUse : 0 .. Limit, done : SUBSET Calls]

TypeOK ==
    /\ gate \in Gate
    /\ stage \in [Calls -> Stages]
    /\ passed \in [Lanes -> [Lanes -> 0 .. 2]]

Init ==
    /\ gate = [queues |-> [l \in Lanes |-> <<>>], roundRobin |-> <<>>,
               inUse |-> 0, done |-> {}]
    /\ stage = [c \in Calls |-> "idle"]
    /\ passed = [l \in Lanes |-> [k \in Lanes |-> 0]]

Waits(g, l) == g.queues[l] # <<>>   \* the lane is a key of state.queues

\* deque.remove, with its ValueError suppressed.  Nothing is listed twice.
Without(s, e) ==
    IF \E i \in 1 .. Len(s) : s[i] = e
    THEN LET at == CHOOSE i \in 1 .. Len(s) : s[i] = e
         IN  [i \in 1 .. Len(s) - 1 |-> IF i < at THEN s[i] ELSE s[i + 1]]
    ELSE s

-----------------------------------------------------------------------------
(***************************************************************************)
(* The gate.                                                               *)
(***************************************************************************)

\* Mutant of Enqueued: a lane that begins to wait is put in front.
Enqueued_AtFront(g, c) ==
    [g EXCEPT !.queues[LaneOf[c]] = Append(@, c),
              !.roundRobin = IF Waits(g, LaneOf[c]) THEN @ ELSE <<LaneOf[c]>> \o @]

\* queue.append(future), which creates the queue of a lane that has none.
Enqueued(g, c) ==
    [g EXCEPT !.queues[LaneOf[c]] = Append(@, c),
              !.roundRobin = IF Waits(g, LaneOf[c]) THEN @ ELSE Append(@, LaneOf[c])]

\* Mutant of Free: the limit is not looked at.
Free_Unlimited(g) == g.roundRobin # <<>>

Free(g) == g.inUse < Limit /\ g.roundRobin # <<>>

\* Mutant of Granted: a lane that still has waiters stays at the front.
Granted_LaneKeepsTurn(g) ==
    LET lane == Head(g.roundRobin)
        rest == Tail(g.queues[lane])
    IN  [g EXCEPT !.queues[lane] = rest,
                  !.roundRobin = IF rest = <<>> THEN Tail(@) ELSE @,
                  !.inUse = @ + 1,
                  !.done = @ \cup {Head(g.queues[lane])}]

\* One turn of the loop of _dispatch.  Nothing but a grant completes a future,
\* so the one at the head of a queue is not done.
Granted(g) ==
    LET lane == Head(g.roundRobin)
        rest == Tail(g.queues[lane])
    IN  [g EXCEPT !.queues[lane] = rest,
                  !.roundRobin = IF rest = <<>> THEN Tail(@) ELSE Append(Tail(@), lane),
                  !.inUse = @ + 1,
                  !.done = @ \cup {Head(g.queues[lane])}]

\* _dispatch.  A second turn would need a free permit and a waiter at once after
\* the first, which NoIdlePermit excludes.
Dispatched(g) == IF Free(g) THEN Granted(g) ELSE g

\* The permit of c is given back.
Returned(g, c) == Dispatched([g EXCEPT !.inUse = @ - 1, !.done = @ \ {c}])

\* Mutant of Withdrawn: an emptied lane keeps its place in the rotation.
Withdrawn_LaneKept(g, c) == [g EXCEPT !.queues[LaneOf[c]] = Without(@, c)]

\* The branch of _cancel_waiter for a future that is not done.
Withdrawn(g, c) ==
    LET rest == Without(g.queues[LaneOf[c]], c)
    IN  [g EXCEPT !.queues[LaneOf[c]] = rest,
                  !.roundRobin = IF rest = <<>> THEN Without(@, LaneOf[c]) ELSE @]

\* The lanes served by a step to gate'.
Served == {LaneOf[c] : c \in gate'.done \ gate.done}

Steps(c, g, s) ==
    /\ gate' = g
    /\ stage' = [stage EXCEPT ![c] = s]
    /\ passed' = [l \in Lanes |-> [k \in Lanes |->
                     IF l \in Served \/ ~Waits(gate', l) \/ ~Waits(gate, l) THEN 0
                     ELSE IF k \in Served /\ passed[l][k] < 2 THEN passed[l][k] + 1
                     ELSE passed[l][k]]]

-----------------------------------------------------------------------------
(***************************************************************************)
(* The calls.                                                              *)
(***************************************************************************)

\* _acquire, to its await.
Acquire(c) ==
    /\ stage[c] = "idle"
    /\ Steps(c, Dispatched(Enqueued(gate, c)), "waiting")

\* The await returns and the caller's block begins.
Enter(c) ==
    /\ stage[c] = "waiting" /\ c \in gate.done
    /\ Steps(c, gate, "holding")

\* The caller is cancelled at the await, whether or not its future is done.
Cancel(c) ==
    /\ stage[c] = "waiting"
    /\ Steps(c, gate, "cancelling")

\* Mutants of CancelWaiter: a permit granted to a cancelled call is not given
\* back; it is given back and not handed on.
CancelWaiter_PermitLost(c) ==
    /\ stage[c] = "cancelling"
    /\ IF c \in gate.done
       THEN Steps(c, [gate EXCEPT !.done = @ \ {c}], "idle")
       ELSE Steps(c, Withdrawn(gate, c), "idle")
CancelWaiter_NotDispatched(c) ==
    /\ stage[c] = "cancelling"
    /\ IF c \in gate.done
       THEN Steps(c, [gate EXCEPT !.inUse = @ - 1, !.done = @ \ {c}], "idle")
       ELSE Steps(c, Withdrawn(gate, c), "idle")

\* CancelledError is raised in the call: _cancel_waiter.
CancelWaiter(c) ==
    /\ stage[c] = "cancelling"
    /\ IF c \in gate.done
       THEN Steps(c, Returned(gate, c), "idle")
       ELSE Steps(c, Withdrawn(gate, c), "idle")

\* The block ends, by any way out: _release, which refuses to underflow.
Release(c) ==
    /\ stage[c] = "holding" /\ gate.inUse >= 1
    /\ Steps(c, Returned(gate, c), "idle")

Next ==
    \E c \in Calls :
        Acquire(c) \/ Enter(c) \/ Cancel(c) \/ CancelWaiter(c) \/ Release(c)

Spec == Init /\ [][Next]_vars

\* A woken coroutine runs, and a call ends: a request to the provider and a
\* tool execution have time limits.
FairSpec ==
    /\ Spec
    /\ \A c \in Calls : WF_vars(Enter(c)) /\ WF_vars(CancelWaiter(c)) /\ WF_vars(Release(c))

-----------------------------------------------------------------------------
(***************************************************************************)
(* Properties.                                                             *)
(***************************************************************************)

\* in_use counts the calls that hold a permit, granted to them or entered with,
\* and never exceeds the limit: no interleaving of a grant with a cancellation
\* leaks a permit or returns it twice (_cancel_waiter, _release).
PermitsAccounted ==
    /\ gate.inUse = Cardinality(gate.done)
    /\ gate.inUse <= Limit
    /\ \A c \in Calls : /\ stage[c] = "holding" => c \in gate.done
                        /\ stage[c] = "idle" => c \notin gate.done

\* No call waits while a permit is free; it is also what ends the loop of
\* _dispatch after one turn.
NoIdlePermit == ~Free(gate)

\* The rotation lists the lanes with waiters, each once, and a queue holds the
\* calls of its lane that wait without a permit, each once: no cancellation
\* leaves a ghost behind that would be granted a permit nobody returns.
QueuesMatchWaiters ==
    LET listed(s, x) == {i \in 1 .. Len(s) : s[i] = x}
        waiting == {c \in Calls : stage[c] \in {"waiting", "cancelling"} /\ c \notin gate.done}
    IN  /\ \A l \in Lanes : Cardinality(listed(gate.roundRobin, l)) = IF Waits(gate, l) THEN 1 ELSE 0
        /\ \A l \in Lanes, c \in Calls :
              Cardinality(listed(gate.queues[l], c)) = IF c \in waiting /\ LaneOf[c] = l THEN 1 ELSE 0

\* "one group cannot monopolize released capacity" (docs/agent-harness.md):
\* while a lane waits, no other lane is served twice.
NoLaneServedTwice == \A l, k \in Lanes : passed[l][k] <= 1

\* Whoever waits is granted a permit or cancelled.
EveryWaiterServed ==
    \A c \in Calls : stage[c] = "waiting" ~> (c \in gate.done \/ stage[c] # "waiting")
=============================================================================
