---------------------------- MODULE TaskLifecycle ----------------------------
(***************************************************************************)
(* What the durable queue promises its clients (docs/architecture.md 6.1   *)
(* and 6.2), without leases, attempts, cursors or processes: an accepted   *)
(* request is queued or running until it is done, once; requests of one    *)
(* session run one at a time, and never more than Capacity in all.         *)
(***************************************************************************)
EXTENDS Integers, FiniteSets

CONSTANTS Requests, SessionOf, Capacity

VARIABLE status

In(s) == {r \in Requests : status[r] = s}
Move(S, s) == status' = [r \in Requests |-> IF r \in S THEN s ELSE status[r]]

Init == status = [r \in Requests |-> "absent"]

Accept(r) == r \in In("absent") /\ Move({r}, "queued")

\* Requests that may run next to the ones running now.
Startable(S) ==
    /\ Cardinality(S \cup In("running")) <= Capacity
    /\ \A r \in S, q \in S \cup In("running") :
          r # q => SessionOf[r] # SessionOf[q]

Dispatch(S) == S \subseteq In("queued") /\ Startable(S) /\ Move(S, "running")

GiveBack(r) == r \in In("running") /\ Move({r}, "queued")

Settle(S) == S \subseteq In("queued") \cup In("running") /\ Move(S, "done")

Next ==
    \/ \E r \in Requests : Accept(r) \/ GiveBack(r)
    \/ \E S \in SUBSET Requests : Dispatch(S) \/ Settle(S)

Spec == Init /\ [][Next]_status
=============================================================================
