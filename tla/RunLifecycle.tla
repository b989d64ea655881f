----------------------------- MODULE RunLifecycle -----------------------------
(***************************************************************************)
(* What the agent runs of one task promise, whatever the harness does in   *)
(* between: a run ends once; a message that was accepted for the task is   *)
(* heard or dropped once; an external write is sent at most once.          *)
(* AgentRun is shown to implement this module.                             *)
(***************************************************************************)
CONSTANTS
    Runs,       \* runs of the task: its root run and those it delegates to
    Controls,   \* mentions that were taken as controls of the task
    Writes      \* operation keys of external writes

VARIABLES
    run,        \* run[r]: status of the runtime_runs row
    control,    \* control[c]: state of the runtime_run_controls row
    sent        \* sent[k]: how often the write of key k was sent

lifecycle == <<run, control, sent>>

Ended == {"completed", "failed", "cancelled"}
RunStatus == {"none", "running"} \union Ended
ControlState == {"none", "pending", "applied", "superseded"}

Init ==
    /\ run = [r \in Runs |-> "none"]
    /\ control = [c \in Controls |-> "none"]
    /\ sent = [k \in Writes |-> 0]

RunMoves(r) ==
    \/ run'[r] = run[r]
    \/ run[r] = "none" /\ run'[r] = "running"
    \/ run[r] = "running" /\ run'[r] \in Ended

EndsWithoutAnswer(r) ==
    run[r] = "running" /\ run'[r] \in {"failed", "cancelled"}

\* A control is dropped only by the end of a run that has no answer to give.
ControlMoves(c) ==
    \/ control'[c] = control[c]
    \/ control[c] = "none" /\ control'[c] = "pending"
    \/ control[c] = "pending" /\ control'[c] = "applied"
    \/ control[c] = "pending" /\ control'[c] = "superseded"
          /\ \E r \in Runs : EndsWithoutAnswer(r)

WriteMoves(k) ==
    \/ sent'[k] = sent[k]
    \/ sent[k] = 0 /\ sent'[k] = 1

Next ==
    /\ run' \in [Runs -> RunStatus] /\ \A r \in Runs : RunMoves(r)
    /\ control' \in [Controls -> ControlState] /\ \A c \in Controls : ControlMoves(c)
    /\ sent' \in [Writes -> {0, 1}] /\ \A k \in Writes : WriteMoves(k)

Spec == Init /\ [][Next]_lifecycle
=============================================================================
