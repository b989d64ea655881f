------------------------------ MODULE MCAgentRun ------------------------------
(* Small instances of AgentRun for TLC. *)
EXTENDS AgentRun

\* The root writes and delegates a destructive operation to a child.
TeamTools == [r \in {"root", "child"} |-> IF r = "root" THEN {"update"} ELSE {"delete"}]
\* A lone root with a tool that needs an approval.
LoneTools == [r \in {"root"} |-> {"delete"}]
TeamCalls == [r \in {"root", "child"} |-> IF r = "root" THEN 2 ELSE 1]
LoneCalls == [r \in {"root"} |-> 2]
=============================================================================
