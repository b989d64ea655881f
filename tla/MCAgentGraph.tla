----------------------------- MODULE MCAgentGraph -----------------------------
(* Small instances of AgentGraph for TLC. *)
EXTENDS AgentGraph

\* One child reads, the other one writes a document.
Child == [c \in {"d1", "d2"} |-> IF c = "d1" THEN "reader" ELSE "writer"]
Targets == [n \in {"reader", "writer"} |-> IF n = "writer" THEN {"doc"} ELSE {}]
ToWriter == [m \in {"m1"} |-> "writer"]
=============================================================================
