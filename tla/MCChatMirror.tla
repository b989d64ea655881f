----------------------------- MODULE MCChatMirror -----------------------------
(* Small instances of ChatMirror for TLC. *)
EXTENDS ChatMirror

\* A mention and an earlier message carry the same file.
SameFile == [m \in {"ask", "file"} |-> "blob"]
=============================================================================
