------------------------------- MODULE MCOutbox -------------------------------
(* Small instances of Outbox for TLC: one task with every kind of reply, and  *)
(* one that is only acknowledged and answered.                                *)
EXTENDS Outbox

AllKinds == <<"ack", "control", "progress", "approval", "decision", "terminal">>
FewKinds == <<"ack", "progress", "terminal">>
AllOfOne == [m \in 1 .. 6 |-> "t1"]
FewOfOne == [m \in 1 .. 3 |-> "t1"]
=============================================================================
