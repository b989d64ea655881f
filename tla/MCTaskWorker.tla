---------------------------- MODULE MCTaskWorker ----------------------------
(* Small instances of TaskWorker for TLC. *)
EXTENDS TaskWorker

\* Lane keys: that of an app belongs to one tenant, that of a group to one app.
At(tenant, app, chat, group, session) ==
    [tenant |-> tenant, app |-> app, chat |-> chat,
     group |-> group, session |-> session]

\* Task 1 removes the bot from c1; tasks 2 and 3 are mentions of one thread of
\* c1, and task 3 is a row older than the group_id column.
QueueScope ==
    << At("t1", "t1/a1", "c1", "c1", "c1/access"),
       At("t1", "t1/a1", "c1", "c1", "c1/thread"),
       At("t1", "t1/a1", "c1", "none", "c1/thread") >>

\* Two busy sessions of one tenant and a quiet one of another tenant.
LanesScope ==
    << At("t1", "t1/a1", "c1", "c1", "c1/thread"),
       At("t1", "t1/a1", "c2", "c2", "c2/thread"),
       At("t2", "t2/a1", "c3", "c3", "c3/thread") >>

OneResult == {"succeeded"}
=============================================================================
