------------------------------ MODULE ChatMirror ------------------------------
(***************************************************************************)
(* The local mirror of one chat: its message, attachment and blob rows     *)
(* (capabilities/im/repository.py), the encrypted blob files               *)
(* (storage/blobs.py), the admission of messages and of lifecycle events   *)
(* (admission.py, lifecycle.py, membership.py), the context that a mention *)
(* handler collects through the mirror (context_provider.py,               *)
(* attachments.py), and the offline garbage collection and purge           *)
(* (storage/maintenance.py).                                               *)
(*                                                                         *)
(* Transactions are single steps; every await between them is a place      *)
(* where any other handler may run.  What the model of a run does is in    *)
(* AgentRun; here a run saves checkpoints and ends.                        *)
(***************************************************************************)
EXTENDS Integers, FiniteSets

CONSTANTS
    Messages,      \* the messages of the chat, each with one attachment
    Triggers,      \* those that mention the bot
    ContentOf,     \* ContentOf[m]: the blob id of the attachment of m
    Changing,      \* bound: those that are edited or recalled
    MaxVersion,    \* bound: versions of a message
    MaxMoves,      \* bound: times the bot is removed from the chat or added
    MaxStops       \* bound: times the gateway stops

Blobs == {ContentOf[m] : m \in Messages}
None == "none"
Asked == "referenced"

ASSUME MessagesAssumption ==
    /\ IsFiniteSet(Messages) /\ Triggers \union Changing \subseteq Messages
    /\ ContentOf \in [Messages -> Blobs]
    /\ {None, Asked} \intersect Blobs = {}
ASSUME BoundsAssumption == MaxVersion \in Nat \ {0} /\ MaxMoves \in Nat /\ MaxStops \in Nat

VARIABLES
    source,     \* source[m]: what Feishu has: version, deleted
    present,    \* is the bot a member of the chat
    moves,      \* how often that changed: odd moves remove it, even ones add it
    access,     \* access_state (with enabled, bot_member_state) of the im_chats row
    row,        \* row[m]: version (0: no row) and tombstone of the im_messages row
    att,        \* att[m]: no im_attachments row, a row without a blob, or its blob
    meta,       \* the im_file_blobs rows
    files,      \* the blob files
    cited,      \* cited[t]: the checkpoint of t's run: message versions (0: not cited)
    mention,    \* mention[t]: the im.handle_mention task of t
    recall,     \* recall[m]: the im.invalidate_message task of m
    move,       \* move[i]: the task of the i-th membership change
    admitting,  \* the mentions between their two admission transactions
    doomed,     \* blobs the lifecycle handlers are about to delete
    unlinking,  \* blobs purge_all is about to delete, behind its lock
    up,         \* is the gateway running, with the lock of the data directory
    stops,      \* how often it stopped
    at,         \* at[t]: where the handler of t is
    page,       \* page[t]: the message it has in hand, as it was fetched
    evid,       \* evid[t]: the evidence it collected, like cited[t]
    raced,      \* history: blobs whose deletion met an ingest of the same content
    late,       \* history: runs that saved a checkpoint after their sources went
    crossed     \* history: membership tasks took effect out of order

feishu == <<source, present, moves>>
mirror == <<access, row, att, meta, files, unlinking>>
tasks == <<mention, recall, move>>
process == <<up, stops, admitting, doomed, at, page, evid>>
history == <<raced, late, crossed>>
vars == <<feishu, mirror, cited, tasks, process, history>>

Versions == 0 .. MaxVersion
Moves == 1 .. MaxMoves
NoEvidence == [m \in Messages |-> 0]
NoRow == [version |-> 0, gone |-> FALSE]

TypeOK ==
    /\ source \in [Messages -> [version : Versions, deleted : BOOLEAN]]
    /\ present \in BOOLEAN /\ moves \in 0 .. MaxMoves
    /\ access \in {"none", "visible", "revoked"}
    /\ row \in [Messages -> [version : Versions, gone : BOOLEAN]]
    /\ att \in [Messages -> {None, Asked} \union Blobs]
    /\ meta \subseteq Blobs /\ files \subseteq Blobs
    /\ cited \in [Triggers -> [Messages -> Versions]]
    /\ mention \in [Triggers -> {"none", "pending", "leased", "ended"}]
    /\ recall \in [Messages -> {"none", "pending", "leased", "ended"}]
    /\ move \in [Moves -> {"none", "pending", "leased", "verified", "acting", "ended"}]
    /\ up \in BOOLEAN /\ stops \in 0 .. MaxStops
    /\ admitting \subseteq Triggers /\ doomed \subseteq Blobs /\ unlinking \subseteq Blobs
    /\ at \in [Triggers -> {"off", "trigger", "mirror", "collected", "download", "record",
                            "parse", "loaded", "run"}]
    /\ page \in [Triggers -> [msg : Messages, version : Versions, deleted : BOOLEAN]]
    /\ evid \in [Triggers -> [Messages -> Versions]]
    /\ raced \subseteq Blobs /\ late \subseteq Triggers /\ crossed \in BOOLEAN

NoPage(t) == [msg |-> t, version |-> 0, deleted |-> FALSE]

Init ==
    /\ source = [m \in Messages |-> [version |-> 1, deleted |-> FALSE]]
    /\ present = TRUE /\ moves = 0
    /\ access = "none" /\ row = [m \in Messages |-> NoRow]
    /\ att = [m \in Messages |-> None] /\ meta = {} /\ files = {}
    /\ cited = [t \in Triggers |-> NoEvidence]
    /\ mention = [t \in Triggers |-> "none"] /\ recall = [m \in Messages |-> "none"]
    /\ move = [i \in Moves |-> "none"]
    /\ up = TRUE /\ stops = 0 /\ admitting = {} /\ doomed = {} /\ unlinking = {}
    /\ at = [t \in Triggers |-> "off"] /\ page = [t \in Triggers |-> NoPage(t)]
    /\ evid = [t \in Triggers |-> NoEvidence]
    /\ raced = {} /\ late = {} /\ crossed = FALSE

Goes(t, place) == at' = [at EXCEPT ![t] = place]
Referenced(atts) == {atts[m] : m \in Messages} \intersect Blobs
Cites(t, M) == \E m \in M : cited[t][m] > 0
\* DELETE FROM runtime_checkpoints by cited message.
CitedWithout(M) == [t \in Triggers |-> IF Cites(t, M) THEN NoEvidence ELSE cited[t]]

-----------------------------------------------------------------------------
(***************************************************************************)
(* Feishu.                                                                 *)
(***************************************************************************)
Edit(m) ==
    /\ m \in Changing /\ source[m].version < MaxVersion /\ ~source[m].deleted
    /\ source' = [source EXCEPT ![m].version = @ + 1]
    /\ UNCHANGED <<present, moves, mirror, cited, tasks, process, history>>

\* Sources carry times of a millisecond or a second: a recall may have the
\* version of what it recalls.
Recall(m) ==
    /\ m \in Changing /\ ~source[m].deleted
    /\ \E v \in {source[m].version, source[m].version + 1} \intersect Versions :
          source' = [source EXCEPT ![m] = [version |-> v, deleted |-> TRUE]]
    /\ UNCHANGED <<present, moves, mirror, cited, tasks, process, history>>

MoveBot ==
    /\ moves < MaxMoves /\ moves' = moves + 1 /\ present' = ~present
    /\ UNCHANGED <<source, mirror, cited, tasks, process, history>>

-----------------------------------------------------------------------------
(***************************************************************************)
(* SQLiteIMRepository.upsert_message.                                      *)
(***************************************************************************)

\* Mutant: a tombstone of the same version does not win.
Older_TieLoses(m, v, deleted) == row[m].version > v

\* The mirror has something newer, or a tombstone of the same version.
Older(m, v, deleted) ==
    row[m].version > v \/ (row[m].version = v /\ row[m].gone /\ ~deleted)

\* Mutant: the upsert of the chat row makes it visible.
SeenChat_Visible == access' = "visible"

\* _upsert_chat leaves a revoked row revoked.
SeenChat == access' = IF access = "revoked" THEN access ELSE "visible"

\* The rest of the transaction.  The attachment row is replaced, so its blob is
\* no longer referenced; metadata and file stay.  A live message that was
\* deleted has no attachment.
Upserts(p) ==
    /\ SeenChat
    /\ IF access = "revoked" \/ Older(p.msg, p.version, p.deleted)
       THEN UNCHANGED <<row, att, cited>>
       ELSE /\ row' = [row EXCEPT ![p.msg] = [version |-> p.version, gone |-> p.deleted]]
            /\ att' = [att EXCEPT ![p.msg] = IF p.deleted THEN None ELSE Asked]
            /\ cited' = IF row[p.msg].version \in {0, p.version} THEN cited
                        ELSE CitedWithout({p.msg})
    /\ UNCHANGED <<meta, files, unlinking>>

-----------------------------------------------------------------------------
(***************************************************************************)
(* Events.  Each may come late and more than once.                         *)
(***************************************************************************)

\* normalize_raw: an event carries the message as it was posted.
Posted(m) == [msg |-> m, version |-> 1, deleted |-> FALSE]

\* IMAdmissionService.admit up to the second transaction.
Receive(m) ==
    /\ up /\ Upserts(Posted(m))
    /\ admitting' = IF access = "revoked" THEN admitting ELSE admitting \union ({m} \intersect Triggers)
    /\ UNCHANGED <<feishu, tasks, up, stops, doomed, at, page, evid, history>>

\* The second transaction; a known event adds nothing.
Admit(t) ==
    /\ t \in admitting /\ admitting' = admitting \ {t}
    /\ mention' = [mention EXCEPT ![t] = IF @ = "none" THEN "pending" ELSE @]
    /\ UNCHANGED <<feishu, mirror, cited, recall, move, up, stops, doomed, at, page, evid, history>>

\* _dispatch: the callback waits no longer and cancels the admission.  Feishu
\* sends the event again.
TimesOut(t) ==
    /\ t \in admitting /\ admitting' = admitting \ {t}
    /\ UNCHANGED <<feishu, mirror, cited, tasks, up, stops, doomed, at, page, evid, history>>

\* handle_message_recalled.
AdmitRecall(m) ==
    /\ up /\ source[m].deleted /\ recall[m] = "none"
    /\ recall' = [recall EXCEPT ![m] = "pending"]
    /\ UNCHANGED <<feishu, mirror, cited, mention, move, process, history>>

\* handle_bot_removed and handle_bot_added.
AdmitMove(i) ==
    /\ up /\ i <= moves /\ move[i] = "none"
    /\ move' = [move EXCEPT ![i] = "pending"]
    /\ UNCHANGED <<feishu, mirror, cited, mention, recall, process, history>>

-----------------------------------------------------------------------------
(***************************************************************************)
(* IMLifecycleTaskHandler and MembershipTaskHandler.                       *)
(***************************************************************************)
IsRemoval(i) == i % 2 = 1

\* The tasks of one lane run one at a time: a lane of a recall has one task.
LeaseRecall(m) ==
    /\ up /\ recall[m] = "pending" /\ recall' = [recall EXCEPT ![m] = "leased"]
    /\ UNCHANGED <<feishu, mirror, cited, mention, move, process, history>>

LeaseMove(i) ==
    /\ up /\ move[i] = "pending"
    /\ \A j \in Moves : IsRemoval(i) = IsRemoval(j) => move[j] \notin {"leased", "verified", "acting"}
    /\ move' = [move EXCEPT ![i] = "leased"]
    /\ UNCHANGED <<feishu, mirror, cited, mention, recall, process, history>>

\* Mutant: blobs are given up without a look at other references.
Unreferenced_NotChecked(candidates, atts) == candidates

\* _drop_unreferenced_blob_metadata.
Unreferenced(candidates, atts) == candidates \ Referenced(atts)

\* What a lifecycle transaction does to blobs: the rows go with it, the files
\* after it.  An ingest that has its file in place is not noticed.
GivesUp(candidates) ==
    LET drop == Unreferenced(candidates, att')
    IN  /\ meta' = meta \ drop /\ doomed' = doomed \union drop
        /\ raced' = raced \union {b \in drop : \E t \in Triggers :
                                     at[t] = "record" /\ ContentOf[page[t].msg] = b}
        /\ UNCHANGED <<files, unlinking>>

\* invalidate_message.  That its task has not been completed yet shows when
\* the gateway stops.
Invalidate(m) ==
    /\ recall[m] = "leased" /\ recall' = [recall EXCEPT ![m] = "ended"]
    /\ IF row[m].version > source[m].version
       THEN UNCHANGED <<mirror, cited, doomed, raced>>
       ELSE /\ access' = IF access = "none" THEN "visible" ELSE access
            /\ row' = [row EXCEPT ![m] = [version |-> source[m].version, gone |-> TRUE]]
            /\ att' = [att EXCEPT ![m] = None]
            /\ cited' = CitedWithout({m})
            /\ GivesUp({att[m]} \intersect Blobs)
    /\ UNCHANGED <<feishu, mention, move, up, stops, admitting, at, page, evid, late, crossed>>

Later(i) == {j \in Moves : j > i}

\* Mutant: the rows of the messages are kept.
Purges_RowsKept ==
    /\ UNCHANGED <<row, att>> /\ cited' = CitedWithout(Messages)

\* revoke_chat_access removes every message, with its attachment and with the
\* checkpoints that cite it.
Purges ==
    /\ row' = [m \in Messages |-> NoRow]
    /\ att' = [m \in Messages |-> None]
    /\ cited' = CitedWithout({m \in Messages : row[m].version > 0})

\* revoke_chat_access.  It cancels every pending task of the chat but
\* revocations: mentions, recalls, and the restoration of access too.
Revoke(i) ==
    /\ move[i] = "leased" /\ IsRemoval(i)
    /\ access' = "revoked" /\ Purges
    /\ GivesUp(Referenced(att))
    /\ mention' = [t \in Triggers |-> IF mention[t] = "pending" THEN "ended" ELSE mention[t]]
    /\ recall' = [m \in Messages |-> IF recall[m] = "pending" THEN "ended" ELSE recall[m]]
    /\ move' = [j \in Moves |-> IF j = i THEN "acting"
                                ELSE IF ~IsRemoval(j) /\ move[j] = "pending" THEN "ended"
                                ELSE move[j]]
    /\ crossed' = (crossed \/ \E j \in Later(i) : move[j] \in {"pending", "acting", "ended"})
    /\ UNCHANGED <<feishu, up, stops, admitting, at, page, evid, late>>

\* ensure_current_user, an external service: it needs the bot in the chat.
Verify(i) ==
    /\ move[i] = "leased" /\ ~IsRemoval(i) /\ present
    /\ move' = [move EXCEPT ![i] = "verified"]
    /\ UNCHANGED <<feishu, mirror, cited, mention, recall, process, history>>

\* It fails, and the task is tried again or gives up.
FailMove(i) ==
    /\ move[i] = "leased" /\ ~IsRemoval(i)
    /\ \/ move' = [move EXCEPT ![i] = "pending"] /\ UNCHANGED crossed
       \/ move' = [move EXCEPT ![i] = "ended"] /\ crossed' = TRUE
    /\ UNCHANGED <<feishu, mirror, cited, mention, recall, process, raced, late>>

\* restore_chat_access.
Restore(i) ==
    /\ move[i] = "verified" /\ move' = [move EXCEPT ![i] = "acting"]
    /\ access' = "visible"
    /\ crossed' = (crossed \/ \E j \in Later(i) : move[j] \in {"acting", "ended"})
    /\ UNCHANGED <<feishu, row, att, meta, files, unlinking, cited, mention, recall, process,
                   raced, late>>

\* EncryptedBlobStore.delete, after the transaction.
DeleteBlob(b) ==
    /\ b \in doomed /\ doomed' = doomed \ {b} /\ files' = files \ {b}
    /\ UNCHANGED <<feishu, access, row, att, meta, unlinking, cited, tasks, up, stops, admitting,
                   at, page, evid, history>>

\* The handler returns; the worker completes the task.
EndMove(i) ==
    /\ move[i] = "acting" /\ move' = [move EXCEPT ![i] = "ended"]
    /\ UNCHANGED <<feishu, mirror, cited, mention, recall, process, history>>

-----------------------------------------------------------------------------
(***************************************************************************)
(* The handler of a mention: IMContextProvider.collect,                    *)
(* AttachmentService.load and the checkpoints of the run.                  *)
(***************************************************************************)
Snapshot(m) == [msg |-> m, version |-> source[m].version, deleted |-> source[m].deleted]
Holds(t, m) == page' = [page EXCEPT ![t] = Snapshot(m)]

LeaseMention(t) ==
    /\ up /\ mention[t] = "pending" /\ mention' = [mention EXCEPT ![t] = "leased"]
    /\ Goes(t, "trigger")
    /\ UNCHANGED <<feishu, mirror, cited, recall, move, up, stops, admitting, doomed, page, evid, history>>

\* PermissionError, LookupError, FileNotFoundError: the attempt is over.
Fails(t) ==
    /\ Goes(t, "off") /\ evid' = [evid EXCEPT ![t] = NoEvidence]
    /\ page' = [page EXCEPT ![t] = NoPage(t)]
    /\ mention' \in {[mention EXCEPT ![t] = s] : s \in {"pending", "ended"}}

Continues(t, place) == Goes(t, place) /\ UNCHANGED <<mention, page, evid>>

\* recent_attachments: what the mirror knows to be live and to have a file.
Observed(t) == {m \in Messages \ {t} : att[m] # None /\ ~row[m].gone}

\* The history is not available: _recover_observed_attachments fetches one of
\* the messages whose file was seen.
Recover(t) ==
    /\ at[t] = "collected"
    /\ \E m \in Observed(t) : evid[t][m] = 0 /\ Holds(t, m)
    /\ Goes(t, "mirror")
    /\ UNCHANGED <<feishu, mirror, cited, tasks, up, stops, admitting, doomed, evid, history>>

\* get_message of the trigger, then a message of its history.
Fetch(t) ==
    /\ \/ at[t] = "trigger" /\ Holds(t, t)
       \/ /\ at[t] = "collected"
          /\ \E m \in Messages \ {t} : evid[t][m] = 0 /\ Holds(t, m)
    /\ Goes(t, "mirror")
    /\ UNCHANGED <<feishu, mirror, cited, tasks, up, stops, admitting, doomed, evid, history>>

\* The fetched message is mirrored, and becomes evidence unless it is deleted.
Mirror(t) ==
    LET p == page[t]
    IN  /\ at[t] = "mirror" /\ Upserts(p)
        /\ IF access = "revoked" \/ (p.deleted /\ p.msg = t)
           THEN Fails(t)
           ELSE /\ evid' = [evid EXCEPT ![t][p.msg] = IF p.deleted THEN 0 ELSE p.version]
                /\ Goes(t, "collected") /\ UNCHANGED <<mention, page>>
        /\ UNCHANGED <<feishu, recall, move, up, stops, admitting, doomed, history>>

\* _plan_attachments: files of the trigger and of the messages it relates to or
\* names, one at a time and any number of them.
Planned(t) == {m \in Messages : evid[t][m] > 0}

Loads(t, m, place) ==
    /\ Goes(t, place) /\ page' = [page EXCEPT ![t].msg = m] /\ UNCHANGED <<mention, evid>>

\* StorageCapacityMonitor.snapshot does not permit the download: the evidence
\* says so, and no file comes with it.
UnderPressure(t) == Continues(t, "loaded")

\* get_attachment.  Without a blob it is downloaded, unless storage is under
\* pressure; with one the file is read.
Look(t) ==
    /\ at[t] \in {"collected", "loaded"}
    /\ \E m \in Planned(t) :
          \/ att[m] = None /\ Fails(t)
          \/ att[m] = Asked /\ (Loads(t, m, "download") \/ UnderPressure(t))
          \/ att[m] \in files /\ Loads(t, m, "parse")
          \/ att[m] \in Blobs \ files /\ Fails(t)
    /\ UNCHANGED <<feishu, mirror, cited, recall, move, up, stops, admitting, doomed, history>>

\* The download ends, and EncryptedBlobStore.put finds the file or writes it.
Put(t) ==
    LET b == ContentOf[page[t].msg]
    IN  /\ at[t] = "download"
        /\ \/ files' = files \union {b} /\ Continues(t, "record")
              /\ raced' = raced \union ({b} \intersect (doomed \union unlinking))
           \/ Fails(t) /\ UNCHANGED <<files, raced>>
        /\ UNCHANGED <<feishu, access, row, att, meta, unlinking, cited, recall, move, up, stops,
                       admitting, doomed, late, crossed>>

\* record_attachment_blob: all or nothing.
Record(t) ==
    LET m == page[t].msg
    IN  /\ at[t] = "record"
        /\ IF att[m] = None
           THEN Fails(t) /\ UNCHANGED <<att, meta>>
           ELSE /\ att' = [att EXCEPT ![m] = ContentOf[m]]
                /\ meta' = meta \union {ContentOf[m]}
                /\ Continues(t, "parse")
        /\ UNCHANGED <<feishu, access, row, files, unlinking, cited, recall, move, up, stops, admitting,
                       doomed, history>>

\* record_attachment_parse.
Parse(t) ==
    /\ at[t] = "parse"
    /\ IF att[page[t].msg] = None THEN Fails(t) ELSE Continues(t, "loaded")
    /\ UNCHANGED <<feishu, mirror, cited, recall, move, up, stops, admitting, doomed, history>>

\* Harness.run: a checkpoint that cites other versions is discarded.
Run(t) ==
    /\ at[t] \in {"collected", "loaded"} /\ Continues(t, "run")
    /\ cited' = [cited EXCEPT ![t] = IF @ = evid[t] THEN @ ELSE NoEvidence]
    /\ UNCHANGED <<feishu, mirror, recall, move, up, stops, admitting, doomed, history>>

\* save_checkpoint, with its source rows.
SaveCheckpoint(t) ==
    /\ at[t] = "run" /\ cited' = [cited EXCEPT ![t] = evid[t]]
    /\ late' = late \union {u \in {t} : access = "revoked" \/
                               \E m \in Messages : evid[t][m] > 0 /\ row[m].version = 0}
    /\ UNCHANGED <<feishu, mirror, tasks, process, raced, crossed>>

Finish(t) ==
    /\ at[t] = "run" /\ Goes(t, "off") /\ mention' = [mention EXCEPT ![t] = "ended"]
    /\ evid' = [evid EXCEPT ![t] = NoEvidence] /\ page' = [page EXCEPT ![t] = NoPage(t)]
    /\ UNCHANGED <<feishu, mirror, cited, recall, move, up, stops, admitting, doomed, history>>

-----------------------------------------------------------------------------
(***************************************************************************)
(* The process, and what is done while it is stopped.                      *)
(***************************************************************************)
Again(state) == IF state \in {"leased", "verified", "acting"} THEN "pending" ELSE state

\* The process dies or stops; leases expire before the next one leases.
Stop ==
    /\ up /\ stops < MaxStops /\ up' = FALSE /\ stops' = stops + 1
    /\ mention' = [t \in Triggers |-> Again(mention[t])]
    /\ \E done \in SUBSET {m \in Messages : recall[m] = "ended"} :
          recall' = [m \in Messages |-> IF recall[m] = "none" \/ m \in done THEN recall[m]
                                        ELSE "pending"]
    /\ move' = [i \in Moves |-> Again(move[i])]
    /\ admitting' = {} /\ doomed' = {}
    /\ at' = [t \in Triggers |-> "off"] /\ page' = [t \in Triggers |-> NoPage(t)]
    /\ evid' = [t \in Triggers |-> NoEvidence]
    /\ UNCHANGED <<feishu, mirror, cited, history>>

\* OfficialChannelEventSource.start, with the lock of the data directory.
Start ==
    /\ ~up /\ up' = TRUE
    /\ UNCHANGED <<feishu, mirror, cited, tasks, stops, admitting, doomed, at, page, evid, history>>

\* DataDirectoryLock: the gateway runs, or maintenance does.
LockIsFree == ~up

RowsOf(messages, attachments) ==
    /\ row' = [m \in Messages |-> IF m \in messages THEN NoRow ELSE row[m]]
    /\ att' = [m \in Messages |-> IF m \in messages \union attachments THEN None ELSE att[m]]

\* _bounded_blob_files: of the blobs nothing refers to any more a batch is
\* deleted, and its metadata in one more transaction behind that.
CollectsBlobs ==
    \E D \in SUBSET (Blobs \ Referenced(att')) : files' = files \ D /\ meta' \in {meta, meta \ D}

\* garbage_collect: expired messages S and expired attachments A, with the
\* checkpoints that cite them; R are runs that loaded an attachment of A.
GarbageCollect ==
    /\ LockIsFree
    /\ \E S, A \in SUBSET Messages, R \in SUBSET Triggers :
          /\ S \union A \subseteq {m \in Messages : row[m].version > 0}
          /\ \A t \in R : Cites(t, A)
          /\ RowsOf(S, A) /\ CollectsBlobs
          /\ cited' = [t \in Triggers |-> IF Cites(t, S) \/ t \in R THEN NoEvidence ELSE cited[t]]
    /\ UNCHANGED <<feishu, access, unlinking, tasks, process, history>>

\* _drop_blob_metadata in the transaction, _delete_blob_ids behind it: the
\* purge may die before it has deleted every file.
DropsBlobs(messages) ==
    LET drop == Unreferenced({att[m] : m \in messages} \intersect Blobs, att')
    IN  meta' = meta \ drop /\ \E D \in SUBSET drop : files' = files \ D

\* _prepare_purge_tables: the tasks of the events of these messages and moves.
DropsTasks(messages, changes) ==
    /\ mention' = [t \in Triggers |-> IF t \in messages THEN "none" ELSE mention[t]]
    /\ recall' = [m \in Messages |-> IF m \in messages THEN "none" ELSE recall[m]]
    /\ move' = [i \in Moves |-> IF i \in changes THEN "none" ELSE move[i]]

\* purge_message: the runs of its tasks lose their checkpoints too.
PurgeMessage(m) ==
    /\ LockIsFree /\ row[m].version > 0
    /\ RowsOf({m}, {}) /\ DropsBlobs({m}) /\ DropsTasks({m}, {})
    /\ cited' = [t \in Triggers |-> IF t = m THEN NoEvidence ELSE CitedWithout({m})[t]]
    /\ UNCHANGED <<feishu, access, unlinking, process, history>>

\* The rows of the chat and of all its tasks, whether or not it is revoked.
PurgesChat ==
    /\ access' = "none" /\ RowsOf(Messages, {}) /\ DropsTasks(Messages, Moves)
    /\ cited' = [t \in Triggers |-> NoEvidence]
    /\ crossed' = (crossed \/ access = "revoked" \/ \E i \in Moves : move[i] # "none")
    /\ UNCHANGED <<feishu, process, raced, late>>

PurgeChat ==
    /\ LockIsFree /\ access # "none"
    /\ PurgesChat /\ DropsBlobs(Messages) /\ UNCHANGED unlinking

\* purge_tenant: a task or an event of the tenant is enough.
PurgeTenant ==
    /\ LockIsFree
    /\ \/ access # "none"
       \/ \E t \in Triggers : mention[t] # "none"
       \/ \E m \in Messages : recall[m] # "none"
       \/ \E i \in Moves : move[i] # "none"
    /\ PurgesChat /\ DropsBlobs(Messages) /\ UNCHANGED unlinking

\* purge_all: every row in one transaction.  The files it has listed are
\* deleted when it no longer has the lock.
PurgeAll ==
    /\ LockIsFree /\ PurgesChat
    /\ meta' = {} /\ unlinking' \in SUBSET files /\ UNCHANGED files

Unlink(b) ==
    /\ b \in unlinking /\ unlinking' = unlinking \ {b} /\ files' = files \ {b}
    /\ UNCHANGED <<feishu, access, row, att, meta, cited, tasks, process, history>>

-----------------------------------------------------------------------------
Handler(t) ==
    \/ LeaseMention(t) \/ Fetch(t) \/ Recover(t) \/ Mirror(t) \/ Look(t) \/ Put(t) \/ Record(t)
    \/ Parse(t) \/ Run(t) \/ SaveCheckpoint(t) \/ Finish(t)

Next ==
    \/ \E m \in Messages : Edit(m) \/ Recall(m) \/ Receive(m) \/ AdmitRecall(m)
                             \/ LeaseRecall(m) \/ Invalidate(m) \/ PurgeMessage(m)
    \/ \E i \in Moves : AdmitMove(i) \/ LeaseMove(i) \/ Revoke(i) \/ Verify(i) \/ FailMove(i)
                          \/ Restore(i) \/ EndMove(i)
    \/ \E t \in Triggers : Admit(t) \/ TimesOut(t) \/ Handler(t)
    \/ \E b \in Blobs : DeleteBlob(b) \/ Unlink(b)
    \/ MoveBot \/ Stop \/ Start \/ GarbageCollect \/ PurgeChat \/ PurgeTenant \/ PurgeAll

Spec == Init /\ [][Next]_vars

-----------------------------------------------------------------------------
(***************************************************************************)
(* Properties.                                                             *)
(***************************************************************************)

\* A recalled message stays recalled: no late receive event, no stale page and
\* no backfill brings its content back.  Only the removal of the row (a purge,
\* retention, loss of access) ends a tombstone (upsert_message).
TombstoneStays ==
    [][\A m \in Messages : row[m].gone => row'[m].gone \/ row'[m] = NoRow]_vars

\* While access to the chat is revoked nothing of its content is left in the
\* mirror, whatever handlers were under way: no message but tombstones, no
\* attachment, no checkpoint.  Only a run that was under way may save one
\* more checkpoint (revoke_chat_access, upsert_message, record_attachment_blob).
RevokedIsEmpty ==
    access = "revoked" =>
        /\ \A m \in Messages : att[m] = None /\ (row[m] = NoRow \/ row[m].gone)
        /\ \A t \in Triggers : cited[t] # NoEvidence => t \in late

\* An attachment that has a blob has its metadata and its file, although files
\* are shared by content and deleted after the transaction.  The one exception is
\* a deletion that meets an ingest of the same content: that of a lifecycle
\* handler, or that of purge_all once a gateway runs again (put, delete).
BlobsPresent ==
    Referenced(att) \subseteq meta /\ Referenced(att) \ files \subseteq raced

\* Once the membership changes were handled, the mirror is open if and only if
\* the bot is in the chat: late receive events neither restore nor close it.
\* It can be wrong only when the two kinds of task overtook each other, a
\* restoration gave up, or the chat was purged (restore_chat_access).
AccessFollowsBot ==
    (\A i \in 1 .. moves : move[i] = "ended") /\ ~crossed => ((access = "revoked") <=> ~present)
=============================================================================
