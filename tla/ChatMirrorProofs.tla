--------------------------- MODULE ChatMirrorProofs ---------------------------
(***************************************************************************)
(* For any number of messages, mentions, edits, recalls, membership        *)
(* changes and stops: a recalled message stays recalled, a revoked chat is *)
(* empty, a blob that is referenced is present, and access to the chat     *)
(* follows the bot.                                                        *)
(***************************************************************************)
EXTENDS ChatMirror, TLAPS

\* What the mirror and the pages in hand know of Feishu is not ahead of it,
\* and a deletion they know of is its last word.
KnownPage(p) ==
    /\ p.version >= 1 /\ p.version <= source[p.msg].version
    /\ p.deleted => source[p.msg].deleted /\ p.version = source[p.msg].version
KnownFromSource ==
    /\ \A m \in Messages :
          /\ source[m].version >= 1
          /\ recall[m] # "none" => source[m].deleted
          /\ row[m].gone => source[m].deleted /\ row[m].version = source[m].version
    /\ \A t \in Triggers : at[t] = "mirror" => KnownPage(page[t])

\* A checkpoint cites messages that have a row, unless it was saved too late.
CitedHasRow ==
    \A t \in Triggers \ late : \A m \in Messages : cited[t][m] > 0 => row[m].version > 0

\* Outside of a gateway no handler has anything in hand.
StoppedIsQuiet ==
    ~up => /\ doomed = {}
           /\ \A t \in Triggers : at[t] = "off"
           /\ \A m \in Messages : recall[m] # "leased"
           /\ \A i \in Moves : move[i] \notin {"leased", "verified"}

\* A blob that is about to be recorded has its file, and one that is about to
\* be deleted is neither referenced nor about to be recorded, or it raced.
Recording(b) == \E t \in Triggers : at[t] = "record" /\ ContentOf[page[t].msg] = b
DeletionsRace ==
    /\ \A b \in Blobs : Recording(b) => b \in files \union raced
    /\ \A b \in doomed \union unlinking :
          Recording(b) \/ b \in Referenced(att) => b \in raced

\* Access is what the last membership change made it, once that was handled.
LastMoveDecides ==
    /\ \A i \in Moves : /\ move[i] # "none" => i <= moves
                        /\ move[i] = "verified" => ~IsRemoval(i)
    /\ access = "revoked" => moves > 0
    /\ present <=> moves % 2 = 0
    /\ ~crossed /\ moves > 0 =>
          (move[moves] \in {"acting", "ended"} => (access = "revoked" <=> IsRemoval(moves)))

\* The inductive invariant.
MirrorInv ==
    /\ TypeOK /\ KnownFromSource
    /\ RevokedIsEmpty /\ CitedHasRow
    /\ StoppedIsQuiet /\ BlobsPresent /\ DeletionsRace
    /\ LastMoveDecides

-----------------------------------------------------------------------------
(***************************************************************************)
(* Types.                                                                  *)
(***************************************************************************)

\* upsert_message: a message of the mirror takes the version of the page, or
\* nothing of it.
LEMMA UpsertsEffect ==
    ASSUME TypeOK, NEW p \in [msg : Messages, version : Versions, deleted : BOOLEAN], Upserts(p)
    PROVE  /\ access' \in {"none", "visible", "revoked"}
           /\ access' = "revoked" <=> access = "revoked"
           /\ row' \in [Messages -> [version : Versions, gone : BOOLEAN]]
           /\ att' \in [Messages -> {None, Asked} \union Blobs]
           /\ cited' \in [Triggers -> [Messages -> Versions]]
           /\ UNCHANGED <<meta, files, unlinking>>
           /\ access = "revoked" => UNCHANGED <<row, att, cited>>
           /\ \A m \in Messages :
                 \/ row'[m] = row[m]
                 \/ /\ m = p.msg /\ ~Older(m, p.version, p.deleted)
                    /\ row'[m] = [version |-> p.version, gone |-> p.deleted]
           /\ \A m \in Messages : att'[m] = att[m] \/ att'[m] \in {None, Asked}
           /\ \A t \in Triggers : cited'[t] = cited[t] \/ cited'[t] = NoEvidence
<1>1. p.msg \in Messages /\ p.version \in Versions /\ p.deleted \in BOOLEAN
  OBVIOUS
<1>2. /\ access \in {"none", "visible", "revoked"}
      /\ row \in [Messages -> [version : Versions, gone : BOOLEAN]]
      /\ att \in [Messages -> {None, Asked} \union Blobs]
      /\ cited \in [Triggers -> [Messages -> Versions]]
      /\ NoEvidence \in [Messages -> Versions]
  BY BoundsAssumption DEF TypeOK, NoEvidence, Versions
<1>3. /\ access' \in {"none", "visible", "revoked"}
      /\ access' = "revoked" <=> access = "revoked"
      /\ UNCHANGED <<meta, files, unlinking>>
  BY <1>2 DEF Upserts, SeenChat
<1>4. CASE access = "revoked" \/ Older(p.msg, p.version, p.deleted)
  <2>1. UNCHANGED <<row, att, cited>>
    BY <1>4 DEF Upserts
  <2> QED
    BY <1>2, <1>3, <2>1
<1>5. CASE ~(access = "revoked" \/ Older(p.msg, p.version, p.deleted))
  <2> DEFINE new == [version |-> p.version, gone |-> p.deleted]
             slot == IF p.deleted THEN None ELSE Asked
  <2>1. /\ row' = [row EXCEPT ![p.msg] = new]
        /\ att' = [att EXCEPT ![p.msg] = slot]
        /\ cited' = IF row[p.msg].version \in {0, p.version} THEN cited
                    ELSE CitedWithout({p.msg})
    BY <1>5 DEF Upserts
  <2>2. new \in [version : Versions, gone : BOOLEAN] /\ slot \in {None, Asked}
    BY <1>1
  <2>3. /\ cited' \in [Triggers -> [Messages -> Versions]]
        /\ \A t \in Triggers : cited'[t] = cited[t] \/ cited'[t] = NoEvidence
    BY <1>2, <2>1 DEF CitedWithout
  <2> HIDE DEF slot
  <2>4. row' \in [Messages -> [version : Versions, gone : BOOLEAN]]
    BY <1>1, <1>2, <2>1, <2>2
  <2>5. att' \in [Messages -> {None, Asked} \union Blobs]
    BY <1>1, <1>2, <2>1, <2>2
  <2>6. \A m \in Messages : m # p.msg => row'[m] = row[m] /\ att'[m] = att[m]
    BY <1>2, <2>1
  <2>7. row'[p.msg] = new /\ att'[p.msg] = slot
    BY <1>1, <1>2, <2>1
  <2> QED
    BY <1>3, <1>5, <2>2, <2>3, <2>4, <2>5, <2>6, <2>7
<1> QED
  BY <1>4, <1>5

\* Garbage collection and purges: rows and attachments go, and nothing comes.
LEMMA RowsOfEffect ==
    ASSUME TypeOK, NEW S, NEW A, RowsOf(S, A)
    PROVE  /\ row' \in [Messages -> [version : Versions, gone : BOOLEAN]]
           /\ att' \in [Messages -> {None, Asked} \union Blobs]
           /\ \A m \in Messages : /\ m \in S => row'[m] = NoRow /\ att'[m] = None
                                  /\ m \notin S => row'[m] = row[m]
                                  /\ att'[m] = att[m] \/ att'[m] = None
<1>1. NoRow \in [version : Versions, gone : BOOLEAN]
  BY BoundsAssumption DEF NoRow, Versions
<1> QED
  BY <1>1 DEF TypeOK, RowsOf

LEMMA CitedWithoutEffect ==
    ASSUME TypeOK, NEW M
    PROVE  /\ CitedWithout(M) \in [Triggers -> [Messages -> Versions]]
           /\ \A t \in Triggers : \/ CitedWithout(M)[t] = NoEvidence
                                  \/ CitedWithout(M)[t] = cited[t] /\ ~Cites(t, M)
           /\ NoEvidence \in [Messages -> Versions]
<1>1. NoEvidence \in [Messages -> Versions]
  BY BoundsAssumption DEF NoEvidence, Versions
<1> QED
  BY <1>1 DEF TypeOK, CitedWithout

\* The attempt of a mention handler is over: nothing is in its hands.
LEMMA FailsEffect ==
    ASSUME TypeOK, NEW t \in Triggers, Fails(t)
    PROVE  /\ at' = [at EXCEPT ![t] = "off"]
           /\ evid' \in [Triggers -> [Messages -> Versions]]
           /\ page' \in [Triggers -> [msg : Messages, version : Versions, deleted : BOOLEAN]]
           /\ mention' \in [Triggers -> {"none", "pending", "leased", "ended"}]
           /\ \A u \in Triggers : u # t => page'[u] = page[u]
<1>1. NoEvidence \in [Messages -> Versions]
  BY BoundsAssumption DEF NoEvidence, Versions
<1>2. NoPage(t) \in [msg : Messages, version : Versions, deleted : BOOLEAN]
  BY BoundsAssumption, MessagesAssumption DEF NoPage, Versions
<1> QED
  BY <1>1, <1>2 DEF TypeOK, Fails, Goes

LEMMA SnapshotType ==
    ASSUME TypeOK, NEW m \in Messages
    PROVE  /\ Snapshot(m) \in [msg : Messages, version : Versions, deleted : BOOLEAN]
           /\ Posted(m) \in [msg : Messages, version : Versions, deleted : BOOLEAN]
<1>1. source[m] \in [version : Versions, deleted : BOOLEAN]
  BY DEF TypeOK
<1> QED
  BY <1>1, BoundsAssumption DEF Snapshot, Posted, Versions

LEMMA TypesOfEvents ==
    ASSUME TypeOK, NEW m \in Messages,
           Edit(m) \/ Recall(m) \/ Receive(m) \/ AdmitRecall(m) \/ LeaseRecall(m)
    PROVE  TypeOK'
<1>1. source[m] \in [version : Versions, deleted : BOOLEAN]
  BY DEF TypeOK
<1>2. CASE Edit(m)
  <2> DEFINE s == [source[m] EXCEPT !.version = source[m].version + 1]
  <2>2. s \in [version : Versions, deleted : BOOLEAN]
    BY <1>1, <1>2, BoundsAssumption DEF Edit, Versions
  <2>3. source' = [source EXCEPT ![m] = s]
    BY <1>2 DEF Edit
  <2> HIDE DEF s
  <2>4. source' \in [Messages -> [version : Versions, deleted : BOOLEAN]]
    BY <2>2, <2>3 DEF TypeOK
  <2> QED
    BY <1>2, <2>4 DEF TypeOK, Edit, mirror, tasks, process, history
<1>3. CASE Recall(m)
  <2>1. PICK v \in Versions : source' = [source EXCEPT ![m] = [version |-> v, deleted |-> TRUE]]
    BY <1>3 DEF Recall
  <2>2. source' \in [Messages -> [version : Versions, deleted : BOOLEAN]]
    BY <2>1 DEF TypeOK
  <2> QED
    BY <1>3, <2>2 DEF TypeOK, Recall, mirror, tasks, process, history
<1>4. CASE Receive(m)
  BY <1>4, UpsertsEffect, SnapshotType DEF TypeOK, Receive, feishu, tasks, history
<1>5. CASE AdmitRecall(m)
  BY <1>5 DEF TypeOK, AdmitRecall, feishu, mirror, process, history
<1>6. CASE LeaseRecall(m)
  BY <1>6 DEF TypeOK, LeaseRecall, feishu, mirror, process, history
<1> QED
  BY <1>2, <1>3, <1>4, <1>5, <1>6

LEMMA GivesUpEffect ==
    ASSUME TypeOK, NEW C \in SUBSET Blobs, GivesUp(C)
    PROVE  LET drop == C \ Referenced(att')
           IN  /\ meta' = meta \ drop /\ doomed' = doomed \union drop
               /\ raced' = raced \union {b \in drop : Recording(b)}
               /\ meta' \subseteq Blobs /\ doomed' \subseteq Blobs /\ raced' \subseteq Blobs
               /\ UNCHANGED <<files, unlinking>>
BY DEF TypeOK, GivesUp, Unreferenced, Recording

LEMMA TypesOfLifecycle ==
    ASSUME TypeOK,
           \/ \E m \in Messages : Invalidate(m)
           \/ \E i \in Moves : \/ AdmitMove(i) \/ LeaseMove(i) \/ Revoke(i) \/ Verify(i)
                               \/ FailMove(i) \/ Restore(i) \/ EndMove(i)
           \/ \E b \in Blobs : DeleteBlob(b) \/ Unlink(b)
    PROVE  TypeOK'
<1>1. ASSUME NEW m \in Messages, Invalidate(m)
      PROVE  TypeOK'
  <2>1. CASE row[m].version > source[m].version
    BY <1>1, <2>1 DEF TypeOK, Invalidate, feishu, mirror
  <2>2. CASE ~(row[m].version > source[m].version)
    <3> DEFINE new == [version |-> source[m].version, gone |-> TRUE]
               C == {att[m]} \intersect Blobs
    <3>1. /\ access' = (IF access = "none" THEN "visible" ELSE access)
          /\ row' = [row EXCEPT ![m] = new]
          /\ att' = [att EXCEPT ![m] = None] /\ cited' = CitedWithout({m})
          /\ GivesUp(C)
          /\ recall' = [recall EXCEPT ![m] = "ended"]
          /\ UNCHANGED <<feishu, mention, move, up, stops, admitting, at, page, evid, late, crossed>>
      BY <1>1, <2>2 DEF Invalidate
    <3>2. new \in [version : Versions, gone : BOOLEAN]
      BY DEF TypeOK
    <3>3. C \in SUBSET Blobs
      OBVIOUS
    <3> HIDE DEF new, C
    <3>4. meta' \subseteq Blobs /\ doomed' \subseteq Blobs /\ raced' \subseteq Blobs
          /\ UNCHANGED <<files, unlinking>>
      BY <3>1, <3>3, GivesUpEffect
    <3>5. row' \in [Messages -> [version : Versions, gone : BOOLEAN]]
      BY <3>1, <3>2 DEF TypeOK
    <3>6. cited' \in [Triggers -> [Messages -> Versions]]
      BY <3>1, CitedWithoutEffect
    <3> QED
      BY <3>1, <3>4, <3>5, <3>6 DEF TypeOK, feishu
  <2> QED
    BY <2>1, <2>2
<1>2. ASSUME NEW i \in Moves, Revoke(i)
      PROVE  TypeOK'
  <2>1. Referenced(att) \in SUBSET Blobs
    BY DEF Referenced
  <2>2. meta' \subseteq Blobs /\ doomed' \subseteq Blobs /\ raced' \subseteq Blobs
        /\ UNCHANGED <<files, unlinking>>
    BY <1>2, <2>1, GivesUpEffect DEF Revoke
  <2>3. row' \in [Messages -> [version : Versions, gone : BOOLEAN]]
    BY <1>2, BoundsAssumption DEF Revoke, Purges, NoRow, Versions
  <2>4. cited' \in [Triggers -> [Messages -> Versions]]
    BY <1>2, CitedWithoutEffect DEF Revoke, Purges
  <2>5. att' \in [Messages -> {None, Asked} \union Blobs]
    BY <1>2 DEF Revoke, Purges
  <2>6. /\ mention' \in [Triggers -> {"none", "pending", "leased", "ended"}]
        /\ recall' \in [Messages -> {"none", "pending", "leased", "ended"}]
        /\ move' \in [Moves -> {"none", "pending", "leased", "verified", "acting", "ended"}]
    BY <1>2 DEF Revoke, TypeOK
  <2>7. crossed' \in BOOLEAN /\ access' = "revoked"
        /\ UNCHANGED <<feishu, up, stops, admitting, at, page, evid, late>>
    BY <1>2 DEF Revoke, TypeOK
  <2> QED
    BY <2>2, <2>3, <2>4, <2>5, <2>6, <2>7 DEF TypeOK, feishu
<1>3. ASSUME NEW i \in Moves,
             AdmitMove(i) \/ LeaseMove(i) \/ Verify(i) \/ EndMove(i)
      PROVE  TypeOK'
  BY <1>3 DEF TypeOK, AdmitMove, LeaseMove, Verify, EndMove, feishu, mirror, process, history
<1>4. ASSUME NEW i \in Moves, FailMove(i)
      PROVE  TypeOK'
  BY <1>4 DEF TypeOK, FailMove, feishu, mirror, process
<1>5. ASSUME NEW i \in Moves, Restore(i)
      PROVE  TypeOK'
  <2>1. crossed' \in BOOLEAN
    BY <1>5 DEF Restore, TypeOK
  <2> QED
    BY <1>5, <2>1 DEF TypeOK, Restore, feishu, process
<1>6. ASSUME NEW b \in Blobs, DeleteBlob(b) \/ Unlink(b)
      PROVE  TypeOK'
  BY <1>6 DEF TypeOK, DeleteBlob, Unlink, feishu, tasks, process, history
<1> QED
  BY <1>1, <1>2, <1>3, <1>4, <1>5, <1>6

LEMMA TypesOfHandler ==
    ASSUME TypeOK, NEW t \in Triggers, Admit(t) \/ TimesOut(t) \/ Handler(t)
    PROVE  TypeOK'
<1> DEFINE Pages == [msg : Messages, version : Versions, deleted : BOOLEAN]
<1>0. /\ t \in Messages /\ page[t] \in Pages
      /\ NoEvidence \in [Messages -> Versions] /\ NoPage(t) \in Pages
      /\ evid[t] \in [Messages -> Versions]
  BY MessagesAssumption, BoundsAssumption DEF TypeOK, NoEvidence, NoPage, Versions
<1>1. CASE Admit(t) \/ TimesOut(t)
  BY <1>1 DEF TypeOK, Admit, TimesOut, feishu, mirror, tasks, history
<1>2. CASE LeaseMention(t)
  BY <1>2 DEF TypeOK, LeaseMention, Goes, feishu, mirror, history
<1>3. CASE Fetch(t) \/ Recover(t)
  <2>1. PICK m \in Messages : Holds(t, m)
    BY <1>0, <1>3 DEF Fetch, Recover, Observed
  <2>2. page' \in [Triggers -> Pages]
    BY <2>1, SnapshotType DEF Holds, TypeOK
  <2> QED
    BY <1>3, <2>2 DEF TypeOK, Fetch, Recover, Goes, feishu, mirror, tasks, history
<1>4. CASE Mirror(t)
  <2> DEFINE p == page[t]
  <2>1. CASE access = "revoked" \/ (p.deleted /\ p.msg = t)
    <3>1. Upserts(p) /\ Fails(t)
          /\ UNCHANGED <<feishu, recall, move, up, stops, admitting, doomed, history>>
      BY <1>4, <2>1 DEF Mirror
    <3> QED
      BY <1>0, <3>1, UpsertsEffect, FailsEffect DEF TypeOK, feishu, history
  <2>2. CASE ~(access = "revoked" \/ (p.deleted /\ p.msg = t))
    <3> DEFINE v == IF p.deleted THEN 0 ELSE p.version
               ev == [evid[t] EXCEPT ![p.msg] = v]
    <3>1. /\ Upserts(p) /\ Goes(t, "collected") /\ UNCHANGED <<mention, page>>
          /\ UNCHANGED <<feishu, recall, move, up, stops, admitting, doomed, history>>
      BY <1>4, <2>2 DEF Mirror
    <3>2. evid' = [evid EXCEPT ![t] = ev]
      BY <1>4, <2>2 DEF Mirror
    <3>3. v \in Versions
      BY <1>0, BoundsAssumption DEF Versions
    <3> HIDE DEF v
    <3>4. ev \in [Messages -> Versions]
      BY <1>0, <3>3
    <3> HIDE DEF ev
    <3>5. evid' \in [Triggers -> [Messages -> Versions]]
      BY <3>2, <3>4 DEF TypeOK
    <3> QED
      BY <1>0, <3>1, <3>5, UpsertsEffect DEF TypeOK, Goes, feishu, history
  <2> QED
    BY <2>1, <2>2
<1>5. ASSUME NEW m \in Messages, NEW place \in {"download", "parse"}, Loads(t, m, place)
      PROVE  /\ at' = [at EXCEPT ![t] = place] /\ page' \in [Triggers -> Pages]
             /\ UNCHANGED <<mention, evid>>
  <2> DEFINE q == [page[t] EXCEPT !.msg = m]
  <2>1. page' = [page EXCEPT ![t] = q] /\ q \in Pages
    BY <1>0, <1>5 DEF Loads
  <2>2. at' = [at EXCEPT ![t] = place] /\ UNCHANGED <<mention, evid>>
    BY <1>5 DEF Loads, Goes
  <2> HIDE DEF q
  <2>3. page' \in [Triggers -> Pages]
    BY <2>1 DEF TypeOK
  <2> QED
    BY <2>2, <2>3
<1>6. CASE Look(t)
  <2>0. UNCHANGED <<feishu, mirror, cited, recall, move, up, stops, admitting, doomed, history>>
    BY <1>6 DEF Look
  <2>1. PICK m \in Messages :
          \/ Fails(t)
          \/ Loads(t, m, "download") \/ UnderPressure(t)
          \/ Loads(t, m, "parse")
    BY <1>6 DEF Look, Planned
  <2>2. CASE Fails(t)
    BY <2>0, <2>2, FailsEffect DEF TypeOK, feishu, mirror, history
  <2>3. CASE Loads(t, m, "download") \/ Loads(t, m, "parse")
    BY <1>5, <2>0, <2>3 DEF TypeOK, feishu, mirror, history
  <2>4. CASE UnderPressure(t)
    BY <2>0, <2>4 DEF TypeOK, UnderPressure, Continues, Goes, feishu, mirror, history
  <2> QED
    BY <2>1, <2>2, <2>3, <2>4
<1>7. CASE Put(t)
  <2>1. ContentOf[page[t].msg] \in Blobs
    BY <1>0, MessagesAssumption
  <2>2. /\ files' \subseteq Blobs /\ raced' \subseteq Blobs
        /\ Fails(t) \/ Continues(t, "record")
        /\ UNCHANGED <<feishu, access, row, att, meta, unlinking, cited, recall, move, up, stops,
                       admitting, doomed, late, crossed>>
    BY <1>7, <2>1 DEF Put, TypeOK
  <2> QED
    BY <2>2, FailsEffect DEF TypeOK, Continues, Goes, feishu
<1>8. CASE Record(t)
  <2>1. page[t].msg \in Messages /\ ContentOf[page[t].msg] \in Blobs
    BY <1>0, MessagesAssumption
  <2>2. /\ att' \in [Messages -> {None, Asked} \union Blobs] /\ meta' \subseteq Blobs
        /\ Fails(t) \/ Continues(t, "parse")
        /\ UNCHANGED <<feishu, access, row, files, unlinking, cited, recall, move, up, stops,
                       admitting, doomed, history>>
    BY <1>8, <2>1 DEF Record, TypeOK
  <2> QED
    BY <2>2, FailsEffect DEF TypeOK, Continues, Goes, feishu, history
<1>9. CASE Parse(t)
  <2>1. Fails(t) \/ Continues(t, "loaded")
    BY <1>9 DEF Parse
  <2> QED
    BY <1>9, <2>1, FailsEffect DEF Parse, TypeOK, Continues, Goes, feishu, mirror, history
<1>10. CASE Run(t)
  <2>1. cited' \in [Triggers -> [Messages -> Versions]]
    BY <1>0, <1>10 DEF Run, TypeOK
  <2> QED
    BY <1>10, <2>1 DEF Run, TypeOK, Continues, Goes, feishu, mirror, history
<1>11. CASE SaveCheckpoint(t)
  <2>1. cited' \in [Triggers -> [Messages -> Versions]] /\ late' \subseteq Triggers
    BY <1>0, <1>11 DEF SaveCheckpoint, TypeOK
  <2> QED
    BY <1>11, <2>1 DEF SaveCheckpoint, TypeOK, feishu, mirror, tasks, process
<1>12. CASE Finish(t)
  <2>1. /\ evid' \in [Triggers -> [Messages -> Versions]]
        /\ page' \in [Triggers -> Pages]
    BY <1>0, <1>12 DEF Finish, TypeOK
  <2> QED
    BY <1>12, <2>1 DEF Finish, TypeOK, Goes, feishu, mirror, history
<1> QED
  BY <1>1, <1>2, <1>3, <1>4, <1>6, <1>7, <1>8, <1>9, <1>10, <1>11, <1>12 DEF Handler

LEMMA TypesOfMaintenance ==
    ASSUME TypeOK,
           \/ MoveBot \/ Stop \/ Start \/ GarbageCollect \/ PurgeChat \/ PurgeTenant \/ PurgeAll
           \/ \E m \in Messages : PurgeMessage(m)
    PROVE  TypeOK'
<1>0. NoEvidence \in [Messages -> Versions]
  BY BoundsAssumption DEF NoEvidence, Versions
<1>1. CASE MoveBot
  BY <1>1, BoundsAssumption DEF TypeOK, MoveBot, mirror, tasks, process, history
<1>2. CASE Stop
  <2>1. /\ mention' \in [Triggers -> {"none", "pending", "leased", "ended"}]
        /\ recall' \in [Messages -> {"none", "pending", "leased", "ended"}]
        /\ move' \in [Moves -> {"none", "pending", "leased", "verified", "acting", "ended"}]
    BY <1>2 DEF Stop, Again, TypeOK
  <2>2. /\ page' \in [Triggers -> [msg : Messages, version : Versions, deleted : BOOLEAN]]
        /\ evid' \in [Triggers -> [Messages -> Versions]]
    BY <1>0, <1>2, MessagesAssumption, BoundsAssumption DEF Stop, NoPage, Versions
  <2>3. stops' \in 0 .. MaxStops /\ up' \in BOOLEAN
    <3>1. stops \in 0 .. MaxStops /\ MaxStops \in Nat
      BY BoundsAssumption DEF TypeOK
    <3>2. stops < MaxStops /\ stops' = stops + 1 /\ up' = FALSE
      BY <1>2 DEF Stop
    <3>3. stops' \in 0 .. MaxStops
      BY <3>1, <3>2
    <3> QED
      BY <3>2, <3>3
  <2> QED
    BY <1>2, <2>1, <2>2, <2>3 DEF Stop, TypeOK, feishu, mirror, history
<1>3. CASE Start
  BY <1>3 DEF TypeOK, Start, feishu, mirror, tasks, history
<1>4. CASE GarbageCollect
  <2>1. PICK S \in SUBSET Messages, A \in SUBSET Messages, R \in SUBSET Triggers :
           /\ RowsOf(S, A) /\ CollectsBlobs
           /\ cited' = [t \in Triggers |-> IF Cites(t, S) \/ t \in R THEN NoEvidence ELSE cited[t]]
    BY <1>4 DEF GarbageCollect
  <2>2. cited' \in [Triggers -> [Messages -> Versions]]
    BY <1>0, <2>1 DEF TypeOK
  <2>3. meta' \subseteq Blobs /\ files' \subseteq Blobs
    BY <2>1 DEF CollectsBlobs, TypeOK
  <2> QED
    BY <1>4, <2>1, <2>2, <2>3, RowsOfEffect DEF TypeOK, GarbageCollect, feishu, tasks, process, history
<1>5. ASSUME NEW M \in SUBSET Messages, NEW I \in SUBSET Moves, DropsTasks(M, I)
      PROVE  /\ mention' \in [Triggers -> {"none", "pending", "leased", "ended"}]
             /\ recall' \in [Messages -> {"none", "pending", "leased", "ended"}]
             /\ move' \in [Moves -> {"none", "pending", "leased", "verified", "acting", "ended"}]
  BY <1>5 DEF DropsTasks, TypeOK
<1>6. ASSUME NEW M \in SUBSET Messages, DropsBlobs(M)
      PROVE  meta' \subseteq Blobs /\ files' \subseteq Blobs
  BY <1>6 DEF DropsBlobs, TypeOK
<1>7. ASSUME NEW m \in Messages, PurgeMessage(m)
      PROVE  TypeOK'
  <2>1. cited' \in [Triggers -> [Messages -> Versions]]
    BY <1>0, <1>7, CitedWithoutEffect DEF PurgeMessage
  <2>2. RowsOf({m}, {}) /\ DropsBlobs({m}) /\ DropsTasks({m}, {})
        /\ UNCHANGED <<feishu, access, unlinking, process, history>>
    BY <1>7 DEF PurgeMessage
  <2>3. {m} \in SUBSET Messages /\ {} \in SUBSET Moves
    OBVIOUS
  <2> QED
    BY <1>5, <1>6, <2>1, <2>2, <2>3, RowsOfEffect DEF TypeOK, feishu, process, history
<1>8. CASE PurgesChat /\ meta' \subseteq Blobs /\ files' \subseteq Blobs /\ unlinking' \subseteq Blobs
  <2>1. cited' \in [Triggers -> [Messages -> Versions]] /\ crossed' \in BOOLEAN
        /\ access' = "none" /\ RowsOf(Messages, {}) /\ DropsTasks(Messages, Moves)
        /\ UNCHANGED <<feishu, process, raced, late>>
    BY <1>0, <1>8 DEF PurgesChat, TypeOK
  <2> QED
    BY <1>5, <1>8, <2>1, RowsOfEffect DEF TypeOK, feishu, process
<1>9. CASE PurgeChat \/ PurgeTenant
  BY <1>6, <1>8, <1>9 DEF PurgeChat, PurgeTenant, TypeOK
<1>10. CASE PurgeAll
  BY <1>8, <1>10 DEF PurgeAll, TypeOK
<1> QED
  BY <1>1, <1>2, <1>3, <1>4, <1>7, <1>9, <1>10

LEMMA TypesStep ==
    ASSUME TypeOK, [Next]_vars
    PROVE  TypeOK'
<1>1. CASE UNCHANGED vars
  BY <1>1 DEF vars, feishu, mirror, tasks, process, history, TypeOK
<1> QED
  BY <1>1, TypesOfEvents, TypesOfLifecycle, TypesOfHandler, TypesOfMaintenance DEF Next

-----------------------------------------------------------------------------
(***************************************************************************)
(* What is known of Feishu.                                                *)
(***************************************************************************)

\* The handler of t moves nothing but itself, and holds a fresh page when it
\* goes to the mirror.
LEMMA HandlerEffect ==
    ASSUME TypeOK, NEW t \in Triggers, Handler(t)
    PROVE  /\ \A u \in Triggers \ {t} : at'[u] = at[u] /\ page'[u] = page[u]
           /\ at'[t] = "mirror" => \E m \in Messages : page'[t] = Snapshot(m)
           /\ at'[t] = "record" => Put(t) /\ page'[t] = page[t] /\ ContentOf[page[t].msg] \in files'
           /\ UNCHANGED <<feishu, recall, move, up, stops, admitting, doomed, unlinking, crossed>>
           /\ up \/ at[t] # "off"
<1>0. /\ t \in Messages /\ at \in [Triggers -> {"off", "trigger", "mirror", "collected", "download",
                                               "record", "parse", "loaded", "run"}]
      /\ page = [u \in Triggers |-> page[u]]
  BY MessagesAssumption DEF TypeOK
<1>1. ASSUME Fails(t)
      PROVE  /\ at' = [at EXCEPT ![t] = "off"]
             /\ \A u \in Triggers \ {t} : page'[u] = page[u]
  BY <1>1, FailsEffect
<1>2. CASE LeaseMention(t)
  BY <1>0, <1>2 DEF LeaseMention, Goes, mirror, history
<1>3. CASE Fetch(t) \/ Recover(t)
  <2>1. PICK m \in Messages : Holds(t, m)
    BY <1>0, <1>3 DEF Fetch, Recover, Observed
  <2> DEFINE snap == Snapshot(m)
  <2>2. page' = [page EXCEPT ![t] = snap] /\ at' = [at EXCEPT ![t] = "mirror"]
    BY <1>3, <2>1 DEF Holds, Fetch, Recover, Goes
  <2>3. /\ UNCHANGED <<feishu, recall, move, up, stops, admitting, doomed, unlinking, crossed>>
        /\ at[t] # "off"
    BY <1>3 DEF Fetch, Recover, mirror, tasks, history
  <2> HIDE DEF snap
  <2>4. page'[t] = snap /\ at'[t] = "mirror"
        /\ \A u \in Triggers \ {t} : at'[u] = at[u] /\ page'[u] = page[u]
    BY <1>0, <2>2
  <2> QED
    BY <2>3, <2>4 DEF snap
<1>4. CASE Mirror(t)
  <2>1. UNCHANGED <<meta, files, unlinking>>
    BY <1>4, TypeOK DEF Mirror, Upserts
  <2>2. Fails(t) \/ (Goes(t, "collected") /\ UNCHANGED page)
    BY <1>4 DEF Mirror
  <2> QED
    BY <1>0, <1>1, <1>4, <2>1, <2>2 DEF Mirror, Goes, history
<1>5. CASE Look(t)
  <2>1. UNCHANGED <<feishu, mirror, cited, recall, move, up, stops, admitting, doomed, history>>
        /\ at[t] # "off"
    BY <1>5 DEF Look
  <2>2. PICK m \in Messages :
          \/ Fails(t)
          \/ Loads(t, m, "download") \/ UnderPressure(t)
          \/ Loads(t, m, "parse")
    BY <1>5 DEF Look, Planned
  <2>3. ASSUME NEW place \in {"download", "parse"}, Loads(t, m, place)
        PROVE  at' = [at EXCEPT ![t] = place] /\ \A u \in Triggers \ {t} : page'[u] = page[u]
    BY <1>0, <2>3 DEF Loads, Goes
  <2>4. \/ Fails(t) \/ Continues(t, "loaded")
        \/ Loads(t, m, "download") \/ Loads(t, m, "parse")
    BY <2>2 DEF UnderPressure
  <2> QED
    BY <1>0, <1>1, <2>1, <2>3, <2>4 DEF Continues, Goes, mirror, history
<1>6. CASE Put(t)
  <2>1. /\ UNCHANGED <<feishu, unlinking, recall, move, up, stops, admitting, doomed, crossed>>
        /\ Fails(t) \/ (Continues(t, "record") /\ ContentOf[page[t].msg] \in files')
        /\ at[t] # "off"
    BY <1>6 DEF Put
  <2> QED
    BY <1>0, <1>1, <1>6, <2>1 DEF Continues, Goes
<1>7. CASE Record(t)
  <2>1. /\ UNCHANGED <<feishu, unlinking, recall, move, up, stops, admitting, doomed, history>>
        /\ Fails(t) \/ Continues(t, "parse")
        /\ at[t] # "off"
    BY <1>7 DEF Record
  <2> QED
    BY <1>0, <1>1, <2>1 DEF Continues, Goes, history
<1>8. CASE Parse(t) \/ Run(t)
  <2>1. /\ UNCHANGED <<feishu, mirror, recall, move, up, stops, admitting, doomed, history>>
        /\ Fails(t) \/ Continues(t, "loaded") \/ Continues(t, "run")
        /\ at[t] # "off"
    BY <1>8 DEF Parse, Run
  <2> QED
    BY <1>0, <1>1, <2>1 DEF Continues, Goes, mirror, history
<1>9. CASE SaveCheckpoint(t)
  BY <1>0, <1>9 DEF SaveCheckpoint, mirror, tasks, process
<1>10. CASE Finish(t)
  BY <1>0, <1>10 DEF Finish, Goes, mirror, history
<1> QED
  BY <1>2, <1>3, <1>4, <1>5, <1>6, <1>7, <1>8, <1>9, <1>10 DEF Handler

\* The pages that are mirrored are of Feishu as it was some time ago.
LEMMA MirroredIsKnown ==
    ASSUME MirrorInv
    PROVE  /\ \A m \in Messages : KnownPage(Posted(m)) /\ KnownPage(Snapshot(m))
           /\ \A t \in Triggers : at[t] = "mirror" => KnownPage(page[t])
<1>1. \A m \in Messages : source[m].version \in Nat /\ source[m].version >= 1
  BY BoundsAssumption DEF MirrorInv, TypeOK, KnownFromSource, Versions
<1> QED
  BY <1>1 DEF MirrorInv, KnownFromSource, KnownPage, Posted, Snapshot

\* A step that leaves Feishu alone and takes tombstones and pages from it.
LEMMA KnownIsKept ==
    ASSUME MirrorInv, source' = source,
           \A m \in Messages : recall'[m] # "none" => source[m].deleted,
           \A m \in Messages : \/ row'[m] = row[m] \/ ~row'[m].gone
                               \/ source[m].deleted /\ row'[m].version = source[m].version,
           \A t \in Triggers : at'[t] = "mirror" =>
              \/ at[t] = "mirror" /\ page'[t] = page[t]
              \/ \E m \in Messages : page'[t] = Snapshot(m)
    PROVE  KnownFromSource'
<1>1. \A p : KnownPage(p)' <=> KnownPage(p)
  BY DEF KnownPage
<1> QED
  BY <1>1, MirroredIsKnown DEF MirrorInv, KnownFromSource

\* upsert_message mirrors a tombstone only of what Feishu deleted.
LEMMA UpsertsKnown ==
    ASSUME MirrorInv, NEW p \in [msg : Messages, version : Versions, deleted : BOOLEAN],
           KnownPage(p), Upserts(p)
    PROVE  /\ \A m \in Messages : \/ row'[m] = row[m] \/ ~row'[m].gone
                                  \/ source[m].deleted /\ row'[m].version = source[m].version
           /\ \A m \in Messages : row'[m].version > 0 \/ row'[m] = row[m]
           /\ \A m \in Messages : row[m].gone => row'[m].gone
<1>1. TypeOK /\ p.version \in Nat /\ p.version > 0
  BY BoundsAssumption DEF MirrorInv, KnownPage, Versions
<1> SUFFICES ASSUME NEW m \in Messages
             PROVE  /\ \/ row'[m] = row[m] \/ ~row'[m].gone
                       \/ source[m].deleted /\ row'[m].version = source[m].version
                    /\ row'[m].version > 0 \/ row'[m] = row[m]
                    /\ row[m].gone => row'[m].gone
  OBVIOUS
<1>2. CASE row'[m] = row[m]
  BY <1>2
<1>3. CASE row'[m] # row[m]
  <2>1. /\ m = p.msg /\ ~Older(m, p.version, p.deleted)
        /\ row'[m] = [version |-> p.version, gone |-> p.deleted]
    BY <1>1, <1>3, UpsertsEffect
  <2>2. row'[m].version = p.version /\ row'[m].gone = p.deleted
    BY <2>1
  <2>3. p.deleted => source[m].deleted /\ p.version = source[m].version
    BY <2>1 DEF KnownPage
  <2>4. row[m].gone => p.deleted
    <3>1. row[m].version \in Nat /\ source[m].version \in Nat
      BY <1>1, BoundsAssumption DEF TypeOK, Versions
    <3>2. row[m].gone => row[m].version = source[m].version
      BY DEF MirrorInv, KnownFromSource
    <3>3. p.version <= source[m].version
      BY <2>1 DEF KnownPage
    <3> QED
      BY <1>1, <2>1, <3>1, <3>2, <3>3 DEF Older
  <2> QED
    BY <1>1, <2>2, <2>3, <2>4
<1> QED
  BY <1>2, <1>3

\* Only upsert_message touches the rows of the mirror in a handler.
LEMMA HandlerRows ==
    ASSUME NEW t \in Triggers, Handler(t), ~Mirror(t)
    PROVE  row' = row /\ access' = access
BY DEF Handler, LeaseMention, Fetch, Recover, Look, Put, Record, Parse, Run, SaveCheckpoint, Finish,
       mirror

\* What invalidate_message and revoke_chat_access do to the rows.
LEMMA InvalidateEffect ==
    ASSUME MirrorInv, NEW m \in Messages, Invalidate(m)
    PROVE  /\ source[m].deleted /\ source[m].version > 0
           /\ \A n \in Messages : n # m => row'[n] = row[n] /\ att'[n] = att[n]
           /\ \/ UNCHANGED <<mirror, cited, doomed, raced>>
              \/ /\ access' = (IF access = "none" THEN "visible" ELSE access)
                 /\ row'[m] = [version |-> source[m].version, gone |-> TRUE] /\ att'[m] = None
                 /\ cited' = CitedWithout({m}) /\ GivesUp({att[m]} \intersect Blobs)
           /\ recall' = [recall EXCEPT ![m] = "ended"]
           /\ UNCHANGED <<feishu, mention, move, up, stops, admitting, at, page, evid, late, crossed>>
<1>1. TypeOK /\ recall[m] = "leased"
  BY DEF MirrorInv, Invalidate
<1>2. source[m].deleted /\ source[m].version > 0
  <2>1. source[m].deleted /\ source[m].version >= 1
    BY <1>1 DEF MirrorInv, KnownFromSource
  <2>2. source[m].version \in Nat
    BY <1>1, BoundsAssumption DEF TypeOK, Versions
  <2> QED
    BY <2>1, <2>2
<1>3. CASE row[m].version > source[m].version
  <2>1. UNCHANGED <<mirror, cited, doomed, raced>>
    BY <1>3 DEF Invalidate
  <2> QED
    BY <1>2, <2>1 DEF Invalidate, mirror
<1>4. CASE ~(row[m].version > source[m].version)
  <2> DEFINE new == [version |-> source[m].version, gone |-> TRUE]
  <2>1. /\ access' = (IF access = "none" THEN "visible" ELSE access)
        /\ row' = [row EXCEPT ![m] = new] /\ att' = [att EXCEPT ![m] = None]
        /\ cited' = CitedWithout({m}) /\ GivesUp({att[m]} \intersect Blobs)
    BY <1>4 DEF Invalidate
  <2> HIDE DEF new
  <2>2. /\ row'[m] = new /\ att'[m] = None
        /\ \A n \in Messages : n # m => row'[n] = row[n] /\ att'[n] = att[n]
    BY <1>1, <2>1 DEF TypeOK
  <2> QED
    BY <1>2, <2>1, <2>2 DEF new, Invalidate
<1> QED
  BY <1>3, <1>4

LEMMA KnownOfSource ==
    ASSUME MirrorInv, NEW c \in Messages, Edit(c) \/ Recall(c)
    PROVE  KnownFromSource' /\ UNCHANGED <<present, moves, mirror, cited, tasks, process, history>>
<1>1. TypeOK /\ source[c].version \in Nat /\ source[c].version >= 1
  BY BoundsAssumption DEF MirrorInv, TypeOK, KnownFromSource, Versions
<1>2. /\ UNCHANGED <<present, moves, mirror, cited, tasks, process, history>>
      /\ ~source[c].deleted
  BY DEF Edit, Recall
<1>3. PICK v \in {source[c].version, source[c].version + 1}, d \in BOOLEAN :
         source' = [source EXCEPT ![c] = [version |-> v, deleted |-> d]]
  <2>1. CASE Edit(c)
    <3> DEFINE s == [source[c] EXCEPT !.version = source[c].version + 1]
    <3>1. source' = [source EXCEPT ![c] = s]
      BY <2>1 DEF Edit
    <3>2. source[c] \in [version : Versions, deleted : BOOLEAN]
      BY <1>1 DEF TypeOK
    <3>3. s = [version |-> source[c].version + 1, deleted |-> source[c].deleted]
      BY <3>2
    <3>4. source[c].deleted \in BOOLEAN
      BY <3>2
    <3> HIDE DEF s
    <3> QED
      BY <3>1, <3>3, <3>4
  <2>2. CASE Recall(c)
    BY <2>2 DEF Recall
  <2> QED
    BY <2>1, <2>2
<1> DEFINE s == [version |-> v, deleted |-> d]
<1>4. s.version = v /\ s.deleted = d /\ v >= source[c].version /\ v \in Nat
  BY <1>1
<1>5. source'[c] = s /\ \A m \in Messages \ {c} : source'[m] = source[m]
  BY <1>1, <1>3 DEF TypeOK
<1> HIDE DEF s
<1>6. ASSUME NEW m \in Messages
      PROVE  /\ source'[m].version >= 1
             /\ recall'[m] # "none" => source'[m].deleted
             /\ row'[m].gone => source'[m].deleted /\ row'[m].version = source'[m].version
  BY <1>1, <1>2, <1>4, <1>5 DEF MirrorInv, KnownFromSource, tasks, mirror
<1>7. ASSUME NEW t \in Triggers, at[t] = "mirror"
      PROVE  KnownPage(page[t])'
  <2>1. page'[t] = page[t] /\ page[t].msg \in Messages /\ page[t].version \in Nat
    BY <1>1, <1>2, BoundsAssumption DEF process, TypeOK, Versions
  <2>2. KnownPage(page[t])
    BY <1>7 DEF MirrorInv, KnownFromSource
  <2> QED
    BY <1>1, <1>2, <1>4, <1>5, <2>1, <2>2 DEF KnownPage
<1> QED
  BY <1>2, <1>6, <1>7 DEF KnownFromSource, process

LEMMA KnownStep ==
    ASSUME MirrorInv, [Next]_vars
    PROVE  KnownFromSource'
<1>1. TypeOK /\ \A m \in Messages : recall[m] # "none" => source[m].deleted
  BY DEF MirrorInv, KnownFromSource
<1>2. ASSUME NEW m \in Messages, Edit(m) \/ Recall(m)
      PROVE  KnownFromSource'
  BY <1>2, KnownOfSource
<1>3. ASSUME NEW m \in Messages, Receive(m)
      PROVE  KnownFromSource'
  <2>1. Upserts(Posted(m)) /\ UNCHANGED <<source, recall, at, page>>
    BY <1>3 DEF Receive, feishu, tasks
  <2> QED
    BY <1>1, <2>1, UpsertsKnown, MirroredIsKnown, SnapshotType, KnownIsKept
<1>4. ASSUME NEW t \in Triggers, Handler(t)
      PROVE  KnownFromSource'
  <2>1. /\ UNCHANGED <<source, recall>>
        /\ \A u \in Triggers : at'[u] = "mirror" =>
              \/ at[u] = "mirror" /\ page'[u] = page[u]
              \/ \E m \in Messages : page'[u] = Snapshot(m)
    BY <1>1, <1>4, HandlerEffect DEF feishu
  <2>2. CASE Mirror(t)
    <3>1. at[t] = "mirror" /\ Upserts(page[t])
      BY <2>2 DEF Mirror
    <3>2. page[t] \in [msg : Messages, version : Versions, deleted : BOOLEAN]
      BY <1>1 DEF TypeOK
    <3> QED
      BY <1>1, <2>1, <3>1, <3>2, UpsertsKnown, MirroredIsKnown, KnownIsKept
  <2>3. CASE ~Mirror(t)
    BY <1>1, <1>4, <2>1, <2>3, HandlerRows, KnownIsKept
  <2> QED
    BY <2>2, <2>3
<1>5. ASSUME NEW m \in Messages, AdmitRecall(m) \/ LeaseRecall(m)
      PROVE  KnownFromSource'
  <2>1. UNCHANGED <<source, row, at, page>> /\ recall \in [Messages -> {"none", "pending", "leased", "ended"}]
    BY <1>1, <1>5 DEF AdmitRecall, LeaseRecall, feishu, mirror, process, TypeOK
  <2>2. \A n \in Messages : recall'[n] # "none" => source[n].deleted
    BY <1>1, <1>5, <2>1 DEF AdmitRecall, LeaseRecall
  <2> QED
    BY <2>1, <2>2, KnownIsKept
<1>6. ASSUME NEW m \in Messages, Invalidate(m)
      PROVE  KnownFromSource'
  <2>1. UNCHANGED <<source, at, page>> /\ recall \in [Messages -> {"none", "pending", "leased", "ended"}]
    BY <1>1, <1>6 DEF Invalidate, feishu, TypeOK
  <2>2. \A n \in Messages : recall'[n] # "none" => source[n].deleted
    <3>1. source[m].deleted /\ recall' = [recall EXCEPT ![m] = "ended"]
      BY <1>6, InvalidateEffect
    <3> QED
      BY <1>1, <2>1, <3>1
  <2>3. \A n \in Messages : \/ row'[n] = row[n]
                            \/ source[n].deleted /\ row'[n].version = source[n].version
    <3>1. /\ source[m].deleted
          /\ \A n \in Messages : n # m => row'[n] = row[n]
          /\ row'[m] = row[m] \/ row'[m] = [version |-> source[m].version, gone |-> TRUE]
      BY <1>6, InvalidateEffect DEF mirror
    <3> QED
      BY <3>1
  <2> QED
    BY <2>1, <2>2, <2>3, KnownIsKept
<1>7. ASSUME NEW i \in Moves, Revoke(i)
      PROVE  KnownFromSource'
  <2>1. UNCHANGED <<source, at, page>> /\ \A n \in Messages : row'[n] = NoRow
    BY <1>7 DEF Revoke, Purges, feishu
  <2>0. recall' = [m \in Messages |-> IF recall[m] = "pending" THEN "ended" ELSE recall[m]]
    BY <1>7 DEF Revoke
  <2>2. \A n \in Messages : recall'[n] # "none" => source[n].deleted
    BY <1>1, <2>0
  <2> QED
    BY <2>1, <2>2, KnownIsKept DEF NoRow
<1>8. CASE Stop
  <2>1. PICK done \in SUBSET {m \in Messages : recall[m] = "ended"} :
           recall' = [m \in Messages |-> IF recall[m] = "none" \/ m \in done THEN recall[m]
                                         ELSE "pending"]
    BY <1>8 DEF Stop
  <2>2. UNCHANGED <<source, row>> /\ \A t \in Triggers : at'[t] = "off"
    BY <1>8 DEF Stop, feishu, mirror
  <2> QED
    BY <1>1, <2>1, <2>2, KnownIsKept
<1>9. CASE GarbageCollect
  <2>1. PICK S \in SUBSET Messages, A \in SUBSET Messages : RowsOf(S, A)
    BY <1>9 DEF GarbageCollect
  <2>2. UNCHANGED <<source, recall, at, page>>
    BY <1>9 DEF GarbageCollect, feishu, tasks, process
  <2> QED
    BY <1>1, <2>1, <2>2, RowsOfEffect, KnownIsKept DEF NoRow
<1>10. ASSUME NEW S \in SUBSET Messages, NEW I, RowsOf(S, {}), DropsTasks(S, I), UNCHANGED <<feishu, process>>
      PROVE  KnownFromSource'
  <2>1. \A n \in Messages : recall'[n] # "none" => source[n].deleted
    BY <1>1, <1>10 DEF DropsTasks
  <2> QED
    BY <1>1, <1>10, <2>1, RowsOfEffect, KnownIsKept DEF NoRow, feishu, process
<1>11. ASSUME NEW m \in Messages, PurgeMessage(m)
       PROVE  KnownFromSource'
  BY <1>10, <1>11 DEF PurgeMessage
<1>12. CASE PurgeChat \/ PurgeTenant \/ PurgeAll
  BY <1>10, <1>12 DEF PurgeChat, PurgeTenant, PurgeAll, PurgesChat
<1>13. ASSUME UNCHANGED <<source, recall, row, at, page>>
       PROVE  KnownFromSource'
  BY <1>1, <1>13, KnownIsKept
<1>14. ASSUME NEW i \in Moves,
              AdmitMove(i) \/ LeaseMove(i) \/ Verify(i) \/ FailMove(i) \/ Restore(i) \/ EndMove(i)
       PROVE  KnownFromSource'
  BY <1>13, <1>14 DEF AdmitMove, LeaseMove, Verify, FailMove, Restore, EndMove, feishu, mirror, process
<1>15. ASSUME NEW t \in Triggers, Admit(t) \/ TimesOut(t)
       PROVE  KnownFromSource'
  BY <1>13, <1>15 DEF Admit, TimesOut, feishu, mirror, tasks
<1>16. ASSUME NEW b \in Blobs, DeleteBlob(b) \/ Unlink(b)
       PROVE  KnownFromSource'
  BY <1>13, <1>16 DEF DeleteBlob, Unlink, feishu, tasks, process
<1>17. CASE MoveBot \/ Start \/ UNCHANGED vars
  BY <1>13, <1>17 DEF MoveBot, Start, vars, feishu, mirror, tasks, process
<1> QED
  BY <1>2, <1>3, <1>4, <1>5, <1>6, <1>7, <1>8, <1>9, <1>11, <1>12, <1>14, <1>15, <1>16, <1>17 DEF Next

-----------------------------------------------------------------------------
(***************************************************************************)
(* The process, and access to the chat.                                    *)
(***************************************************************************)

LEMMA QuietStep ==
    ASSUME MirrorInv, [Next]_vars
    PROVE  StoppedIsQuiet'
<1>0. TypeOK /\ StoppedIsQuiet
  BY DEF MirrorInv
<1>a. /\ recall \in [Messages -> {"none", "pending", "leased", "ended"}]
      /\ move \in [Moves -> {"none", "pending", "leased", "verified", "acting", "ended"}]
  BY <1>0 DEF TypeOK
<1>1. CASE up'
  BY <1>1 DEF StoppedIsQuiet
<1>2. CASE Stop
  <2>1. PICK done \in SUBSET {m \in Messages : recall[m] = "ended"} :
           recall' = [m \in Messages |-> IF recall[m] = "none" \/ m \in done THEN recall[m]
                                         ELSE "pending"]
    BY <1>2 DEF Stop
  <2>2. /\ move' = [i \in Moves |-> Again(move[i])] /\ doomed' = {}
        /\ at' = [t \in Triggers |-> "off"]
    BY <1>2 DEF Stop
  <2>3. \A m \in Messages : recall'[m] # "leased"
    BY <2>1
  <2> QED
    BY <2>2, <2>3 DEF StoppedIsQuiet, Again
<1>3. CASE ~up' /\ ~Stop
  <2>1. ASSUME NEW m \in Messages, Edit(m) \/ Recall(m)
        PROVE  StoppedIsQuiet'
    BY <1>0, <2>1 DEF Edit, Recall, process, tasks, StoppedIsQuiet
  <2>2. ASSUME NEW m \in Messages, Receive(m) \/ AdmitRecall(m) \/ LeaseRecall(m)
        PROVE  FALSE
    BY <1>3, <2>2 DEF Receive, AdmitRecall, LeaseRecall, process
  <2>3. ASSUME NEW m \in Messages, Invalidate(m)
        PROVE  FALSE
    BY <1>0, <1>3, <2>3 DEF Invalidate, StoppedIsQuiet
  <2>4. ASSUME NEW i \in Moves, AdmitMove(i) \/ LeaseMove(i)
        PROVE  FALSE
    BY <1>3, <2>4 DEF AdmitMove, LeaseMove, process
  <2>5. ASSUME NEW i \in Moves, Revoke(i) \/ Verify(i) \/ FailMove(i) \/ Restore(i)
        PROVE  FALSE
    BY <1>0, <1>3, <2>5 DEF Revoke, Verify, FailMove, Restore, StoppedIsQuiet, process
  <2>6. ASSUME NEW i \in Moves, EndMove(i)
        PROVE  StoppedIsQuiet'
    BY <1>0, <1>a, <2>6 DEF EndMove, StoppedIsQuiet, process
  <2>7. ASSUME NEW t \in Triggers, Admit(t) \/ TimesOut(t)
        PROVE  StoppedIsQuiet'
    BY <1>0, <2>7 DEF Admit, TimesOut, StoppedIsQuiet, tasks
  <2>8. ASSUME NEW t \in Triggers, Handler(t)
        PROVE  FALSE
    <3>1. up' = up /\ (up \/ at[t] # "off")
      BY <1>0, <2>8, HandlerEffect
    <3> QED
      BY <1>0, <1>3, <3>1 DEF StoppedIsQuiet
  <2>9. ASSUME NEW b \in Blobs, DeleteBlob(b) \/ Unlink(b)
        PROVE  StoppedIsQuiet'
    BY <1>0, <2>9 DEF DeleteBlob, Unlink, StoppedIsQuiet, tasks, process
  <2>10. CASE MoveBot \/ Start \/ GarbageCollect \/ UNCHANGED vars
    BY <1>0, <1>3, <2>10 DEF MoveBot, Start, GarbageCollect, vars, StoppedIsQuiet, tasks, process
  <2>11. ASSUME NEW M, NEW I, DropsTasks(M, I), UNCHANGED process
         PROVE  StoppedIsQuiet'
    BY <1>0, <2>11 DEF DropsTasks, StoppedIsQuiet, process
  <2>12. CASE PurgeChat \/ PurgeTenant \/ PurgeAll
    BY <2>11, <2>12 DEF PurgeChat, PurgeTenant, PurgeAll, PurgesChat
  <2>13. ASSUME NEW m \in Messages, PurgeMessage(m)
         PROVE  StoppedIsQuiet'
    BY <2>11, <2>13 DEF PurgeMessage
  <2> QED
    BY <1>3, <2>1, <2>2, <2>3, <2>4, <2>5, <2>6, <2>7, <2>8, <2>9, <2>10, <2>12, <2>13 DEF Next
<1> QED
  BY <1>1, <1>2, <1>3

LEMMA RemovalsAreOdd ==
    ASSUME NEW n \in Nat
    PROVE  /\ IsRemoval(n) <=> n % 2 = 1
           /\ n % 2 = 0 <=> ~IsRemoval(n)
           /\ (n + 1) % 2 = 0 <=> IsRemoval(n)
BY DEF IsRemoval

\* A step that leaves the membership tasks and the access alone.
LEMMA AccessIsKept ==
    ASSUME LastMoveDecides, UNCHANGED <<present, moves>>,
           access' = "revoked" <=> access = "revoked",
           crossed => crossed',
           \A i \in Moves : /\ move'[i] # "none" => i <= moves
                            /\ move'[i] = "verified" => ~IsRemoval(i),
           moves > 0 => (move'[moves] \in {"acting", "ended"} =>
                            crossed' \/ move[moves] \in {"acting", "ended"})
    PROVE  LastMoveDecides'
BY DEF LastMoveDecides

LEMMA AccessStep ==
    ASSUME MirrorInv, [Next]_vars
    PROVE  LastMoveDecides'
<1>0. /\ TypeOK /\ LastMoveDecides /\ moves \in 0 .. MaxMoves /\ moves \in Nat /\ MaxMoves \in Nat
      /\ move \in [Moves -> {"none", "pending", "leased", "verified", "acting", "ended"}]
      /\ moves > 0 => moves \in Moves
      /\ \A i \in Moves : i \in Nat /\ i > 0
      /\ \A i \in Moves : /\ move[i] # "none" => i <= moves
                          /\ move[i] = "verified" => ~IsRemoval(i)
  BY BoundsAssumption DEF MirrorInv, TypeOK, LastMoveDecides, Moves
<1>1. ASSUME UNCHANGED <<present, moves, move, crossed>>, access' = "revoked" <=> access = "revoked"
      PROVE  LastMoveDecides'
  BY <1>0, <1>1, AccessIsKept
<1>2. CASE MoveBot
  <2>1. moves' = moves + 1 /\ present' = ~present /\ UNCHANGED <<move, access, crossed>>
        /\ moves < MaxMoves
    BY <1>2 DEF MoveBot, mirror, tasks, history
  <2>2. move[moves + 1] = "none"
    BY <1>0, <2>1 DEF Moves
  <2>3. present' <=> moves' % 2 = 0
    BY <1>0, <2>1, RemovalsAreOdd DEF LastMoveDecides
  <2>4. \A i \in Moves : /\ move'[i] # "none" => i <= moves'
                         /\ move'[i] = "verified" => ~IsRemoval(i)
    BY <1>0, <2>1
  <2> QED
    BY <1>0, <2>1, <2>2, <2>3, <2>4 DEF LastMoveDecides
<1>3. ASSUME NEW m \in Messages, Receive(m)
      PROVE  LastMoveDecides'
  BY <1>0, <1>1, <1>3, UpsertsEffect, SnapshotType DEF Receive, feishu, tasks, history
<1>4. ASSUME NEW t \in Triggers, Handler(t)
      PROVE  LastMoveDecides'
  <2>1. UNCHANGED <<feishu, move, crossed>>
    BY <1>0, <1>4, HandlerEffect
  <2>2. access' = "revoked" <=> access = "revoked"
    <3>1. CASE Mirror(t)
      <4>1. page[t] \in [msg : Messages, version : Versions, deleted : BOOLEAN] /\ Upserts(page[t])
        BY <1>0, <3>1 DEF Mirror, TypeOK
      <4> QED
        BY <1>0, <4>1, UpsertsEffect
    <3>2. CASE ~Mirror(t)
      BY <1>4, <3>2, HandlerRows
    <3> QED
      BY <3>1, <3>2
  <2> QED
    BY <1>1, <2>1, <2>2 DEF feishu
<1>5. ASSUME NEW m \in Messages, Invalidate(m)
      PROVE  LastMoveDecides'
  <2>1. access' = access \/ access' = (IF access = "none" THEN "visible" ELSE access)
    BY <1>5, InvalidateEffect DEF mirror
  <2>2. UNCHANGED <<feishu, move, crossed>>
    BY <1>5 DEF Invalidate
  <2> QED
    BY <1>1, <2>1, <2>2 DEF feishu
<1>6. ASSUME NEW i \in Moves, AdmitMove(i) \/ LeaseMove(i) \/ Verify(i)
      PROVE  LastMoveDecides'
  <2>1. PICK s \in {"pending", "leased", "verified"} :
           move' = [move EXCEPT ![i] = s] /\ (s = "verified" => ~IsRemoval(i))
    BY <1>6 DEF AdmitMove, LeaseMove, Verify
  <2>2. UNCHANGED <<present, moves, access, crossed>> /\ i <= moves
    BY <1>0, <1>6 DEF AdmitMove, LeaseMove, Verify, feishu, mirror, history
  <2> QED
    BY <1>0, <2>1, <2>2, AccessIsKept
<1>7. ASSUME NEW i \in Moves, FailMove(i)
      PROVE  LastMoveDecides'
  <2>1. UNCHANGED <<present, moves, access>> /\ i <= moves
    BY <1>0, <1>7 DEF FailMove, feishu, mirror
  <2>2. \/ move' = [move EXCEPT ![i] = "pending"] /\ crossed' = crossed
        \/ move' = [move EXCEPT ![i] = "ended"] /\ crossed' = TRUE
    BY <1>7 DEF FailMove
  <2> QED
    BY <1>0, <2>1, <2>2, AccessIsKept
<1>8. ASSUME NEW i \in Moves, EndMove(i)
      PROVE  LastMoveDecides'
  <2>1. UNCHANGED <<present, moves, access, crossed>> /\ i <= moves /\ move[i] = "acting"
        /\ move' = [move EXCEPT ![i] = "ended"]
    BY <1>0, <1>8 DEF EndMove, feishu, mirror, history
  <2> QED
    BY <1>0, <2>1, AccessIsKept
<1>9. ASSUME NEW i \in Moves, Restore(i)
      PROVE  LastMoveDecides'
  <2>1. /\ UNCHANGED <<present, moves>> /\ move[i] = "verified"
        /\ move' = [move EXCEPT ![i] = "acting"] /\ access' = "visible"
        /\ crossed' = (crossed \/ \E j \in Later(i) : move[j] \in {"acting", "ended"})
    BY <1>9 DEF Restore, feishu
  <2>2. i <= moves
    BY <1>0, <2>1
  <2>3. ~IsRemoval(i)
    BY <1>0, <2>1
  <2>4. \A j \in Moves : /\ move'[j] # "none" => j <= moves
                         /\ move'[j] = "verified" => ~IsRemoval(j)
    BY <1>0, <2>1, <2>2
  <2>5. CASE i = moves
    BY <1>0, <2>1, <2>3, <2>4, <2>5 DEF LastMoveDecides
  <2>6. CASE i # moves
    <3>1. moves \in Later(i)
      BY <1>0, <2>2, <2>6 DEF Later
    <3>2. move'[moves] = move[moves]
      BY <1>0, <2>1, <2>6
    <3> QED
      BY <1>0, <2>1, <2>4, <3>1, <3>2 DEF LastMoveDecides
  <2> QED
    BY <2>5, <2>6
<1>10. ASSUME NEW i \in Moves, Revoke(i)
       PROVE  LastMoveDecides'
  <2>1. /\ UNCHANGED <<present, moves>> /\ move[i] = "leased" /\ IsRemoval(i) /\ access' = "revoked"
    BY <1>10 DEF Revoke, feishu
  <2>2. move' = [j \in Moves |-> IF j = i THEN "acting"
                                 ELSE IF ~IsRemoval(j) /\ move[j] = "pending" THEN "ended"
                                 ELSE move[j]]
    BY <1>10 DEF Revoke
  <2>3. crossed' = (crossed \/ \E j \in Later(i) : move[j] \in {"pending", "acting", "ended"})
    BY <1>10 DEF Revoke
  <2>4. i <= moves /\ moves > 0
    BY <1>0, <2>1
  <2>5. \A j \in Moves : /\ move'[j] # "none" => j <= moves
                         /\ move'[j] = "verified" => ~IsRemoval(j)
    BY <1>0, <2>1, <2>2, <2>4
  <2>6. CASE i = moves
    BY <1>0, <2>1, <2>3, <2>4, <2>5, <2>6 DEF LastMoveDecides
  <2>7. CASE i # moves
    <3>1. moves \in Later(i)
      BY <1>0, <2>4, <2>7 DEF Later
    <3>2. move'[moves] \in {"acting", "ended"} => move[moves] \in {"pending", "acting", "ended"}
      BY <1>0, <2>2, <2>4, <2>7
    <3> QED
      BY <1>0, <2>1, <2>3, <2>4, <2>5, <3>1, <3>2 DEF LastMoveDecides
  <2> QED
    BY <2>6, <2>7
<1>11. CASE Stop
  <2>1. /\ move' = [i \in Moves |-> Again(move[i])] /\ UNCHANGED <<present, moves, access, crossed>>
    BY <1>11 DEF Stop, feishu, mirror, history
  <2>2. \A i \in Moves : /\ move'[i] # "none" => move[i] # "none"
                         /\ move'[i] # "verified"
                         /\ move'[i] \in {"acting", "ended"} => move[i] \in {"acting", "ended"}
    BY <1>0, <2>1 DEF Again
  <2> QED
    BY <1>0, <2>1, <2>2, AccessIsKept
<1>12. CASE PurgesChat
  <2>1. /\ UNCHANGED <<present, moves>> /\ access' = "none"
        /\ move' = [i \in Moves |-> "none"]
    <3>1. move' = [i \in Moves |-> IF i \in Moves THEN "none" ELSE move[i]]
      BY <1>12 DEF PurgesChat, DropsTasks
    <3> QED
      BY <1>12, <3>1 DEF PurgesChat, feishu
  <2>2. \A i \in Moves : move'[i] = "none"
    BY <2>1
  <2> QED
    BY <1>0, <2>1, <2>2 DEF LastMoveDecides
<1>13. ASSUME NEW m \in Messages, PurgeMessage(m)
       PROVE  LastMoveDecides'
  <2>1. UNCHANGED <<present, moves, access, crossed>>
        /\ move' = [i \in Moves |-> IF i \in {} THEN "none" ELSE move[i]]
    BY <1>13 DEF PurgeMessage, DropsTasks, feishu, history
  <2> QED
    BY <1>0, <2>1, AccessIsKept
<1>14. ASSUME NEW m \in Messages, Edit(m) \/ Recall(m) \/ AdmitRecall(m) \/ LeaseRecall(m)
       PROVE  LastMoveDecides'
  BY <1>1, <1>14 DEF Edit, Recall, AdmitRecall, LeaseRecall, feishu, mirror, tasks, history
<1>15. ASSUME NEW t \in Triggers, Admit(t) \/ TimesOut(t)
       PROVE  LastMoveDecides'
  BY <1>1, <1>15 DEF Admit, TimesOut, feishu, mirror, tasks, history
<1>16. ASSUME NEW b \in Blobs, DeleteBlob(b) \/ Unlink(b)
       PROVE  LastMoveDecides'
  BY <1>1, <1>16 DEF DeleteBlob, Unlink, feishu, tasks, history
<1>17. CASE Start \/ GarbageCollect \/ UNCHANGED vars
  BY <1>1, <1>17 DEF Start, GarbageCollect, vars, feishu, mirror, tasks, history
<1> QED
  BY <1>2, <1>3, <1>4, <1>5, <1>6, <1>7, <1>8, <1>9, <1>10, <1>11, <1>12, <1>13, <1>14, <1>15,
     <1>16, <1>17 DEF Next, PurgeChat, PurgeTenant, PurgeAll

-----------------------------------------------------------------------------
(***************************************************************************)
(* Rows, attachments and checkpoints.                                      *)
(***************************************************************************)

\* A step that adds nothing to a revoked chat, and drops the checkpoints that
\* cite what it removes.
LEMMA ContentIsKept ==
    ASSUME MirrorInv, late' = late, access' = "revoked" => access = "revoked",
           \A t \in Triggers :
              \/ cited'[t] = NoEvidence
              \/ /\ cited'[t] = cited[t]
                 /\ \A m \in Messages : cited[t][m] > 0 /\ row[m].version > 0 => row'[m].version > 0,
           access' = "revoked" =>
              \A m \in Messages : /\ att'[m] = att[m] \/ att'[m] = None
                                  /\ row'[m] = row[m] \/ row'[m] = NoRow \/ row'[m].gone
    PROVE  RevokedIsEmpty' /\ CitedHasRow'
<1>1. RevokedIsEmpty'
  BY DEF MirrorInv, RevokedIsEmpty
<1>2. CitedHasRow'
  BY DEF MirrorInv, CitedHasRow, NoEvidence
<1> QED
  BY <1>1, <1>2

LEMMA HandlerContent ==
    ASSUME MirrorInv, NEW t \in Triggers, Handler(t)
    PROVE  RevokedIsEmpty' /\ CitedHasRow'
<1>0. TypeOK /\ t \in Messages
      /\ cited \in [Triggers -> [Messages -> Versions]]
      /\ evid \in [Triggers -> [Messages -> Versions]]
  BY MessagesAssumption DEF MirrorInv, TypeOK
<1>1. CASE Mirror(t)
  <2>1. at[t] = "mirror" /\ Upserts(page[t]) /\ late' = late
    BY <1>1 DEF Mirror, history
  <2>2. page[t] \in [msg : Messages, version : Versions, deleted : BOOLEAN] /\ KnownPage(page[t])
    BY <1>0, <2>1, MirroredIsKnown DEF TypeOK
  <2>3. /\ access' = "revoked" <=> access = "revoked"
        /\ access = "revoked" => UNCHANGED <<row, att>>
        /\ \A u \in Triggers : cited'[u] = cited[u] \/ cited'[u] = NoEvidence
    BY <1>0, <2>1, <2>2, UpsertsEffect
  <2>4. \A m \in Messages : row'[m].version > 0 \/ row'[m] = row[m]
    BY <2>1, <2>2, UpsertsKnown
  <2> QED
    BY <2>1, <2>3, <2>4, ContentIsKept
<1>2. CASE ~Mirror(t)
  <2>1. row' = row /\ access' = access
    BY <1>2, HandlerRows
  <2>2. CASE SaveCheckpoint(t)
    <3>1. /\ cited' = [cited EXCEPT ![t] = evid[t]] /\ att' = att
          /\ late' = late \union {u \in {t} : access = "revoked" \/
                                     \E m \in Messages : evid[t][m] > 0 /\ row[m].version = 0}
      BY <2>2 DEF SaveCheckpoint, mirror
    <3>2. \A u \in Triggers : u # t => cited'[u] = cited[u]
      BY <1>0, <3>1
    <3>3. cited'[t] = evid[t]
      BY <1>0, <3>1
    <3>4. RevokedIsEmpty'
      BY <2>1, <3>1, <3>2 DEF MirrorInv, RevokedIsEmpty
    <3>5. ASSUME NEW u \in Triggers \ late', NEW m \in Messages, cited'[u][m] > 0
          PROVE  row'[m].version > 0
      <4>1. CASE u = t
        <5>1. row[m].version # 0
          BY <3>1, <3>3, <3>5, <4>1
        <5>2. row[m].version \in Nat
          BY <1>0, BoundsAssumption DEF TypeOK, Versions
        <5> QED
          BY <2>1, <5>1, <5>2
      <4>2. CASE u # t
        BY <2>1, <3>1, <3>2, <3>5, <4>2 DEF MirrorInv, CitedHasRow
      <4> QED
        BY <4>1, <4>2
    <3> QED
      BY <3>4, <3>5 DEF CitedHasRow
  <2>3. CASE Run(t)
    <3>1. /\ cited' = [cited EXCEPT ![t] = IF cited[t] = evid[t] THEN cited[t] ELSE NoEvidence]
          /\ att' = att /\ late' = late
      BY <2>3 DEF Run, mirror, history
    <3>2. \A u \in Triggers : cited'[u] = cited[u] \/ cited'[u] = NoEvidence
      BY <1>0, <3>1
    <3> QED
      BY <2>1, <3>1, <3>2, ContentIsKept
  <2>4. CASE Record(t)
    <3>1. cited' = cited /\ late' = late /\ (access = "revoked" => att' = att)
      <4>1. page[t].msg \in Messages
        BY <1>0 DEF TypeOK
      <4>2. access = "revoked" => att[page[t].msg] = None
        BY <4>1 DEF MirrorInv, RevokedIsEmpty
      <4> QED
        BY <2>4, <4>2 DEF Record, history
    <3> QED
      BY <2>1, <3>1, ContentIsKept
  <2>5. CASE Put(t)
    BY <2>1, <2>5, ContentIsKept DEF Put
  <2>6. CASE LeaseMention(t) \/ Fetch(t) \/ Recover(t) \/ Look(t) \/ Parse(t) \/ Finish(t)
    <3>1. att' = att /\ cited' = cited /\ late' = late
      BY <2>6 DEF LeaseMention, Fetch, Recover, Look, Parse, Finish, mirror, history
    <3> QED
      BY <2>1, <3>1, ContentIsKept
  <2> QED
    BY <1>2, <2>2, <2>3, <2>4, <2>5, <2>6 DEF Handler
<1> QED
  BY <1>1, <1>2

LEMMA ContentStep ==
    ASSUME MirrorInv, [Next]_vars
    PROVE  RevokedIsEmpty' /\ CitedHasRow'
<1>0. TypeOK /\ cited \in [Triggers -> [Messages -> Versions]]
  BY DEF MirrorInv, TypeOK
<1>1. ASSUME UNCHANGED <<access, row, att, cited, late>>
      PROVE  RevokedIsEmpty' /\ CitedHasRow'
  BY <1>1, ContentIsKept
<1>2. ASSUME NEW t \in Triggers, Handler(t)
      PROVE  RevokedIsEmpty' /\ CitedHasRow'
  BY <1>2, HandlerContent
<1>3. ASSUME NEW m \in Messages, Receive(m)
      PROVE  RevokedIsEmpty' /\ CitedHasRow'
  <2>1. Upserts(Posted(m)) /\ late' = late
    BY <1>3 DEF Receive, history
  <2>2. Posted(m) \in [msg : Messages, version : Versions, deleted : BOOLEAN] /\ KnownPage(Posted(m))
    BY <1>0, SnapshotType, MirroredIsKnown
  <2>3. /\ access' = "revoked" <=> access = "revoked"
        /\ access = "revoked" => UNCHANGED <<row, att>>
        /\ \A u \in Triggers : cited'[u] = cited[u] \/ cited'[u] = NoEvidence
    BY <1>0, <2>1, <2>2, UpsertsEffect
  <2>4. \A n \in Messages : row'[n].version > 0 \/ row'[n] = row[n]
    BY <2>1, <2>2, UpsertsKnown
  <2> QED
    BY <2>1, <2>3, <2>4, ContentIsKept
<1>4. ASSUME NEW m \in Messages, Invalidate(m)
      PROVE  RevokedIsEmpty' /\ CitedHasRow'
  <2>1. source[m].version > 0 /\ late' = late
    BY <1>4, InvalidateEffect
  <2>2. \A n \in Messages : n # m => row'[n] = row[n] /\ att'[n] = att[n]
    BY <1>4, InvalidateEffect
  <2>3. CASE UNCHANGED <<mirror, cited, doomed, raced>>
    BY <1>1, <2>1, <2>3 DEF mirror
  <2>4. CASE /\ access' = (IF access = "none" THEN "visible" ELSE access)
             /\ row'[m] = [version |-> source[m].version, gone |-> TRUE] /\ att'[m] = None
             /\ cited' = CitedWithout({m})
    <3>1. access' = "revoked" => access = "revoked"
      BY <2>4
    <3>2. \A t \in Triggers : cited'[t] = NoEvidence \/ cited'[t] = cited[t]
      BY <1>0, <2>4, CitedWithoutEffect
    <3>3. \A n \in Messages : /\ att'[n] = att[n] \/ att'[n] = None
                              /\ row'[n] = row[n] \/ row'[n].gone
                              /\ row[n].version > 0 => row'[n].version > 0
      BY <2>1, <2>2, <2>4
    <3> QED
      BY <2>1, <3>1, <3>2, <3>3, ContentIsKept
  <2> QED
    BY <1>4, <2>3, <2>4, InvalidateEffect
<1>5. ASSUME NEW i \in Moves, Revoke(i)
      PROVE  RevokedIsEmpty' /\ CitedHasRow'
  <2> DEFINE M == {m \in Messages : row[m].version > 0}
  <2>1. /\ access' = "revoked" /\ late' = late
        /\ \A m \in Messages : row'[m] = NoRow /\ att'[m] = None
        /\ cited' = CitedWithout(M)
    BY <1>5 DEF Revoke, Purges
  <2>2. ASSUME NEW t \in Triggers \ late
        PROVE  cited'[t] = NoEvidence
    <3>1. CASE Cites(t, M)
      BY <2>1, <3>1 DEF CitedWithout
    <3>2. CASE ~Cites(t, M)
      <4>1. \A m \in Messages : ~(cited[t][m] > 0)
        BY <3>2 DEF Cites, MirrorInv, CitedHasRow
      <4>2. \A m \in Messages : cited[t][m] = 0
        BY <1>0, <4>1, BoundsAssumption DEF Versions
      <4>3. cited[t] = NoEvidence
        BY <1>0, <4>2 DEF NoEvidence
      <4> QED
        BY <2>1, <3>2, <4>3 DEF CitedWithout
    <3> QED
      BY <3>1, <3>2
  <2>3. RevokedIsEmpty'
    BY <2>1, <2>2 DEF RevokedIsEmpty
  <2>4. CitedHasRow'
    BY <2>1, <2>2 DEF CitedHasRow, NoEvidence
  <2> QED
    BY <2>3, <2>4
<1>6. ASSUME NEW i \in Moves, Restore(i)
      PROVE  RevokedIsEmpty' /\ CitedHasRow'
  BY <1>6, ContentIsKept DEF Restore
<1>7. CASE GarbageCollect
  <2>1. PICK S \in SUBSET Messages, A \in SUBSET Messages, R \in SUBSET Triggers :
           /\ RowsOf(S, A)
           /\ cited' = [t \in Triggers |-> IF Cites(t, S) \/ t \in R THEN NoEvidence ELSE cited[t]]
    BY <1>7 DEF GarbageCollect
  <2>2. late' = late /\ access' = access
    BY <1>7 DEF GarbageCollect, history
  <2>3. \A m \in Messages : /\ m \notin S => row'[m] = row[m]
                            /\ row'[m] = row[m] \/ row'[m] = NoRow
                            /\ att'[m] = att[m] \/ att'[m] = None
    BY <1>0, <2>1, RowsOfEffect
  <2>4. \A t \in Triggers :
              \/ cited'[t] = NoEvidence
              \/ cited'[t] = cited[t] /\ \A m \in Messages : cited[t][m] > 0 => m \notin S
    BY <2>1 DEF Cites
  <2> QED
    BY <2>2, <2>3, <2>4, ContentIsKept
<1>8. ASSUME NEW m \in Messages, PurgeMessage(m)
      PROVE  RevokedIsEmpty' /\ CitedHasRow'
  <2>1. RowsOf({m}, {}) /\ late' = late /\ access' = access
        /\ cited' = [t \in Triggers |-> IF t = m THEN NoEvidence ELSE CitedWithout({m})[t]]
    BY <1>8 DEF PurgeMessage, history
  <2>2. \A n \in Messages : /\ n # m => row'[n] = row[n]
                            /\ row'[n] = row[n] \/ row'[n] = NoRow
                            /\ att'[n] = att[n] \/ att'[n] = None
    BY <1>0, <2>1, RowsOfEffect
  <2>3. \A t \in Triggers :
              \/ cited'[t] = NoEvidence
              \/ cited'[t] = cited[t] /\ \A n \in Messages : cited[t][n] > 0 => n # m
    BY <1>0, <2>1, CitedWithoutEffect DEF Cites
  <2> QED
    BY <2>1, <2>2, <2>3, ContentIsKept
<1>9. CASE PurgesChat
  <2>1. late' = late /\ access' = "none" /\ \A t \in Triggers : cited'[t] = NoEvidence
    BY <1>9 DEF PurgesChat
  <2> QED
    BY <2>1, ContentIsKept
<1>10. ASSUME NEW m \in Messages, Edit(m) \/ Recall(m) \/ AdmitRecall(m) \/ LeaseRecall(m)
       PROVE  RevokedIsEmpty' /\ CitedHasRow'
  BY <1>1, <1>10 DEF Edit, Recall, AdmitRecall, LeaseRecall, mirror, history
<1>11. ASSUME NEW i \in Moves, AdmitMove(i) \/ LeaseMove(i) \/ Verify(i) \/ FailMove(i) \/ EndMove(i)
       PROVE  RevokedIsEmpty' /\ CitedHasRow'
  BY <1>1, <1>11 DEF AdmitMove, LeaseMove, Verify, FailMove, EndMove, mirror, history
<1>12. ASSUME NEW t \in Triggers, Admit(t) \/ TimesOut(t)
       PROVE  RevokedIsEmpty' /\ CitedHasRow'
  BY <1>1, <1>12 DEF Admit, TimesOut, mirror, history
<1>13. ASSUME NEW b \in Blobs, DeleteBlob(b) \/ Unlink(b)
       PROVE  RevokedIsEmpty' /\ CitedHasRow'
  BY <1>1, <1>13 DEF DeleteBlob, Unlink, history
<1>14. CASE MoveBot \/ Stop \/ Start \/ UNCHANGED vars
  BY <1>1, <1>14 DEF MoveBot, Stop, Start, vars, mirror, history
<1> QED
  BY <1>2, <1>3, <1>4, <1>5, <1>6, <1>7, <1>8, <1>9, <1>10, <1>11, <1>12, <1>13, <1>14
     DEF Next, PurgeChat, PurgeTenant, PurgeAll

-----------------------------------------------------------------------------
(***************************************************************************)
(* Blobs.                                                                  *)
(***************************************************************************)

\* No reference comes from clearing an attachment or asking for it again.
LEMMA ReferencesShrink ==
    ASSUME \A m \in Messages : att'[m] = att[m] \/ att'[m] \in {None, Asked}
    PROVE  Referenced(att') \subseteq Referenced(att)
BY MessagesAssumption DEF Referenced

\* A step that neither deletes nor brings a file.
LEMMA BlobsAreKept ==
    ASSUME MirrorInv, UNCHANGED <<meta, files, raced, unlinking>>, doomed' \subseteq doomed,
           \A m \in Messages : att'[m] = att[m] \/ att'[m] \in {None, Asked},
           \A b \in Blobs : Recording(b)' => Recording(b)
    PROVE  BlobsPresent' /\ DeletionsRace'
<1>1. Referenced(att') \subseteq Referenced(att)
  BY ReferencesShrink
<1>2. doomed \union unlinking \subseteq Blobs
  BY DEF MirrorInv, TypeOK
<1>3. Referenced(att)' = Referenced(att')
  BY DEF Referenced
<1>4. BlobsPresent'
  BY <1>1, <1>3 DEF MirrorInv, BlobsPresent
<1>5. DeletionsRace'
  BY <1>1, <1>2, <1>3 DEF MirrorInv, DeletionsRace
<1> QED
  BY <1>4, <1>5

\* A lifecycle transaction gives up what it no longer refers to.
LEMMA BlobsGivenUp ==
    ASSUME MirrorInv, NEW C \in SUBSET Blobs, GivesUp(C), UNCHANGED <<at, page>>,
           \A m \in Messages : att'[m] = att[m] \/ att'[m] = None
    PROVE  BlobsPresent' /\ DeletionsRace'
<1> DEFINE drop == C \ Referenced(att')
<1>1. /\ meta' = meta \ drop /\ doomed' = doomed \union drop
      /\ raced' = raced \union {b \in drop : Recording(b)}
      /\ UNCHANGED <<files, unlinking>>
  BY GivesUpEffect DEF MirrorInv
<1>2. Referenced(att') \subseteq Referenced(att) /\ Referenced(att)' = Referenced(att')
  BY ReferencesShrink DEF Referenced
<1>3. drop \subseteq Blobs /\ drop \intersect Referenced(att') = {}
  OBVIOUS
<1>4. \A b : Recording(b)' <=> Recording(b)
  BY DEF Recording
<1> HIDE DEF drop
<1>5. BlobsPresent'
  BY <1>1, <1>2, <1>3 DEF MirrorInv, BlobsPresent
<1>6. DeletionsRace'
  BY <1>1, <1>2, <1>3, <1>4 DEF MirrorInv, DeletionsRace
<1> QED
  BY <1>5, <1>6

\* Maintenance deletes what nothing refers to any more, with no handler about.
LEMMA BlobsCollected ==
    ASSUME MirrorInv, ~up, UNCHANGED <<at, page, doomed, raced, unlinking>>,
           \A m \in Messages : att'[m] = att[m] \/ att'[m] = None,
           NEW D \in SUBSET Blobs, D \intersect Referenced(att') = {},
           files \ D \subseteq files', files' \subseteq files, meta \ D \subseteq meta'
    PROVE  BlobsPresent' /\ DeletionsRace'
<1>1. Referenced(att') \subseteq Referenced(att) /\ Referenced(att)' = Referenced(att')
  BY ReferencesShrink DEF Referenced
<1>2. \A b : ~Recording(b)'
  BY DEF MirrorInv, StoppedIsQuiet, Recording
<1>3. BlobsPresent'
  BY <1>1 DEF MirrorInv, BlobsPresent
<1>4. DeletionsRace'
  BY <1>1, <1>2 DEF MirrorInv, DeletionsRace
<1> QED
  BY <1>3, <1>4

LEMMA HandlerBlobs ==
    ASSUME MirrorInv, NEW t \in Triggers, Handler(t)
    PROVE  BlobsPresent' /\ DeletionsRace'
<1>0. TypeOK /\ page[t].msg \in Messages /\ ContentOf[page[t].msg] \in Blobs
      /\ att \in [Messages -> {None, Asked} \union Blobs]
  BY MessagesAssumption DEF MirrorInv, TypeOK
<1>1. /\ \A u \in Triggers \ {t} : at'[u] = at[u] /\ page'[u] = page[u]
      /\ at'[t] = "record" => Put(t) /\ page'[t] = page[t] /\ ContentOf[page[t].msg] \in files'
      /\ UNCHANGED <<doomed, unlinking>>
  BY <1>0, HandlerEffect
<1> DEFINE c == ContentOf[page[t].msg]
<1>2. \A b : Recording(b)' => Recording(b) \/ (b = c /\ Put(t) /\ at'[t] = "record")
  BY <1>1 DEF Recording
<1>3. CASE Put(t)
  <2>1. /\ UNCHANGED <<att, meta>>
        /\ \/ /\ files' = files \union {c} /\ raced' = raced \union ({c} \intersect (doomed \union unlinking))
           \/ /\ UNCHANGED <<files, raced>> /\ Fails(t)
    BY <1>3 DEF Put
  <2>2. Fails(t) => at'[t] # "record"
    BY <1>0, FailsEffect DEF TypeOK
  <2>3. Referenced(att)' = Referenced(att)
    BY <2>1 DEF Referenced
  <2> HIDE DEF c
  <2>4. BlobsPresent'
    BY <2>1, <2>3 DEF MirrorInv, BlobsPresent
  <2>5. DeletionsRace'
    <3>1. ASSUME NEW b \in Blobs, Recording(b)'
          PROVE  b \in files' \union raced'
      BY <1>2, <2>1, <2>2, <3>1 DEF MirrorInv, DeletionsRace
    <3>2. ASSUME NEW b \in doomed \union unlinking, Recording(b)' \/ b \in Referenced(att)
          PROVE  b \in raced'
      BY <1>2, <2>1, <2>2, <3>2 DEF MirrorInv, DeletionsRace
    <3> QED
      BY <1>1, <2>3, <3>1, <3>2 DEF DeletionsRace
  <2> QED
    BY <2>4, <2>5
<1>4. CASE Record(t)
  <2>1. at[t] = "record" /\ Recording(c)
    BY <1>4 DEF Record, Recording
  <2>2. c \in files \union raced /\ (c \in doomed \union unlinking => c \in raced)
    BY <1>0, <2>1 DEF MirrorInv, DeletionsRace
  <2>3. /\ UNCHANGED <<files, raced>>
        /\ \/ UNCHANGED <<att, meta>>
           \/ /\ att' = [att EXCEPT ![page[t].msg] = c] /\ meta' = meta \union {c}
    BY <1>4 DEF Record, history
  <2>4. \A b \in Blobs : Recording(b)' => Recording(b)
    <3>1. at'[t] # "record"
      BY <1>0, <1>4, FailsEffect DEF Record, Continues, Goes, TypeOK
    <3> QED
      BY <1>2, <3>1
  <2> HIDE DEF c
  <2>5. Referenced(att') \subseteq Referenced(att) \union {c} /\ Referenced(att)' = Referenced(att')
    BY <1>0, <2>3 DEF Referenced
  <2>6. UNCHANGED <<att, meta>> \/ meta' = meta \union {c}
    BY <2>3
  <2>7. BlobsPresent'
    <3>1. CASE UNCHANGED <<att, meta>>
      BY <2>3, <2>5, <3>1 DEF MirrorInv, BlobsPresent
    <3>2. CASE meta' = meta \union {c}
      BY <2>2, <2>3, <2>5, <3>2 DEF MirrorInv, BlobsPresent
    <3> QED
      BY <2>6, <3>1, <3>2
  <2>8. DeletionsRace'
    <3>1. doomed \union unlinking \subseteq Blobs
      BY <1>0 DEF TypeOK
    <3> QED
      BY <1>1, <2>2, <2>3, <2>4, <2>5, <3>1 DEF MirrorInv, DeletionsRace
  <2> QED
    BY <2>7, <2>8
<1>5. CASE Mirror(t)
  <2>1. page[t] \in [msg : Messages, version : Versions, deleted : BOOLEAN] /\ Upserts(page[t])
    BY <1>0, <1>5 DEF Mirror, TypeOK
  <2>2. /\ UNCHANGED <<meta, files, unlinking>>
        /\ \A m \in Messages : att'[m] = att[m] \/ att'[m] \in {None, Asked}
    BY <1>0, <2>1, UpsertsEffect
  <2>3. ~Put(t) /\ raced' = raced
    BY <1>5 DEF Mirror, Put, history
  <2> QED
    BY <1>1, <1>2, <2>2, <2>3, BlobsAreKept
<1>6. CASE \/ LeaseMention(t) \/ Fetch(t) \/ Recover(t) \/ Look(t) \/ Parse(t) \/ Run(t)
           \/ SaveCheckpoint(t) \/ Finish(t)
  <2>1. UNCHANGED <<meta, files, unlinking, att, raced, doomed>>
    BY <1>6
       DEF LeaseMention, Fetch, Recover, Look, Parse, Run, SaveCheckpoint, Finish, mirror, process, history
  <2>2. CASE Put(t)
    BY <1>3, <2>2
  <2>3. CASE ~Put(t)
    BY <1>2, <2>1, <2>3, BlobsAreKept
  <2> QED
    BY <2>2, <2>3
<1> QED
  BY <1>3, <1>4, <1>5, <1>6 DEF Handler

LEMMA BlobsStep ==
    ASSUME MirrorInv, [Next]_vars
    PROVE  BlobsPresent' /\ DeletionsRace'
<1>0. TypeOK
  BY DEF MirrorInv
<1>1. ASSUME UNCHANGED <<meta, files, raced, unlinking, att, at, page, doomed>>
      PROVE  BlobsPresent' /\ DeletionsRace'
  BY <1>1, BlobsAreKept DEF Recording
<1>2. ASSUME NEW t \in Triggers, Handler(t)
      PROVE  BlobsPresent' /\ DeletionsRace'
  BY <1>2, HandlerBlobs
<1>3. ASSUME NEW m \in Messages, Receive(m)
      PROVE  BlobsPresent' /\ DeletionsRace'
  <2>1. Upserts(Posted(m)) /\ UNCHANGED <<raced, doomed, at, page>>
    BY <1>3 DEF Receive, history
  <2>2. /\ UNCHANGED <<meta, files, unlinking>>
        /\ \A n \in Messages : att'[n] = att[n] \/ att'[n] \in {None, Asked}
    BY <1>0, <2>1, UpsertsEffect, SnapshotType
  <2> QED
    BY <2>1, <2>2, BlobsAreKept DEF Recording
<1>4. ASSUME NEW m \in Messages, Invalidate(m)
      PROVE  BlobsPresent' /\ DeletionsRace'
  <2>1. UNCHANGED <<at, page>>
    BY <1>4 DEF Invalidate
  <2>2. CASE UNCHANGED <<mirror, cited, doomed, raced>>
    BY <1>1, <2>1, <2>2 DEF mirror
  <2>3. CASE att'[m] = None /\ GivesUp({att[m]} \intersect Blobs)
    <3>1. \A n \in Messages : att'[n] = att[n] \/ att'[n] = None
      BY <1>4, <2>3, InvalidateEffect
    <3>2. {att[m]} \intersect Blobs \in SUBSET Blobs
      OBVIOUS
    <3> QED
      BY <2>1, <2>3, <3>1, <3>2, BlobsGivenUp
  <2> QED
    BY <1>4, <2>2, <2>3, InvalidateEffect
<1>5. ASSUME NEW i \in Moves, Revoke(i)
      PROVE  BlobsPresent' /\ DeletionsRace'
  <2>1. UNCHANGED <<at, page>> /\ GivesUp(Referenced(att)) /\ \A n \in Messages : att'[n] = None
    BY <1>5 DEF Revoke, Purges
  <2>2. Referenced(att) \in SUBSET Blobs
    BY DEF Referenced
  <2> QED
    BY <2>1, <2>2, BlobsGivenUp
<1>6. ASSUME NEW i \in Moves, Restore(i)
      PROVE  BlobsPresent' /\ DeletionsRace'
  BY <1>1, <1>6 DEF Restore, process
<1>7. ASSUME NEW b \in Blobs, DeleteBlob(b) \/ Unlink(b)
      PROVE  BlobsPresent' /\ DeletionsRace'
  <2>1. /\ files' = files \ {b} /\ UNCHANGED <<att, meta, at, page, raced>>
        /\ b \in doomed \union unlinking
        /\ doomed' \subseteq doomed /\ unlinking' \subseteq unlinking
    BY <1>7 DEF DeleteBlob, Unlink, history, process
  <2>2. (\A c : Recording(c)' <=> Recording(c)) /\ Referenced(att)' = Referenced(att)
    BY <2>1 DEF Recording, Referenced
  <2>3. BlobsPresent'
    BY <2>1, <2>2 DEF MirrorInv, BlobsPresent, DeletionsRace
  <2>4. DeletionsRace'
    BY <2>1, <2>2 DEF MirrorInv, DeletionsRace
  <2> QED
    BY <2>3, <2>4
<1>8. CASE GarbageCollect
  <2>1. PICK S \in SUBSET Messages, A \in SUBSET Messages : RowsOf(S, A)
    BY <1>8 DEF GarbageCollect
  <2>2. ~up /\ CollectsBlobs /\ UNCHANGED <<unlinking, doomed, at, page, raced>>
    BY <1>8 DEF GarbageCollect, LockIsFree, process, history
  <2>3. PICK D \in SUBSET (Blobs \ Referenced(att')) : files' = files \ D /\ meta' \in {meta, meta \ D}
    BY <2>2 DEF CollectsBlobs
  <2>4. \A m \in Messages : att'[m] = att[m] \/ att'[m] = None
    BY <1>0, <2>1, RowsOfEffect
  <2>5. D \in SUBSET Blobs /\ D \intersect Referenced(att') = {}
    OBVIOUS
  <2>6. files \ D \subseteq files' /\ files' \subseteq files /\ meta \ D \subseteq meta'
    BY <2>3
  <2> QED
    BY <2>2, <2>4, <2>5, <2>6, BlobsCollected
<1>9. ASSUME ~up, NEW S, RowsOf(S, {}), NEW M \in SUBSET Messages, DropsBlobs(M),
             UNCHANGED <<unlinking, process, raced>>
      PROVE  BlobsPresent' /\ DeletionsRace'
  <2> DEFINE drop == ({att[m] : m \in M} \intersect Blobs) \ Referenced(att')
  <2>1. meta' = meta \ drop /\ \E D \in SUBSET drop : files' = files \ D
    BY <1>9 DEF DropsBlobs, Unreferenced
  <2>2. drop \in SUBSET Blobs /\ drop \intersect Referenced(att') = {}
    OBVIOUS
  <2> HIDE DEF drop
  <2>3. \A m \in Messages : att'[m] = att[m] \/ att'[m] = None
    BY <1>0, <1>9, RowsOfEffect
  <2>4. UNCHANGED <<at, page, doomed, raced, unlinking>>
    BY <1>9 DEF process
  <2>5. files \ drop \subseteq files' /\ files' \subseteq files /\ meta \ drop \subseteq meta'
    BY <2>1
  <2> QED
    BY <1>9, <2>2, <2>3, <2>4, <2>5, BlobsCollected
<1>10. ASSUME NEW m \in Messages, PurgeMessage(m)
       PROVE  BlobsPresent' /\ DeletionsRace'
  BY <1>9, <1>10 DEF PurgeMessage, LockIsFree, history
<1>11. CASE PurgeChat \/ PurgeTenant
  BY <1>9, <1>11 DEF PurgeChat, PurgeTenant, PurgesChat, LockIsFree
<1>12. CASE PurgeAll
  <2>1. ~up /\ UNCHANGED <<at, page>> /\ RowsOf(Messages, {})
    BY <1>12 DEF PurgeAll, PurgesChat, LockIsFree, process
  <2>2. \A m \in Messages : att'[m] = None
    BY <2>1 DEF RowsOf
  <2>3. Referenced(att)' = {}
    BY <2>2, MessagesAssumption DEF Referenced
  <2>4. \A b : ~Recording(b)'
    BY <2>1 DEF MirrorInv, StoppedIsQuiet, Recording
  <2> QED
    BY <2>3, <2>4 DEF BlobsPresent, DeletionsRace
<1>13. CASE Stop
  <2>1. /\ doomed' = {} /\ UNCHANGED <<meta, files, raced, unlinking, att>>
        /\ \A t \in Triggers : at'[t] = "off"
    BY <1>13 DEF Stop, mirror, history
  <2>2. \A b : ~Recording(b)'
    BY <2>1 DEF Recording
  <2> QED
    BY <2>1, <2>2, BlobsAreKept
<1>14. ASSUME NEW m \in Messages, Edit(m) \/ Recall(m) \/ AdmitRecall(m) \/ LeaseRecall(m)
       PROVE  BlobsPresent' /\ DeletionsRace'
  BY <1>1, <1>14 DEF Edit, Recall, AdmitRecall, LeaseRecall, mirror, process, history
<1>15. ASSUME NEW i \in Moves, AdmitMove(i) \/ LeaseMove(i) \/ Verify(i) \/ FailMove(i) \/ EndMove(i)
       PROVE  BlobsPresent' /\ DeletionsRace'
  BY <1>1, <1>15 DEF AdmitMove, LeaseMove, Verify, FailMove, EndMove, mirror, process, history
<1>16. ASSUME NEW t \in Triggers, Admit(t) \/ TimesOut(t)
       PROVE  BlobsPresent' /\ DeletionsRace'
  BY <1>1, <1>16 DEF Admit, TimesOut, mirror, history
<1>17. CASE MoveBot \/ Start \/ UNCHANGED vars
  BY <1>1, <1>17 DEF MoveBot, Start, vars, mirror, process, history
<1> QED
  BY <1>2, <1>3, <1>4, <1>5, <1>6, <1>7, <1>8, <1>10, <1>11, <1>12, <1>13, <1>14, <1>15, <1>16,
     <1>17 DEF Next

-----------------------------------------------------------------------------
(***************************************************************************)
(* The results.                                                            *)
(***************************************************************************)

LEMMA MirrorStart == Init => MirrorInv
<1> SUFFICES ASSUME Init
             PROVE  MirrorInv
  OBVIOUS
<1>1. TypeOK
  <2>1. {0, 1} \subseteq Versions /\ 0 \in 0 .. MaxMoves /\ 0 \in 0 .. MaxStops
    BY BoundsAssumption DEF Versions
  <2>2. source \in [Messages -> [version : Versions, deleted : BOOLEAN]]
    BY <2>1 DEF Init
  <2>3. NoRow \in [version : Versions, gone : BOOLEAN]
    BY <2>1 DEF NoRow
  <2>4. NoEvidence \in [Messages -> Versions]
    BY <2>1 DEF NoEvidence
  <2>5. \A t \in Triggers : NoPage(t) \in [msg : Messages, version : Versions, deleted : BOOLEAN]
    BY <2>1, MessagesAssumption DEF NoPage
  <2>6. row \in [Messages -> [version : Versions, gone : BOOLEAN]]
    BY <2>3 DEF Init
  <2>7. cited \in [Triggers -> [Messages -> Versions]] /\ evid \in [Triggers -> [Messages -> Versions]]
    BY <2>4 DEF Init
  <2>8. page \in [Triggers -> [msg : Messages, version : Versions, deleted : BOOLEAN]]
    BY <2>5 DEF Init
  <2>9. moves \in 0 .. MaxMoves /\ stops \in 0 .. MaxStops
    BY <2>1 DEF Init
  <2>10. present \in BOOLEAN /\ up \in BOOLEAN /\ crossed \in BOOLEAN
    BY DEF Init
  <2> QED
    BY <2>2, <2>6, <2>7, <2>8, <2>9, <2>10 DEF Init, TypeOK
<1>2. KnownFromSource
  BY DEF Init, KnownFromSource, NoRow
<1>3. RevokedIsEmpty /\ CitedHasRow
  BY DEF Init, RevokedIsEmpty, CitedHasRow, NoEvidence
<1>4. StoppedIsQuiet
  BY DEF Init, StoppedIsQuiet
<1>5. BlobsPresent /\ DeletionsRace
  BY MessagesAssumption DEF Init, BlobsPresent, DeletionsRace, Referenced, Recording
<1>6. LastMoveDecides
  BY DEF Init, LastMoveDecides
<1> QED
  BY <1>1, <1>2, <1>3, <1>4, <1>5, <1>6 DEF MirrorInv

LEMMA MirrorStep ==
    ASSUME MirrorInv, [Next]_vars
    PROVE  MirrorInv'
<1>1. TypeOK'
  BY TypesStep DEF MirrorInv
<1> QED
  BY <1>1, KnownStep, QuietStep, AccessStep, ContentStep, BlobsStep DEF MirrorInv

\* The inductive invariant holds in every state of the mirror, its handlers
\* and its maintenance.
THEOREM MirrorInvariant == Spec => []MirrorInv
BY MirrorStart, MirrorStep, PTL DEF Spec

\* While access to the chat is revoked nothing of its content is left, but for
\* a checkpoint of a run that was under way (revoke_chat_access, upsert_message,
\* record_attachment_blob).
THEOREM RevokedStaysEmpty == Spec => []RevokedIsEmpty
<1>1. MirrorInv => RevokedIsEmpty
  BY DEF MirrorInv
<1> QED
  BY <1>1, MirrorInvariant, PTL

\* A blob that an attachment refers to has its metadata and its file, unless a
\* deletion met an ingest of the same content (EncryptedBlobStore.put, delete).
THEOREM ReferencedBlobsPresent == Spec => []BlobsPresent
<1>1. MirrorInv => BlobsPresent
  BY DEF MirrorInv
<1> QED
  BY <1>1, MirrorInvariant, PTL

\* Once every membership change was handled, in order, the mirror is closed if
\* and only if the bot is not in the chat (restore_chat_access, revoke_chat_access).
THEOREM AccessFollowsMembership == Spec => []AccessFollowsBot
<1>1. MirrorInv => AccessFollowsBot
  <2> SUFFICES ASSUME MirrorInv, \A i \in 1 .. moves : move[i] = "ended", ~crossed
               PROVE  (access = "revoked") <=> ~present
    BY DEF AccessFollowsBot
  <2>1. moves \in Nat
    BY BoundsAssumption DEF MirrorInv, TypeOK
  <2>2. CASE moves = 0
    BY <2>2 DEF MirrorInv, LastMoveDecides
  <2>3. CASE moves > 0
    <3>1. move[moves] = "ended"
      BY <2>1, <2>3
    <3> QED
      BY <2>1, <2>3, <3>1, RemovalsAreOdd DEF MirrorInv, LastMoveDecides
  <2> QED
    BY <2>1, <2>2, <2>3
<1> QED
  BY <1>1, MirrorInvariant, PTL

\* A recalled message stays recalled until its row is removed: nothing that is
\* mirrored later brings its content back (upsert_message, invalidate_message).
THEOREM TombstonesStay == Spec => TombstoneStays
<1> DEFINE Stays == \A m \in Messages : row[m].gone => row'[m].gone \/ row'[m] = NoRow
<1>1. ASSUME MirrorInv, [Next]_vars
      PROVE  [Stays]_vars
  <2>0. TypeOK
    BY <1>1 DEF MirrorInv
  <2>1. CASE row' = row
    BY <2>1
  <2>2. ASSUME NEW S, NEW A, RowsOf(S, A)
        PROVE  Stays
    BY <2>0, <2>2, RowsOfEffect
  <2>3. ASSUME NEW m \in Messages, Receive(m)
        PROVE  Stays
    <3>1. Upserts(Posted(m))
      BY <2>3 DEF Receive
    <3> QED
      BY <1>1, <2>0, <3>1, SnapshotType, MirroredIsKnown, UpsertsKnown
  <2>4. ASSUME NEW t \in Triggers, Handler(t)
        PROVE  Stays
    <3>1. CASE Mirror(t)
      <4>1. at[t] = "mirror" /\ Upserts(page[t])
        BY <3>1 DEF Mirror
      <4>2. page[t] \in [msg : Messages, version : Versions, deleted : BOOLEAN] /\ KnownPage(page[t])
        BY <1>1, <2>0, <4>1, MirroredIsKnown DEF TypeOK
      <4> QED
        BY <1>1, <4>1, <4>2, UpsertsKnown
    <3>2. CASE ~Mirror(t)
      BY <2>1, <2>4, <3>2, HandlerRows
    <3> QED
      BY <3>1, <3>2
  <2>5. ASSUME NEW m \in Messages, Invalidate(m)
        PROVE  Stays
    <3>1. /\ \A n \in Messages : n # m => row'[n] = row[n]
          /\ row'[m] = row[m] \/ row'[m] = [version |-> source[m].version, gone |-> TRUE]
      BY <1>1, <2>5, InvalidateEffect DEF mirror
    <3> QED
      BY <3>1
  <2>6. ASSUME NEW i \in Moves, Revoke(i)
        PROVE  Stays
    BY <2>6 DEF Revoke, Purges
  <2>7. CASE GarbageCollect \/ PurgeChat \/ PurgeTenant \/ PurgeAll
    BY <2>2, <2>7 DEF GarbageCollect, PurgeChat, PurgeTenant, PurgeAll, PurgesChat
  <2>8. ASSUME NEW m \in Messages, PurgeMessage(m)
        PROVE  Stays
    BY <2>2, <2>8 DEF PurgeMessage
  <2>9. ASSUME \/ \E m \in Messages : Edit(m) \/ Recall(m) \/ AdmitRecall(m) \/ LeaseRecall(m)
               \/ \E i \in Moves : \/ AdmitMove(i) \/ LeaseMove(i) \/ Verify(i) \/ FailMove(i)
                                   \/ Restore(i) \/ EndMove(i)
               \/ \E t \in Triggers : Admit(t) \/ TimesOut(t)
               \/ \E b \in Blobs : DeleteBlob(b) \/ Unlink(b)
               \/ MoveBot \/ Stop \/ Start \/ UNCHANGED vars
        PROVE  row' = row
    BY <2>9
       DEF Edit, Recall, AdmitRecall, LeaseRecall, AdmitMove, LeaseMove, Verify, FailMove, Restore,
           EndMove, Admit, TimesOut, DeleteBlob, Unlink, MoveBot, Stop, Start, vars, mirror
  <2> HIDE DEF Stays
  <2> QED
    BY <1>1, <2>1, <2>3, <2>4, <2>5, <2>6, <2>7, <2>8, <2>9 DEF Next
<1> QED
  BY <1>1, MirrorInvariant, PTL DEF Spec, TombstoneStays

===============================================================================
