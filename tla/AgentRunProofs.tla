---------------------------- MODULE AgentRunProofs ----------------------------
(***************************************************************************)
(* Proofs about AgentRun: its type invariant, the rules of the             *)
(* idempotency journal, of approvals and of the control inbox, and that it *)
(* implements RunLifecycle, for every team of runs, tools and controls.    *)
(***************************************************************************)
EXTENDS AgentRun, TLAPS

Memory == [kept : Kept, acks : SUBSET Controls, stop : BOOLEAN]
ControlStates == {"none", "pending", "applied", "superseded"}
RunStates == {"none", "running"} \union Ended
Claims == [state : {"none", "claimed", "reconciliation_required", "completed"}, live : BOOLEAN]

\* The places behind the claim of a call.
Working == {"claim", "reconcile", "execute", "wire", "verify"}

\* What a run at work on a call knows of it: it is a call of its own, approved
\* where that is asked for, and about to be executed only when it never was
\* since the journal last forgot it.
CallWork(r) ==
    /\ at[r] = "closed" => run[r] \in Ended
    /\ at[r] = "call" => call[r] \in Callable(r)
    /\ at[r] \in Working =>
          /\ call[r] \in Writes /\ call[r][1] = r
          /\ call[r][2] \in Destructive => approval[call[r]] = "approved"
    /\ at[r] \in Working \ {"claim"} => claim[call[r]].state # "none"
    /\ at[r] = "execute" => call[r] \in forgotten \/ sent[call[r]] = 0
WorkInv == \A r \in Runs : CallWork(r)

\* The journal rows of one key.
KeyRows(k) ==
    /\ k \in forgotten \/ sent[k] <= 1
    /\ claim[k].state = "none" => k \in forgotten \/ sent[k] = 0
    /\ (k[2] \in Destructive /\ sent[k] > 0) => approval[k] = "approved"
JournalInv == \A k \in Writes : KeyRows(k)

\* The inductive invariant.
RunInv == TypeOK /\ WorkInv /\ JournalInv

WithinBudget(r, m) == m.kept.used <= MaxCalls[r]

\* A run starts with an empty memory.
LEMMA FreshIsKept == Fresh \in Kept /\ NoMemory \in Memory
BY DEF Fresh, Kept, NoMemory, Memory

\* What a run knows after it looked at its inbox.
LEMMA HeardIsMemory ==
    ASSUME NEW r \in Runs, NEW m \in Memory
    PROVE  Heard(r, m) \in Memory /\ Heard(r, m).kept.used = m.kept.used
<1>1. Pending \subseteq Controls
  BY DEF Pending
<1>2. m.kept \in Kept /\ m.acks \in SUBSET Controls /\ m.stop \in BOOLEAN
  BY DEF Memory
<1>3. m.kept.applied \in SUBSET Controls /\ m.kept.used \in Nat
  BY <1>2 DEF Kept
<1>4. CASE r # Root
  BY <1>4 DEF Heard
<1>5. CASE r = Root
  <2> DEFINE applied == m.kept.applied \union Pending
             stop == m.stop \/ (Pending \ m.kept.applied) \intersect Cancels # {}
             kept == [m.kept EXCEPT !.applied = applied]
  <2>1. Heard(r, m) = [m EXCEPT !.kept = kept, !.acks = m.acks \union Pending, !.stop = stop]
    BY <1>5 DEF Heard, Memory, Kept
  <2>2. kept \in Kept /\ kept.used = m.kept.used
    BY <1>1, <1>2, <1>3 DEF Kept
  <2>3. stop \in BOOLEAN
    OBVIOUS
  <2> HIDE DEF kept, stop
  <2> QED
    BY <1>1, <1>2, <2>1, <2>2, <2>3 DEF Memory
<1> QED
  BY <1>4, <1>5

\* What acknowledging leaves of the inbox.
LEMMA AcknowledgedIsControl ==
    ASSUME TypeOK, NEW ids
    PROVE  Acknowledged(ids) \in [Controls -> ControlStates]
BY DEF TypeOK, Acknowledged, ControlStates

\* What a return of a tool does to the variables of the process.
LEMMA ReturnsKeepsType ==
    ASSUME TypeOK, NEW r \in Runs, NEW verdict, Returns(r, verdict)
    PROVE  /\ at' \in [Runs -> Places] /\ at'[r] \in {"cancel", "save"}
           /\ \A q \in Runs : q # r => at'[q] = at[q] /\ mem'[q] = mem[q] /\ call'[q] = call[q]
           /\ mem' \in [Runs -> Memory]
           /\ \A q \in Runs : WithinBudget(q, mem'[q])
           /\ call' \in [Runs -> Writes \union (Runs \X Children) \union {<<>>}]
<1> DEFINE verified == mem[r].kept.verified \/ verdict = "verified"
           unresolved == mem[r].kept.unresolved \/ verdict = "unresolved"
           kept == [mem[r].kept EXCEPT !.verified = verified, !.unresolved = unresolved]
           before == [mem[r] EXCEPT !.kept = kept]
           m == Heard(r, before)
<1>1. mem[r] \in Memory /\ mem[r].kept \in Kept /\ mem[r].kept.used <= MaxCalls[r]
  BY DEF TypeOK, Memory
<1>2. [mem[r] EXCEPT !.kept.verified = @ \/ verdict = "verified",
                     !.kept.unresolved = @ \/ verdict = "unresolved"] = before
  BY <1>1 DEF Memory, Kept
<1>3. verified \in BOOLEAN /\ unresolved \in BOOLEAN
  OBVIOUS
<1> HIDE DEF verified, unresolved
<1>4. kept \in Kept /\ kept.used = mem[r].kept.used
  BY <1>1, <1>3 DEF Kept
<1> HIDE DEF kept
<1>5. before \in Memory /\ before.kept = kept
  BY <1>1, <1>4 DEF Memory
<1>6. /\ mem' = [mem EXCEPT ![r] = m]
      /\ at' = [at EXCEPT ![r] = IF m.stop THEN "cancel" ELSE "save"]
      /\ call' = [call EXCEPT ![r] = <<>>]
  BY <1>2 DEF Returns, Remembers, Goes
<1> HIDE DEF before
<1>7. m \in Memory /\ m.kept.used <= MaxCalls[r]
  BY <1>1, <1>4, <1>5, HeardIsMemory
<1> HIDE DEF m
<1>8. {"cancel", "save"} \subseteq Places
  BY DEF Places
<1>9. at \in [Runs -> Places] /\ mem \in [Runs -> Memory] /\ \A q \in Runs : WithinBudget(q, mem[q])
  BY DEF TypeOK, Memory, WithinBudget
<1>10. \A q \in Runs : WithinBudget(q, mem'[q])
  BY <1>6, <1>7, <1>9 DEF WithinBudget
<1>11. call \in [Runs -> Writes \union (Runs \X Children) \union {<<>>}]
  BY DEF TypeOK
<1> QED
  BY <1>6, <1>7, <1>8, <1>9, <1>10, <1>11

\* What entering a run does.
LEMMA EntersKeepsType ==
    ASSUME TypeOK, NEW r \in Runs, Enters(r)
    PROVE  /\ run' \in [Runs -> RunStates] /\ control' \in [Controls -> ControlStates]
           /\ saved' \in [Runs -> [exists : BOOLEAN, kept : Kept]]
           /\ mem' \in [Runs -> Memory] /\ discarded' \in BOOLEAN
           /\ \A q \in Runs : saved'[q].kept.used <= MaxCalls[q] /\ WithinBudget(q, mem'[q])
<1>1. /\ run \in [Runs -> RunStates] /\ control \in [Controls -> ControlStates]
      /\ saved \in [Runs -> [exists : BOOLEAN, kept : Kept]]
      /\ mem \in [Runs -> Memory] /\ discarded \in BOOLEAN
      /\ \A q \in Runs : saved[q].kept.used <= MaxCalls[q] /\ WithinBudget(q, mem[q])
  BY DEF TypeOK, Memory, ControlStates, RunStates, WithinBudget
<1>2. Fresh \in Kept /\ NoMemory \in Memory /\ Fresh.used = 0 /\ NoMemory.kept = Fresh
  BY FreshIsKept DEF Fresh, NoMemory
<1>3. \A q \in Runs : 0 <= MaxCalls[q]
  BY BoundsAssumption
<1>4. CASE Starts(r)
  BY <1>1, <1>2, <1>3, <1>4 DEF Starts, Remembers, RunStates, WithinBudget
<1>5. CASE ResumesSaved(r)
  <2> DEFINE m == [NoMemory EXCEPT !.kept = saved[r].kept]
  <2>1. m \in Memory /\ m.kept = saved[r].kept
    BY <1>1, <1>2 DEF Memory
  <2>2. mem' = [mem EXCEPT ![r] = m]
    BY <1>5 DEF ResumesSaved, Remembers
  <2> HIDE DEF m
  <2>3. control' \in [Controls -> ControlStates]
    BY <1>1, <1>5, AcknowledgedIsControl DEF ResumesSaved
  <2> QED
    BY <1>1, <1>5, <2>1, <2>2, <2>3 DEF ResumesSaved, WithinBudget
<1>6. CASE ResumesStale(r)
  <2> DEFINE s == [exists |-> FALSE, kept |-> Fresh]
  <2>1. s \in [exists : BOOLEAN, kept : Kept] /\ s.kept = Fresh
    BY <1>2
  <2>2. saved' = [saved EXCEPT ![r] = s] /\ mem' = [mem EXCEPT ![r] = NoMemory]
    BY <1>6 DEF ResumesStale, Remembers
  <2> HIDE DEF s
  <2> QED
    BY <1>1, <1>2, <1>3, <1>6, <2>1, <2>2 DEF ResumesStale, WithinBudget
<1> QED
  BY <1>4, <1>5, <1>6 DEF Enters

\* The closing transaction closes the run or sends it back to its inbox.
LEMMA TryFinishKeepsType ==
    ASSUME TypeOK, NEW r \in Runs, NEW status \in Ended, NEW ids, TryFinish(r, status, ids)
    PROVE  /\ run' \in [Runs -> RunStates] /\ control' \in [Controls -> ControlStates]
           /\ at' \in [Runs -> Places] /\ at'[r] \in {"poll", "closed"}
           /\ \A q \in Runs : q # r => at'[q] = at[q]
<1>1. Acknowledged(ids) \in [Controls -> ControlStates]
  BY AcknowledgedIsControl
<1>2. run \in [Runs -> RunStates] /\ at \in [Runs -> Places]
  BY DEF TypeOK, RunStates
<1>3. status \in RunStates /\ {"poll", "closed"} \subseteq Places /\ "superseded" \in ControlStates
  BY DEF RunStates, Places, ControlStates
<1>4. PICK p \in {"poll", "closed"} : at' = [at EXCEPT ![r] = p]
  BY DEF TryFinish, Goes
<1>5. run' = run \/ run' = [run EXCEPT ![r] = status]
  BY DEF TryFinish
<1>6. control' \in [Controls -> ControlStates]
  BY <1>1, <1>3 DEF TryFinish
<1> QED
  BY <1>2, <1>3, <1>4, <1>5, <1>6

\* The end of an attempt forgets the local variables of every run.
LEMMA AllOffKeepsType ==
    ASSUME TypeOK, AllOff
    PROVE  /\ at' \in [Runs -> Places] /\ mem' \in [Runs -> Memory]
           /\ call' \in [Runs -> Writes \union (Runs \X Children) \union {<<>>}]
           /\ \A q \in Runs : WithinBudget(q, mem'[q])
<1>1. NoMemory \in Memory /\ NoMemory.kept.used = 0 /\ \A q \in Runs : 0 <= MaxCalls[q]
  BY FreshIsKept, BoundsAssumption DEF NoMemory, Fresh
<1> QED
  BY <1>1 DEF AllOff, Places, WithinBudget

\* One claim row changes.
LEMMA SetClaimKeepsType ==
    ASSUME TypeOK, NEW k \in Writes, NEW live \in BOOLEAN,
           NEW state \in {"none", "claimed", "reconciliation_required", "completed"},
           SetClaim(k, state, live)
    PROVE  /\ claim' \in [Writes -> Claims] /\ claim'[k].state = state
           /\ \A j \in Writes : j # k => claim'[j] = claim[j]
<1> DEFINE c == [state |-> state, live |-> live]
<1>1. c \in Claims /\ c.state = state
  BY DEF Claims
<1>2. claim' = [claim EXCEPT ![k] = c] /\ claim \in [Writes -> Claims]
  BY DEF SetClaim, TypeOK, Claims
<1> HIDE DEF c
<1> QED
  BY <1>1, <1>2

\* A call that is a write has a key that its journal rows are found by.
LEMMA CallIsTyped ==
    ASSUME TypeOK, NEW r \in Runs
    PROVE  /\ call[r] \in Writes \union (Runs \X Children) \union {<<>>}
           /\ claim \in [Writes -> Claims]
           /\ mem[r] \in Memory /\ WithinBudget(r, mem[r]) /\ MaxCalls[r] \in Nat
BY BoundsAssumption DEF TypeOK, Memory, Claims, WithinBudget

\* The types, action by action.
LEMMA TurnKeepsType ==
    ASSUME TypeOK, NEW r \in Runs, Turn(r)
    PROVE  TypeOK'
<1> USE DEF Memory, WithinBudget, RunStates, ControlStates
<1>1. mem[r] \in Memory /\ \A m \in Memory : Heard(r, m) \in Memory /\ Heard(r, m).kept.used = m.kept.used
  BY HeardIsMemory DEF TypeOK
<1>2. CASE Poll(r)
  <2> DEFINE m == Heard(r, mem[r])
  <2>1. m \in Memory /\ m.kept.used = mem[r].kept.used
    BY <1>1
  <2> HIDE DEF m
  <2>2. /\ mem' = [mem EXCEPT ![r] = m]
        /\ \E place \in {"cancel", "model", "fail"} : at' = [at EXCEPT ![r] = place]
        /\ UNCHANGED <<rows, journal, call, discarded>>
    BY <1>2 DEF Poll, Builds, Remembers, Goes, m
  <2> QED
    BY <2>1, <2>2 DEF TypeOK, Places, rows, journal
<1>3. CASE Answer(r)
  <2>1. CASE mem[r].acks # {} /\ Goes(r, "save") /\ UNCHANGED <<run, control>>
    BY <1>3, <2>1 DEF Answer, TypeOK, Places, Goes, journal
  <2>2. CASE mem[r].acks = {} /\ TryFinish(r, Outcome(r), {})
    <3>1. Outcome(r) \in Ended
      BY DEF Outcome, Ended
    <3> QED
      BY <1>3, <2>2, <3>1, TryFinishKeepsType DEF Answer, TypeOK, journal
  <2> QED
    BY <1>3, <2>1, <2>2 DEF Answer
<1>4. CASE Save(r)
  <2> DEFINE s == [exists |-> TRUE, kept |-> mem[r].kept]
  <2>1. s \in [exists : BOOLEAN, kept : Kept] /\ s.kept.used <= MaxCalls[r]
    BY DEF TypeOK
  <2>2. saved' = [saved EXCEPT ![r] = s]
    BY <1>4 DEF Save
  <2> HIDE DEF s
  <2> QED
    BY <1>4, <2>1, <2>2 DEF Save, TypeOK, Goes, Places, journal
<1>5. CASE Acknowledge(r)
  <2> DEFINE m == [mem[r] EXCEPT !.acks = {}]
  <2>1. m \in Memory /\ m.kept.used = mem[r].kept.used
    BY <1>1
  <2>2. mem' = [mem EXCEPT ![r] = m] /\ control' \in [Controls -> ControlStates]
    BY <1>5, AcknowledgedIsControl DEF Acknowledge, Remembers
  <2> HIDE DEF m
  <2> QED
    BY <1>5, <2>1, <2>2 DEF Acknowledge, TypeOK, Goes, Places, journal
<1>6. CASE Cancel(r)
  BY <1>6, TryFinishKeepsType DEF Cancel, TypeOK, Ended, journal
<1>7. CASE Fail(r)
  BY <1>7, TryFinishKeepsType DEF Fail, TypeOK, Ended, journal
<1> QED
  BY <1>2, <1>3, <1>4, <1>5, <1>6, <1>7 DEF Turn

\* A reply stays within the budget of tool calls, or fails the run.
LEMMA ReplyKeepsType ==
    ASSUME TypeOK, NEW r \in Runs, Reply(r)
    PROVE  TypeOK'
<1> DEFINE m == Heard(r, mem[r])
<1>1. m \in Memory /\ m.kept.used <= MaxCalls[r] /\ MaxCalls[r] \in Nat
  BY HeardIsMemory, CallIsTyped DEF WithinBudget
<1>2. UNCHANGED <<rows, journal, discarded>>
  BY DEF Reply
<1>3. ASSUME NEW n \in Memory, n.kept.used <= MaxCalls[r], Remembers(r, n),
             NEW p \in Places, Goes(r, p), UNCHANGED call
      PROVE  TypeOK'
  BY <1>2, <1>3 DEF TypeOK, Memory, Remembers, Goes, rows, journal
<1>4. CASE ReplyStops(r)
  BY <1>1, <1>3, <1>4 DEF ReplyStops, Replies, Places
<1>5. CASE ReplyAnswers(r)
  BY <1>1, <1>3, <1>5 DEF ReplyAnswers, Replies, Places
<1>6. CASE ReplyCalls(r)
  <2>1. PICK k \in Callable(r) :
            IF m.kept.used < MaxCalls[r]
            THEN /\ Remembers(r, [m EXCEPT !.kept.used = @ + 1])
                 /\ Goes(r, "call") /\ call' = [call EXCEPT ![r] = k]
            ELSE Remembers(r, m) /\ Goes(r, "fail") /\ UNCHANGED call
    BY <1>6 DEF ReplyCalls, Consumed
  <2>2. CASE m.kept.used < MaxCalls[r]
    <3> DEFINE kept == [m.kept EXCEPT !.used = m.kept.used + 1]
               n == [m EXCEPT !.kept = kept]
    <3>1. m.kept \in Kept /\ m.kept.used \in Nat
      BY <1>1 DEF Memory, Kept
    <3>2. kept \in Kept /\ kept.used <= MaxCalls[r]
      BY <1>1, <2>2, <3>1 DEF Kept
    <3>3. n = [m EXCEPT !.kept.used = @ + 1]
      BY <1>1 DEF Memory, Kept
    <3> HIDE DEF kept
    <3>4. n \in Memory /\ n.kept = kept
      BY <1>1, <3>2 DEF Memory
    <3>5. mem' = [mem EXCEPT ![r] = n]
      BY <2>1, <2>2, <3>3 DEF Remembers
    <3> HIDE DEF n
    <3>6. k \in Writes \union (Runs \X Children) \union {<<>>}
      BY <2>1 DEF Callable
    <3>7. call' = [call EXCEPT ![r] = k] /\ at' = [at EXCEPT ![r] = "call"]
      BY <2>1, <2>2 DEF Goes
    <3> QED
      BY <1>2, <3>2, <3>4, <3>5, <3>6, <3>7
      DEF TypeOK, Memory, rows, journal, Places, ToolPlaces
  <2>3. CASE ~(m.kept.used < MaxCalls[r])
    BY <1>1, <1>3, <2>1, <2>3 DEF Places
  <2> QED
    BY <2>2, <2>3
<1> QED
  BY <1>4, <1>5, <1>6 DEF Reply

\* The steps of a tool call.
LEMMA ToolCallKeepsType ==
    ASSUME TypeOK, NEW r \in Runs, ToolCall(r)
    PROVE  TypeOK'
<1> USE DEF Memory, WithinBudget, Claims
<1>1. \A verdict : Returns(r, verdict) =>
          /\ at' \in [Runs -> Places] /\ mem' \in [Runs -> Memory]
          /\ \A q \in Runs : WithinBudget(q, mem'[q])
          /\ call' \in [Runs -> Writes \union (Runs \X Children) \union {<<>>}]
  BY ReturnsKeepsType
<1>2. ASSUME NEW p \in Places, Goes(r, p) PROVE at' \in [Runs -> Places]
  BY <1>2 DEF Goes, TypeOK
<1>3. {"claim", "fail", "reconcile", "execute", "wire", "verify"} \subseteq Places
  BY DEF Places, ToolPlaces
<1>4. CASE Refuse(r)
  BY <1>1, <1>4 DEF Refuse, TypeOK, rows, journal
<1>5. CASE Permit(r)
  BY <1>2, <1>3, <1>5 DEF Permit, TypeOK, rows, journal
<1>6. CASE RequestApproval(r)
  <2>1. approval' \in [Writes -> {"none", "pending", "overdue", "approved", "rejected", "expired"}]
    BY <1>6 DEF RequestApproval, AskApproval, ApprovalGranted, ApprovalRefused, TypeOK
  <2>2. CASE AskApproval(r)
    BY <1>2, <1>3, <1>6, <2>1, <2>2 DEF RequestApproval, AskApproval, TypeOK, rows
  <2>3. CASE ApprovalGranted(r)
    BY <1>2, <1>3, <1>6, <2>1, <2>3 DEF RequestApproval, ApprovalGranted, TypeOK, rows
  <2>4. CASE ApprovalRefused(r)
    BY <1>1, <1>6, <2>1, <2>4 DEF RequestApproval, ApprovalRefused, TypeOK, rows
  <2> QED
    BY <1>6, <2>2, <2>3, <2>4 DEF RequestApproval
<1>7. ASSUME NEW state \in {"claimed", "reconciliation_required", "completed"}, NEW live \in BOOLEAN,
             NEW k, SetClaim(k, state, live)
      PROVE  claim' \in [Writes -> Claims]
  BY <1>7 DEF SetClaim, TypeOK
<1>8. CASE Claim(r)
  <2>1. CASE ClaimFresh(r)
    BY <1>2, <1>3, <1>7, <1>8, <2>1 DEF Claim, ClaimFresh, TypeOK, rows
  <2>2. CASE ClaimReplay(r)
    BY <1>1, <1>8, <2>2 DEF Claim, ClaimReplay, TypeOK, rows
  <2>3. CASE ClaimHeld(r)
    BY <1>1, <1>8, <2>3 DEF Claim, ClaimHeld, TypeOK, rows
  <2>4. CASE ClaimLapsed(r)
    BY <1>2, <1>3, <1>7, <1>8, <2>4 DEF Claim, ClaimLapsed, TypeOK, rows
  <2> QED
    BY <1>8, <2>1, <2>2, <2>3, <2>4 DEF Claim
<1>9. CASE Reconcile(r)
  <2>1. CASE Key(r) \in landed /\ SetClaim(Key(r), "completed", claim[Key(r)].live)
             /\ Returns(r, "verified")
    <3>1. claim[Key(r)].live \in BOOLEAN
      BY <2>1 DEF TypeOK
    <3> QED
      BY <1>1, <1>7, <1>9, <2>1, <3>1 DEF Reconcile, TypeOK, rows
  <2>2. CASE Returns(r, "unresolved") /\ UNCHANGED claim
    BY <1>1, <1>9, <2>2 DEF Reconcile, TypeOK, rows
  <2> QED
    BY <1>9, <2>1, <2>2 DEF Reconcile
<1>10. CASE Execute(r)
  <2>1. CASE sent' = [sent EXCEPT ![Key(r)] = @ + 1] /\ Goes(r, "wire") /\ UNCHANGED <<mem, call>>
    <3> DEFINE k == Key(r)
    <3>1. sent' = [sent EXCEPT ![k] = sent[k] + 1] /\ sent \in [Writes -> Nat]
      BY <2>1 DEF TypeOK
    <3> HIDE DEF k
    <3>2. sent' \in [Writes -> Nat]
      <4>1. CASE k \in Writes
        BY <3>1, <4>1
      <4>2. CASE k \notin Writes
        BY <3>1, <4>2
      <4> QED
        BY <4>1, <4>2
    <3> QED
      BY <1>2, <1>3, <1>10, <2>1, <3>2 DEF Execute, TypeOK, rows
  <2>2. CASE Returns(r, "unresolved") /\ UNCHANGED sent
    BY <1>1, <1>10, <2>2 DEF Execute, TypeOK, rows
  <2> QED
    BY <1>10, <2>1, <2>2 DEF Execute
<1>11. CASE Answered(r)
  BY <1>1, <1>2, <1>3, <1>11 DEF Answered, TypeOK, rows, journal
<1>12. CASE Verify(r)
  <2>1. CASE SetClaim(Key(r), "completed", claim[Key(r)].live) /\ Returns(r, "verified")
    <3>1. CASE Key(r) \in Writes
      <4>1. claim[Key(r)].live \in BOOLEAN
        BY <3>1 DEF TypeOK
      <4> QED
        BY <1>1, <1>7, <1>12, <2>1, <4>1 DEF Verify, TypeOK, rows
    <3>2. CASE Key(r) \notin Writes
      <4>1. claim' = claim
        BY <2>1, <3>2 DEF SetClaim, TypeOK
      <4> QED
        BY <1>1, <1>12, <2>1, <4>1 DEF Verify, TypeOK, rows
    <3> QED
      BY <3>1, <3>2
  <2>2. CASE Returns(r, "unresolved") /\ UNCHANGED claim
    BY <1>1, <1>12, <2>2 DEF Verify, TypeOK, rows
  <2> QED
    BY <1>12, <2>1, <2>2 DEF Verify
<1> QED
  BY <1>4, <1>5, <1>6, <1>8, <1>9, <1>10, <1>11, <1>12 DEF ToolCall

\* The handler, the world and the steps of two runs.
LEMMA OthersKeepType ==
    ASSUME TypeOK, WorkInv, Handler \/ Abort \/ World \/ Delegate \/ ChildEnds \/ WallTimeExpires
                   \/ \E r \in Runs : ModelFails(r)
    PROVE  TypeOK'
<1> USE DEF Memory, WithinBudget, RunStates, ControlStates, Claims
<1>1. Root \in Runs
  BY DEF Runs
<1>2. CASE Lease
  BY <1>2, BoundsAssumption DEF Lease, TypeOK, journal, process
<1>3. CASE Begin
  <2>1. at' = [at EXCEPT ![Root] = "poll"] /\ Enters(Root) /\ UNCHANGED <<task, attempts, journal, call>>
    BY <1>3 DEF Begin, Goes
  <2> QED
    BY <1>1, <2>1, EntersKeepsType DEF TypeOK, journal, Places
<1>4. CASE FindOutcome
  BY <1>1, <1>4 DEF FindOutcome, TypeOK, rows, journal, Goes, Places
<1>5. CASE Settle
  <2>1. task' \in {"pending", "leased"} \union TaskEnded
    BY <1>1, <1>5 DEF Settle, WorkInv, CallWork, TaskEnded, Ended
  <2> QED
    BY <1>5, <2>1, AllOffKeepsType DEF Settle, TypeOK, journal
<1>6. CASE Abort
  <2>1. task' \in {"pending", "leased"} \union TaskEnded
    BY <1>6 DEF Abort, TaskEnded
  <2> QED
    BY <1>6, <2>1, AllOffKeepsType DEF Abort, TypeOK, journal
<1>7. CASE World
  <2>1. ASSUME NEW c \in Controls, AdmitControl(c) PROVE TypeOK'
    BY <2>1 DEF AdmitControl, TypeOK, journal, process
  <2>2. ASSUME NEW k \in Writes, Land(k) PROVE TypeOK'
    BY <2>2 DEF Land, TypeOK, rows, process
  <2>3. ASSUME NEW k \in Writes, Decide(k) PROVE TypeOK'
    BY <2>3 DEF Decide, TypeOK, rows, process
  <2>4. ASSUME NEW k \in Writes, ApprovalLapses(k) PROVE TypeOK'
    BY <2>4 DEF ApprovalLapses, TypeOK, rows, process
  <2>5. ASSUME NEW k \in Writes, ClaimLapses(k) PROVE TypeOK'
    <3>1. claim[k].state \in {"none", "claimed", "reconciliation_required", "completed"}
      BY DEF TypeOK
    <3>2. claim' \in [Writes -> Claims]
      BY <2>5, <3>1, SetClaimKeepsType DEF ClaimLapses
    <3> QED
      BY <2>5, <3>2 DEF ClaimLapses, TypeOK, Claims, rows, process
  <2>6. ASSUME NEW k \in Writes, CollectClaim(k) PROVE TypeOK'
    <3>1. claim' \in [Writes -> Claims]
      BY <2>6, SetClaimKeepsType DEF CollectClaim
    <3> QED
      BY <2>6, <3>1 DEF CollectClaim, TypeOK, Claims, rows, process
  <2> QED
    BY <1>7, <2>1, <2>2, <2>3, <2>4, <2>5, <2>6 DEF World
<1>8. CASE Delegate
  <2> DEFINE c == call[Root][2]
  <2>1. c \in Children
    BY <1>1, <1>8 DEF Delegate, WorkInv, CallWork, Callable, IsWrite, Key
  <2>2. c \in Runs /\ Enters(c) /\ at' = [at EXCEPT ![Root] = "wait", ![c] = "poll"]
        /\ UNCHANGED <<task, attempts, journal, call>>
    BY <1>8, <2>1 DEF Delegate, Runs
  <2> HIDE DEF c
  <2> QED
    BY <1>1, <2>2, EntersKeepsType DEF TypeOK, journal, Places, ToolPlaces
<1>9. CASE ChildEnds
  BY <1>1, <1>9, ReturnsKeepsType DEF ChildEnds, TypeOK, rows, journal
<1>10. CASE WallTimeExpires
  BY <1>10 DEF WallTimeExpires, TypeOK, rows, journal, Places
<1>11. ASSUME NEW r \in Runs, ModelFails(r) PROVE TypeOK'
  BY <1>11 DEF ModelFails, TypeOK, rows, journal, Goes, Places
<1> QED
  BY <1>2, <1>3, <1>4, <1>5, <1>6, <1>7, <1>8, <1>9, <1>10, <1>11 DEF Handler

\* Every step.
LEMMA StepKeepsType ==
    ASSUME TypeOK, WorkInv, [Next]_vars
    PROVE  TypeOK'
<1>1. CASE UNCHANGED vars
  BY <1>1 DEF TypeOK, vars, rows, journal, process
<1>2. CASE Next
  BY <1>2, OthersKeepType, TurnKeepsType, ReplyKeepsType, ToolCallKeepsType DEF Next
<1> QED
  BY <1>1, <1>2

\* The initial state.
LEMMA InitHasType == Init => TypeOK
<1>1. /\ NoMemory \in Memory /\ NoMemory.kept = Fresh
      /\ Fresh \in Kept /\ Fresh.used = 0 /\ \A r \in Runs : 0 <= MaxCalls[r]
  BY FreshIsKept, BoundsAssumption DEF NoMemory, Fresh
<1> SUFFICES ASSUME Init PROVE TypeOK
  OBVIOUS
<1>2. /\ saved \in [Runs -> [exists : BOOLEAN, kept : Kept]]
      /\ \A r \in Runs : saved[r].kept = Fresh /\ mem[r].kept = Fresh
  BY <1>1 DEF Init
<1>3. mem \in [Runs -> [kept : Kept, acks : SUBSET Controls, stop : BOOLEAN]]
  BY <1>1 DEF Init, Memory
<1>4. task = "pending" /\ attempts \in 0 .. MaxAttempts
  BY BoundsAssumption DEF Init
<1>5. claim \in [Writes -> Claims]
  BY DEF Init, Claims
<1>6. \A r \in Runs : saved[r].kept.used <= MaxCalls[r] /\ mem[r].kept.used <= MaxCalls[r]
  BY <1>1, <1>2
<1>7. sent \in [Writes -> Nat] /\ at \in [Runs -> Places]
  BY DEF Init, Places
<1>8. call \in [Runs -> Writes \union (Runs \X Children) \union {<<>>}]
  BY DEF Init
<1> QED
  BY <1>2, <1>3, <1>4, <1>5, <1>6, <1>7, <1>8 DEF Init, TypeOK, Claims

-----------------------------------------------------------------------------
(***************************************************************************)
(* Runs start once and end once.                                           *)
(***************************************************************************)
\* Entering a run starts it or leaves every status alone.
LEMMA EntersMovesRuns ==
    ASSUME TypeOK, NEW r \in Runs, Enters(r)
    PROVE  \A q \in Runs : Lifecycle!RunMoves(q)
BY DEF Enters, Starts, ResumesSaved, ResumesStale, TypeOK, Lifecycle!RunMoves

\* The closing transaction ends a running run.
LEMMA TryFinishMovesRuns ==
    ASSUME TypeOK, NEW r \in Runs, NEW status \in Ended, NEW ids, TryFinish(r, status, ids)
    PROVE  \A q \in Runs : Lifecycle!RunMoves(q)
BY DEF TryFinish, TypeOK, Lifecycle!RunMoves, Lifecycle!Ended, Ended

\* Every step moves a run along its life cycle or not at all.
LEMMA StepMovesRuns ==
    ASSUME TypeOK, WorkInv, [Next]_vars
    PROVE  \A q \in Runs : Lifecycle!RunMoves(q)
<1>1. UNCHANGED run => \A q \in Runs : Lifecycle!RunMoves(q)
  BY DEF Lifecycle!RunMoves
<1>2. Root \in Runs
  BY DEF Runs
<1>3. CASE UNCHANGED vars
  BY <1>1, <1>3 DEF vars, rows
<1>4. CASE Handler \/ Abort
  BY <1>1, <1>2, <1>4, EntersMovesRuns
  DEF Handler, Lease, Begin, FindOutcome, Settle, Abort, rows
<1>5. CASE World
  BY <1>1, <1>5 DEF World, AdmitControl, Land, Decide, ApprovalLapses, ClaimLapses, CollectClaim, rows
<1>6. CASE Delegate
  <2>1. call[Root][2] \in Children
    BY <1>2, <1>6 DEF Delegate, WorkInv, CallWork, Callable, IsWrite, Key
  <2> QED
    BY <1>6, <2>1, EntersMovesRuns DEF Delegate, Runs
<1>7. CASE ChildEnds \/ WallTimeExpires
  BY <1>1, <1>7 DEF ChildEnds, WallTimeExpires, rows
<1>8. ASSUME NEW r \in Runs, Turn(r) PROVE \A q \in Runs : Lifecycle!RunMoves(q)
  <2>1. CASE Poll(r) \/ Save(r) \/ Acknowledge(r)
    BY <1>1, <2>1 DEF Poll, Save, Acknowledge, rows
  <2>2. CASE Answer(r) \/ Cancel(r) \/ Fail(r)
    <3>1. Outcome(r) \in Ended /\ {"cancelled", "failed"} \subseteq Ended
      BY DEF Outcome, Ended
    <3> QED
      BY <1>1, <2>2, <3>1, TryFinishMovesRuns DEF Answer, Cancel, Fail
  <2> QED
    BY <1>8, <2>1, <2>2 DEF Turn
<1>9. ASSUME NEW r \in Runs, Reply(r) \/ ModelFails(r) \/ ToolCall(r)
      PROVE  \A q \in Runs : Lifecycle!RunMoves(q)
  BY <1>1, <1>9
  DEF Reply, ModelFails, ToolCall, Refuse, Permit, RequestApproval, Claim, Reconcile,
      Execute, Answered, Verify, rows
<1> QED
  BY <1>3, <1>4, <1>5, <1>6, <1>7, <1>8, <1>9 DEF Next

-----------------------------------------------------------------------------
(***************************************************************************)
(* The work on calls, and the journal.                                     *)
(***************************************************************************)

\* A step that leaves the journal alone and sends a run only to places where it
\* works on no call.
LEMMA RestKeepsWork ==
    ASSUME RunInv, UNCHANGED journal, \A q \in Runs : Lifecycle!RunMoves(q),
           \A q \in Runs : \/ at'[q] = at[q] /\ call'[q] = call[q]
                           \/ at'[q] \notin {"closed", "call"} \union Working
                           \/ at'[q] = "closed" /\ run'[q] \in Ended
    PROVE  WorkInv' /\ JournalInv'
<1>1. JournalInv'
  BY DEF RunInv, JournalInv, KeyRows, journal
<1>2. \A q \in Runs : run[q] \in Ended => run'[q] \in Ended
  BY DEF Lifecycle!RunMoves, Ended
<1>3. ASSUME NEW q \in Runs PROVE CallWork(q)'
  <2>1. CASE at'[q] = at[q] /\ call'[q] = call[q]
    BY <1>2, <2>1 DEF RunInv, WorkInv, CallWork, journal, Callable
  <2>2. CASE at'[q] \notin {"closed", "call"} \union Working
    BY <2>2 DEF CallWork, Working
  <2>3. CASE at'[q] = "closed" /\ run'[q] \in Ended
    BY <2>3 DEF CallWork, Working
  <2> QED
    BY <2>1, <2>2, <2>3
<1> QED
  BY <1>1, <1>3 DEF WorkInv

\* The steps of a turn touch no journal row.
LEMMA TurnKeepsWork ==
    ASSUME RunInv, NEW r \in Runs, Turn(r), \A q \in Runs : Lifecycle!RunMoves(q)
    PROVE  WorkInv' /\ JournalInv'
<1>1. at \in [Runs -> Places]
  BY DEF RunInv, TypeOK
<1>2. ASSUME NEW p, p \notin {"closed", "call"} \union Working, Goes(r, p), UNCHANGED <<journal, call>>
      PROVE  WorkInv' /\ JournalInv'
  <2>1. at'[r] = p /\ \A q \in Runs : q # r => at'[q] = at[q]
    BY <1>1, <1>2 DEF Goes
  <2> QED
    BY <1>2, <2>1, RestKeepsWork
<1>3. ASSUME NEW status \in Ended, NEW ids, TryFinish(r, status, ids), UNCHANGED <<journal, call>>
      PROVE  WorkInv' /\ JournalInv'
  <2>1. CASE Goes(r, "poll")
    BY <1>2, <1>3, <2>1 DEF Working
  <2>2. CASE Goes(r, "closed") /\ run' = [run EXCEPT ![r] = status]
    <3>1. at'[r] = "closed" /\ run'[r] \in Ended /\ \A q \in Runs : q # r => at'[q] = at[q]
      BY <1>1, <2>2 DEF Goes, RunInv, TypeOK
    <3> QED
      BY <1>3, <3>1, RestKeepsWork
  <2> QED
    BY <1>3, <2>1, <2>2 DEF TryFinish
<1>4. CASE Poll(r)
  BY <1>2, <1>4 DEF Poll, Builds, Working
<1>5. CASE Answer(r)
  <2>1. Outcome(r) \in Ended
    BY DEF Outcome, Ended
  <2> QED
    BY <1>2, <1>3, <1>5, <2>1 DEF Answer, Working
<1>6. CASE Save(r) \/ Acknowledge(r)
  BY <1>2, <1>6 DEF Save, Acknowledge, Working
<1>7. CASE Cancel(r) \/ Fail(r)
  BY <1>3, <1>7 DEF Cancel, Fail, Ended
<1> QED
  BY <1>4, <1>5, <1>6, <1>7 DEF Turn

\* A tool that returns sends its run to a place where it works on no call.
LEMMA ReturnRests ==
    ASSUME TypeOK, NEW r \in Runs, NEW verdict, Returns(r, verdict)
    PROVE  /\ at'[r] \notin {"closed", "call"} \union Working
           /\ \A q \in Runs : q # r => at'[q] = at[q] /\ call'[q] = call[q]
BY ReturnsKeepsType DEF Working

\* Neither do attempts, replies and delegations.
LEMMA OthersKeepWork ==
    ASSUME RunInv, \A q \in Runs : Lifecycle!RunMoves(q),
           Handler \/ Abort \/ Delegate \/ ChildEnds \/ WallTimeExpires
           \/ (\E r \in Runs : Reply(r) \/ ModelFails(r) \/ Refuse(r))
           \/ (\E c \in Controls : AdmitControl(c))
    PROVE  WorkInv' /\ JournalInv'
<1>1. Root \in Runs /\ at \in [Runs -> Places] /\ call \in [Runs -> Writes \union (Runs \X Children) \union {<<>>}]
  BY DEF Runs, RunInv, TypeOK
<1>2. CASE Lease \/ (\E c \in Controls : AdmitControl(c))
  BY <1>2, RestKeepsWork DEF Lease, AdmitControl, process
<1>3. CASE Begin
  <2>1. at'[Root] = "poll" /\ (\A q \in Runs : q # Root => at'[q] = at[q]) /\ UNCHANGED <<journal, call>>
    BY <1>1, <1>3 DEF Begin, Goes
  <2> QED
    BY <2>1, RestKeepsWork DEF Working
<1>4. CASE FindOutcome
  <2>1. /\ at'[Root] = "closed" /\ (\A q \in Runs : q # Root => at'[q] = at[q])
        /\ UNCHANGED <<journal, call>> /\ run'[Root] \in Ended
    BY <1>1, <1>4 DEF FindOutcome, Goes, rows
  <2> QED
    BY <2>1, RestKeepsWork
<1>5. CASE Settle \/ Abort
  BY <1>5, RestKeepsWork DEF Settle, Abort, AllOff, Working
<1>6. CASE Delegate
  <2>1. /\ \A q \in Runs : q \notin {Root, call[Root][2]} => at'[q] = at[q]
        /\ \A q \in Runs : q = call[Root][2] => at'[q] = "poll"
        /\ at'[Root] \in {"poll", "wait"} /\ UNCHANGED <<journal, call>>
    BY <1>1, <1>6 DEF Delegate
  <2> QED
    BY <2>1, RestKeepsWork DEF Working
<1>7. CASE ChildEnds
  BY <1>1, <1>7, ReturnRests, RestKeepsWork DEF ChildEnds, RunInv
<1>8. CASE WallTimeExpires
  BY <1>8, RestKeepsWork DEF WallTimeExpires, Working
<1>9. ASSUME NEW r \in Runs, ModelFails(r) PROVE WorkInv' /\ JournalInv'
  <2>1. at'[r] = "fail" /\ (\A q \in Runs : q # r => at'[q] = at[q]) /\ UNCHANGED <<journal, call>>
    BY <1>1, <1>9 DEF ModelFails, Goes
  <2> QED
    BY <2>1, RestKeepsWork DEF Working
<1>10. ASSUME NEW r \in Runs, Refuse(r) PROVE WorkInv' /\ JournalInv'
  <2>1. UNCHANGED journal /\ \E verdict : Returns(r, verdict)
    BY <1>10 DEF Refuse
  <2> QED
    BY <2>1, ReturnRests, RestKeepsWork DEF RunInv
<1>11. ASSUME NEW r \in Runs, Reply(r) PROVE WorkInv' /\ JournalInv'
  <2>1. UNCHANGED <<run, journal>>
    BY <1>11 DEF Reply, rows
  <2>2. ASSUME NEW p \in {"cancel", "answer", "fail"}, Goes(r, p), UNCHANGED call
        PROVE  WorkInv' /\ JournalInv'
    <3>1. at'[r] = p /\ \A q \in Runs : q # r => at'[q] = at[q]
      BY <1>1, <2>2 DEF Goes
    <3> QED
      BY <2>1, <2>2, <3>1, RestKeepsWork DEF Working
  <2>3. ASSUME NEW k \in Callable(r), Goes(r, "call"), call' = [call EXCEPT ![r] = k]
        PROVE  WorkInv' /\ JournalInv'
    <3>1. at'[r] = "call" /\ call'[r] = k /\ \A q \in Runs : q # r => at'[q] = at[q] /\ call'[q] = call[q]
      BY <1>1, <2>3 DEF Goes
    <3>2. CallWork(r)'
      BY <3>1 DEF CallWork, Working, Callable
    <3>3. \A q \in Runs : q # r => CallWork(q)'
      BY <2>1, <3>1 DEF RunInv, WorkInv, CallWork, journal, Callable
    <3>4. JournalInv'
      BY <2>1 DEF RunInv, JournalInv, KeyRows, journal
    <3> QED
      BY <3>2, <3>3, <3>4 DEF WorkInv
  <2> QED
    BY <1>11, <2>2, <2>3 DEF Reply, ReplyStops, ReplyAnswers, ReplyCalls, Consumed
<1> QED
  BY <1>2, <1>3, <1>4, <1>5, <1>6, <1>7, <1>8, <1>9, <1>10, <1>11 DEF Handler

\* A run that does not move keeps what it knows, as long as no approval is
\* taken back and nobody else touches the keys of its calls.
LEMMA StillWorks ==
    ASSUME RunInv, NEW q \in Runs, at'[q] = at[q], call'[q] = call[q],
           run' = run, forgotten' = forgotten,
           \A j \in Writes : approval[j] = "approved" => approval'[j] = "approved",
           \A j \in Writes : j[1] = q =>
               sent'[j] = sent[j] /\ (claim[j].state # "none" => claim'[j].state # "none")
    PROVE  CallWork(q)'
<1>1. CallWork(q)
  BY DEF RunInv, WorkInv
<1>2. at[q] = "execute" => at[q] \in Working
  BY DEF Working
<1> QED
  BY <1>1, <1>2 DEF CallWork, Callable

\* A step of run r that leaves it where it works on no call.
LEMMA RestAfterTool ==
    ASSUME RunInv, NEW r \in Runs, NEW verdict, Returns(r, verdict), run' = run, forgotten' = forgotten,
           \A j \in Writes : approval[j] = "approved" => approval'[j] = "approved",
           sent' = sent,
           \A j \in Writes : claim[j].state # "none" => claim'[j].state # "none"
    PROVE  WorkInv' /\ JournalInv'
<1>1. CallWork(r)'
  BY ReturnRests DEF RunInv, CallWork, Working
<1>2. \A q \in Runs : q # r => CallWork(q)'
  BY ReturnRests, StillWorks DEF RunInv
<1>3. JournalInv'
  BY DEF RunInv, JournalInv, KeyRows, TypeOK
<1> QED
  BY <1>1, <1>2, <1>3 DEF WorkInv

\* Only a granted approval leads a destructive call on to its claim.
LEMMA ApprovalKeepsWork ==
    ASSUME RunInv, NEW r \in Runs, Permit(r) \/ RequestApproval(r)
    PROVE  WorkInv' /\ JournalInv'
<1>1. at \in [Runs -> Places] /\ run' = run /\ UNCHANGED <<claim, sent, forgotten>>
  BY DEF RunInv, TypeOK, Permit, RequestApproval, rows, journal
<1>2. /\ at[r] = "call" /\ call[r] \in Writes /\ call[r][1] = r
      /\ approval \in [Writes -> {"none", "pending", "overdue", "approved", "rejected", "expired"}]
  BY DEF Permit, RequestApproval, IsWrite, Key, RunInv, TypeOK, WorkInv, CallWork, Callable
<1>3. ASSUME Goes(r, "claim"), UNCHANGED call, approval' = approval,
             call[r][2] \in Destructive => approval[call[r]] = "approved"
      PROVE  WorkInv' /\ JournalInv'
  <2>1. at'[r] = "claim" /\ (\A q \in Runs : q # r => at'[q] = at[q])
    BY <1>1, <1>3 DEF Goes
  <2>2. CallWork(r)'
    BY <1>2, <1>3, <2>1 DEF CallWork, Working
  <2>3. \A q \in Runs : q # r => CallWork(q)'
    BY <1>1, <1>3, <2>1, StillWorks
  <2>4. JournalInv'
    BY <1>1, <1>3 DEF RunInv, JournalInv, KeyRows
  <2> QED
    BY <2>2, <2>3, <2>4 DEF WorkInv
<1>4. CASE Permit(r)
  BY <1>3, <1>4 DEF Permit, Key, journal
<1>5. CASE RequestApproval(r)
  <2>1. CASE AskApproval(r)
    <3>1. \A j \in Writes : approval[j] = "approved" => approval'[j] = "approved"
      BY <1>2, <2>1 DEF AskApproval, Key
    <3>2. at'[r] = "fail" /\ (\A q \in Runs : q # r => at'[q] = at[q] /\ call'[q] = call[q])
      BY <1>1, <2>1 DEF AskApproval, Goes, RunInv, TypeOK
    <3>3. CallWork(r)'
      BY <3>2 DEF CallWork, Working
    <3>4. \A q \in Runs : q # r => CallWork(q)'
      BY <1>1, <3>1, <3>2, StillWorks
    <3>5. JournalInv'
      BY <1>1, <3>1 DEF RunInv, JournalInv, KeyRows
    <3> QED
      BY <3>3, <3>4, <3>5 DEF WorkInv
  <2>2. CASE ApprovalGranted(r)
    BY <1>3, <2>2 DEF ApprovalGranted, Key
  <2>3. CASE ApprovalRefused(r)
    <3>1. \A j \in Writes : approval[j] = "approved" => approval'[j] = "approved"
      BY <1>2, <2>3 DEF ApprovalRefused, Key
    <3> QED
      BY <1>1, <2>3, <3>1, RestAfterTool DEF ApprovalRefused
  <2> QED
    BY <1>5, <2>1, <2>2, <2>3 DEF RequestApproval
<1> QED
  BY <1>4, <1>5

\* A write is sent by the owner of a fresh claim, which nobody sent before.
LEMMA ToolKeepsWork ==
    ASSUME RunInv, NEW r \in Runs,
           Claim(r) \/ Reconcile(r) \/ Execute(r) \/ Answered(r) \/ Verify(r)
    PROVE  WorkInv' /\ JournalInv'
<1> DEFINE k == call[r]
<1>1. /\ at \in [Runs -> Places] /\ run' = run /\ at[r] \in Working
      /\ approval' = approval /\ forgotten' = forgotten
  BY DEF RunInv, TypeOK, Claim, Reconcile, Execute, Answered, Verify, rows, journal, Working
<1>2. /\ k \in Writes /\ k[1] = r /\ KeyRows(k)
      /\ k[2] \in Destructive => approval[k] = "approved"
      /\ at[r] = "execute" => k \in forgotten \/ sent[k] = 0
      /\ at[r] \in Working \ {"claim"} => claim[k].state # "none"
      /\ sent[k] \in Nat /\ claim[k].live \in BOOLEAN
  BY <1>1 DEF RunInv, WorkInv, CallWork, JournalInv, TypeOK
<1>3. ASSUME NEW state \in {"claimed", "reconciliation_required", "completed"}, NEW live \in BOOLEAN,
             SetClaim(k, state, live)
      PROVE  claim'[k].state # "none" /\ \A j \in Writes : j # k => claim'[j] = claim[j]
  BY <1>2, <1>3, SetClaimKeepsType DEF RunInv
<1>4. ASSUME NEW p \in {"execute", "reconcile", "wire", "verify"}, Goes(r, p), UNCHANGED call,
             \A j \in Writes : j # k => claim'[j] = claim[j] /\ sent'[j] = sent[j],
             claim'[k].state # "none", k \in forgotten \/ sent'[k] <= 1,
             p = "execute" => k \in forgotten \/ sent'[k] = 0
      PROVE  WorkInv' /\ JournalInv'
  <2>1. at'[r] = p /\ (\A q \in Runs : q # r => at'[q] = at[q])
    BY <1>1, <1>4 DEF Goes
  <2>2. CallWork(r)'
    BY <1>1, <1>2, <1>4, <2>1 DEF CallWork, Working
  <2>3. \A q \in Runs : q # r => CallWork(q)'
    BY <1>1, <1>2, <1>4, <2>1, StillWorks
  <2>4. ASSUME NEW j \in Writes PROVE KeyRows(j)'
    BY <1>1, <1>2, <1>4, <2>4 DEF RunInv, JournalInv, KeyRows
  <2> QED
    BY <2>2, <2>3, <2>4 DEF WorkInv, JournalInv
<1>5. ASSUME NEW verdict, Returns(r, verdict), sent' = sent,
             \A j \in Writes : j # k => claim'[j] = claim[j],
             claim'[k].state # "none" \/ claim'[k] = claim[k]
      PROVE  WorkInv' /\ JournalInv'
  BY <1>1, <1>5, RestAfterTool
<1>6. CASE Claim(r)
  <2>1. CASE ClaimFresh(r)
    <3>1. SetClaim(k, "claimed", TRUE) /\ Goes(r, "execute") /\ UNCHANGED <<mem, call>>
      BY <2>1 DEF ClaimFresh, Key
    <3>2. sent' = sent /\ (k \in forgotten \/ sent[k] = 0)
      BY <1>2, <1>6, <2>1 DEF Claim, ClaimFresh, Key, KeyRows
    <3>3. claim'[k].state # "none" /\ \A j \in Writes : j # k => claim'[j] = claim[j]
      BY <1>3, <3>1
    <3>4. /\ k \in forgotten \/ (sent'[k] = 0 /\ sent'[k] <= 1)
          /\ \A j \in Writes : sent'[j] = sent[j]
      BY <3>2
    <3> HIDE DEF k
    <3> QED
      BY <1>4, <3>1, <3>3, <3>4
  <2>2. CASE ClaimReplay(r) \/ ClaimHeld(r)
    BY <1>5, <1>6, <2>2 DEF Claim, ClaimReplay, ClaimHeld
  <2>3. CASE ClaimLapsed(r)
    <3>1. SetClaim(k, "reconciliation_required", TRUE) /\ Goes(r, "reconcile") /\ UNCHANGED <<mem, call>>
      BY <2>3 DEF ClaimLapsed, Key
    <3>2. sent' = sent
      BY <1>6 DEF Claim
    <3>3. claim'[k].state # "none" /\ \A j \in Writes : j # k => claim'[j] = claim[j]
      BY <1>3, <3>1
    <3>4. (k \in forgotten \/ sent'[k] <= 1) /\ \A j \in Writes : sent'[j] = sent[j]
      BY <1>2, <3>2 DEF KeyRows
    <3> HIDE DEF k
    <3> QED
      BY <1>4, <3>1, <3>3, <3>4
  <2> QED
    BY <1>6, <2>1, <2>2, <2>3 DEF Claim
<1>7. CASE Reconcile(r)
  BY <1>2, <1>3, <1>5, <1>7 DEF Reconcile, Key
<1>8. CASE Execute(r)
  <2>1. CASE sent' = [sent EXCEPT ![k] = @ + 1] /\ Goes(r, "wire") /\ UNCHANGED call
    <3>1. at[r] = "execute" /\ claim' = claim /\ claim[k].state # "none"
      BY <1>2, <1>8 DEF Execute, Working
    <3>2. sent \in [Writes -> Nat]
      BY DEF RunInv, TypeOK
    <3> HIDE DEF k
    <3>3. (k \in forgotten \/ sent'[k] = 1) /\ \A j \in Writes : j # k => sent'[j] = sent[j]
      BY <1>2, <2>1, <3>1, <3>2
    <3> QED
      BY <1>4, <2>1, <3>1, <3>3
  <2>2. CASE Returns(r, "unresolved") /\ UNCHANGED sent
    BY <1>5, <1>8, <2>2 DEF Execute
  <2> QED
    BY <1>8, <2>1, <2>2 DEF Execute, Key
<1>9. CASE Answered(r)
  <2>1. CASE Goes(r, "verify") /\ UNCHANGED <<mem, call>>
    <3>1. UNCHANGED <<claim, sent>> /\ at[r] = "wire"
      BY <1>9 DEF Answered, journal
    <3>2. (k \in forgotten \/ sent'[k] <= 1) /\ claim'[k].state # "none"
      BY <1>2, <3>1 DEF KeyRows, Working
    <3>3. \A j \in Writes : claim'[j] = claim[j] /\ sent'[j] = sent[j]
      BY <3>1
    <3> HIDE DEF k
    <3> QED
      BY <1>4, <2>1, <3>2, <3>3
  <2>2. CASE Returns(r, "unresolved")
    BY <1>5, <1>9, <2>2 DEF Answered, journal
  <2> QED
    BY <1>9, <2>1, <2>2 DEF Answered
<1>10. CASE Verify(r)
  BY <1>2, <1>3, <1>5, <1>10 DEF Verify, Key
<1> QED
  BY <1>6, <1>7, <1>8, <1>9, <1>10

\* Decisions and lapses take no approval back and drop no claim row.
LEMMA WorldKeepsWork ==
    ASSUME RunInv, NEW k \in Writes, Land(k) \/ Decide(k) \/ ApprovalLapses(k) \/ ClaimLapses(k)
    PROVE  WorkInv' /\ JournalInv'
<1>1. UNCHANGED <<run, at, call, sent, forgotten>>
  BY DEF Land, Decide, ApprovalLapses, ClaimLapses, rows, process
<1>2. \A j \in Writes : approval[j] = "approved" => approval'[j] = "approved"
  BY DEF Land, Decide, ApprovalLapses, ClaimLapses, RunInv, TypeOK
<1>3. \A j \in Writes : claim'[j].state = claim[j].state
  <2>1. CASE ClaimLapses(k)
    <3>1. claim[k].state \in {"none", "claimed", "reconciliation_required", "completed"}
      BY DEF RunInv, TypeOK
    <3> QED
      BY <2>1, <3>1, SetClaimKeepsType DEF ClaimLapses, RunInv
  <2>2. CASE Land(k) \/ Decide(k) \/ ApprovalLapses(k)
    BY <2>2 DEF Land, Decide, ApprovalLapses
  <2> QED
    BY <2>1, <2>2
<1>4. WorkInv'
  BY <1>1, <1>2, <1>3, StillWorks DEF WorkInv
<1>5. JournalInv'
  BY <1>1, <1>2, <1>3 DEF RunInv, JournalInv, KeyRows
<1> QED
  BY <1>4, <1>5

\* Rows are collected while nothing runs, and leave a note.
LEMMA CollectKeepsWork ==
    ASSUME RunInv, NEW k \in Writes, CollectClaim(k)
    PROVE  WorkInv' /\ JournalInv'
<1>1. /\ UNCHANGED <<run, at, call, sent, approval>> /\ \A q \in Runs : at[q] = "off"
      /\ forgotten' = forgotten \union {k}
  BY DEF CollectClaim, rows, process
<1>2. \A j \in Writes : j # k => claim'[j] = claim[j]
  BY SetClaimKeepsType DEF CollectClaim, RunInv
<1>3. WorkInv'
  BY <1>1 DEF WorkInv, CallWork, Working
<1>4. ASSUME NEW j \in Writes PROVE KeyRows(j)'
  <2>1. KeyRows(j)
    BY DEF RunInv, JournalInv
  <2> QED
    BY <1>1, <1>2, <2>1 DEF KeyRows
<1> QED
  BY <1>3, <1>4 DEF JournalInv

\* The invariant is inductive.
LEMMA StepKeepsRunInv ==
    ASSUME RunInv, [Next]_vars
    PROVE  RunInv'
<1>1. TypeOK' /\ \A q \in Runs : Lifecycle!RunMoves(q)
  BY StepKeepsType, StepMovesRuns DEF RunInv
<1>2. CASE UNCHANGED vars
  BY <1>1, <1>2
  DEF RunInv, WorkInv, CallWork, Callable, JournalInv, KeyRows, vars, rows, journal, process
<1>3. CASE Handler \/ Abort \/ Delegate \/ ChildEnds \/ WallTimeExpires
  BY <1>1, <1>3, OthersKeepWork DEF RunInv
<1>4. CASE World
  BY <1>1, <1>4, OthersKeepWork, WorldKeepsWork, CollectKeepsWork DEF World, RunInv
<1>5. ASSUME NEW r \in Runs, Turn(r) PROVE WorkInv' /\ JournalInv'
  BY <1>1, <1>5, TurnKeepsWork
<1>6. ASSUME NEW r \in Runs, Reply(r) \/ ModelFails(r) PROVE WorkInv' /\ JournalInv'
  BY <1>1, <1>6, OthersKeepWork
<1>7. ASSUME NEW r \in Runs, ToolCall(r) PROVE WorkInv' /\ JournalInv'
  BY <1>1, <1>7, OthersKeepWork, ApprovalKeepsWork, ToolKeepsWork DEF ToolCall
<1> QED
  BY <1>1, <1>2, <1>3, <1>4, <1>5, <1>6, <1>7 DEF Next, RunInv

\* It holds at the start.
LEMMA InitHasRunInv == Init => RunInv
BY InitHasType DEF Init, RunInv, WorkInv, CallWork, Working, JournalInv, KeyRows

\* Every execution keeps the types, the work of each call and the journal in
\* step (tools.py execute, _claim_write; runtime_store.py claim_idempotency).
THEOREM RunInvariance == Spec => []RunInv
BY InitHasRunInv, StepKeepsRunInv, PTL DEF Spec

\* The rows and the local variables of the runs keep their types, the budget
\* of tool calls bounds what a run and its checkpoint count, and a task is
\* leased at most MaxAttempts times (harness.py, session_store.py).
THEOREM AgentRunType == Spec => []TypeOK
<1>1. RunInv => TypeOK
  BY DEF RunInv
<1> QED
  BY <1>1, RunInvariance, PTL

\* No external write is sent twice, whatever crashes, lapses or is resumed, as
\* long as garbage collection does not drop its row in between (_claim_write,
\* claim_idempotency, garbage_collect).
THEOREM WritesAtMostOnce == Spec => []AtMostOnce
<1>1. RunInv => AtMostOnce
  BY DEF RunInv, JournalInv, KeyRows, AtMostOnce
<1> QED
  BY <1>1, RunInvariance, PTL

\* No destructive write is sent without the approval of its requester
\* (request_approval, decide_approval).
THEOREM DestructiveIsApproved == Spec => []SentIsApproved
<1>1. RunInv => SentIsApproved
  BY DEF RunInv, JournalInv, KeyRows, SentIsApproved
<1> QED
  BY <1>1, RunInvariance, PTL

-----------------------------------------------------------------------------
(***************************************************************************)
(* The control inbox.                                                      *)
(***************************************************************************)

\* What acknowledging does to the inbox.
LEMMA AcknowledgedMoves ==
    ASSUME TypeOK, NEW ids, control' = Acknowledged(ids)
    PROVE  /\ \A c \in Controls : Lifecycle!ControlMoves(c)
           /\ \A c \in Controls : control'[c] = "pending" => control[c] = "pending"
BY DEF TypeOK, Acknowledged, Lifecycle!ControlMoves

\* A resumed run acknowledges what its checkpoint had applied.
LEMMA EntersMovesControls ==
    ASSUME TypeOK, NEW r \in Runs, Enters(r)
    PROVE  /\ \A c \in Controls : Lifecycle!ControlMoves(c)
           /\ \A c \in Controls : control'[c] = "pending" => control[c] = "pending"
<1>1. UNCHANGED control => \A c \in Controls : Lifecycle!ControlMoves(c)
  BY DEF Lifecycle!ControlMoves
<1> QED
  BY <1>1, AcknowledgedMoves DEF Enters, Starts, ResumesSaved, ResumesStale

\* The closing transaction drops controls only when it ends the run without an
\* answer, and then it leaves none behind.
LEMMA TryFinishMovesControls ==
    ASSUME TypeOK, NEW r \in Runs, NEW status \in Ended, NEW ids, TryFinish(r, status, ids)
    PROVE  /\ \A c \in Controls : Lifecycle!ControlMoves(c)
           /\ \A c \in Controls : control'[c] = "pending" => control[c] = "pending"
           /\ run' = run \/ \A c \in Controls : control'[c] # "pending"
<1>1. CASE Pending \ ids # {} /\ status = "completed"
  BY <1>1, AcknowledgedMoves DEF TryFinish
<1>2. CASE ~(Pending \ ids # {} /\ status = "completed")
  <2>1. /\ run[r] = "running" /\ run' = [run EXCEPT ![r] = status]
        /\ control' = [c \in Controls |-> IF c \in Pending \ ids THEN "superseded"
                                                                ELSE Acknowledged(ids)[c]]
    BY <1>2 DEF TryFinish
  <2>2. run'[r] = status
    BY <2>1 DEF TypeOK
  <2>3. ASSUME NEW c \in Controls
        PROVE  Lifecycle!ControlMoves(c) /\ control'[c] # "pending"
    <3>1. CASE c \in Pending \ ids
      <4>1. status \in {"failed", "cancelled"}
        BY <1>2, <3>1 DEF Ended
      <4>2. control[c] = "pending" /\ control'[c] = "superseded"
        BY <2>1, <3>1 DEF Pending
      <4>3. Lifecycle!EndsWithoutAnswer(r)
        BY <2>1, <2>2, <4>1 DEF Lifecycle!EndsWithoutAnswer
      <4> QED
        BY <4>2, <4>3 DEF Lifecycle!ControlMoves
    <3>2. CASE c \notin Pending \ ids
      BY <2>1, <3>2 DEF Acknowledged, Pending, Lifecycle!ControlMoves
    <3> QED
      BY <3>1, <3>2
  <2> QED
    BY <2>3
<1> QED
  BY <1>1, <1>2

\* How a step leaves the inbox: with nothing new in it, with nothing in it, or
\* with a run to hear it.
InboxIsServed ==
    \/ run' = run /\ \A c \in Controls : control'[c] = "pending" => control[c] = "pending"
    \/ \A c \in Controls : control'[c] # "pending"
    \/ \E q \in Runs : run'[q] = "running"
    \/ run' = run /\ run[Root] \notin Ended

\* Entering a run leaves no pending control without a run to hear it.
LEMMA EntersServesInbox ==
    ASSUME TypeOK, NEW r \in Runs, Enters(r)
    PROVE  InboxIsServed
BY EntersMovesControls
DEF Enters, Starts, ResumesSaved, ResumesStale, InboxIsServed, TypeOK

LEMMA StepServesInbox ==
    ASSUME TypeOK, WorkInv, [Next]_vars
    PROVE  (\A c \in Controls : Lifecycle!ControlMoves(c)) /\ InboxIsServed
<1>1. ASSUME UNCHANGED <<run, control>>
      PROVE  (\A c \in Controls : Lifecycle!ControlMoves(c)) /\ InboxIsServed
  BY <1>1 DEF Lifecycle!ControlMoves, InboxIsServed
<1>2. Root \in Runs
  BY DEF Runs
<1>3. CASE UNCHANGED vars
  BY <1>1, <1>3 DEF vars, rows
<1>4. CASE Lease \/ FindOutcome \/ Settle \/ Abort
  BY <1>1, <1>4 DEF Lease, FindOutcome, Settle, Abort, rows
<1>5. CASE Begin
  BY <1>2, <1>5, EntersMovesControls, EntersServesInbox DEF Begin
<1>6. CASE World
  <2>1. ASSUME NEW c \in Controls, AdmitControl(c)
        PROVE  (\A d \in Controls : Lifecycle!ControlMoves(d)) /\ InboxIsServed
    <3>1. \A d \in Controls : Lifecycle!ControlMoves(d)
      BY <2>1 DEF AdmitControl, TypeOK, Lifecycle!ControlMoves
    <3>2. InboxIsServed
      BY <1>2, <2>1 DEF AdmitControl, InboxIsServed, Ended
    <3> QED
      BY <3>1, <3>2
  <2>2. ASSUME NEW k \in Writes,
               Land(k) \/ Decide(k) \/ ApprovalLapses(k) \/ ClaimLapses(k) \/ CollectClaim(k)
        PROVE  UNCHANGED <<run, control>>
    BY <2>2 DEF Land, Decide, ApprovalLapses, ClaimLapses, CollectClaim, rows
  <2> QED
    BY <1>1, <1>6, <2>1, <2>2 DEF World
<1>7. CASE Delegate
  <2>1. call[Root][2] \in Runs
    BY <1>2, <1>7 DEF Delegate, WorkInv, CallWork, Callable, IsWrite, Key, Runs
  <2> QED
    BY <1>7, <2>1, EntersMovesControls, EntersServesInbox DEF Delegate
<1>8. CASE ChildEnds \/ WallTimeExpires
  BY <1>1, <1>8 DEF ChildEnds, WallTimeExpires, rows
<1>9. ASSUME NEW r \in Runs, Turn(r)
      PROVE  (\A c \in Controls : Lifecycle!ControlMoves(c)) /\ InboxIsServed
  <2>1. CASE Poll(r) \/ Save(r)
    BY <1>1, <2>1 DEF Poll, Save, rows
  <2>2. CASE Acknowledge(r)
    BY <2>2, AcknowledgedMoves DEF Acknowledge, InboxIsServed
  <2>3. CASE Answer(r) \/ Cancel(r) \/ Fail(r)
    <3>1. Outcome(r) \in Ended /\ {"cancelled", "failed"} \subseteq Ended
      BY DEF Outcome, Ended
    <3> QED
      BY <1>1, <2>3, <3>1, TryFinishMovesControls DEF Answer, Cancel, Fail, InboxIsServed
  <2> QED
    BY <1>9, <2>1, <2>2, <2>3 DEF Turn
<1>10. ASSUME NEW r \in Runs, Reply(r) \/ ModelFails(r) \/ ToolCall(r)
       PROVE  UNCHANGED <<run, control>>
  BY <1>10
  DEF Reply, ModelFails, ToolCall, Refuse, Permit, RequestApproval, Claim, Reconcile,
      Execute, Answered, Verify, rows
<1> QED
  BY <1>1, <1>3, <1>4, <1>5, <1>6, <1>7, <1>8, <1>9, <1>10 DEF Next, Handler

\* A root that has ended leaves no control behind that nobody will hear, unless
\* the row of a child still says that it runs (try_finish_with_outcome).
THEOREM ControlsAreNotStranded == Spec => []NoControlStranded
<1>1. Init => NoControlStranded
  BY DEF Init, NoControlStranded, Pending
<1>2. ASSUME RunInv, NoControlStranded, [Next]_vars PROVE NoControlStranded'
  <2>1. InboxIsServed /\ control' \in [Controls -> ControlStates]
    BY <1>2, StepServesInbox, StepKeepsType DEF RunInv, TypeOK, ControlStates
  <2> QED
    BY <1>2, <2>1 DEF InboxIsServed, NoControlStranded, Pending, Runs, Ended
<1> QED
  BY <1>1, <1>2, RunInvariance, PTL DEF Spec

-----------------------------------------------------------------------------
(***************************************************************************)
(* Refinement.                                                             *)
(***************************************************************************)
LEMMA StepMovesWrites ==
    ASSUME RunInv, RunInv', [Next]_vars
    PROVE  /\ Counted' \in [Writes -> {0, 1}]
           /\ \A k \in Writes : Lifecycle!WriteMoves(k)
<1>1. \A k \in Writes : Counted[k] \in {0, 1} /\ Counted[k] = IF sent[k] = 0 THEN 0 ELSE 1
  BY DEF RunInv, TypeOK, JournalInv, KeyRows, Counted
<1>2. \A k \in Writes : Counted'[k] \in {0, 1} /\ Counted'[k] = IF sent'[k] = 0 THEN 0 ELSE 1
  BY DEF RunInv, TypeOK, JournalInv, KeyRows, Counted
<1>3. Counted' \in [Writes -> {0, 1}]
  BY <1>2 DEF Counted
<1>4. UNCHANGED sent => \A k \in Writes : Lifecycle!WriteMoves(k)
  BY <1>1, <1>2 DEF Lifecycle!WriteMoves
<1>5. CASE UNCHANGED vars
  BY <1>3, <1>4, <1>5 DEF vars, journal
<1>6. CASE Handler \/ Abort \/ World \/ Delegate \/ ChildEnds \/ WallTimeExpires
  BY <1>3, <1>4, <1>6
  DEF Handler, Lease, Begin, FindOutcome, Settle, Abort, Delegate, ChildEnds, WallTimeExpires,
      World, AdmitControl, Land, Decide, ApprovalLapses, ClaimLapses, CollectClaim, journal
<1>7. ASSUME NEW r \in Runs, Turn(r) \/ Reply(r) \/ ModelFails(r) PROVE UNCHANGED sent
  BY <1>7
  DEF Turn, Poll, Answer, Save, Acknowledge, Cancel, Fail, Reply, ModelFails, journal
<1>8. ASSUME NEW r \in Runs, ToolCall(r) PROVE \A k \in Writes : Lifecycle!WriteMoves(k)
  <2>1. CASE Execute(r)
    <3>1. UNCHANGED sent \/ sent' = [sent EXCEPT ![call[r]] = @ + 1]
      BY <2>1 DEF Execute, Key
    <3>2. call[r] \in Writes /\ sent \in [Writes -> Nat]
      BY <2>1 DEF Execute, RunInv, TypeOK, WorkInv, CallWork, Working
    <3>3. CASE sent' = [sent EXCEPT ![call[r]] = @ + 1]
      <4>1. \A k \in Writes : sent'[k] = sent[k] \/ sent'[k] = sent[k] + 1
        BY <3>2, <3>3
      <4>2. \A k \in Writes : sent[k] \in Nat
        BY <3>2
      <4> QED
        BY <1>1, <1>2, <4>1, <4>2 DEF Lifecycle!WriteMoves
    <3> QED
      BY <1>4, <3>1, <3>3
  <2>2. CASE ~Execute(r)
    BY <1>4, <1>8, <2>2
    DEF ToolCall, Refuse, Permit, RequestApproval, Claim, Reconcile, Answered, Verify, journal
  <2> QED
    BY <2>1, <2>2
<1> QED
  BY <1>3, <1>4, <1>5, <1>6, <1>7, <1>8 DEF Next

\* Whatever the harness, the tools and the crashes do in between, the runs of a
\* task end once, its controls are heard or dropped once, and its external
\* writes count once for whoever relies on the journal.
THEOREM RunImplementsLifecycle == Spec => ImplementsRunLifecycle
<1>1. Init => Lifecycle!Init
  BY DEF Init, Lifecycle!Init, Counted
<1>2. ASSUME RunInv, RunInv', [Next]_vars PROVE [Lifecycle!Next]_(Lifecycle!lifecycle)
  <2>1. /\ \A r \in Runs : Lifecycle!RunMoves(r)
        /\ \A c \in Controls : Lifecycle!ControlMoves(c)
    BY <1>2, StepMovesRuns, StepServesInbox DEF RunInv
  <2>2. run' \in [Runs -> Lifecycle!RunStatus] /\ control' \in [Controls -> Lifecycle!ControlState]
    BY <1>2 DEF RunInv, TypeOK, Lifecycle!RunStatus, Lifecycle!ControlState, Lifecycle!Ended, Ended
  <2>3. Counted' \in [Writes -> {0, 1}] /\ \A k \in Writes : Lifecycle!WriteMoves(k)
    BY <1>2, StepMovesWrites
  <2> QED
    BY <2>1, <2>2, <2>3 DEF Lifecycle!Next
<1> QED
  BY <1>1, <1>2, RunInvariance, PTL DEF Spec, Lifecycle!Spec, ImplementsRunLifecycle

-----------------------------------------------------------------------------
(***************************************************************************)
(* A control that was applied is in the checkpoint.                        *)
(***************************************************************************)

\* The memory of the root holds what it will acknowledge and what its
\* checkpoint holds; children have nothing to acknowledge.
SavedInv ==
    /\ \A c \in Children : mem[c].acks = {}
    /\ mem[Root].acks \subseteq mem[Root].kept.applied
    /\ discarded \/ at[Root] \in {"off", "closed"}
         \/ saved[Root].kept.applied \subseteq mem[Root].kept.applied
    /\ at[Root] = "acknowledge" => mem[Root].acks \subseteq saved[Root].kept.applied
    /\ at[Root] # "off" => run[Root] # "none"
    /\ run[Root] = "none" => saved[Root].kept.applied = {}
    /\ AppliedIsSaved

\* The memory of a run after a safe boundary.
Grows(r, m) ==
    /\ mem[r].kept.applied \subseteq m.kept.applied
    /\ m.acks \subseteq m.kept.applied \/ r # Root
    /\ r # Root => m.acks = mem[r].acks

LEMMA HeardGrows ==
    ASSUME TypeOK, SavedInv, NEW r \in Runs, NEW m \in Memory,
           m.kept.applied = mem[r].kept.applied, m.acks = mem[r].acks
    PROVE  Grows(r, Heard(r, m))
<1>1. CASE r # Root
  BY <1>1 DEF Heard, Grows
<1>2. CASE r = Root
  <2>1. /\ Heard(r, m).kept.applied = m.kept.applied \union Pending
        /\ Heard(r, m).acks = m.acks \union Pending
    BY <1>2 DEF Heard, Memory, Kept
  <2> QED
    BY <1>2, <2>1 DEF Grows, SavedInv
<1> QED
  BY <1>1, <1>2

\* A step by which memory only grows and nothing is acknowledged or saved.
LEMMA GrowthKeepsSaved ==
    ASSUME TypeOK, SavedInv, \A q \in Runs : Lifecycle!RunMoves(q),
           discarded' = discarded, saved' = saved,
           \A c \in Controls : control'[c] = "applied" => control[c] = "applied",
           \A c \in Children : mem'[c].acks = mem[c].acks \/ mem'[c].acks = {},
           \/ mem'[Root] = mem[Root] /\ at'[Root] = at[Root]
           \/ /\ at[Root] \notin {"off", "closed"} /\ at'[Root] \notin {"acknowledge"}
              /\ mem'[Root] = mem[Root] \/ Grows(Root, mem'[Root])
           \/ mem'[Root] = mem[Root] /\ at'[Root] = "closed" /\ run[Root] # "none"
           \/ at'[Root] = "off" /\ mem'[Root].acks = {}
    PROVE  SavedInv'
<1>1. Root \in Runs
  BY DEF Runs
<1>2. /\ run'[Root] = "none" => run[Root] = "none"
      /\ run[Root] # "none" => run'[Root] # "none"
      /\ run[Root] = "cancelled" => run'[Root] = "cancelled"
  BY <1>1 DEF Lifecycle!RunMoves, TypeOK, Lifecycle!Ended
<1>3. AppliedIsSaved'
  BY <1>2 DEF SavedInv, AppliedIsSaved
<1>4. \A c \in Children : mem'[c].acks = {}
  BY DEF SavedInv
<1>5. CASE mem'[Root] = mem[Root] /\ at'[Root] = at[Root]
  BY <1>2, <1>3, <1>4, <1>5 DEF SavedInv
<1>6. CASE /\ at[Root] \notin {"off", "closed"} /\ at'[Root] \notin {"acknowledge"}
           /\ mem'[Root] = mem[Root] \/ Grows(Root, mem'[Root])
  BY <1>1, <1>2, <1>3, <1>4, <1>6 DEF SavedInv, Grows
<1>7. CASE mem'[Root] = mem[Root] /\ at'[Root] = "closed" /\ run[Root] # "none"
  BY <1>2, <1>3, <1>4, <1>7 DEF SavedInv
<1>8. CASE at'[Root] = "off" /\ mem'[Root].acks = {}
  BY <1>2, <1>3, <1>4, <1>8 DEF SavedInv
<1> QED
  BY <1>5, <1>6, <1>7, <1>8

LEMMA ReturnKeepsSaved ==
    ASSUME TypeOK, SavedInv, NEW r \in Runs, NEW verdict, Returns(r, verdict),
           at[r] \notin {"off", "closed"}, UNCHANGED <<rows, discarded>>
    PROVE  SavedInv'
<1> DEFINE before == [mem[r] EXCEPT !.kept.verified = @ \/ verdict = "verified",
                                    !.kept.unresolved = @ \/ verdict = "unresolved"]
<1>1. before \in Memory /\ before.kept.applied = mem[r].kept.applied /\ before.acks = mem[r].acks
  <2>1. mem[r] \in Memory /\ mem[r].kept \in Kept
    BY DEF TypeOK, Memory
  <2> DEFINE verified == mem[r].kept.verified \/ verdict = "verified"
             unresolved == mem[r].kept.unresolved \/ verdict = "unresolved"
             kept == [mem[r].kept EXCEPT !.verified = verified, !.unresolved = unresolved]
  <2>2. before = [mem[r] EXCEPT !.kept = kept]
    BY <2>1 DEF Memory, Kept
  <2>3. verified \in BOOLEAN /\ unresolved \in BOOLEAN
    OBVIOUS
  <2> HIDE DEF verified, unresolved
  <2>4. kept \in Kept /\ kept.applied = mem[r].kept.applied
    BY <2>1, <2>3 DEF Kept
  <2> HIDE DEF kept, before
  <2> QED
    BY <2>1, <2>2, <2>4 DEF Memory
<1>2. mem' = [mem EXCEPT ![r] = Heard(r, before)]
  BY DEF Returns, Remembers
<1> HIDE DEF before
<1>3. Grows(r, Heard(r, before))
  BY <1>1, HeardGrows
<1>4. mem'[r] = Heard(r, before) /\ \A q \in Runs : q # r => mem'[q] = mem[q]
  BY <1>2 DEF TypeOK
<1>5. at'[r] \in {"cancel", "save"} /\ \A q \in Runs : q # r => at'[q] = at[q]
  BY ReturnsKeepsType
<1>6. Root \in Runs /\ Children \subseteq Runs /\ \A q \in Runs : Lifecycle!RunMoves(q)
  BY DEF Runs, rows, Lifecycle!RunMoves
<1>7. \A c \in Children : mem'[c].acks = mem[c].acks
  BY <1>3, <1>4, <1>6, RunsAssumption DEF Grows
<1>8. CASE r = Root
  BY <1>3, <1>4, <1>5, <1>6, <1>7, <1>8, GrowthKeepsSaved DEF rows
<1>9. CASE r # Root
  BY <1>4, <1>5, <1>6, <1>7, <1>9, GrowthKeepsSaved DEF rows
<1> QED
  BY <1>8, <1>9

\* Entering a run: a checkpoint that is restored brings back the controls it
\* acknowledges once more.
LEMMA EntersKeepsSaved ==
    ASSUME TypeOK, SavedInv, NEW r \in Runs, Enters(r), \A q \in Runs : Lifecycle!RunMoves(q),
           at'[Root] \in {"poll", "wait"}, r = Root \/ (at'[Root] = "wait" /\ at[Root] = "call"),
           r = Root => at[Root] = "off"
    PROVE  SavedInv'
<1>1. Root \in Runs /\ Children \subseteq Runs /\ mem \in [Runs -> Memory]
      /\ saved \in [Runs -> [exists : BOOLEAN, kept : Kept]]
      /\ run \in [Runs -> {"none", "running"} \union Ended]
      /\ control \in [Controls -> ControlStates] /\ discarded \in BOOLEAN
  BY DEF Runs, TypeOK, Memory, ControlStates
<1>2. NoMemory.acks = {} /\ NoMemory.kept.applied = {} /\ Fresh.applied = {}
  BY DEF NoMemory, Fresh
<1>3. run'[Root] # "none"
  BY <1>1 DEF Enters, Starts, ResumesSaved, ResumesStale, SavedInv, Lifecycle!RunMoves
<1>4. run[Root] = "cancelled" => run'[Root] = "cancelled"
  BY <1>1 DEF Lifecycle!RunMoves, TypeOK
<1>5. mem'[r].acks = {} /\ \A q \in Runs : q # r => mem'[q] = mem[q]
  BY <1>1, <1>2 DEF Enters, Starts, ResumesSaved, ResumesStale, Remembers, NoMemory
<1>6. \A c \in Children : mem'[c].acks = {}
  BY <1>1, <1>5 DEF SavedInv
<1>7. mem'[Root].acks \subseteq mem'[Root].kept.applied
  BY <1>1, <1>5 DEF SavedInv
<1>8. CASE r # Root
  <2>1. saved'[Root] = saved[Root] /\ mem'[Root] = mem[Root] /\ control' = control
        /\ (discarded => discarded')
    BY <1>1, <1>8 DEF Enters, Starts, ResumesSaved, ResumesStale, Remembers
  <2> QED
    BY <1>3, <1>4, <1>6, <1>8, <2>1 DEF SavedInv, AppliedIsSaved
<1>9. CASE r = Root
  <2>1. CASE Starts(r)
    <3>1. saved' = saved /\ control' = control /\ discarded' = discarded /\ saved[Root].kept.applied = {}
      BY <1>9, <2>1 DEF Starts, SavedInv
    <3> QED
      BY <1>3, <1>4, <1>5, <1>6, <1>7, <1>9, <3>1 DEF SavedInv, AppliedIsSaved
  <2>2. CASE ResumesSaved(r)
    <3>1. saved' = saved /\ discarded' = discarded
          /\ mem' = [mem EXCEPT ![Root] = [NoMemory EXCEPT !.kept = saved[Root].kept]]
          /\ control' = Acknowledged(saved[Root].kept.applied)
      BY <1>9, <2>2 DEF ResumesSaved, Remembers
    <3>2. mem'[Root].kept = saved[Root].kept
      BY <1>1, <3>1 DEF NoMemory
    <3>3. \A c \in Controls : control'[c] = "applied" =>
              control[c] = "applied" \/ c \in saved[Root].kept.applied
      BY <3>1 DEF Acknowledged
    <3>4. AppliedIsSaved'
      BY <1>4, <3>1, <3>3 DEF SavedInv, AppliedIsSaved
    <3> QED
      BY <1>3, <1>5, <1>6, <1>7, <1>9, <3>1, <3>2, <3>4 DEF SavedInv
  <2>3. CASE ResumesStale(r)
    BY <1>3, <1>5, <1>6, <1>7, <1>9, <2>3 DEF ResumesStale, SavedInv, AppliedIsSaved
  <2> QED
    BY <2>1, <2>2, <2>3 DEF Enters
<1> QED
  BY <1>8, <1>9

LEMMA TurnKeepsSaved ==
    ASSUME TypeOK, SavedInv, NEW r \in Runs, Turn(r), \A q \in Runs : Lifecycle!RunMoves(q)
    PROVE  SavedInv'
<1>1. /\ Root \in Runs /\ Children \subseteq Runs /\ mem \in [Runs -> Memory]
      /\ saved \in [Runs -> [exists : BOOLEAN, kept : Kept]]
      /\ at \in [Runs -> Places] /\ control \in [Controls -> ControlStates]
      /\ run \in [Runs -> {"none", "running"} \union Ended]
  BY DEF Runs, TypeOK, Memory, ControlStates
<1>2. ASSUME NEW p, p # "acknowledge", Goes(r, p), at[r] \notin {"off", "closed"},
             UNCHANGED <<saved, discarded, mem>>,
             \A c \in Controls : control'[c] = "applied" => control[c] = "applied"
      PROVE  SavedInv'
  <2>1. at'[r] = p /\ \A q \in Runs : q # r => at'[q] = at[q]
    BY <1>1, <1>2 DEF Goes
  <2>2. \/ mem'[Root] = mem[Root] /\ at'[Root] = at[Root]
        \/ at[Root] \notin {"off", "closed"} /\ at'[Root] \notin {"acknowledge"} /\ mem'[Root] = mem[Root]
    BY <1>1, <1>2, <2>1
  <2> QED
    BY <1>2, <2>2, GrowthKeepsSaved
<1>3. ASSUME NEW status \in Ended, TryFinish(r, status, {}), at[r] \notin {"off", "closed"},
             UNCHANGED <<saved, discarded, mem>>
      PROVE  SavedInv'
  <2>1. \A c \in Controls : control'[c] = "applied" => control[c] = "applied"
    BY <1>3 DEF TryFinish, Acknowledged
  <2>2. \E p \in {"poll", "closed"} : Goes(r, p)
    BY <1>3 DEF TryFinish
  <2> QED
    BY <1>2, <1>3, <2>1, <2>2
<1>4. CASE Poll(r)
  <2>1. mem' = [mem EXCEPT ![r] = Heard(r, mem[r])] /\ Grows(r, Heard(r, mem[r]))
    BY <1>1, <1>4, HeardGrows DEF Poll, Remembers
  <2>2. /\ at[r] = "poll" /\ at'[r] \in {"cancel", "model", "fail"} /\ \A q \in Runs : q # r => at'[q] = at[q]
    BY <1>1, <1>4 DEF Poll, Builds, Goes
  <2>3. mem'[r] = Heard(r, mem[r]) /\ \A q \in Runs : q # r => mem'[q] = mem[q]
    BY <1>1, <2>1
  <2>4. \A c \in Children : mem'[c].acks = mem[c].acks
    BY <1>1, <2>1, <2>3, RunsAssumption DEF Grows
  <2>5. UNCHANGED <<control, saved, discarded>>
    BY <1>4 DEF Poll, rows
  <2>6. \/ mem'[Root] = mem[Root] /\ at'[Root] = at[Root]
        \/ at[Root] \notin {"off", "closed"} /\ at'[Root] \notin {"acknowledge"} /\ Grows(Root, mem'[Root])
    BY <1>1, <2>1, <2>2, <2>3
  <2> QED
    BY <2>4, <2>5, <2>6, GrowthKeepsSaved
<1>5. CASE Answer(r)
  <2>1. Outcome(r) \in Ended
    BY DEF Outcome, Ended
  <2> QED
    BY <1>2, <1>3, <1>5, <2>1 DEF Answer
<1>6. CASE Save(r)
  <2>1. /\ saved' = [saved EXCEPT ![r] = [exists |-> TRUE, kept |-> mem[r].kept]]
        /\ at[r] = "save" /\ at' = [at EXCEPT ![r] = "acknowledge"]
        /\ UNCHANGED <<run, control, mem, discarded>>
    BY <1>6 DEF Save, Goes
  <2>2. CASE r = Root
    <3>1. saved'[Root].kept = mem[Root].kept /\ at'[Root] = "acknowledge"
      BY <1>1, <2>1, <2>2
    <3>2. AppliedIsSaved'
      BY <1>1, <2>1, <2>2, <3>1 DEF SavedInv, AppliedIsSaved
    <3> QED
      BY <1>1, <2>1, <2>2, <3>1, <3>2 DEF SavedInv
  <2>3. CASE r # Root
    <3>1. saved'[Root] = saved[Root] /\ at'[Root] = at[Root]
      BY <1>1, <2>1, <2>3
    <3> QED
      BY <2>1, <3>1 DEF SavedInv, AppliedIsSaved
  <2> QED
    BY <2>2, <2>3
<1>7. CASE Acknowledge(r)
  <2>1. /\ control' = Acknowledged(mem[r].acks) /\ mem' = [mem EXCEPT ![r] = [mem[r] EXCEPT !.acks = {}]]
        /\ at[r] = "acknowledge" /\ at' = [at EXCEPT ![r] = "poll"] /\ UNCHANGED <<run, saved, discarded>>
    BY <1>7 DEF Acknowledge, Remembers, Goes
  <2>2. mem'[r].acks = {} /\ mem'[r].kept = mem[r].kept /\ \A q \in Runs : q # r => mem'[q] = mem[q]
    BY <1>1, <2>1 DEF Memory
  <2>3. \A c \in Children : mem'[c].acks = {}
    BY <1>1, <2>2 DEF SavedInv
  <2>4. CASE r = Root
    <3>1. \A c \in Controls : control'[c] = "applied" =>
              control[c] = "applied" \/ c \in saved[Root].kept.applied
      BY <2>1, <2>4 DEF Acknowledged, SavedInv
    <3>2. AppliedIsSaved' /\ at'[Root] = "poll"
      BY <1>1, <2>1, <2>4, <3>1 DEF SavedInv, AppliedIsSaved
    <3> QED
      BY <2>1, <2>2, <2>3, <2>4, <3>2 DEF SavedInv
  <2>5. CASE r # Root
    <3>1. mem[r].acks = {} /\ at'[Root] = at[Root] /\ mem'[Root] = mem[Root]
      BY <1>1, <2>1, <2>2, <2>5 DEF SavedInv, Runs
    <3>2. \A c \in Controls : control'[c] = "applied" => control[c] = "applied"
      BY <2>1, <3>1 DEF Acknowledged
    <3> QED
      BY <2>1, <2>3, <3>1, <3>2 DEF SavedInv, AppliedIsSaved
  <2> QED
    BY <2>4, <2>5
<1>8. CASE Cancel(r)
  <2>1. at[r] = "cancel" /\ TryFinish(r, "cancelled", mem[r].acks) /\ UNCHANGED <<saved, mem, discarded>>
    BY <1>8 DEF Cancel
  <2>2. CASE r = Root
    <3>1. run' = [run EXCEPT ![Root] = "cancelled"] /\ at' = [at EXCEPT ![Root] = "closed"]
      BY <2>1, <2>2 DEF TryFinish, Goes
    <3>2. run'[Root] = "cancelled" /\ at'[Root] = "closed"
      BY <1>1, <3>1
    <3> QED
      BY <2>1, <3>2 DEF SavedInv, AppliedIsSaved
  <2>3. CASE r # Root
    <3>1. mem[r].acks = {}
      BY <2>3 DEF SavedInv, Runs
    <3> QED
      BY <1>3, <2>1, <3>1 DEF Ended
  <2> QED
    BY <2>2, <2>3
<1>9. CASE Fail(r)
  BY <1>3, <1>9 DEF Fail, Ended
<1> QED
  BY <1>4, <1>5, <1>6, <1>7, <1>8, <1>9 DEF Turn

LEMMA ReplyKeepsSaved ==
    ASSUME TypeOK, SavedInv, NEW r \in Runs, Reply(r), \A q \in Runs : Lifecycle!RunMoves(q)
    PROVE  SavedInv'
<1> DEFINE m == Heard(r, mem[r])
<1>1. /\ Root \in Runs /\ Children \subseteq Runs /\ mem \in [Runs -> Memory]
      /\ at \in [Runs -> Places] /\ at[r] = "model" /\ UNCHANGED <<rows, discarded>>
  BY DEF Runs, TypeOK, Memory, Reply, ReplyStops, ReplyAnswers, ReplyCalls, Consumed, Replies
<1>2. m \in Memory /\ Grows(r, m)
  BY <1>1, HeardIsMemory, HeardGrows
<1>3. ASSUME NEW n, Grows(r, n), Remembers(r, n), NEW p \in {"cancel", "answer", "call", "fail"},
             Goes(r, p)
      PROVE  SavedInv'
  <2>1. mem'[r] = n /\ at'[r] = p /\ \A q \in Runs : q # r => mem'[q] = mem[q] /\ at'[q] = at[q]
    BY <1>1, <1>3 DEF Remembers, Goes
  <2>2. \A c \in Children : mem'[c].acks = mem[c].acks
    BY <1>1, <1>3, <2>1, RunsAssumption DEF Grows
  <2>3. \/ mem'[Root] = mem[Root] /\ at'[Root] = at[Root]
        \/ at[Root] \notin {"off", "closed"} /\ at'[Root] \notin {"acknowledge"} /\ Grows(Root, mem'[Root])
    BY <1>1, <1>3, <2>1
  <2> QED
    BY <1>1, <2>2, <2>3, GrowthKeepsSaved DEF rows
<1>4. CASE ReplyStops(r) \/ ReplyAnswers(r)
  BY <1>2, <1>3, <1>4 DEF ReplyStops, ReplyAnswers, Replies
<1>5. CASE ReplyCalls(r)
  <2>1. CASE Remembers(r, [m EXCEPT !.kept.used = @ + 1]) /\ Goes(r, "call")
    <3> DEFINE n == [m EXCEPT !.kept.used = @ + 1]
    <3>1. n.acks = m.acks /\ n.kept.applied = m.kept.applied
      BY <1>2 DEF Memory, Kept
    <3>2. Grows(r, n)
      BY <1>2, <3>1 DEF Grows
    <3> QED
      BY <1>3, <2>1, <3>2
  <2>2. CASE Remembers(r, m) /\ Goes(r, "fail")
    BY <1>2, <1>3, <2>2
  <2> QED
    BY <1>5, <2>1, <2>2 DEF ReplyCalls, Consumed
<1> QED
  BY <1>4, <1>5 DEF Reply

LEMMA OthersKeepSaved ==
    ASSUME RunInv, SavedInv, \A q \in Runs : Lifecycle!RunMoves(q),
           Handler \/ Abort \/ World \/ Delegate \/ ChildEnds \/ WallTimeExpires
           \/ \E r \in Runs : ModelFails(r)
    PROVE  SavedInv'
<1>1. /\ Root \in Runs /\ Children \subseteq Runs /\ mem \in [Runs -> Memory] /\ at \in [Runs -> Places]
      /\ TypeOK
  BY DEF Runs, RunInv, TypeOK, Memory
<1>2. CASE Lease
  BY <1>1, <1>2, GrowthKeepsSaved DEF Lease, process
<1>3. CASE Begin
  <2>1. at'[Root] = "poll" /\ at[Root] = "off" /\ Enters(Root)
    BY <1>1, <1>3 DEF Begin, Goes
  <2> QED
    BY <1>1, <2>1, EntersKeepsSaved
<1>4. CASE FindOutcome
  <2>1. /\ at'[Root] = "closed" /\ run[Root] # "none" /\ UNCHANGED <<control, saved, mem, discarded>>
    BY <1>1, <1>4 DEF FindOutcome, Goes, rows, Ended
  <2> QED
    BY <1>1, <2>1, GrowthKeepsSaved
<1>5. CASE Settle \/ Abort
  <2>1. /\ at'[Root] = "off" /\ \A q \in Runs : mem'[q].acks = {}
        /\ UNCHANGED <<control, saved, discarded>>
    BY <1>1, <1>5 DEF Settle, Abort, AllOff, NoMemory
  <2> QED
    BY <1>1, <2>1, GrowthKeepsSaved
<1>6. CASE World
  <2>1. UNCHANGED <<at, mem, saved, discarded>> /\ \A c \in Controls : control'[c] = "applied" => control[c] = "applied"
    BY <1>1, <1>6
    DEF World, AdmitControl, Land, Decide, ApprovalLapses, ClaimLapses, CollectClaim,
        rows, process, TypeOK
  <2> QED
    BY <1>1, <2>1, GrowthKeepsSaved
<1>7. CASE Delegate
  <2>1. call[Root][2] \in Children
    BY <1>1, <1>7 DEF Delegate, RunInv, WorkInv, CallWork, Callable, IsWrite, Key
  <2>2. call[Root][2] # Root /\ at'[Root] = "wait" /\ at[Root] = "call" /\ Enters(call[Root][2])
    BY <1>1, <1>7, <2>1, RunsAssumption DEF Delegate
  <2> QED
    BY <1>1, <2>1, <2>2, EntersKeepsSaved
<1>8. CASE ChildEnds
  BY <1>1, <1>8, ReturnKeepsSaved DEF ChildEnds
<1>9. CASE WallTimeExpires
  <2>1. at[Root] \notin {"off", "closed"} /\ at'[Root] = "fail"
    BY <1>1, <1>9 DEF WallTimeExpires, ToolPlaces
  <2> QED
    BY <1>1, <1>9, <2>1, GrowthKeepsSaved DEF WallTimeExpires, rows
<1>10. ASSUME NEW r \in Runs, ModelFails(r) PROVE SavedInv'
  <2>1. at[r] = "model" /\ at'[r] = "fail" /\ \A q \in Runs : q # r => at'[q] = at[q]
    BY <1>1, <1>10 DEF ModelFails, Goes
  <2>2. \/ mem'[Root] = mem[Root] /\ at'[Root] = at[Root]
        \/ at[Root] \notin {"off", "closed"} /\ at'[Root] \notin {"acknowledge"} /\ mem'[Root] = mem[Root]
    BY <1>1, <1>10, <2>1 DEF ModelFails
  <2> QED
    BY <1>1, <1>10, <2>2, GrowthKeepsSaved DEF ModelFails, rows
<1> QED
  BY <1>2, <1>3, <1>4, <1>5, <1>6, <1>7, <1>8, <1>9, <1>10 DEF Handler

LEMMA ToolCallKeepsSaved ==
    ASSUME TypeOK, SavedInv, NEW r \in Runs, ToolCall(r)
    PROVE  SavedInv'
<1>1. /\ at \in [Runs -> Places] /\ UNCHANGED <<rows, discarded>>
      /\ at[r] \notin {"off", "closed"} /\ \A q \in Runs : Lifecycle!RunMoves(q)
  BY DEF TypeOK, ToolCall, Refuse, Permit, RequestApproval, Claim, Reconcile, Execute, Answered,
         Verify, rows, Lifecycle!RunMoves
<1>2. ASSUME NEW p, p # "acknowledge", Goes(r, p), UNCHANGED mem
      PROVE  SavedInv'
  <2>1. at'[r] = p /\ \A q \in Runs : q # r => at'[q] = at[q]
    BY <1>1, <1>2 DEF Goes
  <2>2. \/ mem'[Root] = mem[Root] /\ at'[Root] = at[Root]
        \/ at[Root] \notin {"off", "closed"} /\ at'[Root] \notin {"acknowledge"} /\ mem'[Root] = mem[Root]
    BY <1>1, <1>2, <2>1 DEF Runs
  <2> QED
    BY <1>1, <1>2, <2>2, GrowthKeepsSaved DEF rows
<1>3. ASSUME NEW verdict, Returns(r, verdict) PROVE SavedInv'
  BY <1>1, <1>3, ReturnKeepsSaved
<1> QED
  BY <1>2, <1>3
  DEF ToolCall, Refuse, Permit, RequestApproval, AskApproval, ApprovalGranted, ApprovalRefused,
      Claim, ClaimFresh, ClaimReplay, ClaimHeld, ClaimLapsed, Reconcile, Execute, Answered, Verify

LEMMA StepKeepsSaved ==
    ASSUME RunInv, SavedInv, [Next]_vars
    PROVE  SavedInv'
<1>1. \A q \in Runs : Lifecycle!RunMoves(q)
  BY StepMovesRuns DEF RunInv
<1>2. CASE UNCHANGED vars
  BY <1>2 DEF SavedInv, AppliedIsSaved, vars, rows, process
<1>3. CASE Next
  BY <1>1, <1>3, OthersKeepSaved, TurnKeepsSaved, ReplyKeepsSaved, ToolCallKeepsSaved
  DEF Next, RunInv
<1> QED
  BY <1>2, <1>3

\* A control whose application was acknowledged survives a crash: it is in the
\* checkpoint the next attempt resumes from (harness.py, acknowledge_controls).
THEOREM AcknowledgedIsSaved == Spec => []AppliedIsSaved
<1>1. Init => SavedInv
  <2>1. Init => Root \in Runs /\ mem[Root] = NoMemory /\ \A c \in Children : mem[c] = NoMemory
    BY DEF Init, Runs
  <2>2. NoMemory.acks = {} /\ Fresh.applied = {}
    BY DEF NoMemory, Fresh
  <2> QED
    BY <2>1, <2>2 DEF Init, SavedInv, AppliedIsSaved, Runs
<1>2. SavedInv => AppliedIsSaved
  BY DEF SavedInv
<1> QED
  BY <1>1, <1>2, StepKeepsSaved, RunInvariance, PTL DEF Spec

-----------------------------------------------------------------------------
(***************************************************************************)
(* A run that completes has no effect it could not verify.                 *)
(***************************************************************************)

Resting == {"off", "closed"}
\* The places of a run that holds the claim of its call.
Hands == {"reconcile", "execute", "wire", "verify"}

\* The journal holds a claim without a result.
Dirty(k) == claim[k].state \in {"claimed", "reconciliation_required"}

\* A run that will not complete in this attempt: it ended otherwise, or it was
\* cut off by the end of the attempt or by the wall time of the root.
Barred(r) ==
    \/ run[r] \in {"failed", "cancelled"}
    \/ /\ run[r] = "running" /\ at[r] = "off"
       /\ task # "leased" \/ at[Root] \in {"fail", "closed"}

\* Why a claim of run r without a result does not get past _outcome.
Owns(r, k) ==
    \/ at[r] \in Hands /\ call[r] = k
    \/ at[r] \notin Resting /\ mem[r].kept.unresolved
    \/ at[r] = "fail"
    \/ Barred(r)

\* An unresolved effect in the checkpoint is in the memory of a run at work.
EffectsKept(r) ==
    /\ discarded \/ at[r] \in Resting \/ (saved[r].kept.unresolved => mem[r].kept.unresolved)
    /\ run[r] = "none" => ~saved[r].kept.unresolved
    /\ run[r] = "completed" /\ ~discarded => ~saved[r].kept.unresolved

\* A child is at work only while the root waits for it.
EffectInv ==
    /\ \A r \in Runs : at[r] # "off" => task = "leased"
    /\ attempts = 0 => task # "leased" /\ \A k \in Writes : claim[k].state = "none"
    /\ \A r \in Runs : at[r] \notin Resting => run[r] = "running"
    /\ \A c \in Children : at[c] \notin Resting => at[Root] = "wait" /\ call[Root][2] = c
    /\ \A r \in Runs : EffectsKept(r)
    /\ attempts = 1 => \A k \in Writes : Dirty(k) => Owns(k[1], k)

\* A safe boundary adds controls to the memory, not effects.
LEMMA HeardKeepsEffects ==
    ASSUME NEW r \in Runs, NEW m \in Memory
    PROVE  Heard(r, m).kept.unresolved = m.kept.unresolved
BY DEF Heard, Memory, Kept

\* What a tool result adds to the memory.
LEMMA ReturnsAddsEffect ==
    ASSUME TypeOK, NEW r \in Runs, NEW verdict, Returns(r, verdict)
    PROVE  /\ mem'[r].kept.unresolved = (mem[r].kept.unresolved \/ verdict = "unresolved")
           /\ at'[r] \in {"cancel", "save"}
           /\ \A q \in Runs : q # r => at'[q] = at[q] /\ mem'[q] = mem[q] /\ call'[q] = call[q]
<1> DEFINE verified == mem[r].kept.verified \/ verdict = "verified"
           unresolved == mem[r].kept.unresolved \/ verdict = "unresolved"
           kept == [mem[r].kept EXCEPT !.verified = verified, !.unresolved = unresolved]
           m == [mem[r] EXCEPT !.kept = kept]
<1>1. mem[r] \in Memory /\ mem[r].kept \in Kept /\ mem \in [Runs -> Memory]
  BY DEF TypeOK, Memory
<1>2. mem' = [mem EXCEPT ![r] = Heard(r, m)]
  BY <1>1 DEF Returns, Remembers, Memory, Kept
<1>3. verified \in BOOLEAN /\ unresolved \in BOOLEAN
  OBVIOUS
<1> HIDE DEF verified, unresolved
<1>4. kept \in Kept /\ kept.unresolved = unresolved
  BY <1>1, <1>3 DEF Kept
<1> HIDE DEF kept
<1>5. m \in Memory /\ m.kept = kept
  BY <1>1, <1>4 DEF Memory
<1> HIDE DEF m
<1>6. mem'[r] = Heard(r, m)
  BY <1>1, <1>2
<1>7. mem'[r].kept.unresolved = unresolved
  BY <1>4, <1>5, <1>6, HeardKeepsEffects
<1> QED
  BY <1>7, ReturnsKeepsType DEF unresolved

\* A run at work owns a claim by holding it, by its memory or by failing.
LEMMA OwnerAtWork ==
    ASSUME EffectInv, NEW r \in Runs, at[r] \notin Resting, attempts = 1,
           NEW k \in Writes, k[1] = r, Dirty(k)
    PROVE  \/ at[r] \in Hands /\ call[r] = k
           \/ mem[r].kept.unresolved
           \/ at[r] = "fail"
BY DEF EffectInv, Owns, Barred, Resting

\* A run at rest does not complete: only one that ended otherwise, or was cut
\* off, has left a claim without a result.
LEMMA OwnerAtRest ==
    ASSUME EffectInv, NEW r \in Runs, at[r] \in Resting, attempts = 1,
           NEW k \in Writes, k[1] = r, Dirty(k)
    PROVE  Barred(r)
BY DEF EffectInv, Owns, Resting, Hands

\* A step of one run at work.
LEMMA MoveKeepsEffects ==
    ASSUME RunInv, EffectInv, NEW r \in Runs, at[r] \notin Resting,
           \A q \in Runs : q # r => /\ at'[q] = at[q] /\ run'[q] = run[q]
                                    /\ call'[q] = call[q] /\ mem'[q] = mem[q]
                                    /\ saved'[q] = saved[q],
           task' = task, attempts' = attempts, discarded' = discarded,
           at'[r] = "closed" \/ run'[r] = run[r],
           r = Root /\ at[r] = "wait" => \A c \in Children : at[c] \in Resting,
           r = Root /\ at[r] = "fail" => at'[r] = "closed",
           \A k \in Writes : k[1] # r => claim'[k] = claim[k],
           EffectsKept(r)',
           attempts = 1 => \A k \in Writes : k[1] = r /\ Dirty(k)' => Owns(r, k)'
    PROVE  EffectInv'
<1>1. Root \in Runs /\ Children \subseteq Runs /\ \A k \in Writes : k[1] \in Runs
  BY DEF Runs, Writes
<1>2. \A q \in Runs : at'[q] # "off" => task' = "leased"
  BY DEF EffectInv, Resting
<1>3. attempts' # 0
  BY DEF EffectInv, Resting
<1>4. \A q \in Runs : at'[q] \notin Resting => run'[q] = "running"
  BY DEF EffectInv, Resting
<1>5. ASSUME NEW c \in Children, at'[c] \notin Resting
      PROVE  at'[Root] = "wait" /\ call'[Root][2] = c
  <2>1. at[c] \notin Resting
    BY <1>1, <1>5
  <2>2. at[Root] = "wait" /\ call[Root][2] = c
    BY <2>1 DEF EffectInv
  <2> QED
    BY <1>1, <2>1, <2>2
<1>6. \A q \in Runs : EffectsKept(q)'
  BY DEF EffectInv, EffectsKept
<1>7. ASSUME attempts' = 1, NEW k \in Writes, Dirty(k)'
      PROVE  Owns(k[1], k)'
  <2>1. CASE k[1] = r
    BY <1>7, <2>1
  <2>2. CASE k[1] # r
    <3>1. claim'[k] = claim[k] /\ Dirty(k) /\ Owns(k[1], k)
      BY <1>7, <2>2 DEF EffectInv, Dirty
    <3>2. at[Root] \in {"fail", "closed"} => at'[Root] \in {"fail", "closed"}
      BY <1>1 DEF Resting
    <3> QED
      BY <1>1, <2>2, <3>1, <3>2 DEF Owns, Barred
  <2> QED
    BY <2>1, <2>2
<1> QED
  BY <1>2, <1>3, <1>4, <1>5, <1>6, <1>7 DEF EffectInv

\* A run that goes on with a memory that forgets no effect.
LEMMA GoingOnKeepsEffects ==
    ASSUME RunInv, EffectInv, NEW r \in Runs, at[r] \notin Resting, at'[r] \notin Resting,
           \A q \in Runs : q # r => at'[q] = at[q] /\ call'[q] = call[q] /\ mem'[q] = mem[q],
           UNCHANGED <<task, attempts, run, saved, discarded>>,
           r = Root /\ at[r] = "wait" => \A c \in Children : at[c] \in Resting,
           at[r] # "fail",
           \A k \in Writes : k[1] # r => claim'[k] = claim[k],
           mem[r].kept.unresolved => mem'[r].kept.unresolved,
           \A k \in Writes : k[1] = r /\ Dirty(k)' =>
               \/ Dirty(k) /\ ~(at[r] \in Hands /\ call[r] = k)
               \/ at'[r] \in Hands /\ call'[r] = k
               \/ mem'[r].kept.unresolved
    PROVE  EffectInv'
<1>1. EffectsKept(r)'
  BY DEF EffectInv, EffectsKept
<1>2. ASSUME attempts = 1, NEW k \in Writes, k[1] = r, Dirty(k)'
      PROVE  Owns(r, k)'
  BY <1>2, OwnerAtWork DEF Owns
<1> QED
  BY <1>1, <1>2, MoveKeepsEffects

\* The closing transaction: a run with an effect it could not verify does not
\* complete, and one that fails or is cancelled is barred.
LEMMA TryFinishKeepsEffects ==
    ASSUME RunInv, EffectInv, NEW r \in Runs, NEW status \in Ended, NEW ids,
           at[r] \in {"answer", "cancel", "fail"}, TryFinish(r, status, ids),
           UNCHANGED <<task, attempts, saved, journal, mem, call, discarded>>,
           status = "completed" => at[r] = "answer" /\ ~mem[r].kept.unresolved
    PROVE  EffectInv'
<1>1. /\ at \in [Runs -> Places] /\ run \in [Runs -> {"none", "running"} \union Ended]
      /\ at[r] \notin Resting /\ at[r] \notin Hands /\ claim' = claim
  BY DEF RunInv, TypeOK, Resting, Hands, journal
<1>2. CASE Goes(r, "poll") /\ UNCHANGED run
  <2>1. at'[r] = "poll" /\ \A q \in Runs : q # r => at'[q] = at[q]
    BY <1>1, <1>2 DEF Goes
  <2>2. at[r] # "fail"
    BY <1>2, <2>1 DEF TryFinish, Goes, Ended
  <2> QED
    BY <1>1, <1>2, <2>1, <2>2, GoingOnKeepsEffects DEF Resting, Dirty
<1>3. CASE Goes(r, "closed") /\ run' = [run EXCEPT ![r] = status]
  <2>1. /\ at'[r] = "closed" /\ run'[r] = status
        /\ \A q \in Runs : q # r => at'[q] = at[q] /\ run'[q] = run[q]
    BY <1>1, <1>3 DEF Goes
  <2>2. EffectsKept(r)'
    BY <1>1, <2>1 DEF EffectInv, EffectsKept, Resting, Ended
  <2>3. ASSUME attempts = 1, NEW k \in Writes, k[1] = r, Dirty(k)'
        PROVE  Owns(r, k)'
    <3>1. mem[r].kept.unresolved \/ at[r] = "fail"
      BY <1>1, <2>3, OwnerAtWork DEF Dirty
    <3>2. status \in {"failed", "cancelled"}
      BY <3>1 DEF Ended
    <3> QED
      BY <2>1, <3>2 DEF Owns, Barred
  <2> QED
    BY <1>1, <2>1, <2>2, <2>3, MoveKeepsEffects
<1> QED
  BY <1>2, <1>3 DEF TryFinish

LEMMA TurnKeepsEffects ==
    ASSUME RunInv, EffectInv, NEW r \in Runs, Turn(r)
    PROVE  EffectInv'
<1>1. /\ at \in [Runs -> Places] /\ mem \in [Runs -> Memory]
      /\ saved \in [Runs -> [exists : BOOLEAN, kept : Kept]]
  BY DEF RunInv, TypeOK, Memory
<1>2. ASSUME NEW p \in {"save", "acknowledge", "poll", "cancel", "model", "fail"}, Goes(r, p),
             at[r] \in {"poll", "answer", "save", "acknowledge"},
             UNCHANGED <<task, attempts, run, saved, journal, call, discarded>>,
             \A q \in Runs : q # r => mem'[q] = mem[q],
             mem'[r].kept.unresolved = mem[r].kept.unresolved
      PROVE  EffectInv'
  <2>1. at'[r] = p /\ \A q \in Runs : q # r => at'[q] = at[q]
    BY <1>1, <1>2 DEF Goes
  <2>2. at[r] \notin Resting /\ at'[r] \notin Resting /\ at[r] \notin Hands /\ at[r] # "fail"
    BY <1>2, <2>1 DEF Resting, Hands
  <2>3. claim' = claim
    BY <1>2 DEF journal
  <2> QED
    BY <1>2, <2>1, <2>2, <2>3, GoingOnKeepsEffects DEF Dirty
<1>3. CASE Poll(r)
  <2>1. mem'[r] = Heard(r, mem[r]) /\ \A q \in Runs : q # r => mem'[q] = mem[q]
    BY <1>1, <1>3 DEF Poll, Remembers
  <2>2. mem'[r].kept.unresolved = mem[r].kept.unresolved
    BY <1>1, <2>1, HeardKeepsEffects
  <2> QED
    BY <1>2, <1>3, <2>1, <2>2 DEF Poll, Builds, rows
<1>4. CASE Answer(r)
  <2>1. CASE Goes(r, "save") /\ UNCHANGED <<run, control>>
    BY <1>2, <1>4, <2>1 DEF Answer
  <2>2. CASE TryFinish(r, Outcome(r), {})
    <3>1. Outcome(r) \in Ended /\ (Outcome(r) = "completed" => ~mem[r].kept.unresolved)
      BY DEF Outcome, Ended
    <3> QED
      BY <1>4, <2>2, <3>1, TryFinishKeepsEffects DEF Answer
  <2> QED
    BY <1>4, <2>1, <2>2 DEF Answer
<1>5. CASE Save(r)
  <2>1. /\ at[r] = "save" /\ at'[r] = "acknowledge" /\ saved'[r].kept = mem[r].kept
        /\ \A q \in Runs : q # r => at'[q] = at[q] /\ saved'[q] = saved[q]
        /\ UNCHANGED <<task, attempts, run, claim, mem, call, discarded>>
    BY <1>1, <1>5 DEF Save, Goes, journal
  <2>2. at[r] \notin Resting /\ run[r] = "running"
    BY <2>1 DEF EffectInv, Resting
  <2>3. EffectsKept(r)'
    BY <2>1, <2>2 DEF EffectsKept
  <2>4. ASSUME attempts = 1, NEW k \in Writes, k[1] = r, Dirty(k)'
        PROVE  Owns(r, k)'
    BY <2>1, <2>2, <2>4, OwnerAtWork DEF Dirty, Owns, Hands, Resting
  <2> QED
    BY <2>1, <2>2, <2>3, <2>4, MoveKeepsEffects
<1>6. CASE Acknowledge(r)
  <2>1. /\ mem'[r] = [mem[r] EXCEPT !.acks = {}] /\ \A q \in Runs : q # r => mem'[q] = mem[q]
    BY <1>1, <1>6 DEF Acknowledge, Remembers
  <2>2. mem'[r].kept = mem[r].kept
    BY <1>1, <2>1 DEF Memory
  <2> QED
    BY <1>2, <1>6, <2>1, <2>2 DEF Acknowledge
<1>7. CASE Cancel(r) \/ Fail(r)
  BY <1>7, TryFinishKeepsEffects DEF Cancel, Fail, Ended
<1> QED
  BY <1>3, <1>4, <1>5, <1>6, <1>7 DEF Turn

LEMMA ReplyKeepsEffects ==
    ASSUME RunInv, EffectInv, NEW r \in Runs, Reply(r) \/ ModelFails(r)
    PROVE  EffectInv'
<1> DEFINE m == Heard(r, mem[r])
<1>1. /\ at \in [Runs -> Places] /\ mem \in [Runs -> Memory] /\ at[r] = "model"
      /\ call \in [Runs -> Writes \union (Runs \X Children) \union {<<>>}]
      /\ UNCHANGED <<rows, claim, discarded>>
  BY DEF RunInv, TypeOK, Memory, Reply, ReplyStops, ReplyAnswers, ReplyCalls, Replies,
         ModelFails, journal
<1>2. m \in Memory /\ m.kept.unresolved = mem[r].kept.unresolved
  BY <1>1, HeardIsMemory, HeardKeepsEffects
<1>3. ASSUME NEW n, n.kept.unresolved = mem[r].kept.unresolved,
             mem' = [mem EXCEPT ![r] = n], NEW p \in {"cancel", "answer", "call", "fail"},
             Goes(r, p), \A q \in Runs : q # r => call'[q] = call[q]
      PROVE  EffectInv'
  <2>1. at'[r] = p /\ \A q \in Runs : q # r => at'[q] = at[q]
    BY <1>1, <1>3 DEF Goes
  <2>2. at[r] \notin Resting /\ at'[r] \notin Resting /\ at[r] \notin Hands /\ at[r] # "fail"
        /\ at[r] # "wait"
    BY <1>1, <1>3, <2>1 DEF Resting, Hands
  <2>3. mem'[r].kept.unresolved = mem[r].kept.unresolved /\ \A q \in Runs : q # r => mem'[q] = mem[q]
    BY <1>1, <1>3
  <2>4. UNCHANGED <<task, attempts, run, saved, discarded>>
    BY <1>1 DEF rows
  <2> QED
    BY <1>1, <1>3, <2>1, <2>2, <2>3, <2>4, GoingOnKeepsEffects DEF Dirty
<1> HIDE DEF m
<1>4. CASE ReplyStops(r) \/ ReplyAnswers(r)
  BY <1>2, <1>3, <1>4 DEF ReplyStops, ReplyAnswers, Replies, Remembers, m
<1>5. CASE ReplyCalls(r)
  <2>1. ASSUME NEW k, Remembers(r, Consumed(m)), Goes(r, "call"), call' = [call EXCEPT ![r] = k]
        PROVE  EffectInv'
    <3>1. Consumed(m).kept.unresolved = m.kept.unresolved
      BY <1>2 DEF Memory, Kept, Consumed
    <3>2. \A q \in Runs : q # r => call'[q] = call[q]
      BY <1>1, <2>1
    <3> QED
      BY <1>2, <1>3, <2>1, <3>1, <3>2 DEF Remembers
  <2>2. CASE Remembers(r, m) /\ Goes(r, "fail") /\ UNCHANGED call
    BY <1>2, <1>3, <2>2 DEF Remembers
  <2> QED
    BY <1>5, <2>1, <2>2 DEF ReplyCalls, m
<1>6. CASE ModelFails(r)
  <2>1. mem' = [mem EXCEPT ![r] = mem[r]]
    BY <1>1, <1>6 DEF ModelFails
  <2> QED
    BY <1>3, <1>6, <2>1 DEF ModelFails
<1> QED
  BY <1>4, <1>5, <1>6 DEF Reply

\* A tool call leaves a claim without a result only to a run that still holds
\* it or has noted the effect as unresolved.
LEMMA ToolCallKeepsEffects ==
    ASSUME RunInv, EffectInv, NEW r \in Runs, ToolCall(r)
    PROVE  EffectInv'
<1> DEFINE k == call[r]
<1>1. /\ at \in [Runs -> Places] /\ UNCHANGED <<rows, discarded>>
      /\ at[r] \in {"call", "claim"} \union Hands
      /\ TypeOK
  BY DEF RunInv, TypeOK, ToolCall, Refuse, Permit, RequestApproval, Claim, Reconcile, Execute,
         Answered, Verify, rows, Hands
<1>2. /\ at[r] \notin Resting /\ at[r] \notin {"fail", "wait"}
      /\ UNCHANGED <<task, attempts, run, saved, discarded>>
  BY <1>1 DEF Resting, Hands, rows
<1>3. at[r] \in Working => k \in Writes /\ k[1] = r /\ claim[k].live \in BOOLEAN
  BY DEF RunInv, WorkInv, CallWork, TypeOK
<1>4. ASSUME NEW verdict, Returns(r, verdict), UNCHANGED claim,
             verdict = "unresolved" \/ at[r] \notin Hands
      PROVE  EffectInv'
  <2>1. /\ mem'[r].kept.unresolved = (mem[r].kept.unresolved \/ verdict = "unresolved")
        /\ at'[r] \in {"cancel", "save"}
        /\ \A q \in Runs : q # r => at'[q] = at[q] /\ mem'[q] = mem[q] /\ call'[q] = call[q]
    BY <1>1, <1>4, ReturnsAddsEffect
  <2>2. at'[r] \notin Resting /\ (mem[r].kept.unresolved => mem'[r].kept.unresolved)
    BY <2>1 DEF Resting
  <2>3. \A j \in Writes : Dirty(j)' =>
           Dirty(j) /\ (mem'[r].kept.unresolved \/ ~(at[r] \in Hands /\ call[r] = j))
    BY <1>4, <2>1 DEF Dirty
  <2> QED
    BY <1>2, <1>4, <2>1, <2>2, <2>3, GoingOnKeepsEffects
<1>5. ASSUME Returns(r, "verified"), k \in Writes, k[1] = r,
             NEW live \in BOOLEAN, SetClaim(k, "completed", live)
      PROVE  EffectInv'
  <2>1. claim'[k].state = "completed" /\ \A j \in Writes : j # k => claim'[j] = claim[j]
    BY <1>1, <1>5, SetClaimKeepsType
  <2> HIDE DEF k
  <2>2. \A j \in Writes : j[1] # r => claim'[j] = claim[j]
    BY <1>5, <2>1
  <2>3. \A j \in Writes : Dirty(j)' => Dirty(j) /\ j # k
    BY <2>1 DEF Dirty
  <2>4. /\ mem'[r].kept.unresolved = (mem[r].kept.unresolved \/ "verified" = "unresolved")
        /\ at'[r] \in {"cancel", "save"}
        /\ \A q \in Runs : q # r => at'[q] = at[q] /\ mem'[q] = mem[q] /\ call'[q] = call[q]
    BY <1>1, <1>5, ReturnsAddsEffect
  <2>5. at'[r] \notin Resting /\ (mem[r].kept.unresolved => mem'[r].kept.unresolved)
    BY <2>4 DEF Resting
  <2>6. \A j \in Writes : Dirty(j)' => Dirty(j) /\ ~(at[r] \in Hands /\ call[r] = j)
    BY <2>3 DEF k
  <2> QED
    BY <1>2, <2>2, <2>4, <2>5, <2>6, GoingOnKeepsEffects
<1>6. ASSUME NEW p \in {"claim", "fail"} \union Hands, Goes(r, p), UNCHANGED mem,
             \A q \in Runs : q # r => call'[q] = call[q],
             \A j \in Writes : j # k \/ p \notin Hands => claim'[j] = claim[j],
             p \in Hands => at[r] \in Working /\ call'[r] = k, at[r] \in Hands => p \in Hands
      PROVE  EffectInv'
  <2>1. at'[r] = p /\ \A q \in Runs : q # r => at'[q] = at[q]
    BY <1>1, <1>6 DEF Goes
  <2>2. \A j \in Writes : j[1] # r => claim'[j] = claim[j]
    BY <1>3, <1>6
  <2>3. at'[r] \notin Resting
    BY <1>6, <2>1 DEF Resting, Hands
  <2>4. ASSUME NEW j \in Writes, Dirty(j)'
        PROVE  \/ Dirty(j) /\ ~(at[r] \in Hands /\ call[r] = j)
               \/ at'[r] \in Hands /\ call'[r] = j
               \/ mem'[r].kept.unresolved
    BY <1>6, <2>1, <2>4 DEF Dirty
  <2> QED
    BY <1>2, <1>6, <2>1, <2>2, <2>3, <2>4, GoingOnKeepsEffects
<1>7. CASE Refuse(r)
  <2>1. at[r] \notin Hands /\ claim' = claim
    BY <1>7 DEF Refuse, Hands, journal
  <2> QED
    BY <1>4, <1>7, <2>1 DEF Refuse
<1>8. CASE Permit(r) \/ RequestApproval(r)
  <2>1. at[r] \notin Hands /\ claim' = claim
    BY <1>8 DEF Permit, RequestApproval, Hands, journal
  <2>2. Returns(r, "unresolved") => EffectInv'
    BY <1>4, <2>1
  <2>3. CASE Goes(r, "claim") /\ UNCHANGED <<mem, call>>
    BY <1>6, <2>1, <2>3 DEF Hands
  <2>4. CASE Goes(r, "fail") /\ UNCHANGED mem /\ call' = [call EXCEPT ![r] = <<>>]
    <3>1. \A q \in Runs : q # r => call'[q] = call[q]
      BY <1>1, <2>4 DEF TypeOK
    <3> QED
      BY <1>6, <2>1, <2>4, <3>1 DEF Hands
  <2> QED
    BY <1>8, <2>2, <2>3, <2>4
    DEF Permit, RequestApproval, AskApproval, ApprovalGranted, ApprovalRefused
<1>9. ASSUME NEW state, NEW live \in BOOLEAN, SetClaim(k, state, live), k \in Writes
      PROVE  \A j \in Writes : j # k => claim'[j] = claim[j]
  BY <1>1, <1>9 DEF SetClaim, TypeOK
<1>10. CASE Claim(r)
  <2>1. at[r] = "claim" /\ at[r] \notin Hands /\ at[r] \in Working
    BY <1>10 DEF Claim, Hands, Working
  <2>2. CASE ClaimReplay(r)
    <3>1. claim' = claim /\ Returns(r, "verified")
      BY <2>2 DEF ClaimReplay
    <3> QED
      BY <1>4, <2>1, <3>1
  <2>3. CASE ClaimHeld(r)
    BY <1>4, <2>1, <2>3 DEF ClaimHeld
  <2>4. CASE ClaimFresh(r) \/ ClaimLapsed(r)
    <3>1. \A j \in Writes : j # k => claim'[j] = claim[j]
      BY <1>3, <1>9, <2>1, <2>4 DEF ClaimFresh, ClaimLapsed, Key
    <3>2. PICK p \in Hands : Goes(r, p) /\ UNCHANGED <<mem, call>>
      BY <2>4 DEF ClaimFresh, ClaimLapsed, Hands
    <3> HIDE DEF k
    <3> QED
      BY <1>6, <2>1, <3>1, <3>2 DEF k
  <2> QED
    BY <1>10, <2>2, <2>3, <2>4 DEF Claim
<1>11. CASE Reconcile(r) \/ Execute(r) \/ Answered(r) \/ Verify(r)
  <2>1. at[r] \in Hands /\ at[r] \in Working
    BY <1>11 DEF Reconcile, Execute, Answered, Verify, Hands, Working
  <2>2. CASE Returns(r, "unresolved") /\ UNCHANGED claim
    BY <1>4, <2>2
  <2>3. CASE SetClaim(k, "completed", claim[k].live) /\ Returns(r, "verified")
    BY <1>3, <1>5, <2>1, <2>3
  <2>4. ASSUME NEW p \in Hands, Goes(r, p), UNCHANGED <<mem, call, claim>>
        PROVE  EffectInv'
    BY <1>6, <2>1, <2>4
  <2> QED
    BY <1>11, <2>2, <2>3, <2>4 DEF Reconcile, Execute, Answered, Verify, Key, Hands, journal
<1> QED
  BY <1>7, <1>8, <1>10, <1>11 DEF ToolCall

\* A run that is entered has no claim without a result in this attempt, and its
\* memory is what its checkpoint says (Harness.run, start and resume).
LEMMA EnteredIsClean ==
    ASSUME RunInv, EffectInv, NEW r \in Runs, Enters(r), at[r] \in Resting,
           task = "leased", at[Root] \notin {"fail", "closed"}
    PROVE  /\ attempts = 1 => \A k \in Writes : k[1] = r => ~Dirty(k)
           /\ run'[r] = "running" /\ \A q \in Runs : q # r => run'[q] = run[q]
           /\ EffectsKept(r)'
           /\ \A q \in Runs : q # r => saved'[q] = saved[q] /\ mem'[q] = mem[q]
           /\ discarded => discarded'
<1>1. /\ mem \in [Runs -> Memory] /\ run \in [Runs -> {"none", "running"} \union Ended]
      /\ saved \in [Runs -> [exists : BOOLEAN, kept : Kept]]
  BY DEF RunInv, TypeOK, Memory
<1>2. run[r] \in {"none", "running"}
  BY DEF Enters, Starts, ResumesSaved, ResumesStale
<1>3. ASSUME attempts = 1, NEW k \in Writes, k[1] = r, Dirty(k) PROVE FALSE
  BY <1>2, <1>3, OwnerAtRest DEF Barred
<1>4. run'[r] = "running" /\ \A q \in Runs : q # r => run'[q] = run[q]
  BY <1>1 DEF Enters, Starts, ResumesSaved, ResumesStale
<1>5. EffectsKept(r)'
  <2>1. CASE Starts(r)
    BY <1>1, <1>4, <2>1 DEF Starts, EffectInv, EffectsKept, Remembers, NoMemory, Fresh
  <2>2. CASE ResumesSaved(r)
    <3>1. mem'[r] = [NoMemory EXCEPT !.kept = saved[r].kept] /\ saved' = saved
      BY <1>1, <2>2 DEF ResumesSaved, Remembers
    <3>2. mem'[r].kept = saved[r].kept
      BY <3>1 DEF NoMemory
    <3> QED
      BY <1>4, <3>1, <3>2 DEF EffectsKept
  <2>3. CASE ResumesStale(r)
    BY <1>4, <2>3 DEF ResumesStale, EffectsKept
  <2> QED
    BY <2>1, <2>2, <2>3 DEF Enters
<1>6. \A q \in Runs : q # r => saved'[q] = saved[q] /\ mem'[q] = mem[q]
  BY <1>1 DEF Enters, Starts, ResumesSaved, ResumesStale, Remembers
<1>7. discarded => discarded'
  BY DEF Enters, Starts, ResumesSaved, ResumesStale
<1> QED
  BY <1>3, <1>4, <1>5, <1>6, <1>7

LEMMA EnteringKeepsEffects ==
    ASSUME RunInv, EffectInv, Begin \/ Delegate
    PROVE  EffectInv'
<1>1. /\ Root \in Runs /\ Children \subseteq Runs /\ at \in [Runs -> Places]
      /\ \A q \in Runs : q = Root \/ q \in Children
      /\ \A k \in Writes : k[1] \in Runs
  BY DEF Runs, RunInv, TypeOK, Writes
\* The run that is entered, while every other child rests.
<1>2. PICK r \in Runs :
        /\ Enters(r) /\ at[r] \in Resting /\ task = "leased"
        /\ at[Root] \notin {"fail", "closed"}
        /\ at'[r] = "poll" /\ \A q \in Runs : q \notin {r, Root} => at'[q] = at[q]
        /\ r = Root => at[Root] = "off"
        /\ r # Root => /\ at[Root] = "call" /\ at'[Root] = "wait"
                       /\ call[Root][2] = r
        /\ UNCHANGED <<task, attempts, claim, call>>
        /\ \A c \in Children : at[c] \in Resting
  <2>1. CASE Begin
    <3>1. \A c \in Children : at[c] \in Resting
      BY <2>1 DEF Begin, EffectInv
    <3> QED
      BY <1>1, <2>1, <3>1 DEF Begin, Goes, Resting, journal
  <2>2. CASE Delegate
    <3>1. call[Root][2] \in Children /\ call[Root][2] # Root
      BY <1>1, <2>2, RunsAssumption DEF Delegate, RunInv, WorkInv, CallWork, Callable, IsWrite, Key
    <3>2. at[Root] = "call" /\ task = "leased" /\ \A c \in Children : at[c] \in Resting
      BY <1>1, <2>2 DEF Delegate, EffectInv
    <3>3. /\ at'[Root] = "wait" /\ at'[call[Root][2]] = "poll"
          /\ \A q \in Runs : q \notin {call[Root][2], Root} => at'[q] = at[q]
      BY <1>1, <2>2, <3>1 DEF Delegate
    <3> QED
      BY <1>1, <2>2, <3>1, <3>2, <3>3 DEF Delegate, journal
  <2> QED
    BY <2>1, <2>2
<1>3. /\ attempts = 1 => \A k \in Writes : k[1] = r => ~Dirty(k)
      /\ run'[r] = "running" /\ \A q \in Runs : q # r => run'[q] = run[q]
      /\ EffectsKept(r)'
      /\ \A q \in Runs : q # r => saved'[q] = saved[q] /\ mem'[q] = mem[q]
      /\ discarded => discarded'
  BY <1>2, EnteredIsClean
<1>4. attempts' # 0
  BY <1>2 DEF EffectInv
<1>5. ASSUME NEW q \in Runs, at'[q] \notin Resting PROVE run'[q] = "running"
  <2>1. CASE q = Root /\ q # r
    BY <1>2, <1>3, <2>1 DEF EffectInv, Resting
  <2> QED
    BY <1>2, <1>3, <1>5, <2>1 DEF EffectInv
<1>6. \A c \in Children : at'[c] \notin Resting => at'[Root] = "wait" /\ call'[Root][2] = c
  BY <1>1, <1>2, RunsAssumption
<1>7. ASSUME NEW q \in Runs PROVE EffectsKept(q)'
  <2>1. CASE q # r
    <3>1. at'[q] \in Resting => at[q] \in Resting
      BY <1>1, <1>2, <2>1 DEF Resting
    <3>2. at'[q] \in Resting \/ at[q] \notin Resting
      BY <1>1, <1>2, <2>1 DEF Resting
    <3> QED
      BY <1>3, <2>1, <3>1, <3>2 DEF EffectInv, EffectsKept
  <2> QED
    BY <1>3, <2>1
<1>8. ASSUME attempts' = 1, NEW k \in Writes, Dirty(k)' PROVE Owns(k[1], k)'
  <2>1. attempts = 1 /\ Dirty(k) /\ k[1] # r /\ k[1] \in Runs
    BY <1>1, <1>2, <1>3, <1>8 DEF Dirty
  <2>2. CASE k[1] = Root
    <3>1. at[Root] = "call" /\ mem[Root].kept.unresolved
      BY <1>2, <2>1, <2>2, OwnerAtWork DEF Resting, Hands
    <3> QED
      BY <1>1, <1>2, <1>3, <2>1, <2>2, <3>1 DEF Owns, Resting
  <2>3. CASE k[1] # Root
    <3>1. Barred(k[1])
      BY <1>1, <1>2, <2>1, <2>3, OwnerAtRest
    <3>2. run[k[1]] \in {"failed", "cancelled"}
      BY <1>2, <3>1 DEF Barred
    <3> QED
      BY <1>3, <2>1, <3>2 DEF Owns, Barred
  <2> QED
    BY <2>2, <2>3
<1>9. \A q \in Runs : at'[q] # "off" => task' = "leased"
  BY <1>2
<1> QED
  BY <1>4, <1>5, <1>6, <1>7, <1>8, <1>9 DEF EffectInv

\* The end of an attempt, and the wall time of the root, bar what they cut off.
LEMMA CuttingKeepsEffects ==
    ASSUME RunInv, EffectInv, Settle \/ Abort \/ WallTimeExpires
    PROVE  EffectInv'
<1>1. /\ Root \in Runs /\ Children \subseteq Runs
      /\ \A q \in Runs : q = Root \/ q \in Children
      /\ \A k \in Writes : k[1] \in Runs
      /\ UNCHANGED <<attempts, run, claim, saved, discarded>>
  BY DEF Runs, Writes, Settle, Abort, WallTimeExpires, rows, journal
<1>2. task = "leased" /\ attempts # 0
  BY <1>1 DEF Settle, Abort, WallTimeExpires, EffectInv, ToolPlaces
<1>3. /\ \A q \in Runs : at'[q] = "off" \/ (q = Root /\ at'[q] = "fail")
      /\ \/ task' # "leased" /\ at'[Root] = "off"
         \/ /\ at'[Root] = "fail" /\ at[Root] \notin Resting
            /\ mem'[Root] = mem[Root] /\ task' = "leased"
  BY <1>1, <1>2
     DEF Settle, Abort, AllOff, WallTimeExpires, ToolPlaces, Resting, rows, Ended,
         RunInv, WorkInv, CallWork
<1>4. \A q \in Runs : at'[q] # "off" => task' = "leased"
  BY <1>1, <1>3
<1>5. \A q \in Runs : at'[q] \notin Resting => run'[q] = "running"
  BY <1>1, <1>3 DEF EffectInv, Resting
<1>6. \A c \in Children : at'[c] \in Resting
  BY <1>1, <1>3, RunsAssumption DEF Resting
<1>7. ASSUME NEW q \in Runs PROVE EffectsKept(q)'
  BY <1>1, <1>3, <1>7 DEF EffectInv, EffectsKept, Resting
<1>8. ASSUME attempts' = 1, NEW k \in Writes, Dirty(k)' PROVE Owns(k[1], k)'
  <2>1. attempts = 1 /\ Dirty(k) /\ k[1] \in Runs
    BY <1>1, <1>8 DEF Dirty
  <2>2. CASE at[k[1]] \notin Resting
    <3>1. run'[k[1]] = "running"
      BY <1>1, <2>1, <2>2 DEF EffectInv
    <3> QED
      BY <1>3, <2>1, <3>1 DEF Owns, Barred
  <2>3. CASE at[k[1]] \in Resting
    <3>1. Barred(k[1])
      BY <2>1, <2>3, OwnerAtRest
    <3> QED
      BY <1>1, <1>3, <2>1, <3>1 DEF Owns, Barred
  <2> QED
    BY <2>2, <2>3
<1> QED
  BY <1>1, <1>2, <1>4, <1>5, <1>6, <1>7, <1>8 DEF EffectInv

\* A step that moves no run and leaves no claim without a result behind.
LEMMA StillnessKeepsEffects ==
    ASSUME EffectInv, UNCHANGED <<task, attempts, run, saved, at, mem, call, discarded>>,
           \A k \in Writes : claim'[k].state \in {claim[k].state, "none"}
    PROVE  EffectInv'
<1>1. \A q \in Runs : EffectsKept(q)'
  BY DEF EffectInv, EffectsKept
<1>2. ASSUME attempts = 1, NEW k \in Writes, Dirty(k)' PROVE Owns(k[1], k)'
  <2>1. Dirty(k)
    BY <1>2 DEF Dirty
  <2> QED
    BY <1>2, <2>1 DEF EffectInv, Owns, Barred
<1>3. attempts = 0 => \A k \in Writes : claim'[k].state = "none"
  BY DEF EffectInv
<1> QED
  BY <1>1, <1>2, <1>3 DEF EffectInv

LEMMA OthersKeepEffects ==
    ASSUME RunInv, EffectInv, Lease \/ FindOutcome \/ World \/ ChildEnds
    PROVE  EffectInv'
<1>1. /\ Root \in Runs /\ Children \subseteq Runs /\ at \in [Runs -> Places]
      /\ \A q \in Runs : q = Root \/ q \in Children
      /\ \A k \in Writes : k[1] \in Runs
      /\ TypeOK /\ attempts \in Nat
  BY DEF Runs, RunInv, TypeOK, Writes
<1>2. CASE Lease
  <2>1. /\ task' = "leased" /\ attempts' = attempts + 1
        /\ UNCHANGED <<run, saved, claim, at, mem, call, discarded>>
    BY <1>2 DEF Lease, journal, process
  <2>2. \A q \in Runs : EffectsKept(q)'
    BY <2>1 DEF EffectInv, EffectsKept
  <2>3. attempts' = 1 => \A k \in Writes : ~Dirty(k)'
    BY <1>1, <2>1 DEF EffectInv, Dirty
  <2>4. attempts' # 0
    BY <1>1, <2>1
  <2> QED
    BY <2>1, <2>2, <2>3, <2>4 DEF EffectInv
<1>3. CASE FindOutcome
  <2>1. /\ task = "leased" /\ at[Root] = "off" /\ run[Root] \in Ended
        /\ at'[Root] = "closed" /\ \A q \in Runs : q # Root => at'[q] = at[q]
        /\ UNCHANGED <<task, attempts, run, saved, claim, mem, call, discarded>>
    BY <1>1, <1>3 DEF FindOutcome, Goes, rows, journal
  <2>2. \A c \in Children : at[c] \in Resting
    BY <2>1 DEF EffectInv
  <2>3. \A q \in Runs : at[q] \in Resting /\ at'[q] \in Resting
    BY <1>1, <2>1, <2>2 DEF Resting
  <2>4. \A q \in Runs : EffectsKept(q)'
    BY <2>1, <2>3 DEF EffectInv, EffectsKept
  <2>5. ASSUME attempts = 1, NEW k \in Writes, Dirty(k)' PROVE Owns(k[1], k)'
    <3>1. Barred(k[1])
      BY <1>1, <2>1, <2>3, <2>5, OwnerAtRest DEF Dirty
    <3>2. run[k[1]] \in {"failed", "cancelled"}
      BY <2>1, <3>1 DEF Barred
    <3> QED
      BY <2>1, <3>2 DEF Owns, Barred
  <2>6. attempts # 0
    BY <2>1 DEF EffectInv
  <2> QED
    BY <1>1, <2>1, <2>3, <2>4, <2>5, <2>6 DEF EffectInv
<1>4. CASE World
  <2>1. UNCHANGED <<task, attempts, run, saved, at, mem, call, discarded>>
    BY <1>4 DEF World, AdmitControl, Land, Decide, ApprovalLapses, ClaimLapses, CollectClaim,
                rows, process
  <2>2. \A k \in Writes : claim'[k].state \in {claim[k].state, "none"}
    <3>1. ASSUME NEW k \in Writes, ClaimLapses(k) \/ CollectClaim(k), NEW j \in Writes
          PROVE  claim'[j].state \in {claim[j].state, "none"}
      <4>1. claim[k].live \in BOOLEAN /\ claim[k].state
               \in {"none", "claimed", "reconciliation_required", "completed"}
        BY <1>1 DEF RunInv, TypeOK, Claims
      <4>2. CASE ClaimLapses(k)
        <5>1. claim'[k].state = claim[k].state /\ (j # k => claim'[j] = claim[j])
          BY <1>1, <3>1, <4>1, <4>2, SetClaimKeepsType DEF ClaimLapses, RunInv
        <5> QED
          BY <5>1
      <4>3. CASE CollectClaim(k)
        <5>1. claim'[k].state = "none" /\ (j # k => claim'[j] = claim[j])
          BY <1>1, <3>1, <4>3, SetClaimKeepsType DEF CollectClaim, RunInv
        <5> QED
          BY <5>1
      <4> QED
        BY <3>1, <4>2, <4>3
    <3> QED
      BY <1>4, <3>1 DEF World, AdmitControl, Land, Decide, ApprovalLapses, journal
  <2> QED
    BY <2>1, <2>2, StillnessKeepsEffects
<1>5. CASE ChildEnds
  <2>1. /\ at[Root] \in {"call", "wait"} /\ run[call[Root][2]] \in Ended
        /\ Returns(Root, "read") /\ UNCHANGED <<task, attempts, run, saved, claim, discarded>>
    BY <1>5 DEF ChildEnds, rows, journal
  <2>2. \A c \in Children : at[c] \in Resting
    BY <1>1, <2>1 DEF EffectInv, Ended
  <2>3. /\ mem'[Root].kept.unresolved = (mem[Root].kept.unresolved \/ "read" = "unresolved")
        /\ at'[Root] \in {"cancel", "save"}
        /\ \A q \in Runs : q # Root => at'[q] = at[q] /\ mem'[q] = mem[q] /\ call'[q] = call[q]
    BY <1>1, <2>1, ReturnsAddsEffect
  <2>4. /\ at[Root] \notin Resting /\ at'[Root] \notin Resting
        /\ at[Root] \notin Hands /\ at[Root] # "fail"
    BY <2>1, <2>3 DEF Resting, Hands
  <2> QED
    BY <1>1, <2>1, <2>2, <2>3, <2>4, GoingOnKeepsEffects DEF Dirty
<1> QED
  BY <1>2, <1>3, <1>4, <1>5

LEMMA StepKeepsEffects ==
    ASSUME RunInv, EffectInv, [Next]_vars
    PROVE  EffectInv'
<1>1. CASE UNCHANGED vars
  BY <1>1, StillnessKeepsEffects DEF vars, rows, journal, process
<1>2. CASE Next
  BY <1>2, EnteringKeepsEffects, CuttingKeepsEffects, OthersKeepEffects, TurnKeepsEffects,
     ReplyKeepsEffects, ToolCallKeepsEffects
  DEF Next, Handler
<1> QED
  BY <1>1, <1>2

\* A run completes only with every write of its verified: none unresolved in
\* its checkpoint and, when one attempt did all the work, none claimed without
\* a result in the journal (_outcome, _claim_write, complete_idempotency).
THEOREM CompletedIsVerified == Spec => []CompletionIsVerified
<1>1. Init => EffectInv
  <2> SUFFICES ASSUME Init PROVE EffectInv
    OBVIOUS
  <2>1. \A r \in Runs : at[r] = "off" /\ run[r] = "none" /\ ~saved[r].kept.unresolved
    BY DEF Init, Fresh
  <2>2. \A k \in Writes : claim[k].state = "none"
    BY DEF Init
  <2>3. attempts = 0 /\ task = "pending" /\ Children \subseteq Runs
    BY DEF Init, Runs
  <2> QED
    BY <2>1, <2>2, <2>3 DEF EffectInv, EffectsKept, Resting
<1>2. RunInv /\ EffectInv => CompletionIsVerified
  <2> SUFFICES ASSUME RunInv, EffectInv, NEW r \in Runs, run[r] = "completed", ~discarded
               PROVE  /\ ~saved[r].kept.unresolved
                      /\ attempts = 1 => \A k \in Writes :
                            k[1] = r => claim[k].state \in {"none", "completed"}
    BY DEF CompletionIsVerified
  <2>1. ~saved[r].kept.unresolved /\ at[r] \in Resting
    BY DEF EffectInv, EffectsKept
  <2>2. ASSUME attempts = 1, NEW k \in Writes, k[1] = r PROVE ~Dirty(k)
    BY <2>1, <2>2, OwnerAtRest DEF Barred
  <2>3. \A k \in Writes :
           claim[k].state \in {"none", "claimed", "reconciliation_required", "completed"}
    BY DEF RunInv, TypeOK
  <2> QED
    BY <2>1, <2>2, <2>3 DEF Dirty
<1> QED
  BY <1>1, <1>2, StepKeepsEffects, RunInvariance, PTL DEF Spec
=============================================================================
