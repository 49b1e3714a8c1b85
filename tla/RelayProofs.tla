----------------------------- MODULE RelayProofs -----------------------------
(***************************************************************************)
(* Proofs about Relay, for every number of tasks, slots, commands and      *)
(* crashes. The invariant IInv of Relay is shown inductive one conjunct at *)
(* a time; the properties the service is judged by are among its conjuncts *)
(* and, by the step lemma at the end, Relay implements TaskLifecycle.      *)
(***************************************************************************)
EXTENDS Relay, FiniteSetTheorems, TLAPS

\* One-line guards and updates are always expanded.
USE DEF SlotFree, StillQueued, EventAtStart, SpendHint, NotStarted, AwaitsApproval, Waiting

-----------------------------------------------------------------------------
(* Facts about the model's helpers.                                        *)

\* The rows are finitely many.
LEMMA TaskFinite == IsFiniteSet(Task)
  BY FS_Interval, MaxTasksAssumption DEF Task

\* Initially the invariant holds.
LEMMA InitIInv == Init => IInv
<1> SUFFICES ASSUME Init PROVE IInv
  OBVIOUS
<1>1. SlotAccounting
  BY FS_EmptySet, MaxConcurrentAssumption DEF Init, SlotAccounting
<1>2. AtMostMaxRunning
  <2>1. {t \in Task : status[t] = "running"} = {}
    BY DEF Init
  <2> QED BY <2>1, FS_EmptySet, MaxConcurrentAssumption DEF AtMostMaxRunning
<1>3. TypeOK
  BY MaxTasksAssumption DEF Init, TypeOK, Status
<1> QED
  BY <1>1, <1>2, <1>3 DEF Init, IInv, MemoryInv, OccurrenceInv, OutcomeInv,
     ApprovalInv, NoOrphan, Runs, ScheduledOnce, CancelReaches, GateHolds, ApprovalIsSpent

\* A death of the process leaves well-typed memory and rows.
LEMMA DieTypes ==
  ASSUME TypeOK, Die, hint' \in [Task -> BOOLEAN], UNCHANGED blockedCmd PROVE TypeOK'
<1>1. up' \in BOOLEAN /\ cancelEv' \in [Task -> {"absent", "clear", "set"}]
  BY DEF Die
<1>2. heap' \in SUBSET Entry /\ inflight' \in SUBSET Coroutine /\ nextSeq' \in Nat /\ active' \in Nat
  BY DEF Die
<1>3. crashes' \in Nat
  BY DEF Die, TypeOK
<1> QED BY <1>1, <1>2, <1>3 DEF Die, TypeOK, history

\* Types are preserved.
LEMMA TypeStep == IInv /\ [Next]_vars => TypeOK'
<1> SUFFICES ASSUME IInv, [Next]_vars PROVE TypeOK'
  OBVIOUS
<1> USE DEF TypeOK, rowVars, schedVars, history
<1>t. TypeOK
  BY DEF IInv
<1>1. ASSUME NEW p \in {0, 1}, Submit(p) PROVE TypeOK'
  BY <1>t, <1>1 DEF Submit, Push, Entry, Status
<1>2. CASE Dispatch
  <2>1. PICK e \in heap : inflight' = inflight \cup {Fresh(e)} /\ heap' = heap \ {e}
    BY <1>2 DEF Dispatch
  <2>2. Fresh(e) \in Coroutine
    BY <2>1, <1>t DEF Fresh, Coroutine, Entry, Phase, Outcome
  <2> QED BY <1>t, <1>2, <2>1, <2>2 DEF Dispatch
<1>3. ASSUME NEW c \in inflight, RunStep(c) PROVE TypeOK'
  <2>c. c \in Coroutine /\ active \in Nat
    BY <1>t
  <2>a. ASSUME Release(c) PROVE active' \in Nat /\ inflight' \in SUBSET Coroutine /\ heap' = heap /\ nextSeq' = nextSeq
    <3>1. active # 0
      BY <1>3, FS_EmptySet, FS_CardinalityType DEF IInv, SlotAccounting
    <3> QED BY <3>1, <1>t, <2>a DEF Release
  <2>1. CASE SkipRun(c)
    BY <1>t, <2>1, <2>a DEF SkipRun
  <2>2. CASE StartRun(c)
    BY <1>t, <2>c, <2>2 DEF StartRun, Becomes, Coroutine, Exemption, Phase, Status
  <2>3. ASSUME NEW o \in Outcome, NEW k \in Cmd \cup {None}, Ends(c, o, k) PROVE TypeOK'
    BY <1>t, <2>c, <2>3 DEF Ends, Becomes, Coroutine, Phase
  <2>4. CASE Passes(c)
    BY <1>t, <2>c, <2>4 DEF Passes, Coroutine
  <2>5. CASE ParkBlocked(c)
    BY <1>t, <2>c, <2>5, <2>a DEF ParkBlocked, Coroutine, Status
  <2>6. CASE Finish(c)
    <3>1. PICK s \in FinalStatus(c.outcome) : status' = [status EXCEPT ![c.task] = s]
      BY <2>6 DEF Finish
    <3>2. s \in Status
      BY <2>c, <2>6, <1>3 DEF Finish, FinalStatus, ScanVerdict, Status, Absorbing, Coroutine, Outcome, IInv, OutcomeInv
    <3> QED BY <1>t, <2>c, <2>6, <2>a, <3>1, <3>2 DEF Finish, Coroutine
  <2>7. CASE RunError(c)
    BY <1>t, <2>c, <2>7, <2>a DEF RunError, Coroutine, Status, Absorbing
  <2>8. CASE CrashBetweenCommits(c)
    <3>1. Die /\ UNCHANGED blockedCmd /\ hint' = [hint EXCEPT ![c.task] = FALSE]
      BY <2>8 DEF CrashBetweenCommits
    <3>2. hint' \in [Task -> BOOLEAN]
      BY <1>t, <2>c, <3>1 DEF Coroutine
    <3> QED BY <1>t, <3>1, <3>2, DieTypes
  <2> QED
    BY <1>3, <2>1, <2>2, <2>3, <2>4, <2>5, <2>6, <2>7, <2>8
       DEF RunStep, AgentExits, Timeout, SeesCancel, Blocks, Outcome
<1>4. ASSUME NEW t \in Task, TaskRequest(t) PROVE TypeOK'
  <2>1. CASE CancelQueued(t)
    BY <1>t, <2>1 DEF CancelQueued, Status, Absorbing
  <2>2. CASE CancelRunning(t)
    <3>1. inflight' \in SUBSET Coroutine
      <4> SUFFICES ASSUME NEW d \in inflight' PROVE d \in Coroutine
        OBVIOUS
      <4>1. PICK c \in inflight : d = IF c.task = t THEN [c EXCEPT !.asked = TRUE] ELSE c
        BY <2>2 DEF CancelRunning
      <4> QED BY <1>t, <4>1 DEF Coroutine
    <3> QED BY <1>t, <2>2, <3>1 DEF CancelRunning
  <2>3. CASE Confirm(t)
    BY <1>t, <2>3 DEF Confirm, Status, Absorbing
  <2>4. CASE Approve(t)
    BY <1>t, <2>4 DEF Approve, Push, Entry, Status, IInv, ApprovalInv
  <2>5. CASE Deny(t)
    BY <1>t, <2>5 DEF Deny, Status, Absorbing
  <2> QED BY <1>4, <2>1, <2>2, <2>3, <2>4, <2>5 DEF TaskRequest
<1>5. CASE Age
  BY <1>t, <1>5 DEF Age, Task
<1>6. CASE Sweep
  BY <1>t, <1>6 DEF Sweep, Status, Absorbing
<1>7. CASE Crash
  <2> QED BY <1>t, <1>7, DieTypes DEF Crash
<1>8. CASE Recover
  <2> DEFINE waiting == {t \in Task : status[t] \in {"queued", "running"}}
             rank(t) == Cardinality({u \in waiting : u < t})
  <2>1. \A t \in Task : rank(t) \in Nat
    BY TaskFinite, FS_Subset, FS_CardinalityType
  <2>2. Cardinality(waiting) \in Nat
    BY TaskFinite, FS_Subset, FS_CardinalityType
  <2>3. up' \in BOOLEAN
    BY <1>8 DEF Recover
  <2>4. heap' = {[prio |-> prio[t], seq |-> rank(t), task |-> t] : t \in waiting}
    BY <1>8 DEF Recover
  <2>5. heap' \in SUBSET Entry
    <3> SUFFICES ASSUME NEW e \in heap' PROVE e \in Entry
      OBVIOUS
    <3>1. PICK t \in waiting : e = [prio |-> prio[t], seq |-> rank(t), task |-> t]
      BY <2>4
    <3> HIDE DEF rank
    <3> QED BY <1>t, <2>1, <3>1 DEF Entry
  <2>6. status' \in [Task -> Status] /\ nextSeq' \in Nat
    BY <1>t, <1>8, <2>2 DEF Recover, Status
  <2> QED BY <1>t, <1>8, <2>3, <2>5, <2>6 DEF Recover
<1>9. CASE UNCHANGED vars
  BY <1>t, <1>9 DEF vars
<1> QED BY <1>1, <1>2, <1>3, <1>4, <1>5, <1>6, <1>7, <1>8, <1>9 DEF Next

-----------------------------------------------------------------------------
(* Where the occurrences of a task are: heap, coroutines, rows.            *)

Place == MemoryInv /\ OccurrenceInv /\ ScheduledOnce /\ NoOrphan

\* The meaning of NoOrphan for one task of a live process.
LEMMA OrphanFree ==
  ASSUME IInv, up, NEW t \in Task
  PROVE  /\ status[t] = "queued" => Waits(t)
         /\ status[t] = "running" => Runs(t)
         /\ Runs(t) => status[t] = "running"
<1>1. NoOrphan
  BY DEF IInv
<1>2. \A u \in Task : /\ status[u] = "queued" => Waits(u)
                      /\ status[u] = "running" <=> Runs(u)
  BY <1>1, Zenon DEF NoOrphan
<1> QED BY <1>2

\* A cancel of a running task marks the one coroutine that runs it.
LEMMA CancelMarksRun ==
  ASSUME IInv, NEW t \in Task, CancelRunning(t)
  PROVE  \E c \in inflight : c.task = t /\ c.phase \in {"executing", "ending"}
                              /\ Becomes(c, [c EXCEPT !.asked = TRUE])
<1>1. PICK c \in inflight : c.task = t /\ c.phase \in {"executing", "ending"}
  BY OrphanFree DEF CancelRunning, Runs
<1>2. \A d \in inflight : d.task = t => d = c
  BY <1>1 DEF IInv, ScheduledOnce
<1>3. inflight' = (inflight \ {c}) \cup {[c EXCEPT !.asked = TRUE]}
  BY <1>1, <1>2 DEF CancelRunning
<1> QED BY <1>1, <1>3 DEF CancelRunning, Becomes

\* A coroutine that goes on under the same task keeps its place, when it is
\* neither before nor after its start in a row of the wrong status.
LEMMA BecomesPlace ==
  ASSUME IInv, NEW c \in inflight, NEW d \in Coroutine, d.task = c.task,
         d.phase # "created", Becomes(c, d), up' = up,
         status' = [status EXCEPT ![c.task] = "running"],
         c.phase # "created" \/ status[c.task] = "queued"
  PROVE  Place'
<1>1. c \in Coroutine /\ c.task \in Task /\ status \in [Task -> Status] /\ up
  BY DEF IInv, TypeOK, Coroutine, MemoryInv
<1>2. \A f \in inflight : f.task = c.task => f = c
  BY DEF IInv, ScheduledOnce
<1>3. \A e \in heap : e.task # c.task
  BY DEF IInv, ScheduledOnce
<1>4. ScheduledOnce'
  BY <1>2 DEF Becomes, IInv, ScheduledOnce
<1>5. OccurrenceInv'
  BY <1>1, <1>2, <1>3 DEF Becomes, IInv, OccurrenceInv, TypeOK, Entry, Coroutine
<1>6. NoOrphan'
  <2> SUFFICES ASSUME NEW t \in Task
               PROVE  /\ status'[t] = "queued" => Waits(t)'
                      /\ status'[t] = "running" <=> Runs(t)'
    BY DEF NoOrphan
  <2>1. CASE t = c.task
    <3>1. d.phase \in {"executing", "ending"}
      BY DEF Coroutine, Phase
    <3> QED BY <1>1, <2>1, <3>1 DEF Becomes, Runs
  <2>2. CASE t # c.task
    <3>1. status'[t] = status[t]
      BY <1>1, <2>2
    <3>2. Waits(t)' <=> Waits(t)
      BY <2>2 DEF Becomes, Waits
    <3>3. Runs(t)' <=> Runs(t)
      BY <2>2 DEF Becomes, Runs
    <3> QED BY <1>1, <3>1, <3>2, <3>3, OrphanFree
  <2> QED BY <2>1, <2>2
<1> QED BY <1>1, <1>4, <1>5, <1>6 DEF Place, MemoryInv

\* A coroutine that ends frees the place of its task, if its row is neither
\* queued nor running afterwards.
LEMMA ReleasePlace ==
  ASSUME IInv, NEW c \in inflight, Release(c), up' = up, NEW s \in Status,
         s \notin {"queued", "running"},
         status' = [status EXCEPT ![c.task] = s]
  PROVE  Place'
<1>1. c \in Coroutine /\ c.task \in Task /\ status \in [Task -> Status] /\ up
  BY DEF IInv, TypeOK, Coroutine, MemoryInv
<1>2. \A f \in inflight : f.task = c.task => f = c
  BY DEF IInv, ScheduledOnce
<1>3. \A e \in heap : e.task # c.task
  BY DEF IInv, ScheduledOnce
<1>4. ScheduledOnce'
  BY DEF Release, IInv, ScheduledOnce
<1>5. OccurrenceInv'
  BY <1>1, <1>2, <1>3 DEF Release, IInv, OccurrenceInv, TypeOK, Entry, Coroutine
<1>6. NoOrphan'
  <2> SUFFICES ASSUME NEW t \in Task
               PROVE  /\ status'[t] = "queued" => Waits(t)'
                      /\ status'[t] = "running" <=> Runs(t)'
    BY DEF NoOrphan
  <2>1. CASE t = c.task
    BY <1>1, <1>2, <2>1 DEF Release, Runs
  <2>2. CASE t # c.task
    <3>1. status'[t] = status[t]
      BY <1>1, <2>2
    <3>2. Waits(t)' <=> Waits(t)
      BY <2>2 DEF Release, Waits
    <3>3. Runs(t)' <=> Runs(t)
      BY <2>2 DEF Release, Runs
    <3> QED BY <1>1, <3>1, <3>2, <3>3, OrphanFree
  <2> QED BY <2>1, <2>2
<1> QED BY <1>1, <1>4, <1>5, <1>6 DEF Place, MemoryInv

\* A push is the first occurrence of its task, if its row had none before.
LEMMA PushPlace ==
  ASSUME IInv, NEW t \in Task, NEW p \in {0, 1}, Push(p, t), up, up' = up,
         status[t] \in {"none", "pending_approval"},
         status' = [status EXCEPT ![t] = "queued"]
  PROVE  Place'
<1>1. status \in [Task -> Status] /\ heap \in SUBSET Entry /\ inflight \in SUBSET Coroutine
  BY DEF IInv, TypeOK
<1>2. (\A e \in heap : e.task # t) /\ (\A c \in inflight : c.task # t)
  BY DEF IInv, OccurrenceInv
<1>3. PICK e : e.task = t /\ heap' = heap \cup {e} /\ inflight' = inflight
  BY DEF Push
<1>4. ScheduledOnce'
  BY <1>2, <1>3 DEF IInv, ScheduledOnce
<1>5. OccurrenceInv'
  BY <1>1, <1>2, <1>3 DEF IInv, OccurrenceInv, Entry, Coroutine
<1>6. NoOrphan'
  <2> SUFFICES ASSUME NEW u \in Task
               PROVE  /\ status'[u] = "queued" => Waits(u)'
                      /\ status'[u] = "running" <=> Runs(u)'
    BY DEF NoOrphan
  <2>1. CASE u = t
    BY <1>1, <1>2, <1>3, <2>1 DEF Waits, Runs
  <2>2. CASE u # t
    <3>1. status'[u] = status[u]
      BY <1>1, <2>2
    <3>2. Waits(u)' <=> Waits(u)
      BY <1>3, <2>2 DEF Waits
    <3>3. Runs(u)' <=> Runs(u)
      BY <1>3 DEF Runs
    <3> QED BY <3>1, <3>2, <3>3, OrphanFree
  <2> QED BY <2>1, <2>2
<1> QED BY <1>4, <1>5, <1>6 DEF Place, MemoryInv

\* A change of rows that no occurrence stands for, or of a queued row that is
\* cancelled, disturbs no place.
LEMMA RowsPlace ==
  ASSUME IInv, UNCHANGED schedVars, up, up' = up, status' \in [Task -> Status],
         \A t \in Task : \/ status'[t] = status[t]
                         \/ status[t] = "queued" /\ status'[t] = "cancelled"
                         \/ /\ status[t] \in {"review", "conflict", "pending_approval"}
                            /\ status'[t] \notin {"queued", "running"}
  PROVE  Place'
<1>1. heap \in SUBSET Entry /\ inflight \in SUBSET Coroutine
  BY DEF IInv, TypeOK
<1>2. OccurrenceInv'
  BY <1>1 DEF IInv, OccurrenceInv, schedVars, Entry, Coroutine
<1>3. ScheduledOnce'
  BY DEF IInv, ScheduledOnce, schedVars
<1>4. NoOrphan'
  BY DEF IInv, NoOrphan, Waits, Runs, schedVars
<1> QED BY <1>2, <1>3, <1>4 DEF Place, MemoryInv
\* No step breaks the agreement of heap, coroutines and rows.
LEMMA PlaceStep == IInv /\ [Next]_vars => Place'
<1> SUFFICES ASSUME IInv, [Next]_vars PROVE Place'
  OBVIOUS
<1>t. TypeOK /\ Place
  BY DEF IInv, Place
<1>u. TypeOK'
  BY TypeStep
<1>1. ASSUME NEW p \in {0, 1}, Submit(p) PROVE Place'
  BY <1>1, PushPlace DEF Submit
<1>2. CASE Dispatch
  <2>1. PICK e \in heap : inflight' = inflight \cup {Fresh(e)} /\ heap' = heap \ {e}
    BY <1>2 DEF Dispatch
  <2>2. status' = status /\ up /\ up'
    BY <1>2 DEF Dispatch, rowVars
  <2>f. Fresh(e).task = e.task /\ Fresh(e).phase = "created"
    BY DEF Fresh
  <2>3. ScheduledOnce'
    <3>1. (\A f \in heap' : f.task # e.task) /\ (\A c \in inflight : c.task # e.task)
      BY <1>t, <2>1 DEF Place, ScheduledOnce
    <3>2. \A f \in heap', c \in inflight' : f.task # c.task
      BY <1>t, <2>1, <2>f, <3>1 DEF Place, ScheduledOnce
    <3>3. \A c, d \in inflight' : c.task = d.task => c = d
      BY <1>t, <2>1, <2>f, <3>1 DEF Place, ScheduledOnce
    <3>4. \A f, g \in heap' : f.task = g.task => f = g
      BY <1>t, <2>1 DEF Place, ScheduledOnce
    <3> QED BY <3>2, <3>3, <3>4 DEF ScheduledOnce
  <2>4. OccurrenceInv'
    BY <1>t, <2>1, <2>2 DEF Place, OccurrenceInv, Fresh
  <2>5. ASSUME NEW t \in Task
        PROVE  /\ status'[t] = "queued" => Waits(t)'
               /\ status'[t] = "running" <=> Runs(t)'
    <3>1. Waits(t) => Waits(t)'
      <4>1. CASE t = e.task
        BY <2>1, <2>f, <4>1 DEF Waits
      <4>2. CASE t # e.task
        BY <2>1, <4>2 DEF Waits
      <4> QED BY <4>1, <4>2
    <3>2. Runs(t) <=> Runs(t)'
      BY <2>1 DEF Runs, Fresh
    <3> QED BY <2>2, <3>1, <3>2, OrphanFree
  <2>6. NoOrphan'
    BY <2>5 DEF NoOrphan
  <2> QED BY <2>2, <2>3, <2>4, <2>6 DEF Place, MemoryInv
<1>3. ASSUME NEW c \in inflight, RunStep(c) PROVE Place'
  <2>c. c \in Coroutine /\ c.task \in Task /\ status \in [Task -> Status] /\ up
    BY <1>t DEF Place, MemoryInv, TypeOK, Coroutine
  <2>s. status[c.task] \in IF c.phase = "created" THEN {"queued", "cancelled"}
                                                ELSE {"running"}
    BY <1>t DEF Place, OccurrenceInv
  <2>1. CASE SkipRun(c)
    <3>1. status' = [status EXCEPT ![c.task] = "cancelled"]
      BY <2>c, <2>s, <2>1 DEF SkipRun, rowVars
    <3>2. Release(c) /\ up' = up
      BY <2>1 DEF SkipRun
    <3>3. "cancelled" \in Status
      BY DEF Status, Absorbing
    <3> QED BY <3>1, <3>2, <3>3, ReleasePlace
  <2>2. CASE StartRun(c)
    <3> DEFINE d == [c EXCEPT !.phase = "executing", !.exempt = Exemption(c.task)]
    <3>1. d \in Coroutine /\ d.task = c.task /\ d.phase # "created"
      BY <1>t, <2>c DEF Coroutine, Exemption, Phase, TypeOK
    <3>2. Becomes(c, d) /\ status' = [status EXCEPT ![c.task] = "running"] /\ up' = up
      BY <2>2 DEF StartRun
    <3>3. status[c.task] = "queued"
      BY <2>2 DEF StartRun
    <3> HIDE DEF d
    <3> QED BY <3>1, <3>2, <3>3, BecomesPlace
  <2>3. ASSUME NEW o \in Outcome, NEW k \in Cmd \cup {None}, Ends(c, o, k) PROVE Place'
    <3> DEFINE d == [c EXCEPT !.phase = "ending", !.outcome = o, !.cmd = k]
    <3>1. d \in Coroutine /\ d.task = c.task /\ d.phase # "created"
      BY <2>c DEF Coroutine, Phase
    <3>2. Becomes(c, d) /\ c.phase # "created" /\ up' = up /\ status' = status
      BY <2>3 DEF Ends, rowVars
    <3>3. status' = [status EXCEPT ![c.task] = "running"]
      BY <2>c, <2>s, <3>2
    <3> HIDE DEF d
    <3> QED BY <3>1, <3>2, <3>3, BecomesPlace
  <2>4. CASE Passes(c)
    <3>1. UNCHANGED schedVars /\ up' = up /\ status' = status
      BY <2>4 DEF Passes, rowVars
    <3> QED BY <2>c, <3>1, RowsPlace
  <2>5. CASE ParkBlocked(c)
    <3>1. Release(c) /\ up' = up /\ status' = [status EXCEPT ![c.task] = "pending_approval"]
      BY <2>5 DEF ParkBlocked
    <3>2. "pending_approval" \in Status
      BY DEF Status
    <3> QED BY <3>1, <3>2, ReleasePlace
  <2>6. CASE Finish(c)
    <3>1. PICK s \in FinalStatus(c.outcome) : status' = [status EXCEPT ![c.task] = s]
      BY <2>6 DEF Finish
    <3>2. s \in Status \ {"queued", "running"}
      BY <2>c, <2>6, <1>3 DEF Finish, FinalStatus, ScanVerdict, Status, Absorbing, Coroutine, Outcome, IInv, OutcomeInv
    <3> QED BY <2>c, <2>6, <3>1, <3>2, ReleasePlace DEF Finish
  <2>7. CASE RunError(c)
    <3>1. Release(c) /\ up' = up /\ status' = [status EXCEPT ![c.task] = "failed"]
      BY <2>7 DEF RunError
    <3>2. "failed" \in Status
      BY DEF Status, Absorbing
    <3> QED BY <3>1, <3>2, ReleasePlace
  <2>8. CASE CrashBetweenCommits(c)
    BY <2>8 DEF CrashBetweenCommits, Die, Place, MemoryInv, OccurrenceInv, ScheduledOnce, NoOrphan
  <2> QED
    BY <1>3, <2>1, <2>2, <2>3, <2>4, <2>5, <2>6, <2>7, <2>8
       DEF RunStep, AgentExits, Timeout, SeesCancel, Blocks, Outcome
<1>4. ASSUME NEW t \in Task, TaskRequest(t) PROVE Place'
  <2>s. status \in [Task -> Status] /\ status' \in [Task -> Status]
    BY <1>t, <1>u DEF TypeOK
  <2>1. CASE CancelQueued(t)
    BY <2>s, <2>1, RowsPlace DEF CancelQueued
  <2>2. CASE CancelRunning(t)
    <3>1. PICK c \in inflight : /\ c.task = t /\ c.phase \in {"executing", "ending"}
                               /\ Becomes(c, [c EXCEPT !.asked = TRUE])
      BY <2>2, CancelMarksRun
    <3>2. c \in Coroutine
      BY <1>t DEF TypeOK
    <3>3. [c EXCEPT !.asked = TRUE] \in Coroutine
      BY <3>2 DEF Coroutine
    <3>4. status' = [status EXCEPT ![c.task] = "running"] /\ up' = up
      BY <2>s, <2>2, <3>1 DEF CancelRunning, rowVars
    <3>5. [c EXCEPT !.asked = TRUE].phase # "created" /\ [c EXCEPT !.asked = TRUE].task = c.task
      BY <3>1, <3>2 DEF Coroutine
    <3> QED BY <3>1, <3>3, <3>4, <3>5, BecomesPlace
  <2>3. CASE Confirm(t)
    BY <2>s, <2>3, RowsPlace DEF Confirm
  <2>4. CASE Approve(t)
    BY <1>t, <2>4, PushPlace DEF Approve, TypeOK
  <2>5. CASE Deny(t)
    BY <2>s, <2>5, RowsPlace DEF Deny
  <2> QED BY <1>4, <2>1, <2>2, <2>3, <2>4, <2>5 DEF TaskRequest
<1>5. CASE Age
  BY <1>t, <1>5 DEF Age, schedVars, Place, MemoryInv, OccurrenceInv, ScheduledOnce, NoOrphan, Waits, Runs
<1>6. CASE Sweep
  <2>1. \A t \in Task : status'[t] = status[t] \/ (status[t] \in {"review", "pending_approval"} /\ status'[t] = "done")
    BY <1>6 DEF Sweep, Sweepable
  <2> QED BY <1>u, <1>6, <2>1, RowsPlace DEF Sweep, TypeOK
<1>7. CASE Crash
  BY <1>7 DEF Crash, Die, Place, MemoryInv, OccurrenceInv, ScheduledOnce, NoOrphan
<1>8. CASE Recover
  <2> DEFINE waiting == {t \in Task : status[t] \in {"queued", "running"}}
             entry(t) == [prio |-> prio[t], seq |-> Cardinality({u \in waiting : u < t}), task |-> t]
  <2>1. heap' = {entry(t) : t \in waiting} /\ inflight' = {} /\ up'
    BY <1>t, <1>8 DEF Recover, Place, MemoryInv
  <2>2. \A t \in Task : entry(t).task = t
    OBVIOUS
  <2>3. status' = [t \in Task |-> IF t \in waiting THEN "queued" ELSE status[t]]
    BY <1>8 DEF Recover
  <2> HIDE DEF entry
  <2>4. \A e \in heap' : \E t \in waiting : e = entry(t) /\ e.task = t
    BY <2>1, <2>2
  <2>5. ScheduledOnce'
    BY <2>1, <2>4 DEF ScheduledOnce
  <2>6. OccurrenceInv'
    BY <2>1, <2>3, <2>4 DEF OccurrenceInv
  <2>7. \A t \in Task : status'[t] # "running" /\ (status'[t] = "queued" => t \in waiting)
    BY <2>3
  <2>8. \A t \in waiting : Waits(t)'
    BY <2>1, <2>2 DEF Waits
  <2>9. NoOrphan'
    BY <2>1, <2>7, <2>8 DEF NoOrphan, Runs
  <2> QED BY <2>1, <2>5, <2>6, <2>9 DEF Place, MemoryInv
<1>9. CASE UNCHANGED vars
  BY <1>t, <1>9 DEF vars, rowVars, schedVars, Place, MemoryInv, OccurrenceInv, ScheduledOnce, NoOrphan, Waits, Runs
<1> QED BY <1>1, <1>2, <1>3, <1>4, <1>5, <1>6, <1>7, <1>8, <1>9 DEF Next
-----------------------------------------------------------------------------
(* Slots.                                                                  *)

\* A coroutine that goes on keeps its slot.
LEMMA BecomesSlots ==
  ASSUME IInv, NEW c \in inflight, NEW d, d.task = c.task, Becomes(c, d)
  PROVE  SlotAccounting'
<1>1. d \notin inflight \ {c}
  BY DEF IInv, ScheduledOnce
<1>2. IsFiniteSet(inflight) /\ active = Cardinality(inflight) /\ active <= MaxConcurrent
  BY DEF IInv, SlotAccounting
<1>3. IsFiniteSet(inflight \ {c}) /\ Cardinality(inflight \ {c}) = active - 1
  BY <1>2, FS_RemoveElement
<1>4. IsFiniteSet(inflight') /\ Cardinality(inflight') = active - 1 + 1
  BY <1>1, <1>3, FS_AddElement DEF Becomes
<1>5. active \in Nat /\ active' = active
  BY DEF IInv, TypeOK, Becomes
<1> QED BY <1>2, <1>4, <1>5 DEF SlotAccounting

\* A coroutine that ends gives its slot back.
LEMMA ReleaseSlots ==
  ASSUME IInv, NEW c \in inflight, Release(c)
  PROVE  SlotAccounting'
<1>1. IsFiniteSet(inflight) /\ active = Cardinality(inflight) /\ active <= MaxConcurrent /\ active \in Nat
  BY DEF IInv, SlotAccounting, TypeOK
<1>2. IsFiniteSet(inflight \ {c}) /\ Cardinality(inflight \ {c}) = active - 1
  BY <1>1, FS_RemoveElement
<1> QED BY <1>1, <1>2, MaxConcurrentAssumption DEF Release, SlotAccounting

\* No step leaks a slot, lends it twice or lends one too many.
LEMMA SlotStep == IInv /\ [Next]_vars => SlotAccounting'
<1> SUFFICES ASSUME IInv, [Next]_vars PROVE SlotAccounting'
  OBVIOUS
<1>t. SlotAccounting /\ TypeOK
  BY DEF IInv
<1>k. ASSUME UNCHANGED <<active, inflight>> PROVE SlotAccounting'
  BY <1>t, <1>k DEF SlotAccounting
<1>1. ASSUME NEW p \in {0, 1}, Submit(p) PROVE SlotAccounting'
  BY <1>1, <1>k DEF Submit, Push
<1>2. CASE Dispatch
  <2>1. PICK e \in heap : inflight' = inflight \cup {Fresh(e)}
    BY <1>2 DEF Dispatch
  <2>2. Fresh(e) \notin inflight
    BY DEF IInv, ScheduledOnce, Fresh
  <2>3. IsFiniteSet(inflight') /\ Cardinality(inflight') = active + 1
    BY <1>t, <2>1, <2>2, FS_AddElement DEF SlotAccounting
  <2>4. active' = active + 1 /\ active < MaxConcurrent /\ active \in Nat
    BY <1>2, <1>t DEF Dispatch, TypeOK
  <2> QED BY <2>3, <2>4, MaxConcurrentAssumption DEF SlotAccounting
<1>3. ASSUME NEW c \in inflight, RunStep(c) PROVE SlotAccounting'
  <2>c. c \in Coroutine
    BY <1>t DEF TypeOK
  <2>1. CASE SkipRun(c) \/ ParkBlocked(c) \/ Finish(c) \/ RunError(c)
    BY <2>1, ReleaseSlots DEF SkipRun, ParkBlocked, Finish, RunError
  <2>2. CASE StartRun(c)
    <3> DEFINE d == [c EXCEPT !.phase = "executing", !.exempt = Exemption(c.task)]
    <3>1. d.task = c.task
      BY <2>c DEF Coroutine
    <3>2. Becomes(c, d)
      BY <2>2 DEF StartRun
    <3> HIDE DEF d
    <3> QED BY <3>1, <3>2, BecomesSlots
  <2>3. ASSUME NEW o \in Outcome, NEW k \in Cmd \cup {None}, Ends(c, o, k) PROVE SlotAccounting'
    <3> DEFINE d == [c EXCEPT !.phase = "ending", !.outcome = o, !.cmd = k]
    <3>1. d.task = c.task
      BY <2>c DEF Coroutine
    <3>2. Becomes(c, d)
      BY <2>3 DEF Ends
    <3> HIDE DEF d
    <3> QED BY <3>1, <3>2, BecomesSlots
  <2>4. CASE Passes(c)
    BY <2>4, <1>k DEF Passes, schedVars
  <2>5. CASE CrashBetweenCommits(c)
    BY <2>5, FS_EmptySet, MaxConcurrentAssumption DEF CrashBetweenCommits, Die, SlotAccounting
  <2> QED
    BY <1>3, <2>1, <2>2, <2>3, <2>4, <2>5
       DEF RunStep, AgentExits, Timeout, SeesCancel, Blocks, Outcome
<1>4. ASSUME NEW t \in Task, TaskRequest(t) PROVE SlotAccounting'
  <2>1. CASE CancelRunning(t)
    <3>1. PICK c \in inflight : Becomes(c, [c EXCEPT !.asked = TRUE])
      BY <2>1, CancelMarksRun
    <3>2. [c EXCEPT !.asked = TRUE].task = c.task
      BY <1>t DEF TypeOK, Coroutine
    <3> QED BY <3>1, <3>2, BecomesSlots
  <2>2. CASE CancelQueued(t) \/ Confirm(t) \/ Approve(t) \/ Deny(t)
    BY <2>2, <1>k DEF CancelQueued, Confirm, Approve, Push, Deny, schedVars
  <2> QED BY <1>4, <2>1, <2>2 DEF TaskRequest
<1>5. CASE Age \/ Sweep \/ Recover \/ UNCHANGED vars
  BY <1>5, <1>k DEF Age, Sweep, Recover, vars, schedVars
<1>6. CASE Crash
  BY <1>6, FS_EmptySet, MaxConcurrentAssumption DEF Crash, Die, SlotAccounting
<1> QED BY <1>1, <1>2, <1>3, <1>4, <1>5, <1>6 DEF Next

\* Tasks that each have a coroutine in a finite set are no more than the set.
LEMMA TasksBounded ==
  ASSUME NEW I, IsFiniteSet(I), NEW R, \A t \in R : \E c \in I : c.task = t
  PROVE  Cardinality(R) <= Cardinality(I) /\ Cardinality(R) \in Nat /\ Cardinality(I) \in Nat
<1> DEFINE f == [t \in R |-> CHOOSE c \in I : c.task = t]
<1>1. \A t \in R : f[t] \in I /\ f[t].task = t
  OBVIOUS
<1>2. f \in [R -> I]
  BY <1>1
<1>3. \A t, u \in R : f[t] = f[u] => t = u
  BY <1>1
<1>4. f \in Injection(R, I)
  BY <1>2, <1>3 DEF Injection, IsInjective
<1> QED BY <1>4, FS_Injection, FS_CardinalityType

\* The bound on running rows is kept: a live process has it from its slots, and a
\* dying one leaves the rows as they are.
LEMMA RunningStep == IInv /\ [Next]_vars => AtMostMaxRunning'
<1> SUFFICES ASSUME IInv, [Next]_vars PROVE AtMostMaxRunning'
  OBVIOUS
<1>1. TypeOK' /\ NoOrphan' /\ SlotAccounting'
  BY TypeStep, PlaceStep, SlotStep DEF Place
<1>2. CASE up'
  <2> DEFINE R == {t \in Task : status[t] = "running"}
  <2>1. \A t \in Task : status'[t] = "running" => Runs(t)'
    BY <1>1, <1>2, Zenon DEF NoOrphan
  <2>2. \A t \in R' : \E c \in inflight' : c.task = t
    BY <2>1 DEF Runs
  <2>3. /\ IsFiniteSet(inflight') /\ active' = Cardinality(inflight')
        /\ active' <= MaxConcurrent
    BY <1>1 DEF SlotAccounting
  <2>4. Cardinality(R') <= Cardinality(inflight') /\ Cardinality(R') \in Nat /\ Cardinality(inflight') \in Nat
    BY <2>2, <2>3, TasksBounded
  <2>5. Cardinality(R') <= MaxConcurrent
    BY <2>3, <2>4, MaxConcurrentAssumption
  <2> QED BY <2>5 DEF AtMostMaxRunning
<1>3. CASE ~up'
  <2>1. status' = status
    <3>1. CASE up
      BY <1>3, <3>1 DEF Next, vars, Submit, Dispatch, RunStep, SkipRun, StartRun,
         AgentExits, Timeout, SeesCancel, Blocks, Ends, Passes, ParkBlocked, Finish,
         RunError, CrashBetweenCommits, Die, TaskRequest, CancelQueued,
         CancelRunning, Confirm, Approve, Deny, Age, Sweep, Crash, Recover
    <3>2. CASE ~up
      <4>1. inflight = {}
        BY <3>2 DEF IInv, MemoryInv
      <4> QED
        BY <1>3, <3>2, <4>1 DEF Next, vars, rowVars, Submit, Dispatch, TaskRequest, CancelQueued,
           CancelRunning, Confirm, Approve, Deny, Age, Sweep, Crash, Die, Recover
    <3> QED BY <3>1, <3>2
  <2> QED BY <2>1 DEF IInv, AtMostMaxRunning
<1> QED BY <1>2, <1>3
-----------------------------------------------------------------------------
(* Outcomes, cancel events, approvals.                                     *)

\* A run that left its loop has an outcome, and a blocked one its command.
LEMMA OutcomeStep == IInv /\ [Next]_vars => OutcomeInv'
<1> SUFFICES ASSUME IInv, [Next]_vars PROVE OutcomeInv'
  OBVIOUS
<1>t. TypeOK /\ OutcomeInv
  BY DEF IInv
<1>k. ASSUME inflight' \subseteq inflight PROVE OutcomeInv'
  BY <1>t, <1>k DEF OutcomeInv
<1>b. ASSUME NEW c \in inflight, NEW d, Becomes(c, d),
             d.phase = "ending" => d.outcome # "none",
             d.outcome = "blocked" => d.cmd \in Cmd
      PROVE  OutcomeInv'
  BY <1>t, <1>b DEF Becomes, OutcomeInv
<1>1. CASE Dispatch
  <2>1. PICK e \in heap : inflight' = inflight \cup {Fresh(e)}
    BY <1>1 DEF Dispatch
  <2> QED BY <1>t, <2>1 DEF OutcomeInv, Fresh
<1>2. ASSUME NEW c \in inflight, RunStep(c) PROVE OutcomeInv'
  <2>c. c \in Coroutine /\ (c.outcome = "blocked" => c.cmd \in Cmd)
    BY <1>t DEF TypeOK, OutcomeInv
  <2>1. CASE StartRun(c)
    <3> DEFINE d == [c EXCEPT !.phase = "executing", !.exempt = Exemption(c.task)]
    <3>1. d.phase = "executing" /\ d.outcome = c.outcome /\ d.cmd = c.cmd
      BY <2>c DEF Coroutine
    <3>2. Becomes(c, d)
      BY <2>1 DEF StartRun
    <3> HIDE DEF d
    <3> QED BY <2>c, <3>1, <3>2, <1>b
  <2>2. ASSUME NEW o \in Outcome \ {"none"}, NEW k \in Cmd \cup {None}, Ends(c, o, k),
               o = "blocked" => k \in Cmd
        PROVE  OutcomeInv'
    <3> DEFINE d == [c EXCEPT !.phase = "ending", !.outcome = o, !.cmd = k]
    <3>1. d.outcome = o /\ d.cmd = k
      BY <2>c DEF Coroutine
    <3>2. Becomes(c, d)
      BY <2>2 DEF Ends
    <3> HIDE DEF d
    <3> QED BY <2>2, <3>1, <3>2, <1>b
  <2>3. CASE \/ SkipRun(c) \/ Passes(c) \/ ParkBlocked(c) \/ Finish(c)
             \/ RunError(c) \/ CrashBetweenCommits(c)
    BY <2>3, <1>k DEF SkipRun, Passes, ParkBlocked, Finish, RunError,
       CrashBetweenCommits, Die, Release, schedVars
  <2> QED
    BY <1>2, <2>1, <2>2, <2>3 DEF RunStep, AgentExits, Timeout, SeesCancel, Blocks, Outcome
<1>3. ASSUME NEW t \in Task, CancelRunning(t) PROVE OutcomeInv'
  <2>1. PICK c \in inflight : Becomes(c, [c EXCEPT !.asked = TRUE])
    BY <1>3, CancelMarksRun
  <2> DEFINE d == [c EXCEPT !.asked = TRUE]
  <2>2. d.phase = c.phase /\ d.outcome = c.outcome /\ d.cmd = c.cmd
    BY <1>t DEF TypeOK, Coroutine
  <2>3. Becomes(c, d)
    BY <2>1
  <2> HIDE DEF d
  <2> QED BY <1>t, <2>2, <2>3, <1>b DEF OutcomeInv
<1>4. ASSUME \/ \E p \in {0, 1} : Submit(p)
             \/ \E t \in Task : CancelQueued(t) \/ Confirm(t) \/ Approve(t) \/ Deny(t)
             \/ Age \/ Sweep \/ Crash \/ Recover \/ UNCHANGED vars
      PROVE  OutcomeInv'
  BY <1>4, <1>k DEF Submit, CancelQueued, Confirm, Approve, Push, Deny, Age, Sweep,
     Crash, Die, Recover, vars, schedVars
<1> QED BY <1>1, <1>2, <1>3, <1>4 DEF Next, TaskRequest

\* A running row's event stays in the map until its run is over.
LEMMA CancelStep == IInv /\ [Next]_vars => CancelReaches'
<1> SUFFICES ASSUME IInv, [Next]_vars, up', NEW t \in Task, status'[t] = "running"
             PROVE  cancelEv'[t] # "absent"
  BY DEF CancelReaches
<1>t. TypeOK /\ CancelReaches /\ MemoryInv
  BY DEF IInv
<1>k. ASSUME up, status[t] = "running", cancelEv'[t] = cancelEv[t]
      PROVE  cancelEv'[t] # "absent"
  BY <1>t, <1>k DEF CancelReaches
<1>1. ASSUME NEW p \in {0, 1}, Submit(p) PROVE cancelEv'[t] # "absent"
  BY <1>t, <1>1, <1>k DEF Submit, TypeOK
<1>2. CASE Dispatch
  BY <1>2, <1>k DEF Dispatch, rowVars
<1>3. ASSUME NEW c \in inflight, RunStep(c) PROVE cancelEv'[t] # "absent"
  <2>c. c.task \in Task /\ up
    BY <1>t DEF TypeOK, Coroutine, MemoryInv
  <2>1. CASE StartRun(c)
    BY <1>t, <1>k, <2>1, <2>c DEF StartRun, TypeOK
  <2>2. CASE \/ SkipRun(c) \/ AgentExits(c) \/ Timeout(c) \/ SeesCancel(c)
             \/ Blocks(c) \/ Passes(c)
    BY <1>k, <2>2, <2>c DEF SkipRun, AgentExits, Timeout, SeesCancel, Blocks, Ends, Passes, rowVars
  <2>3. CASE ParkBlocked(c) \/ RunError(c)
    BY <1>t, <1>k, <2>3, <2>c DEF ParkBlocked, RunError, TypeOK
  <2>4. CASE Finish(c)
    <3>1. PICK s \in FinalStatus(c.outcome) : status' = [status EXCEPT ![c.task] = s]
      BY <2>4 DEF Finish
    <3>2. s # "running"
      BY <1>t, <1>3, <2>4 DEF Finish, FinalStatus, ScanVerdict, TypeOK, Coroutine, Outcome, IInv, OutcomeInv
    <3> QED BY <1>t, <1>k, <2>4, <2>c, <3>1, <3>2 DEF Finish, TypeOK
  <2>5. CASE CrashBetweenCommits(c)
    BY <2>5 DEF CrashBetweenCommits, Die
  <2> QED BY <1>3, <2>1, <2>2, <2>3, <2>4, <2>5 DEF RunStep
<1>4. ASSUME NEW u \in Task, TaskRequest(u) PROVE cancelEv'[t] # "absent"
  <2>1. CASE CancelRunning(u)
    BY <1>t, <1>k, <2>1 DEF CancelRunning, TypeOK, rowVars
  <2>2. CASE CancelQueued(u) \/ Confirm(u) \/ Approve(u) \/ Deny(u)
    BY <1>t, <1>k, <2>2 DEF CancelQueued, Confirm, Approve, Deny, TypeOK
  <2> QED BY <1>4, <2>1, <2>2 DEF TaskRequest
<1>5. CASE Age
  BY <1>5, <1>k DEF Age
<1>6. CASE Sweep
  BY <1>6, <1>k DEF Sweep
<1>7. CASE Crash
  BY <1>7 DEF Crash, Die
<1>8. CASE Recover
  BY <1>8 DEF Recover
<1>9. CASE UNCHANGED vars
  BY <1>9, <1>k DEF vars, rowVars
<1> QED BY <1>1, <1>2, <1>3, <1>4, <1>5, <1>6, <1>7, <1>8, <1>9 DEF Next

\* The chain from an approval to the command that passes: the hint stands for an
\* approved blocked_cmd, the run copies it into its exemption, the gate compares
\* with it; a run that ends spends the hint.
Chain == ApprovalInv /\ GateHolds /\ ApprovalIsSpent

LEMMA ChainStep == IInv /\ [Next]_vars => Chain'
<1> SUFFICES ASSUME IInv, [Next]_vars PROVE Chain'
  OBVIOUS
<1>t. TypeOK /\ Chain
  BY DEF IInv, Chain
<1> USE DEF Chain, ApprovalInv, GateHolds, ApprovalIsSpent
<1>r. ASSUME UNCHANGED <<blockedCmd, history>>, inflight' \subseteq inflight,
             \A t \in Task : /\ hint'[t] => hint[t]
                             /\ \/ status'[t] = status[t]
                                \/ ~hint'[t] /\ status'[t] # "pending_approval"
                                \/ status'[t] \in {"queued", "running", "failed", "cancelled"}
      PROVE  Chain'
  BY <1>t, <1>r DEF history
<1>b. ASSUME NEW c \in inflight, NEW d, Becomes(c, d), d.task = c.task,
             d.exempt \in granted[c.task] \cup {None}, UNCHANGED <<blockedCmd, hint, history>>,
             \A t \in Task : status'[t] = status[t] \/ status'[t] = "running"
      PROVE  Chain'
  BY <1>t, <1>b DEF history, Becomes
<1>1. ASSUME NEW p \in {0, 1}, Submit(p) PROVE Chain'
  BY <1>t, <1>1, <1>r DEF Submit, Push, TypeOK
<1>2. CASE Dispatch
  <2>1. PICK e \in heap : inflight' = inflight \cup {Fresh(e)}
    BY <1>2 DEF Dispatch
  <2> QED BY <1>t, <1>2, <2>1 DEF Dispatch, Fresh, rowVars, history
<1>3. ASSUME NEW c \in inflight, RunStep(c) PROVE Chain'
  <2>c. c \in Coroutine /\ c.task \in Task /\ c.exempt \in granted[c.task] \cup {None}
    BY <1>t DEF TypeOK, Coroutine
  <2>1. CASE StartRun(c)
    <3> DEFINE d == [c EXCEPT !.phase = "executing", !.exempt = Exemption(c.task)]
    <3>1. d.task = c.task /\ d.exempt = Exemption(c.task)
      BY <2>c DEF Coroutine
    <3>2. Exemption(c.task) \in granted[c.task] \cup {None}
      BY <1>t, <2>c DEF Exemption
    <3>3. Becomes(c, d) /\ UNCHANGED <<blockedCmd, hint, history>>
      BY <2>1 DEF StartRun
    <3>4. \A t \in Task : status'[t] = status[t] \/ status'[t] = "running"
      BY <1>t, <2>1, <2>c DEF StartRun, TypeOK
    <3> HIDE DEF d
    <3> QED BY <3>1, <3>2, <3>3, <3>4, <1>b
  <2>2. ASSUME NEW o \in Outcome, NEW k \in Cmd \cup {None}, Ends(c, o, k) PROVE Chain'
    <3> DEFINE d == [c EXCEPT !.phase = "ending", !.outcome = o, !.cmd = k]
    <3>1. d.task = c.task /\ d.exempt = c.exempt
      BY <2>c DEF Coroutine
    <3>2. Becomes(c, d) /\ UNCHANGED <<status, blockedCmd, hint, history>>
      BY <2>2 DEF Ends, rowVars
    <3> HIDE DEF d
    <3> QED BY <2>c, <3>1, <3>2, <1>b
  <2>3. CASE Passes(c)
    <3>1. PICK k \in Cmd : Exempt(k, c.exempt) /\ passed' = [passed EXCEPT ![c.task] = @ \cup {k}]
      BY <2>3 DEF Passes
    <3>2. k \in UNION {Covers[g] : g \in granted[c.task]}
      BY <2>c, <3>1 DEF Exempt
    <3>3. UNCHANGED <<status, blockedCmd, hint, inflight, granted>>
      BY <2>3 DEF Passes, rowVars, schedVars
    <3>4. GateHolds'
      BY <1>t, <2>c, <3>1, <3>2, <3>3 DEF TypeOK
    <3> QED BY <1>t, <3>3, <3>4
  <2>4. CASE ParkBlocked(c)
    <3>1. UNCHANGED history /\ inflight' \subseteq inflight
      BY <2>4 DEF ParkBlocked, Release
    <3>2. c.cmd \in Cmd
      BY <2>4 DEF ParkBlocked, IInv, OutcomeInv
    <3>3. GateHolds'
      BY <1>t, <3>1 DEF history
    <3>4. ApprovalInv'
      BY <1>t, <2>4, <2>c, <3>1, <3>2 DEF ParkBlocked, TypeOK, history
    <3>5. ApprovalIsSpent'
      BY <1>t, <2>4, <2>c DEF ParkBlocked, TypeOK
    <3> QED BY <3>3, <3>4, <3>5
  <2>5. CASE Finish(c)
    <3>1. PICK s \in FinalStatus(c.outcome) : status' = [status EXCEPT ![c.task] = s]
      BY <2>5 DEF Finish
    <3>2. s # "pending_approval"
      BY <1>t, <1>3, <2>5 DEF Finish, FinalStatus, ScanVerdict, TypeOK, Coroutine, Outcome, IInv, OutcomeInv
    <3>3. inflight' \subseteq inflight /\ UNCHANGED <<blockedCmd, history>>
      BY <2>5 DEF Finish, Release
    <3>4. hint' = [hint EXCEPT ![c.task] = FALSE]
      BY <2>5 DEF Finish
    <3> QED BY <1>t, <1>r, <2>c, <3>1, <3>2, <3>3, <3>4 DEF TypeOK
  <2>6. CASE RunError(c)
    <3>1. inflight' \subseteq inflight /\ UNCHANGED <<blockedCmd, history>>
      BY <2>6 DEF RunError, Release
    <3>2. \A t \in Task : (hint'[t] => hint[t]) /\ status'[t] \in {status[t], "failed"}
      BY <1>t, <2>c, <2>6 DEF RunError, TypeOK
    <3> QED BY <1>r, <3>1, <3>2
  <2>7. CASE SkipRun(c)
    BY <2>7, <1>r DEF SkipRun, Release, rowVars
  <2>8. CASE CrashBetweenCommits(c)
    <3>1. inflight' \subseteq inflight /\ UNCHANGED <<status, blockedCmd, history>>
      BY <2>8 DEF CrashBetweenCommits, Die
    <3>2. \A t \in Task : hint'[t] => hint[t]
      BY <1>t, <2>c, <2>8 DEF CrashBetweenCommits, TypeOK
    <3> QED BY <1>r, <3>1, <3>2
  <2> QED
    BY <1>3, <2>1, <2>2, <2>3, <2>4, <2>5, <2>6, <2>7, <2>8
       DEF RunStep, AgentExits, Timeout, SeesCancel, Blocks, Outcome
<1>4. ASSUME NEW t \in Task, TaskRequest(t) PROVE Chain'
  <2>1. CASE CancelQueued(t) \/ Deny(t)
    BY <1>t, <1>r, <2>1 DEF CancelQueued, Deny, schedVars, TypeOK
  <2>2. CASE Confirm(t)
    BY <1>t, <1>r, <2>2 DEF Confirm, schedVars, TypeOK
  <2>3. CASE CancelRunning(t)
    <3>1. PICK c \in inflight : Becomes(c, [c EXCEPT !.asked = TRUE])
      BY <2>3, CancelMarksRun
    <3> DEFINE d == [c EXCEPT !.asked = TRUE]
    <3>2. d.task = c.task /\ d.exempt = c.exempt /\ c.task \in Task
      BY <1>t DEF TypeOK, Coroutine
    <3>3. Becomes(c, d) /\ UNCHANGED <<status, blockedCmd, hint, history>>
      BY <2>3, <3>1 DEF CancelRunning, rowVars
    <3> HIDE DEF d
    <3> QED BY <1>t, <1>b, <3>2, <3>3
  <2>4. CASE Approve(t)
    <3>1. /\ granted' = [granted EXCEPT ![t] = @ \cup {blockedCmd[t]}]
          /\ hint' = [hint EXCEPT ![t] = TRUE]
          /\ status' = [status EXCEPT ![t] = "queued"]
          /\ UNCHANGED <<blockedCmd, passed, inflight>>
      BY <2>4 DEF Approve, Push
    <3>2. \A u \in Task : granted[u] \subseteq granted'[u]
      BY <1>t, <3>1 DEF TypeOK
    <3>3. blockedCmd[t] \in granted'[t]
      BY <1>t, <3>1 DEF TypeOK
    <3>4. GateHolds'
      BY <1>t, <3>1, <3>2
    <3>5. ApprovalInv'
      <4>1. \A c \in inflight : c.task \in Task
        BY <1>t DEF TypeOK, Coroutine
      <4>2. \A c \in inflight : c.exempt \in granted'[c.task] \cup {None}
        BY <1>t, <3>2, <4>1
      <4> QED BY <1>t, <3>1, <3>2, <3>3, <4>2 DEF TypeOK
    <3>6. ApprovalIsSpent'
      BY <1>t, <3>1 DEF TypeOK
    <3> QED BY <3>4, <3>5, <3>6
  <2> QED BY <1>4, <2>1, <2>2, <2>3, <2>4 DEF TaskRequest
<1>5. CASE Sweep
  <2>1. \A t \in Task : status'[t] = status[t]
                        \/ (status[t] \in {"review", "pending_approval"} /\ status'[t] = "done")
    BY <1>5 DEF Sweep, Sweepable
  <2>2. UNCHANGED <<blockedCmd, hint, history, inflight>>
    BY <1>5 DEF Sweep, schedVars
  <2> QED BY <1>t, <1>r, <2>1, <2>2
<1>6. CASE Recover
  <2>1. \A t \in Task : status'[t] \in {status[t], "queued"}
    BY <1>6 DEF Recover
  <2> QED BY <1>r, <1>6, <2>1 DEF Recover
<1>7. CASE Age \/ Crash \/ UNCHANGED vars
  BY <1>r, <1>7 DEF Age, Crash, Die, vars, rowVars, schedVars
<1> QED BY <1>1, <1>2, <1>3, <1>4, <1>5, <1>6, <1>7 DEF Next
-----------------------------------------------------------------------------
(* Theorems of the specification.                                          *)

\* The invariant is inductive, so it holds in every reachable state.
THEOREM Invariance == Spec => []IInv
<1>1. Init => IInv
  BY InitIInv
<1>2. IInv /\ [Next]_vars => IInv'
  <2> SUFFICES ASSUME IInv, [Next]_vars PROVE IInv'
    OBVIOUS
  <2> QED BY TypeStep, PlaceStep, SlotStep, RunningStep, OutcomeStep, CancelStep, ChainStep
             DEF IInv, Place, Chain
<1> QED BY <1>1, <1>2, PTL DEF Spec

\* Every variable of the relay keeps its type.
THEOREM TypeCorrect == Spec => []TypeOK
<1>1. IInv => TypeOK
  BY DEF IInv
<1> QED BY <1>1, Invariance, PTL

\* Slots of Scheduler: the active counter counts the coroutines in flight, at
\* most RELAY_MAX_CONCURRENT; and at most so many rows are running.
THEOREM SlotsBounded == Spec => [](SlotAccounting /\ AtMostMaxRunning)
<1>1. IInv => SlotAccounting /\ AtMostMaxRunning
  BY DEF IInv
<1> QED BY <1>1, Invariance, PTL

\* No queued or running row of a live process is forgotten by the scheduler, and
\* none is scheduled twice.
THEOREM ScheduledExactlyOnce == Spec => [](NoOrphan /\ ScheduledOnce)
<1>1. IInv => NoOrphan /\ ScheduledOnce
  BY DEF IInv
<1> QED BY <1>1, Invariance, PTL

\* A cancel of a running task always reaches the event its run polls.
THEOREM CancelAlwaysReaches == Spec => []CancelReaches
<1>1. IInv => CancelReaches
  BY DEF IInv
<1> QED BY <1>1, Invariance, PTL

\* A high-risk command passes only under an approval of this task that covers it,
\* and a run that parks or completes leaves no approval behind.
THEOREM GateSafe == Spec => [](GateHolds /\ ApprovalIsSpent)
<1>1. IInv => GateHolds /\ ApprovalIsSpent
  BY DEF IInv
<1> QED BY <1>1, Invariance, PTL

\* At no time does the table show more running rows than there are slots.
THEOREM RunningBounded == Spec => []AtMostMaxRunning
<1>1. IInv => AtMostMaxRunning
  BY DEF IInv
<1> QED BY <1>1, Invariance, PTL

\* Over the heap and the coroutines a task occurs at most once, whatever was
\* cancelled, approved again or rebuilt after a crash.
THEOREM EachScheduledOnce == Spec => []ScheduledOnce
<1>1. IInv => ScheduledOnce
  BY DEF IInv
<1> QED BY <1>1, Invariance, PTL

\* No resume_hint outlives the run that its approval resumed.
THEOREM ApprovalsSpent == Spec => []ApprovalIsSpent
<1>1. IInv => ApprovalIsSpent
  BY DEF IInv
<1> QED BY <1>1, Invariance, PTL

-----------------------------------------------------------------------------
(* The refinement.                                                         *)

LEMMA LifeInitial == Init => Lifecycle!LifeInit
  BY DEF Init, Lifecycle!LifeInit

\* Every step of the relay is, for each task, a step of its lifecycle or none.
LEMMA LifeStep == IInv /\ [Next]_vars => [Lifecycle!LifeNext]_(Lifecycle!lifeVars)
<1> SUFFICES ASSUME IInv, [Next]_vars, NEW t \in Task
             PROVE  \/ Lifecycle!Move(t) \/ Lifecycle!Approval(t)
                    \/ Lifecycle!Passage(t) \/ Lifecycle!Rest(t)
  BY DEF Lifecycle!LifeNext
<1> DEFINE Goal == \/ Lifecycle!Move(t) \/ Lifecycle!Approval(t)
                   \/ Lifecycle!Passage(t) \/ Lifecycle!Rest(t)
<1>t. TypeOK
  BY DEF IInv
<1>m. ASSUME status'[t] \in Lifecycle!MayBecome[status[t]], UNCHANGED history PROVE Goal
  BY <1>m DEF history, Lifecycle!Move, Lifecycle!Keeps
<1>r. ASSUME status'[t] = status[t], UNCHANGED history PROVE Goal
  BY <1>r DEF history, Lifecycle!Rest, Lifecycle!Keeps
<1>x. /\ Lifecycle!MayBecome["none"] = {"queued"}
      /\ Lifecycle!MayBecome["queued"] = {"running", "cancelled", "failed"}
      /\ Lifecycle!MayBecome["running"] =
            {"queued", "review", "conflict", "pending_approval", "done", "failed", "cancelled"}
      /\ Lifecycle!MayBecome["review"] = {"done", "conflict"}
      /\ Lifecycle!MayBecome["conflict"] = {"done"}
      /\ Lifecycle!MayBecome["pending_approval"] = {"done", "failed"}
  BY DEF Lifecycle!MayBecome, Lifecycle!Parked, Lifecycle!Final
<1> HIDE DEF Goal
<1>1. ASSUME NEW p \in {0, 1}, Submit(p) PROVE Goal
  BY <1>t, <1>m, <1>r, <1>x, <1>1 DEF Submit, TypeOK
<1>2. ASSUME NEW c \in inflight, RunStep(c) PROVE Goal
  <2>c. c \in Coroutine /\ c.task \in Task
    BY <1>t DEF TypeOK, Coroutine
  <2>s. status[c.task] \in IF c.phase = "created" THEN {"queued", "cancelled"}
                                                ELSE {"running"}
    BY DEF IInv, OccurrenceInv
  <2>1. CASE SkipRun(c) \/ AgentExits(c) \/ Timeout(c) \/ SeesCancel(c) \/ Blocks(c)
    BY <1>r, <2>1 DEF SkipRun, AgentExits, Timeout, SeesCancel, Blocks, Ends, rowVars
  <2>2. CASE StartRun(c)
    BY <1>t, <1>m, <1>r, <1>x, <2>c, <2>2 DEF StartRun, TypeOK
  <2>3. CASE Passes(c)
    <3>1. PICK k \in Cmd : Exempt(k, c.exempt) /\ passed' = [passed EXCEPT ![c.task] = @ \cup {k}]
      BY <2>3 DEF Passes
    <3>2. status[c.task] = "running"
      BY <2>s, <2>3 DEF Passes
    <3>3. c.exempt \in granted[c.task] /\ k \in Covers[c.exempt]
      BY <3>1 DEF Exempt, IInv, ApprovalInv
    <3>4. UNCHANGED <<status, granted>>
      BY <2>3 DEF Passes, rowVars
    <3>5. CASE t = c.task
      <4>1. Lifecycle!Passage(t)
        BY <1>t, <3>1, <3>2, <3>3, <3>4, <3>5
           DEF TypeOK, Lifecycle!Passage, Lifecycle!Keeps
      <4> QED BY <4>1 DEF Goal
    <3>6. CASE t # c.task
      <4>1. Lifecycle!Rest(t)
        BY <1>t, <3>1, <3>4, <3>6 DEF TypeOK, Lifecycle!Rest, Lifecycle!Keeps
      <4> QED BY <4>1 DEF Goal
    <3> QED BY <3>5, <3>6
  <2>4. CASE ParkBlocked(c)
    BY <1>t, <1>m, <1>r, <1>x, <2>c, <2>s, <2>4 DEF ParkBlocked, TypeOK
  <2>5. CASE Finish(c)
    <3>1. PICK s \in FinalStatus(c.outcome) : status' = [status EXCEPT ![c.task] = s]
      BY <2>5 DEF Finish
    <3>2. s \in {"done", "review", "conflict", "failed", "cancelled"}
      BY <2>c, <2>5 DEF Finish, FinalStatus, ScanVerdict, Coroutine, Outcome, IInv, OutcomeInv
    <3> QED BY <1>t, <1>m, <1>r, <1>x, <2>c, <2>s, <2>5, <3>1, <3>2 DEF Finish, TypeOK
  <2>6. CASE RunError(c)
    BY <1>t, <1>m, <1>r, <1>x, <2>c, <2>s, <2>6 DEF RunError, TypeOK
  <2>7. CASE CrashBetweenCommits(c)
    BY <1>r, <2>7 DEF CrashBetweenCommits, Die
  <2> QED BY <1>2, <2>1, <2>2, <2>3, <2>4, <2>5, <2>6, <2>7 DEF RunStep
<1>3. ASSUME NEW u \in Task, TaskRequest(u) PROVE Goal
  <2>1. CASE CancelQueued(u) \/ Deny(u)
    BY <1>t, <1>m, <1>r, <1>x, <2>1 DEF CancelQueued, Deny, TypeOK
  <2>2. CASE CancelRunning(u)
    BY <1>r, <2>2 DEF CancelRunning, rowVars
  <2>3. CASE Confirm(u)
    BY <1>t, <1>m, <1>r, <1>x, <2>3 DEF Confirm, TypeOK
  <2>4. CASE Approve(u)
    <3>1. blockedCmd[u] \in Cmd
      BY <2>4 DEF Approve, IInv, ApprovalInv
    <3>2. CASE t = u
      <4>1. Lifecycle!Approval(t)
        BY <1>t, <2>4, <3>1, <3>2 DEF Approve, TypeOK, Lifecycle!Approval, Lifecycle!Keeps
      <4> QED BY <4>1 DEF Goal
    <3>3. CASE t # u
      <4>1. Lifecycle!Rest(t)
        BY <1>t, <2>4, <3>3 DEF Approve, TypeOK, Lifecycle!Rest, Lifecycle!Keeps
      <4> QED BY <4>1 DEF Goal
    <3> QED BY <3>2, <3>3
  <2> QED BY <1>3, <2>1, <2>2, <2>3, <2>4 DEF TaskRequest
<1>4. ASSUME Sweep PROVE Goal
  <2>1. UNCHANGED history
    BY <1>4 DEF Sweep
  <2>2. CASE t \in Sweepable
    <3>1. status[t] \in {"review", "pending_approval"} /\ status'[t] = "done"
      BY <1>4, <2>2 DEF Sweep, Sweepable
    <3> QED BY <1>m, <1>x, <2>1, <3>1
  <2>3. CASE t \notin Sweepable
    <3>1. status'[t] = status[t]
      BY <1>4, <2>3 DEF Sweep
    <3> QED BY <1>r, <2>1, <3>1
  <2> QED BY <2>2, <2>3
<1>5. ASSUME Recover PROVE Goal
  <2>1. UNCHANGED history
    BY <1>5 DEF Recover
  <2>2. status'[t] = IF status[t] \in {"queued", "running"} THEN "queued" ELSE status[t]
    BY <1>5 DEF Recover
  <2> QED BY <1>m, <1>r, <1>x, <2>1, <2>2
<1>6. ASSUME Dispatch \/ Age \/ Crash \/ UNCHANGED vars PROVE Goal
  <2>1. status' = status /\ UNCHANGED history
    BY <1>6 DEF Dispatch, Age, Crash, Die, vars, rowVars
  <2> QED BY <1>r, <2>1
<1> QED BY <1>1, <1>2, <1>3, <1>4, <1>5, <1>6 DEF Next, Goal

\* Relay implements TaskLifecycle: whatever requests, runs, sweeps, crashes and
\* restarts interleave, each task moves only as its lifecycle says.
THEOREM Refinement == Spec => ImplementsLifecycle
<1>1. Spec => []IInv
  BY Invariance
<1> QED BY <1>1, LifeInitial, LifeStep, PTL DEF Spec, ImplementsLifecycle, Lifecycle!LifeSpec
=============================================================================
