--------------------------- MODULE WorkspaceProofs ---------------------------
(***************************************************************************)
(* The files behind the tasks, for any number of tasks, files, versions,   *)
(* runs and restarts: clashes are on record on both sides, the version of  *)
(* the task that came first is saved, and a resumed run finds its session. *)
(***************************************************************************)
EXTENDS Workspace, TLAPS

\* The types the proofs need.
Typed ==
    /\ DOMAIN status = Task /\ DOMAIN workdir = Task /\ DOMAIN cwd = Task
    /\ DOMAIN changed = Task /\ DOMAIN finished = Task /\ DOMAIN conflicts = Task
    /\ DOMAIN result = Task /\ DOMAIN seen = Task /\ DOMAIN kept = Task
    /\ resumeFrom \in [Task -> 0..MaxTasks]
    /\ settled \subseteq Task

AtRest == {"done", "review", "conflict", "failed", "cancelled"}

\* A settled task never runs again, and it has seen only settled ones.
SettledInv ==
    /\ \A t \in settled : status[t] \in AtRest /\ finished[t]
    /\ \A t \in settled : seen[t] \subseteq settled \ {t}

\* Whoever is in another task's directory got there through a task that
\* resumed that one.
DirsInv ==
    /\ \A t \in Task : status[t] = "none" => resumeFrom[t] = 0 /\ workdir[t] = 0
    /\ \A t \in Task : workdir[t] \notin {0, t} =>
          resumeFrom[t] # 0 /\ \E v \in Task : resumeFrom[v] = workdir[t]

\* What a task's last scan kept is in its own .result, unless the directory
\* is shared.
KeptInv ==
    \A u \in Task : Alone(u) =>
        \A f \in File, v \in Versions :
            <<f, v>> \in kept[u] => workdir[u] = u /\ result[u][f] = v /\ v # 0

\* A task that may run again has its home and its data.
Unfinished == {"queued", "running", "pending_approval"}
SessionInv ==
    \A t \in Task :
        (Alone(t) /\ status[t] \in Unfinished /\ workdir[t] # 0) => t \in homes \cap datas

\* The agent of a running task is in the directory of its row.
RunningInv ==
    \A t \in Task : status[t] = "running" =>
        workdir[t] # 0 /\ (Alone(t) => cwd[t] = workdir[t])

IInv ==
    /\ Typed /\ SettledInv /\ DirsInv /\ KeptInv /\ SessionInv /\ RunningInv
    /\ ConflictsMutual /\ EarlierVersionSaved

USE MaxTasksAssumption DEF rows, files, history

\* A fresh service satisfies the invariant.
LEMMA InitIInv == Init => IInv
<1> SUFFICES ASSUME Init PROVE IInv
  OBVIOUS
<1>1. Typed /\ SettledInv /\ DirsInv
  BY DEF Init, Typed, SettledInv, DirsInv, Status, Task
<1>2. KeptInv /\ SessionInv /\ RunningInv
  BY DEF Init, KeptInv, SessionInv, RunningInv, Unfinished, Task
<1>3. ConflictsMutual /\ EarlierVersionSaved
  BY DEF Init, ConflictsMutual, EarlierVersionSaved, Clash
<1> QED
  BY <1>1, <1>2, <1>3 DEF IInv

\* Every action keeps the types.
LEMMA TypedStep == ASSUME Typed, [Next]_vars PROVE Typed'
<1> USE DEF Typed
<1>1. ASSUME NEW t \in Task, NEW p \in 0..MaxTasks, NEW ro \in BOOLEAN, Submit(t, p, ro)
      PROVE  Typed'
  BY <1>1 DEF Submit
<1>2. ASSUME NEW t \in Task, Start(t) PROVE Typed'
  BY <1>2 DEF Start
<1>3. ASSUME NEW t \in Task, NEW f \in File, AgentWrites(t, f) PROVE Typed'
  BY <1>3 DEF AgentWrites
<1>4. ASSUME NEW t \in Task PROVE DOMAIN LinkedBack(t) = Task
  BY DEF LinkedBack
<1>5. ASSUME NEW t \in Task, NEW o \in {"ok", "error", "cancelled"}, Finish(t, o) PROVE Typed'
  BY <1>4, <1>5 DEF Finish, Scan, Commit, Stops
<1>6. ASSUME NEW t \in Task, Block(t) \/ RunError(t) PROVE Typed'
  BY <1>6 DEF Block, RunError, Stops
<1>7. ASSUME NEW t \in Task, Approve(t) \/ Deny(t) \/ CancelQueued(t) PROVE Typed'
  BY <1>7 DEF Approve, Deny, CancelQueued
<1>8. ASSUME NEW t \in Task, Confirm(t) \/ Sweep(t) PROVE Typed'
  BY <1>8 DEF Confirm, Sweep
<1>9. CASE Restart
  BY <1>9 DEF Restart, Dies, Requeued
<1>10. ASSUME NEW t \in Task, RestartInFinish(t) PROVE Typed'
  BY <1>4, <1>10 DEF RestartInFinish, Scan, Dies, Requeued
<1>11. CASE UNCHANGED vars
  BY <1>11 DEF vars
<1> USE DEF Next, TaskStep
<1> HIDE DEF Typed
<1> QED
  BY <1>1, <1>2, <1>3, <1>5, <1>6, <1>7, <1>8, <1>9, <1>10, <1>11

\* A run ends in a status at rest, and one that settles had been running.
LEMMA FinalAtRest ==
    ASSUME NEW t \in Task, NEW o \in {"ok", "error", "cancelled"}
    PROVE  FinalStatus(t, o) \in AtRest
BY DEF FinalStatus, AtRest

\* Settled tasks rest.
LEMMA SettledStep == ASSUME Typed, SettledInv, [Next]_vars PROVE SettledInv'
<1> USE DEF SettledInv, AtRest
<1>1. ASSUME NEW t \in Task, NEW p \in 0..MaxTasks, NEW ro \in BOOLEAN, Submit(t, p, ro)
      PROVE  SettledInv'
  BY <1>1 DEF Submit, Typed
<1>2. ASSUME NEW t \in Task, Start(t) PROVE SettledInv'
  BY <1>2 DEF Start, Typed
<1>3. ASSUME NEW t \in Task, NEW f \in File, AgentWrites(t, f) PROVE SettledInv'
  BY <1>3 DEF AgentWrites
<1>4. ASSUME NEW t \in Task, NEW o \in {"ok", "error", "cancelled"}, Finish(t, o) PROVE SettledInv'
  BY <1>4, FinalAtRest DEF Finish, Commit, Typed
<1>5. ASSUME NEW t \in Task, Block(t) \/ RunError(t) PROVE SettledInv'
  BY <1>5 DEF Block, RunError, Typed
<1>6. ASSUME NEW t \in Task, Approve(t) \/ Deny(t) \/ CancelQueued(t) PROVE SettledInv'
  BY <1>6 DEF Approve, Deny, CancelQueued, Typed
<1>7. ASSUME NEW t \in Task, Confirm(t) \/ Sweep(t) PROVE SettledInv'
  BY <1>7 DEF Confirm, Sweep, Typed
<1>8. CASE Restart
  BY <1>8 DEF Restart, Requeued, Typed
<1>9. ASSUME NEW t \in Task, RestartInFinish(t) PROVE SettledInv'
  <2>1. CASE UNCHANGED <<settled, seen, finished>> /\ status' = Requeued(status)
    BY <2>1 DEF Requeued, Typed
  <2>2. CASE /\ \E o \in {"ok", "error", "cancelled"} :
                  status' = Requeued([status EXCEPT ![t] = FinalStatus(t, o)])
             /\ finished' = [finished EXCEPT ![t] = TRUE]
             /\ settled' = settled \cup {t} /\ seen' = [seen EXCEPT ![t] = settled]
    BY <1>9, <2>2, FinalAtRest DEF Requeued, Typed, RestartInFinish
  <2> QED
    BY <1>9, <2>1, <2>2 DEF RestartInFinish
<1>10. CASE UNCHANGED vars
  BY <1>10 DEF vars
<1> QED
  BY <1>1, <1>2, <1>3, <1>4, <1>5, <1>6, <1>7, <1>8, <1>9, <1>10 DEF Next, TaskStep

\* Nobody begins to be alone: a request names the task it resumes once.
LEMMA AloneStep ==
    ASSUME Typed, DirsInv, [Next]_vars, NEW u \in Task, Alone(u)'
    PROVE  Alone(u)
<1>1. ASSUME NEW t \in Task, NEW p \in 0..MaxTasks, NEW ro \in BOOLEAN, Submit(t, p, ro)
      PROVE  Alone(u)
  BY <1>1 DEF Submit, Typed, DirsInv, Alone, Task
<1>2. CASE UNCHANGED resumeFrom
  BY <1>2 DEF Alone
<1>3. ASSUME NEW t \in Task, TaskStep(t) PROVE UNCHANGED resumeFrom
  BY <1>3 DEF TaskStep, Start, AgentWrites, Finish, Block, RunError, Approve, Deny, CancelQueued,
              Confirm, Sweep, RestartInFinish
<1>4. CASE Restart
  BY <1>2, <1>4 DEF Restart
<1>5. CASE UNCHANGED vars
  BY <1>2, <1>5 DEF vars
<1> QED
  BY <1>1, <1>2, <1>3, <1>4, <1>5 DEF Next

\* Nobody else is in the directory of a task that is alone.
LEMMA AloneInDir ==
    ASSUME Typed, DirsInv, NEW u \in Task, Alone(u), NEW t \in Task, workdir[t] = u
    PROVE  t = u
BY DEF DirsInv, Alone, Task

\* ... and it is in its own.
LEMMA AloneAtHome ==
    ASSUME Typed, DirsInv, NEW u \in Task, Alone(u)
    PROVE  workdir[u] \in {0, u}
BY DEF DirsInv, Alone

\* Directories are shared only through resume_from.
LEMMA DirsStep == ASSUME Typed, DirsInv, RunningInv, [Next]_vars PROVE DirsInv'
<1>1. ASSUME NEW t \in Task, NEW p \in 0..MaxTasks, NEW ro \in BOOLEAN, Submit(t, p, ro)
      PROVE  DirsInv'
  BY <1>1 DEF Submit, Typed, DirsInv, Task
<1>2. ASSUME NEW t \in Task, Start(t) PROVE DirsInv'
  <2> DEFINE d == IF ReuseDir(t) # 0 THEN ReuseDir(t) ELSE t
  <2>1. d # t => resumeFrom[t] # 0 /\ \E v \in Task : resumeFrom[v] = d
    <3>1. CASE hint[t]
      BY <3>1 DEF ReuseDir, DirsInv
    <3>2. CASE ~hint[t] /\ resumeFrom[t] # 0
      <4>1. resumeFrom[t] \in Task
        BY <3>2 DEF Typed, Task
      <4> QED
        BY <3>2, <4>1 DEF ReuseDir, DirsInv
    <3> QED
      BY <3>1, <3>2 DEF ReuseDir
  <2>2. /\ status' = [status EXCEPT ![t] = "running"] /\ resumeFrom' = resumeFrom
        /\ workdir' = [workdir EXCEPT ![t] = IF @ = 0 THEN d ELSE @]
    BY <1>2 DEF Start
  <2> HIDE DEF d
  <2> QED
    BY <2>1, <2>2 DEF DirsInv, Typed
<1>3. CASE /\ UNCHANGED <<workdir, resumeFrom>>
           /\ \A t \in Task : status'[t] = "none" => status[t] = "none"
  BY <1>3 DEF DirsInv
<1>4. ASSUME NEW t \in Task, TaskStep(t), ~Start(t)
      PROVE  /\ UNCHANGED <<workdir, resumeFrom>>
             /\ \A u \in Task : status'[u] = "none" => status[u] = "none"
  <2>1. UNCHANGED <<workdir, resumeFrom>>
    BY <1>4 DEF TaskStep, AgentWrites, Finish, Block, RunError, Approve, Deny, CancelQueued,
                Confirm, Sweep, RestartInFinish
  <2>2. \A o \in {"ok", "error", "cancelled"} : FinalStatus(t, o) # "none"
    BY FinalAtRest DEF AtRest
  <2>3. ASSUME RestartInFinish(t) PROVE \A u \in Task : status'[u] = "none" => status[u] = "none"
    BY <2>2, <2>3 DEF RestartInFinish, Requeued, Typed
  <2> QED
    BY <1>4, <2>1, <2>2, <2>3
       DEF TaskStep, AgentWrites, Finish, Commit, Block, RunError, Approve, Deny, CancelQueued,
           Confirm, Sweep, Typed
<1>5. CASE Restart
  BY <1>3, <1>5 DEF Restart, Requeued, Typed
<1>6. CASE UNCHANGED vars
  BY <1>3, <1>6 DEF vars
<1> QED
  BY <1>1, <1>2, <1>3, <1>4, <1>5, <1>6 DEF Next

\* Only the end of a run touches what scans recorded.
LEMMA OnlyRunsScan ==
    ASSUME [Next]_vars
    PROVE  \/ UNCHANGED <<changed, kept, result>>
           \/ \E t \in Task : status[t] = "running" /\ Scan(t) /\ UNCHANGED workdir
<1>1. ASSUME NEW t \in Task, TaskStep(t)
      PROVE  \/ UNCHANGED <<changed, kept, result>>
             \/ status[t] = "running" /\ Scan(t) /\ UNCHANGED workdir
  <2>1. CASE \E o \in {"ok", "error", "cancelled"} : Finish(t, o)
    BY <2>1 DEF Finish
  <2>2. CASE RestartInFinish(t)
    BY <2>2 DEF RestartInFinish
  <2> QED
    BY <1>1, <2>1, <2>2 DEF TaskStep, Start, AgentWrites, Block, RunError, Approve, Deny,
                            CancelQueued, Confirm, Sweep
<1> QED
  BY <1>1 DEF Next, Submit, Restart, vars

\* Only the start of a run sets a task's directory.
LEMMA OnlyStartsSetDirs ==
    ASSUME [Next]_vars
    PROVE  UNCHANGED workdir \/ \E t \in Task : Start(t)
BY DEF Next, vars, TaskStep, Submit, Restart, AgentWrites, Finish, Block, RunError, Approve, Deny,
       CancelQueued, Confirm, Sweep, RestartInFinish

\* What a scan kept stays in .result.
LEMMA KeptStep ==
    ASSUME Typed, DirsInv, RunningInv, KeptInv, [Next]_vars
    PROVE  KeptInv'
<1> SUFFICES ASSUME NEW u \in Task, Alone(u)', NEW f \in File, NEW v \in Versions,
                    <<f, v>> \in kept'[u]
             PROVE  workdir'[u] = u /\ result'[u][f] = v /\ v # 0
  BY DEF KeptInv, Versions
<1>1. Alone(u)
  BY AloneStep
<1>2. CASE UNCHANGED <<changed, kept, result>>
  <2>1. workdir[u] = u /\ result[u][f] = v /\ v # 0
    BY <1>1, <1>2 DEF KeptInv
  <2>2. workdir'[u] = u
    <3>1. ASSUME NEW t \in Task, Start(t) PROVE workdir'[u] = u
      BY <2>1, <3>1 DEF Start, Typed, Task
    <3> QED
      BY <2>1, <3>1, OnlyStartsSetDirs
  <2> QED
    BY <1>2, <2>1, <2>2
<1>3. ASSUME NEW t \in Task, status[t] = "running", Scan(t), UNCHANGED workdir
      PROVE  workdir'[u] = u /\ result'[u][f] = v /\ v # 0
  <2>1. CASE t = u
    <3>1. workdir[u] = u
      BY <1>1, <1>3, <2>1, AloneAtHome DEF RunningInv
    <3>2. f \in Differs(u) /\ disk[f] = v /\ v # 0
      BY <1>3, <2>1 DEF Scan, Typed
    <3>3. result'[u] = Copied(u)
      BY <1>3, <2>1, <3>1 DEF Scan, Typed
    <3> QED
      BY <1>3, <3>1, <3>2, <3>3 DEF Copied
  <2>2. CASE t # u
    <3>1. workdir[t] # u
      BY <1>1, <2>2, AloneInDir
    <3>2. kept'[u] = kept[u] /\ result'[u] = result[u]
      BY <1>3, <2>2, <3>1 DEF Scan, Typed
    <3> QED
      BY <1>1, <1>3, <3>2 DEF KeptInv
  <2> QED
    BY <2>1, <2>2
<1> QED
  BY <1>2, <1>3, OnlyRunsScan

\* A cleanup takes no directory that somebody still needs.
LEMMA CleanupSpares ==
    ASSUME Typed, DirsInv, NEW t \in Task, Cleanup(t), NEW u \in Task, Alone(u), u # t,
           u \in homes \cap datas
    PROVE  u \in homes' \cap datas'
<1>1. Cleaned(t) # u
  BY AloneInDir DEF Cleaned
<1> QED
  BY <1>1 DEF Cleanup

\* A task that may run again keeps its home and its data.
LEMMA SessionStep ==
    ASSUME Typed, DirsInv, SessionInv, RunningInv, [Next]_vars
    PROVE  SessionInv'
<1> SUFFICES ASSUME NEW u \in Task, Alone(u)', status'[u] \in Unfinished, workdir'[u] # 0
             PROVE  u \in homes' \cap datas'
  BY DEF SessionInv
<1>0. Alone(u)
  BY AloneStep
<1>1. CASE /\ UNCHANGED <<homes, datas>> /\ workdir'[u] = workdir[u]
           /\ status[u] \in Unfinished
  BY <1>0, <1>1 DEF SessionInv
<1>2. ASSUME NEW t \in Task, NEW p \in 0..MaxTasks, NEW ro \in BOOLEAN, Submit(t, p, ro)
      PROVE  u \in homes' \cap datas'
  BY <1>1, <1>2 DEF Submit, Typed, DirsInv
<1>3. ASSUME NEW t \in Task, Start(t) PROVE u \in homes' \cap datas'
  <2>1. homes \subseteq homes' /\ datas \subseteq datas'
    BY <1>3 DEF Start
  <2>2. CASE t # u
    BY <1>0, <1>3, <2>1, <2>2 DEF Start, SessionInv, Typed
  <2>3. CASE t = u
    <3>1. resumeFrom[u] = 0 /\ status[u] \in Unfinished
      BY <1>0, <1>3, <2>3 DEF Alone, Start, Unfinished
    <3>2. ReuseDir(u) \in {0, u}
      BY <1>0, <3>1, AloneAtHome DEF ReuseDir
    <3>3. CASE ReuseDir(u) = 0
      BY <1>3, <2>3, <3>3 DEF Start
    <3>4. CASE ReuseDir(u) = u
      <4>1. u # 0
        BY DEF Task
      <4>2. workdir[u] = u
        BY <3>1, <3>4, <4>1 DEF ReuseDir
      <4> QED
        BY <1>0, <2>1, <3>1, <4>1, <4>2 DEF SessionInv
    <3> QED
      BY <3>2, <3>3, <3>4
  <2> QED
    BY <2>2, <2>3
<1>4. ASSUME NEW t \in Task, NEW o \in {"ok", "error", "cancelled"}, Finish(t, o)
      PROVE  u \in homes' \cap datas'
  <2>1. u # t
    BY <1>4, FinalAtRest DEF Finish, Commit, Typed, AtRest, Unfinished
  <2>2. status'[u] = status[u] /\ workdir'[u] = workdir[u]
    BY <1>4, <2>1 DEF Finish, Commit, Typed
  <2>3. u \in homes \cap datas
    BY <1>0, <2>2 DEF SessionInv
  <2> QED
    BY <1>0, <1>4, <2>1, <2>3, CleanupSpares DEF Finish, NoCleanup
<1>5. ASSUME NEW t \in Task, RunError(t) \/ Confirm(t) \/ Sweep(t)
      PROVE  u \in homes' \cap datas'
  <2>1. u # t
    BY <1>5 DEF RunError, Confirm, Sweep, Typed, Unfinished
  <2>2. status'[u] = status[u] /\ workdir'[u] = workdir[u]
    BY <1>5, <2>1 DEF RunError, Confirm, Sweep, Typed
  <2>3. u \in homes \cap datas
    BY <1>0, <2>2 DEF SessionInv
  <2> QED
    BY <1>0, <1>5, <2>1, <2>3, CleanupSpares DEF RunError, Confirm, Sweep
<1>6. ASSUME NEW t \in Task, \/ \E f \in File : AgentWrites(t, f)
                             \/ Block(t) \/ Approve(t) \/ Deny(t) \/ CancelQueued(t)
      PROVE  u \in homes' \cap datas'
  BY <1>1, <1>6 DEF AgentWrites, Block, Approve, Deny, CancelQueued, Typed, Unfinished
<1>7. CASE Restart
  BY <1>1, <1>7 DEF Restart, Requeued, Typed, Unfinished
<1>8. ASSUME NEW t \in Task, RestartInFinish(t) PROVE u \in homes' \cap datas'
  <2>1. UNCHANGED <<homes, datas, workdir>> /\ status[t] = "running"
    BY <1>8 DEF RestartInFinish
  <2>2. \A o \in {"ok", "error", "cancelled"} : FinalStatus(t, o) \notin Unfinished \cup {"running"}
    BY FinalAtRest DEF AtRest, Unfinished
  <2>3. status[u] \in Unfinished
    BY <1>8, <2>1, <2>2 DEF RestartInFinish, Requeued, Typed, Unfinished
  <2> QED
    BY <1>1, <2>1, <2>3
<1>9. CASE UNCHANGED vars
  BY <1>1, <1>9 DEF vars
<1> QED
  BY <1>2, <1>3, <1>4, <1>5, <1>6, <1>7, <1>8, <1>9 DEF Next, TaskStep

\* The agent of a running task works in the directory of its row.
LEMMA RunningStep ==
    ASSUME Typed, DirsInv, RunningInv, [Next]_vars
    PROVE  RunningInv'
<1> SUFFICES ASSUME NEW u \in Task, status'[u] = "running"
             PROVE  workdir'[u] # 0 /\ (Alone(u)' => cwd'[u] = workdir'[u])
  BY DEF RunningInv
<1>0. Alone(u)' => Alone(u)
  BY AloneStep
<1>1. CASE status[u] = "running" /\ workdir'[u] = workdir[u] /\ cwd'[u] = cwd[u]
  BY <1>0, <1>1 DEF RunningInv
<1>2. ASSUME NEW t \in Task, NEW p \in 0..MaxTasks, NEW ro \in BOOLEAN, Submit(t, p, ro)
      PROVE  workdir'[u] # 0 /\ (Alone(u)' => cwd'[u] = workdir'[u])
  BY <1>1, <1>2 DEF Submit, Typed
<1>3. ASSUME NEW t \in Task, Start(t)
      PROVE  workdir'[u] # 0 /\ (Alone(u)' => cwd'[u] = workdir'[u])
  <2>1. CASE t # u
    BY <1>1, <1>3, <2>1 DEF Start, Typed
  <2>2. CASE t = u
    <3> DEFINE d == IF ReuseDir(u) # 0 THEN ReuseDir(u) ELSE u
    <3>1. d # 0
      BY DEF Task
    <3>2. Alone(u) => d = u /\ workdir[u] \in {0, u}
      BY AloneAtHome DEF ReuseDir, Alone
    <3>3. cwd'[u] = d /\ workdir'[u] = IF workdir[u] = 0 THEN d ELSE workdir[u]
      BY <1>3, <2>2 DEF Start, Typed
    <3> HIDE DEF d
    <3> QED
      BY <1>0, <3>1, <3>2, <3>3
  <2> QED
    BY <2>1, <2>2
<1>4. ASSUME NEW t \in Task, NEW o \in {"ok", "error", "cancelled"}, Finish(t, o)
      PROVE  workdir'[u] # 0 /\ (Alone(u)' => cwd'[u] = workdir'[u])
  <2>1. u # t
    BY <1>4, FinalAtRest DEF Finish, Commit, Typed, AtRest
  <2> QED
    BY <1>1, <1>4, <2>1 DEF Finish, Commit, Stops, Typed
<1>5. ASSUME NEW t \in Task, Block(t) \/ RunError(t)
      PROVE  workdir'[u] # 0 /\ (Alone(u)' => cwd'[u] = workdir'[u])
  BY <1>1, <1>5 DEF Block, RunError, Stops, Typed
<1>6. ASSUME NEW t \in Task, \/ \E f \in File : AgentWrites(t, f)
                             \/ Approve(t) \/ Deny(t) \/ CancelQueued(t)
                             \/ Confirm(t) \/ Sweep(t)
      PROVE  workdir'[u] # 0 /\ (Alone(u)' => cwd'[u] = workdir'[u])
  BY <1>1, <1>6 DEF AgentWrites, Approve, Deny, CancelQueued, Confirm, Sweep, Typed
<1>7. CASE Restart
  BY <1>7 DEF Restart, Requeued
<1>8. ASSUME NEW t \in Task, RestartInFinish(t) PROVE FALSE
  BY <1>8 DEF RestartInFinish, Requeued, Typed
<1>9. CASE UNCHANGED vars
  BY <1>1, <1>9 DEF vars
<1> QED
  BY <1>2, <1>3, <1>4, <1>5, <1>6, <1>7, <1>8, <1>9 DEF Next, TaskStep

\* A run that settles leaves the records of its clashes: what it found is its
\* own list, every rival's list has it too, and the earlier versions are saved.
Settles(t) ==
    /\ status[t] = "running" /\ UNCHANGED workdir
    /\ Scan(t)
    /\ backups' = backups \cup Saved(t)
    /\ conflicts' = [LinkedBack(t) EXCEPT ![t] = Found(t)]
    /\ settled' = settled \cup {t} /\ seen' = [seen EXCEPT ![t] = settled]
    /\ \E o \in {"ok", "error", "cancelled"} : status'[t] = FinalStatus(t, o)
    /\ \A u \in Task \ {t} : u \in settled => status'[u] = status[u]

\* Every other step leaves the settled tasks and their records as they are,
\* but that a review may be confirmed or swept and lists may grow.
Keeps ==
    /\ UNCHANGED <<settled, seen>>
    /\ backups \subseteq backups'
    /\ \A u \in settled :
          /\ changed'[u] = changed[u] /\ kept'[u] = kept[u]
          /\ conflicts[u] \subseteq conflicts'[u]
          /\ status'[u] = "cancelled" <=> status[u] = "cancelled"
          /\ status'[u] = "review" => status[u] = "review"

LEMMA SettlesOrKeeps ==
    ASSUME Typed, SettledInv, [Next]_vars
    PROVE  Keeps \/ \E t \in Task : Settles(t)
<1> USE DEF SettledInv, AtRest
<1>1. ASSUME NEW t \in Task, NEW p \in 0..MaxTasks, NEW ro \in BOOLEAN, Submit(t, p, ro)
      PROVE  Keeps
  BY <1>1 DEF Submit, Keeps, Typed
<1>2. ASSUME NEW t \in Task, Start(t) PROVE Keeps
  BY <1>2 DEF Start, Keeps, Typed
<1>3. ASSUME NEW t \in Task, NEW f \in File, AgentWrites(t, f) PROVE Keeps
  BY <1>3 DEF AgentWrites, Keeps, Typed
<1>4. ASSUME NEW t \in Task, NEW o \in {"ok", "error", "cancelled"}, Finish(t, o) PROVE Settles(t)
  BY <1>4 DEF Finish, Commit, Settles, Typed
<1>5. ASSUME NEW t \in Task, Block(t) \/ RunError(t) PROVE Keeps
  BY <1>5 DEF Block, RunError, Keeps, Typed
<1>6. ASSUME NEW t \in Task, Approve(t) \/ Deny(t) \/ CancelQueued(t) PROVE Keeps
  BY <1>6 DEF Approve, Deny, CancelQueued, Keeps, Typed
<1>7. ASSUME NEW t \in Task, Confirm(t) \/ Sweep(t) PROVE Keeps
  BY <1>7 DEF Confirm, Sweep, Keeps, Typed
<1>8. CASE Restart
  BY <1>8 DEF Restart, Requeued, Keeps, Typed
<1>9. ASSUME NEW t \in Task, RestartInFinish(t) PROVE Keeps \/ Settles(t)
  <2>1. t \notin settled /\ status[t] = "running" /\ UNCHANGED workdir
    BY <1>9 DEF RestartInFinish
  <2>2. ASSUME Scan(t) PROVE \A u \in settled : changed'[u] = changed[u] /\ kept'[u] = kept[u]
    BY <2>1, <2>2 DEF Scan, Typed
  <2>3. \A u \in settled : conflicts[u] \subseteq LinkedBack(t)[u]
    BY DEF LinkedBack, Typed
  <2>4. CASE /\ status' = Requeued(status) /\ UNCHANGED <<settled, seen>>
             /\ backups \subseteq backups'
             /\ UNCHANGED <<changed, kept>> \/ Scan(t)
             /\ conflicts' = conflicts \/ conflicts' = LinkedBack(t)
    <3>1. \A u \in settled : status'[u] = status[u]
      BY <2>4 DEF Requeued, Typed
    <3>2. \A u \in settled : changed'[u] = changed[u] /\ kept'[u] = kept[u]
      BY <2>2, <2>4
    <3>3. \A u \in settled : conflicts[u] \subseteq conflicts'[u]
      BY <2>3, <2>4
    <3> QED
      BY <2>4, <3>1, <3>2, <3>3 DEF Keeps
  <2>5. CASE /\ Scan(t) /\ backups' = backups \cup Saved(t)
             /\ \E o \in {"ok", "error", "cancelled"} :
                  status' = Requeued([status EXCEPT ![t] = FinalStatus(t, o)])
             /\ conflicts' = [LinkedBack(t) EXCEPT ![t] = Found(t)]
             /\ settled' = settled \cup {t} /\ seen' = [seen EXCEPT ![t] = settled]
    <3>1. PICK o \in {"ok", "error", "cancelled"} :
             status' = Requeued([status EXCEPT ![t] = FinalStatus(t, o)])
      BY <2>5
    <3>2. FinalStatus(t, o) # "running"
      BY FinalAtRest
    <3>3. status'[t] = FinalStatus(t, o)
      BY <3>1, <3>2 DEF Requeued, Typed
    <3>4. \A u \in Task \ {t} : u \in settled => status'[u] = status[u]
      BY <3>1 DEF Requeued, Typed
    <3> QED
      BY <2>1, <2>5, <3>3, <3>4 DEF Settles
  <2> QED
    BY <1>9, <2>4, <2>5 DEF RestartInFinish
<1>10. CASE UNCHANGED vars
  BY <1>10 DEF vars, Keeps
<1> QED
  BY <1>1, <1>2, <1>3, <1>4, <1>5, <1>6, <1>7, <1>8, <1>9, <1>10 DEF Next, TaskStep

\* What a settling run records of the others' work.
LEMMA ClashWithSettling ==
    ASSUME Typed, SettledInv, NEW t \in Task, Settles(t),
           NEW u \in Task, NEW f \in File, Clash(t, u, f)'
    PROVE  /\ u \in settled /\ u # t
           /\ <<f, u>> \in Found(t) /\ <<f, t>> \in conflicts'[u]
           /\ status'[t] # "review"
<1>1. t \notin settled /\ seen'[t] = settled /\ u \in settled /\ u # t
  BY DEF Clash, Settles, SettledInv, AtRest, Typed
<1>2. f \in Differs(t) /\ f \in changed[u]
  BY <1>1 DEF Clash, Settles, Scan, Typed
<1>3. status[u] # "cancelled" /\ status'[t] # "cancelled"
  BY <1>1 DEF Clash, Settles
<1>4. <<f, u>> \in Found(t)
  BY <1>1, <1>2, <1>3 DEF Found, Rivals
<1>5. <<f, t>> \in conflicts'[u]
  <2>1. conflicts'[u] = LinkedBack(t)[u]
    BY <1>1 DEF Settles, LinkedBack
  <2>2. <<f, t>> \in LinkedBack(t)[u]
    BY <1>4 DEF LinkedBack
  <2> QED
    BY <2>1, <2>2
<1>6. status'[t] # "review"
  <2>1. PICK o \in {"ok", "error", "cancelled"} : status'[t] = FinalStatus(t, o)
    BY DEF Settles
  <2>2. Found(t) # {} => FinalStatus(t, o) # "review"
    BY DEF FinalStatus
  <2> QED
    BY <1>4, <2>1, <2>2
<1> QED
  BY <1>1, <1>4, <1>5, <1>6

\* Clashes stay on record.
LEMMA ConflictsStep ==
    ASSUME Typed, SettledInv, ConflictsMutual, [Next]_vars
    PROVE  ConflictsMutual'
<1> SUFFICES ASSUME NEW t \in Task, NEW u \in Task, NEW f \in File, Clash(t, u, f)'
             PROVE  /\ <<f, u>> \in conflicts'[t] /\ <<f, t>> \in conflicts'[u]
                    /\ status'[t] # "review"
  BY DEF ConflictsMutual
<1>1. CASE Keeps
  <2>1. Clash(t, u, f)
    BY <1>1 DEF Keeps, Clash, SettledInv
  <2> QED
    BY <1>1, <2>1 DEF Keeps, Clash, ConflictsMutual, SettledInv
<1>2. ASSUME NEW s \in Task, Settles(s), s = t
      PROVE  /\ <<f, u>> \in conflicts'[t] /\ <<f, t>> \in conflicts'[u]
             /\ status'[t] # "review"
  <2>1. conflicts'[t] = Found(t)
    BY <1>2 DEF Settles, LinkedBack
  <2> QED
    BY <1>2, <2>1, ClashWithSettling
<1>3. ASSUME NEW s \in Task, Settles(s), s # t
      PROVE  /\ <<f, u>> \in conflicts'[t] /\ <<f, t>> \in conflicts'[u]
             /\ status'[t] # "review"
  <2>1. t \in settled /\ u \in settled /\ u # s /\ s \notin settled
    BY <1>3 DEF Clash, Settles, SettledInv, AtRest, Typed
  <2>2. Clash(t, u, f)
    BY <1>3, <2>1 DEF Clash, Settles, Scan, Typed
  <2>3. conflicts[t] \subseteq conflicts'[t] /\ conflicts[u] \subseteq conflicts'[u]
    BY <1>3, <2>1 DEF Settles, LinkedBack
  <2>4. status'[t] = status[t]
    BY <1>3, <2>1 DEF Settles
  <2> QED
    BY <2>2, <2>3, <2>4 DEF ConflictsMutual
<1> QED
  BY <1>1, <1>2, <1>3, SettlesOrKeeps

\* Versions stay saved, and those of new clashes are.
LEMMA SavedStep ==
    ASSUME Typed, SettledInv, DirsInv, KeptInv, EarlierVersionSaved, [Next]_vars
    PROVE  EarlierVersionSaved'
<1> SUFFICES ASSUME NEW t \in Task, NEW u \in Task, NEW f \in File, NEW v \in Versions,
                    Clash(t, u, f)', Alone(u)', <<f, v>> \in kept'[u]
             PROVE  [file |-> f, of |-> u, version |-> v] \in backups'
  BY DEF EarlierVersionSaved, Versions
<1>0. Alone(u)
  BY AloneStep
<1>1. CASE Keeps
  <2>1. Clash(t, u, f) /\ kept'[u] = kept[u]
    BY <1>1 DEF Keeps, Clash, SettledInv
  <2> QED
    BY <1>0, <1>1, <2>1 DEF Keeps, EarlierVersionSaved
<1>2. ASSUME Settles(t) PROVE [file |-> f, of |-> u, version |-> v] \in backups'
  <2>1. u \in settled /\ u # t /\ <<f, u>> \in Found(t)
    BY <1>2, ClashWithSettling
  <2>2. kept'[u] = kept[u]
    BY <1>2, <2>1 DEF Settles, Scan
  <2>3. workdir[u] = u /\ result[u][f] = v /\ v # 0
    BY <1>0, <2>2 DEF KeptInv
  <2>4. workdir[t] # u
    BY <1>0, <2>1, AloneInDir
  <2> DEFINE now == [result EXCEPT ![workdir[t]] = Copied(t)]
             q == <<f, u>>
  <2>5. now[workdir[q[2]]][q[1]] = v
    BY <2>3, <2>4 DEF Typed
  <2>6. finished[q[2]]
    BY <2>1 DEF SettledInv
  <2>7. q \in {p \in Found(t) : finished[p[2]] /\ now[workdir[p[2]]][p[1]] # 0}
    BY <2>1, <2>3, <2>5, <2>6
  <2>8. [file |-> q[1], of |-> q[2], version |-> now[workdir[q[2]]][q[1]]] \in Saved(t)
    BY <2>7 DEF Saved
  <2> QED
    BY <1>2, <2>5, <2>8 DEF Settles
<1>3. ASSUME NEW s \in Task, Settles(s), s # t
      PROVE  [file |-> f, of |-> u, version |-> v] \in backups'
  <2>1. t \in settled /\ u \in settled /\ u # s /\ s \notin settled
    BY <1>3 DEF Clash, Settles, SettledInv, AtRest, Typed
  <2>2. Clash(t, u, f) /\ kept'[u] = kept[u]
    BY <1>3, <2>1 DEF Clash, Settles, Scan, Typed
  <2> QED
    BY <1>0, <1>3, <2>2 DEF Settles, EarlierVersionSaved
<1> QED
  BY <1>1, <1>2, <1>3, SettlesOrKeeps

-----------------------------------------------------------------------------
\* The inductive invariant holds in every state the service can reach (all
\* actions of Workspace, restarts inside the end of a run included).
THEOREM FilesInvariance == Spec => []IInv
<1>1. IInv /\ [Next]_vars => IInv'
  BY TypedStep, SettledStep, DirsStep, KeptStep, SessionStep, RunningStep, ConflictsStep, SavedStep
     DEF IInv
<1> QED
  BY InitIInv, <1>1, PTL DEF Spec

\* Two tasks that changed one file point at each other, and the later one is
\* not offered for review as if it were alone (_check_conflicts).
THEOREM ClashesOnRecord == Spec => []ConflictsMutual
<1>1. IInv => ConflictsMutual
  BY DEF IInv
<1> QED
  BY FilesInvariance, <1>1, PTL

\* What the earlier task of a clash delivered has a backup (backup_version),
\* when nobody shares its directory.
THEOREM EarlierSaved == Spec => []EarlierVersionSaved
<1>1. IInv => EarlierVersionSaved
  BY DEF IInv
<1> QED
  BY FilesInvariance, <1>1, PTL

\* A run finds the home and the data its task had (prepare, cleanup_terminal).
THEOREM SessionsKept == Spec => []SessionKept
<1>1. IInv => SessionKept
  <2> SUFFICES ASSUME IInv, NEW t \in Task, status[t] = "running", Alone(t)
               PROVE  cwd[t] = workdir[t] /\ cwd[t] \in homes \cap datas
    BY DEF SessionKept
  <2>1. workdir[t] # 0 /\ cwd[t] = workdir[t]
    BY DEF IInv, RunningInv
  <2>2. workdir[t] = t
    BY <2>1, AloneAtHome DEF IInv
  <2>3. t \in homes \cap datas
    BY <2>1 DEF IInv, SessionInv, Unfinished
  <2> QED
    BY <2>1, <2>2, <2>3
<1> QED
  BY FilesInvariance, <1>1, PTL
=============================================================================
