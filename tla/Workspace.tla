------------------------------ MODULE Workspace ------------------------------
(***************************************************************************)
(* The files behind the tasks: app/workspace.py with the parts of          *)
(* run_task, _check_conflicts and the handlers of app/main.py that use it. *)
(* Agents of several running tasks write the shared area directly; what a  *)
(* task changed is found afterwards, by comparing the area with a baseline *)
(* taken when the run was prepared.                                        *)
(*                                                                         *)
(* The queue, slots and cancel events are left to Relay.tla: here any      *)
(* queued task may start. The time window of the conflict check is taken   *)
(* to contain all the tasks, files matched as volatile are not in File,    *)
(* and two backups never have the same user and minute in their names.     *)
(*                                                                         *)
(* RivalsInReview, SavedFromDisk and BlockCleans are                       *)
(* faulty forms of the definition after them, used to test the properties  *)
(* (README, "Mutants").                                                    *)
(***************************************************************************)
EXTENDS Integers, FiniteSets

CONSTANTS
    MaxTasks,       \* bound: rows ever created
    File,           \* the paths under the shared area and the targets
    Resumable,      \* requests may name an earlier task in resume_from
    MaxVersion,     \* bound: versions ever written
    MaxRuns,        \* bound: runs of one task
    MaxCrash        \* bound: restarts of the service

ASSUME MaxTasksAssumption == MaxTasks \in Nat
ASSUME ResumableAssumption == Resumable \in BOOLEAN

VARIABLES
    \* rows of the tasks table
    status, resumeFrom, readOnly,
    hint,           \* the resume_hint column is not empty
    workdir,        \* the workdir column: the task whose directory it is, 0 if unset
    changed,        \* the changed_files column
    finished,       \* the finished_at column is set
    conflicts,      \* the conflicts column: pairs <<file, with_task>>
    \* files
    disk,           \* the shared area: each file's version, 0 when there is none
    baseline,       \* <workdir>/.baseline.json
    result,         \* <workdir>/.result/<file>
    homes, datas,   \* the workdirs that have their home/, their data/
    backups,        \* the .bak files: [file, of, version]
    \* memory of the process
    cwd,            \* the directory a running task's agent was started in
    \* history
    versions,       \* number of versions written so far
    wrote,          \* the task that wrote the version on disk, 0 if none of them
    settled,        \* the tasks whose run completed its last commit
    seen,           \* for each of them, the tasks settled before
    kept,           \* the versions the last scan of the task stored in .result
    runs, crashes

rows == <<status, resumeFrom, readOnly, hint, workdir, changed, finished, conflicts>>
files == <<disk, baseline, result, homes, datas, backups>>
history == <<versions, wrote, settled, seen, kept, runs>>
vars == <<rows, files, cwd, history, crashes>>

Task == 1..MaxTasks
TERMINAL == {"done", "conflict", "failed", "cancelled"}
Status == {"none", "queued", "running", "review", "pending_approval"} \cup TERMINAL
Versions == 0..MaxVersion
Empty == [f \in File |-> 0]

Init ==
    /\ status = [t \in Task |-> "none"]
    /\ resumeFrom = [t \in Task |-> 0] /\ readOnly = [t \in Task |-> FALSE]
    /\ hint = [t \in Task |-> FALSE]
    /\ workdir = [t \in Task |-> 0] /\ changed = [t \in Task |-> {}]
    /\ finished = [t \in Task |-> FALSE] /\ conflicts = [t \in Task |-> {}]
    /\ disk \in [File -> {0, 1}]
    /\ baseline = [t \in Task |-> Empty] /\ result = [t \in Task |-> Empty]
    /\ homes = {} /\ datas = {} /\ backups = {}
    /\ cwd = [t \in Task |-> 0]
    /\ versions = 1 /\ wrote = [f \in File |-> 0]
    /\ settled = {}
    /\ seen = [t \in Task |-> {}]
    /\ kept = [t \in Task |-> {}]
    /\ runs = [t \in Task |-> 0] /\ crashes = 0

-----------------------------------------------------------------------------
(* Runs.                                                                   *)

Submit(t, p, ro) ==
    /\ status[t] = "none"
    /\ \A u \in Task : u < t => status[u] # "none"
    /\ p = 0 \/ (Resumable /\ p \in Task /\ status[p] # "none")
    /\ status' = [status EXCEPT ![t] = "queued"]
    /\ resumeFrom' = [resumeFrom EXCEPT ![t] = p]
    /\ readOnly' = [readOnly EXCEPT ![t] = ro]
    /\ UNCHANGED <<hint, workdir, changed, finished, conflicts, files, cwd, history, crashes>>

\* The directory run_task asks prepare to reuse, 0 for none: the task's own when
\* an approval resumes it, otherwise that of the task it resumes, if it has one.
ReuseDir(t) ==
    IF hint[t] THEN workdir[t]
    ELSE IF resumeFrom[t] # 0 THEN workdir[resumeFrom[t]] ELSE 0

\* run_task up to the start of the agent, with Workspace.prepare.
Start(t) ==
    LET reuse == ReuseDir(t)
        d == IF reuse # 0 THEN reuse ELSE t
    IN  /\ status[t] = "queued"
        /\ runs[t] < MaxRuns
        /\ homes' = homes \cup {d}
        /\ datas' = IF reuse # 0 THEN datas ELSE datas \cup {d}
        /\ baseline' = [baseline EXCEPT ![d] = disk]
        /\ workdir' = [workdir EXCEPT ![t] = IF @ = 0 THEN d ELSE @]
        /\ cwd' = [cwd EXCEPT ![t] = d]
        /\ status' = [status EXCEPT ![t] = "running"]
        /\ runs' = [runs EXCEPT ![t] = @ + 1]
        /\ UNCHANGED <<resumeFrom, readOnly, hint, changed, finished, conflicts, disk, result,
                       backups, versions, wrote, settled, seen, kept, crashes>>

\* An agent writes a new version of a file, or deletes it.
AgentWrites(t, f) ==
    /\ status[t] = "running"
    /\ \/ /\ versions < MaxVersion
          /\ versions' = versions + 1
          /\ disk' = [disk EXCEPT ![f] = versions + 1]
          /\ wrote' = [wrote EXCEPT ![f] = t]
       \/ /\ disk[f] # 0
          /\ disk' = [disk EXCEPT ![f] = 0]
          /\ wrote' = [wrote EXCEPT ![f] = 0]
          /\ UNCHANGED versions
    /\ UNCHANGED <<rows, baseline, result, homes, datas, backups, cwd, settled, seen, kept,
                   runs, crashes>>

\* Workspace.scan: what differs from the baseline in the row's directory.
Differs(t) == {f \in File : disk[f] # baseline[workdir[t]][f]}
Overwritten(t) == {f \in Differs(t) : baseline[workdir[t]][f] # 0}

\* The scan copies the files it found, as they are now, into .result ...
Copied(t) == [f \in File |-> IF f \in Differs(t) /\ disk[f] # 0 THEN disk[f]
                                                    ELSE result[workdir[t]][f]]

\* ... and commits changed_files.
Scan(t) ==
    /\ result' = [result EXCEPT ![workdir[t]] = Copied(t)]
    /\ changed' = [changed EXCEPT ![t] = Differs(t)]
    /\ kept' = [kept EXCEPT ![t] = {<<f, disk[f]>> : f \in {g \in Differs(t) : disk[g] # 0}}]

RivalsInReview(t, f) ==
    {u \in Task \ {t} : f \in changed[u] /\ status[u] \in {"review", "conflict"}}

\* _check_conflicts: the other tasks that changed f, cancelled ones left out.
Rivals(t, f) == {u \in Task \ {t} : f \in changed[u] /\ status[u] # "cancelled"}

\* The pairs that go into the row's own list.
Found(t) == {p \in Differs(t) \X Task : p[2] \in Rivals(t, p[1])}

\* Every rival's list gets the pair back.
LinkedBack(t) == [u \in Task |-> conflicts[u]
                                   \cup {<<f, t>> : f \in {g \in File : <<g, u>> \in Found(t)}}]

SavedFromDisk(t) ==
    {[file |-> p[1], of |-> p[2], version |-> disk[p[1]]] :
        p \in {q \in Found(t) : finished[q[2]] /\ disk[q[1]] # 0}}

\* backup_version for the rivals that finished: the copy in their .result, read
\* after the scan has written its own copies.
Saved(t) ==
    LET now == [result EXCEPT ![workdir[t]] = Copied(t)]
    IN  {[file |-> p[1], of |-> p[2], version |-> now[workdir[p[2]]][p[1]]] :
            p \in {q \in Found(t) : finished[q[2]] /\ now[workdir[q[2]]][q[1]] # 0}}

Cleaned(t) == IF workdir[t] = 0 THEN t ELSE workdir[t]

\* cleanup_terminal: home/ and data/ of the row's directory.
Cleanup(t) == homes' = homes \ {Cleaned(t)} /\ datas' = datas \ {Cleaned(t)}
NoCleanup == UNCHANGED <<homes, datas>>

SpendHint(t) == hint' = [hint EXCEPT ![t] = FALSE]
Stops(t) == cwd' = [cwd EXCEPT ![t] = 0]

\* The status run_task decides on for outcome o.
FinalStatus(t, o) ==
    CASE o = "cancelled" -> "cancelled"
      [] o = "error" -> "failed"
      [] o = "ok" ->
            IF Found(t) # {} \/ (readOnly[t] /\ Overwritten(t) # {}) THEN "conflict"
            ELSE IF Differs(t) = {} THEN "done" ELSE "review"

\* The final commit of run_task, for a status s.
Commit(t, s) ==
    /\ status' = [status EXCEPT ![t] = s]
    /\ finished' = [finished EXCEPT ![t] = TRUE]
    /\ conflicts' = [LinkedBack(t) EXCEPT ![t] = Found(t)]
    /\ settled' = settled \cup {t} /\ seen' = [seen EXCEPT ![t] = settled]

\* run_task after its last await, for a run the gate did not stop.
Finish(t, o) ==
    /\ status[t] = "running"
    /\ SpendHint(t) /\ Scan(t)
    /\ backups' = backups \cup Saved(t)
    /\ Commit(t, FinalStatus(t, o))
    /\ IF FinalStatus(t, o) \in TERMINAL THEN Cleanup(t) ELSE NoCleanup
    /\ Stops(t)
    /\ UNCHANGED <<resumeFrom, readOnly, workdir, disk, baseline, versions, wrote, runs, crashes>>

BlockCleans(t) ==
    /\ status[t] = "running"
    /\ SpendHint(t) /\ Stops(t) /\ Cleanup(t)
    /\ status' = [status EXCEPT ![t] = "pending_approval"]
    /\ UNCHANGED <<resumeFrom, readOnly, workdir, changed, finished, conflicts, disk, baseline,
                   result, backups, history, crashes>>

\* The gate stopped the run: no scan.
Block(t) ==
    /\ status[t] = "running"
    /\ SpendHint(t) /\ Stops(t)
    /\ status' = [status EXCEPT ![t] = "pending_approval"]
    /\ UNCHANGED <<resumeFrom, readOnly, workdir, changed, finished, conflicts, files, history,
                   crashes>>

\* run_task raised: _on_run_error, no scan either.
RunError(t) ==
    /\ status[t] = "running"
    /\ status' = [status EXCEPT ![t] = "failed"]
    /\ finished' = [finished EXCEPT ![t] = TRUE]
    /\ Cleanup(t) /\ Stops(t)
    /\ UNCHANGED <<resumeFrom, readOnly, hint, workdir, changed, conflicts, disk, baseline,
                   result, backups, history, crashes>>

-----------------------------------------------------------------------------
(* Handlers and the sweeper.                                               *)

\* A handler that only changes the status: approve, deny, cancel of a queued task.
Approve(t) ==
    /\ status[t] = "pending_approval"
    /\ status' = [status EXCEPT ![t] = "queued"]
    /\ hint' = [hint EXCEPT ![t] = TRUE]
    /\ UNCHANGED <<resumeFrom, readOnly, workdir, changed, finished, conflicts, files, cwd,
                   history, crashes>>

Deny(t) ==
    /\ status[t] = "pending_approval"
    /\ status' = [status EXCEPT ![t] = "failed"]
    /\ finished' = [finished EXCEPT ![t] = TRUE]
    /\ UNCHANGED <<resumeFrom, readOnly, hint, workdir, changed, conflicts, files, cwd,
                   history, crashes>>

CancelQueued(t) ==
    /\ status[t] = "queued"
    /\ status' = [status EXCEPT ![t] = "cancelled"]
    /\ UNCHANGED <<resumeFrom, readOnly, hint, workdir, changed, finished, conflicts, files, cwd,
                   history, crashes>>

\* The row is over, its directory cleaned: confirm, and a sweep of the row.
Confirm(t) ==
    /\ status[t] \in {"review", "conflict"}
    /\ \E o \in {"done", "conflict"} : status' = [status EXCEPT ![t] = o]
    /\ Cleanup(t)
    /\ UNCHANGED <<resumeFrom, readOnly, hint, workdir, changed, finished, conflicts, disk,
                   baseline, result, backups, cwd, history, crashes>>

Sweep(t) ==
    /\ status[t] \in {"review", "pending_approval"}
    /\ status' = [status EXCEPT ![t] = "done"]
    /\ finished' = [finished EXCEPT ![t] = TRUE]
    /\ Cleanup(t)
    /\ UNCHANGED <<resumeFrom, readOnly, hint, workdir, changed, conflicts, disk, baseline,
                   result, backups, cwd, history, crashes>>

-----------------------------------------------------------------------------
(* Restarts: the rows in s that were running are queued again.             *)

Requeued(s) == [t \in Task |-> IF s[t] = "running" THEN "queued" ELSE s[t]]

Dies ==
    /\ crashes < MaxCrash
    /\ crashes' = crashes + 1
    /\ cwd' = [t \in Task |-> 0]

Restart ==
    /\ Dies
    /\ status' = Requeued(status)
    /\ UNCHANGED <<resumeFrom, readOnly, hint, workdir, changed, finished, conflicts, files,
                   history>>

\* A restart inside Finish: after the first commit; after the scan's; after the
\* backups and the other rows' lists; after the last, before the cleanup.
RestartInFinish(t) ==
    /\ status[t] = "running"
    /\ SpendHint(t)
    /\ Dies
    /\ \/ status' = Requeued(status)
          /\ UNCHANGED <<result, changed, kept, backups, conflicts, finished, settled, seen>>
       \/ status' = Requeued(status)
          /\ Scan(t)
          /\ UNCHANGED <<backups, conflicts, finished, settled, seen>>
       \/ status' = Requeued(status)
          /\ Scan(t)
          /\ backups' = backups \cup Saved(t)
          /\ conflicts' = LinkedBack(t)
          /\ UNCHANGED <<finished, settled, seen>>
       \/ /\ Scan(t)
          /\ backups' = backups \cup Saved(t)
          /\ \E o \in {"ok", "error", "cancelled"} :
                status' = Requeued([status EXCEPT ![t] = FinalStatus(t, o)])
          /\ finished' = [finished EXCEPT ![t] = TRUE]
          /\ conflicts' = [LinkedBack(t) EXCEPT ![t] = Found(t)]
          /\ settled' = settled \cup {t} /\ seen' = [seen EXCEPT ![t] = settled]
    /\ UNCHANGED <<resumeFrom, readOnly, workdir, disk, baseline, homes, datas, versions, wrote,
                   runs>>

-----------------------------------------------------------------------------
TaskStep(t) ==
    \/ Start(t) \/ \E f \in File : AgentWrites(t, f)
    \/ \E o \in {"ok", "error", "cancelled"} : Finish(t, o)
    \/ Block(t) \/ RunError(t)
    \/ Approve(t) \/ Deny(t) \/ CancelQueued(t) \/ Confirm(t) \/ Sweep(t)
    \/ RestartInFinish(t)

Next ==
    \/ \E t \in Task, p \in 0..MaxTasks, ro \in BOOLEAN : Submit(t, p, ro)
    \/ \E t \in Task : TaskStep(t)
    \/ Restart

Spec == Init /\ [][Next]_vars

-----------------------------------------------------------------------------
(* Properties.                                                             *)

\* Every variable has its type; a backup is of a file that existed.
TypeOK ==
    /\ status \in [Task -> Status]
    /\ resumeFrom \in [Task -> 0..MaxTasks]
    /\ readOnly \in [Task -> BOOLEAN] /\ hint \in [Task -> BOOLEAN]
    /\ workdir \in [Task -> 0..MaxTasks] /\ cwd \in [Task -> 0..MaxTasks]
    /\ changed \in [Task -> SUBSET File]
    /\ finished \in [Task -> BOOLEAN]
    /\ conflicts \in [Task -> SUBSET (File \X Task)]
    /\ disk \in [File -> Versions]
    /\ baseline \in [Task -> [File -> Versions]]
    /\ result \in [Task -> [File -> Versions]]
    /\ homes \subseteq Task /\ datas \subseteq Task
    /\ backups \subseteq [file : File, of : Task, version : Versions \ {0}]
    /\ versions \in Versions
    /\ wrote \in [File -> 0..MaxTasks]
    /\ settled \subseteq Task /\ seen \in [Task -> SUBSET Task]
    /\ kept \in [Task -> SUBSET (File \X Versions)]
    /\ runs \in [Task -> 0..MaxRuns]
    /\ crashes \in 0..MaxCrash

\* The task neither resumes another nor is resumed by one: nobody shares its
\* directory.
Alone(t) == resumeFrom[t] = 0 /\ \A u \in Task : resumeFrom[u] # t

Clash(t, u, f) ==
    /\ t \in settled /\ u \in seen[t]
    /\ status[t] # "cancelled" /\ status[u] # "cancelled"
    /\ f \in changed[t] \cap changed[u]

\* Two tasks that changed the same file point at each other, and the later one
\* is not offered for review as if it were alone; whatever sweeps, confirms,
\* reruns and restarts (inside a half-done check too) came in between.
ConflictsMutual ==
    \A t, u \in Task, f \in File :
        Clash(t, u, f) => /\ <<f, u>> \in conflicts[t]
                          /\ <<f, t>> \in conflicts[u]
                          /\ status[t] # "review"

\* What the earlier task of a clash delivered is backed up as it was: no version
\* that a completed task recorded is overwritten without a copy.
EarlierVersionSaved ==
    \A t, u \in Task, f \in File, v \in Versions :
        (Clash(t, u, f) /\ Alone(u) /\ <<f, v>> \in kept[u]) =>
            [file |-> f, of |-> u, version |-> v] \in backups

\* While the agent of a task runs, it runs in the directory the row names and has
\* its home and its data there: a run resumed by an approval finds the session
\* that the blocked run left, and no cleanup of its own takes either away.  A task
\* that shares its directory with another through resume_from is left out: that
\* one's confirm or sweep does take them away (workspace.py:87).
SessionKept ==
    \A t \in Task :
        (status[t] = "running" /\ Alone(t)) =>
            cwd[t] = workdir[t] /\ cwd[t] \in homes \cap datas

\* A run may end its task as done, for nobody to review, only if the shared area
\* holds no version that this task's agent wrote.
AutoDoneIsIdle ==
    [][\A t \in Task : (status[t] = "running" /\ status'[t] = "done") =>
          t \notin {wrote[f] : f \in File}]_vars

\* Every backup of a task's version is a version that task recorded.
BackupIsEarlierVersion ==
    \A b \in backups : <<b.file, b.version>> \in kept[b.of]
=============================================================================
