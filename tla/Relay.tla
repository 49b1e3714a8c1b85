-------------------------------- MODULE Relay --------------------------------
(***************************************************************************)
(* The core of the relay service: the life of every task across the HTTP   *)
(* handlers of app/main.py, the scheduler of app/scheduler.py, the agent   *)
(* runs of app/executor.py, the sweeper, and restarts of the process.      *)
(*                                                                         *)
(* The service is one asyncio loop and its database calls are synchronous, *)
(* so a handler is atomic between two awaits: every action below is a      *)
(* maximal piece of code without an await that yields. The points where a  *)
(* run does yield are the phases of its coroutine:                         *)
(*   "created"    create_task(_run_one) was called, the body has not begun *)
(*   "executing"  inside the read loop of Executor.run                     *)
(*   "ending"     the outcome is decided; the finally block of Executor.run*)
(*                still awaits proc.wait() and the stderr reader           *)
(* A crash may strike between any two actions and, because a run commits   *)
(* its result in two transactions, also between those two.                 *)
(*                                                                         *)
(* A definition that no action uses (SlotFreeOffByOne, EventNotMade, ...)  *)
(* is the faulty form of the one that follows it; a run with the           *)
(* faulty form in its place must fail (README, "Mutants").                 *)
(***************************************************************************)
EXTENDS Integers, FiniteSets

CONSTANTS
    MaxTasks,       \* bound: rows ever created
    Cmd,            \* the high-risk commands (Executor._is_blocked matches)
    Covers,         \* Covers[e]: commands Executor._exempt accepts for e
    None,           \* no command
    MaxConcurrent,  \* RELAY_MAX_CONCURRENT
    MaxSeq,         \* bound: heap insertions between two restarts
    MaxCrash        \* bound: crashes

ASSUME MaxTasksAssumption == MaxTasks \in Nat
ASSUME CoversAssumption == Covers \in [Cmd -> SUBSET Cmd]
ASSUME NoneAssumption == None \notin Cmd
ASSUME MaxConcurrentAssumption == MaxConcurrent \in Nat \ {0}

VARIABLES
    \* rows of the tasks table
    status,         \* the status column
    prio,           \* the priority column: 0 urgent, 1 normal
    blockedCmd,     \* the blocked_cmd column
    hint,           \* the resume_hint column is not empty
    old,            \* rows 1..old were created over RELAY_STALE_TIMEOUT_HOURS ago
    \* memory of the process
    up,             \* the process runs
    heap,           \* Scheduler._heap
    nextSeq,        \* Scheduler._seq
    active,         \* Scheduler._active
    inflight,       \* the coroutines in Scheduler._inflight
    cancelEv,       \* cancel_events
    \* history
    granted,        \* the commands a human approved, for each task
    passed,         \* the high-risk commands the gate let pass, for each task
    crashes

rowVars == <<status, prio, blockedCmd, hint, old>>
schedVars == <<heap, nextSeq, active, inflight>>
history == <<granted, passed>>
vars == <<rowVars, up, schedVars, cancelEv, history, crashes>>

Task == 1..MaxTasks

\* The states no code path leaves. (events.TERMINAL also has conflict, which
\* a confirm may still turn into done.)
Absorbing == {"done", "failed", "cancelled"}
Status == {"none", "queued", "running", "review", "conflict",
           "pending_approval"} \cup Absorbing
Phase == {"created", "executing", "ending"}
Outcome == {"none", "ok", "error", "blocked", "cancelled"}

\* A heap entry: the tuple (prio, seq, task_id) of Scheduler.submit.
Entry == [prio : {0, 1}, seq : Nat, task : Task]

\* A coroutine of run_task, identified by the seq of the entry it was popped from:
\* exempt is its exempt_cmd, outcome and cmd are the error and blocked_cmd of its
\* AgentResult. asked is history: a cancel request for the task was accepted
\* since this run began.
Coroutine == [seq : Nat, task : Task, phase : Phase, exempt : Cmd \cup {None},
              outcome : Outcome, cmd : Cmd \cup {None}, asked : BOOLEAN]

Init ==
    /\ status = [t \in Task |-> "none"]
    /\ prio = [t \in Task |-> 1]
    /\ blockedCmd = [t \in Task |-> None]
    /\ hint = [t \in Task |-> FALSE]
    /\ old = 0
    /\ up = TRUE
    /\ heap = {} /\ nextSeq = 0 /\ active = 0 /\ inflight = {}
    /\ cancelEv = [t \in Task |-> "absent"]
    /\ granted = [t \in Task |-> {}] /\ passed = [t \in Task |-> {}]
    /\ crashes = 0

-----------------------------------------------------------------------------
(* Scheduler.                                                              *)

\* Scheduler.submit: push and notify the worker.
Push(p, t) ==
    /\ nextSeq < MaxSeq
    /\ heap' = heap \cup {[prio |-> p, seq |-> nextSeq, task |-> t]}
    /\ nextSeq' = nextSeq + 1
    /\ UNCHANGED <<active, inflight>>

SlotFreeOffByOne == active <= MaxConcurrent
SlotFree == active < MaxConcurrent

Before(e, f) == e.prio < f.prio \/ (e.prio = f.prio /\ e.seq < f.seq)

Fresh(e) == [seq |-> e.seq, task |-> e.task, phase |-> "created", exempt |-> None,
             outcome |-> "none", cmd |-> None, asked |-> FALSE]

\* The body of Scheduler._loop: pop the least entry into a free slot and create
\* the coroutine that will run it.
Dispatch ==
    /\ up
    /\ SlotFree
    /\ \E e \in heap :
          /\ \A f \in heap \ {e} : Before(e, f)
          /\ heap' = heap \ {e}
          /\ inflight' = inflight \cup {Fresh(e)}
    /\ active' = active + 1
    /\ UNCHANGED <<rowVars, up, nextSeq, cancelEv, history, crashes>>

\* Coroutine c goes on as d.
Becomes(c, d) ==
    /\ inflight' = (inflight \ {c}) \cup {d}
    /\ UNCHANGED <<heap, nextSeq, active>>

\* The finally block of Scheduler._run_one: coroutine c is over, its slot free.
Release(c) ==
    /\ inflight' = inflight \ {c}
    /\ active' = active - 1
    /\ UNCHANGED <<heap, nextSeq>>

-----------------------------------------------------------------------------
(* One run: run_task and Executor.run.                                     *)

\* The exempt_cmd run_task passes on: only a run resumed by an approval, one
\* that finds a resume_hint, is exempted.
Exemption(t) == IF hint[t] THEN blockedCmd[t] ELSE None

StillQueuedUnchecked(c) == TRUE

\* run_task reads the row again before anything else.
StillQueued(c) == status[c.task] = "queued"

\* The entry was popped for a row that is no longer queued: return at once.
SkipRun(c) ==
    /\ c.phase = "created"
    /\ ~StillQueued(c)
    /\ Release(c)
    /\ UNCHANGED <<rowVars, up, cancelEv, history, crashes>>

EventNotMade(ev) == ev

\* cancel_events.setdefault: an event left in the map is used again as it is.
EventAtStart(ev) == IF ev = "absent" THEN "clear" ELSE ev

\* run_task up to its first await: the workspace is prepared, the cancel event
\* is created unless the map still holds one, the row becomes running.
StartRun(c) ==
    /\ c.phase = "created"
    /\ StillQueued(c)
    /\ status' = [status EXCEPT ![c.task] = "running"]
    /\ cancelEv' = [cancelEv EXCEPT ![c.task] = EventAtStart(@)]
    /\ Becomes(c, [c EXCEPT !.phase = "executing", !.exempt = Exemption(c.task)])
    /\ UNCHANGED <<prio, blockedCmd, hint, old, up, history, crashes>>

\* The read loop ends with outcome o (and, when blocked, command k).
Ends(c, o, k) ==
    /\ c.phase = "executing"
    /\ Becomes(c, [c EXCEPT !.phase = "ending", !.outcome = o, !.cmd = k])
    /\ UNCHANGED <<rowVars, up, cancelEv, history, crashes>>

\* End of the agent's output: exit code zero or not.
AgentExits(c) == Ends(c, "ok", None) \/ Ends(c, "error", None)

\* The deadline passed; tested right after the cancel event was found clear.
Timeout(c) == cancelEv[c.task] = "clear" /\ Ends(c, "error", None)

\* The top of the loop sees the cancel event set and kills the process tree.
SeesCancel(c) == cancelEv[c.task] = "set" /\ Ends(c, "cancelled", None)

Exempt(k, e) == e # None /\ k \in Covers[e]

\* The agent calls high-risk command k, which the run is not exempted for.
Blocks(c) == \E k \in Cmd : ~Exempt(k, c.exempt) /\ Ends(c, "blocked", k)

\* The agent calls high-risk command k and the exemption lets it pass.
Passes(c) ==
    /\ c.phase = "executing"
    /\ \E k \in Cmd : /\ Exempt(k, c.exempt)
                      /\ passed' = [passed EXCEPT ![c.task] = @ \cup {k}]
    /\ UNCHANGED <<rowVars, up, schedVars, cancelEv, granted, crashes>>

\* What the scan of the shared area decides for a run that ended without error:
\* no change, changes, or changes that clash with another task's.
ScanVerdict == {"done", "review", "conflict"}

\* The final status of a run that was not blocked.
FinalStatus(o) ==
    CASE o = "cancelled" -> {"cancelled"}
      [] o = "error" -> {"failed"}
      [] o = "ok" -> ScanVerdict

KeepHint(c) == UNCHANGED hint

\* The first commit of a run that ended: result, session and resume_hint="".
SpendHint(c) == hint' = [hint EXCEPT ![c.task] = FALSE]

\* run_task after its last await, for a run the gate stopped: the row waits for
\* an approval of the command. The cancel event stays in the map.
ParkBlocked(c) ==
    /\ c.phase = "ending" /\ c.outcome = "blocked"
    /\ SpendHint(c)
    /\ status' = [status EXCEPT ![c.task] = "pending_approval"]
    /\ blockedCmd' = [blockedCmd EXCEPT ![c.task] = c.cmd]
    /\ Release(c)
    /\ UNCHANGED <<prio, old, up, cancelEv, history, crashes>>

\* run_task after its last await, for any other run.
Finish(c) ==
    /\ c.phase = "ending" /\ c.outcome # "blocked"
    /\ SpendHint(c)
    /\ \E s \in FinalStatus(c.outcome) : status' = [status EXCEPT ![c.task] = s]
    /\ cancelEv' = [cancelEv EXCEPT ![c.task] = "absent"]
    /\ Release(c)
    /\ UNCHANGED <<prio, blockedCmd, old, up, history, crashes>>

\* run_task raised (prepare, the engine's start, the scan): _on_run_error. The
\* hint is already cleared when it is the scan that raised. (An audit line that
\* fails after the second commit leaves the rows of Finish or of this action.)
RunError(c) ==
    /\ \/ c.phase = "created" /\ StillQueued(c) /\ UNCHANGED hint
       \/ c.phase = "executing" /\ UNCHANGED hint
       \/ c.phase = "ending" /\ (UNCHANGED hint \/ SpendHint(c))
    /\ status' = [status EXCEPT ![c.task] = "failed"]
    /\ Release(c)
    /\ UNCHANGED <<prio, blockedCmd, old, up, cancelEv, history, crashes>>

-----------------------------------------------------------------------------
(* Handlers.                                                               *)

\* POST /tasks, once validation and the targets check let it through.
Submit(p) ==
    /\ up
    /\ \E t \in Task :
          /\ status[t] = "none"
          /\ \A u \in Task : u < t => status[u] # "none"    \* next row id
          /\ status' = [status EXCEPT ![t] = "queued"]
          /\ prio' = [prio EXCEPT ![t] = p]
          /\ Push(p, t)
    /\ UNCHANGED <<blockedCmd, hint, old, up, cancelEv, history, crashes>>

NotStarted(t) == status[t] = "queued"

\* POST /tasks/{id}/cancel. Before the start: the row only, the heap entry (or
\* the coroutine about to begin) stays.
CancelQueued(t) ==
    /\ up
    /\ NotStarted(t)
    /\ status' = [status EXCEPT ![t] = "cancelled"]
    /\ UNCHANGED <<prio, blockedCmd, hint, old, up, schedVars, cancelEv, history, crashes>>

\* While running: set the event, answer "cancelling".
CancelRunning(t) ==
    /\ up
    /\ status[t] = "running"
    /\ cancelEv' = [cancelEv EXCEPT ![t] = "set"]
    /\ inflight' = {IF c.task = t THEN [c EXCEPT !.asked = TRUE] ELSE c : c \in inflight}
    /\ UNCHANGED <<rowVars, up, heap, nextSeq, active, history, crashes>>

\* POST /tasks/{id}/confirm.
Confirm(t) ==
    /\ up
    /\ status[t] \in {"review", "conflict"}
    /\ \E o \in {"done", "conflict"} : status' = [status EXCEPT ![t] = o]
    /\ UNCHANGED <<prio, blockedCmd, hint, old, up, schedVars, cancelEv, history, crashes>>

AwaitsOrApproved(t) == status[t] \in {"pending_approval", "queued"}
AwaitsApproval(t) == status[t] = "pending_approval"

\* POST /tasks/{id}/approve, decision approve: back into the queue with a hint.
Approve(t) ==
    /\ up
    /\ AwaitsApproval(t)
    /\ status' = [status EXCEPT ![t] = "queued"]
    /\ hint' = [hint EXCEPT ![t] = TRUE]
    /\ granted' = [granted EXCEPT ![t] = @ \cup {blockedCmd[t]}]
    /\ Push(prio[t], t)
    /\ UNCHANGED <<prio, blockedCmd, old, up, cancelEv, passed, crashes>>

\* POST /tasks/{id}/approve, decision deny.
Deny(t) ==
    /\ up
    /\ AwaitsApproval(t)
    /\ status' = [status EXCEPT ![t] = "failed"]
    /\ UNCHANGED <<prio, blockedCmd, hint, old, up, schedVars, cancelEv, history, crashes>>

-----------------------------------------------------------------------------
(* Time, the sweeper, crashes.                                             *)

\* The clock reaches RELAY_STALE_TIMEOUT_HOURS after the creation of the next row.
Age ==
    /\ old + 1 \in Task
    /\ status[old + 1] # "none"
    /\ old' = old + 1
    /\ UNCHANGED <<status, prio, blockedCmd, hint, up, schedVars, cancelEv, history, crashes>>

SweepableReviews == {t \in Task : t <= old /\ status[t] = "review"}
Sweepable == {t \in Task : t <= old /\ status[t] \in {"review", "pending_approval"}}

\* One round of the sweeper, sweep_stale: every parked row that is old becomes done.
Sweep ==
    /\ up
    /\ Sweepable # {}
    /\ status' = [t \in Task |-> IF t \in Sweepable THEN "done" ELSE status[t]]
    /\ UNCHANGED <<prio, blockedCmd, hint, old, up, schedVars, cancelEv, history, crashes>>

\* The process dies (or is stopped): its memory is gone, the rows stay.
Die ==
    /\ up
    /\ crashes < MaxCrash
    /\ crashes' = crashes + 1
    /\ up' = FALSE
    /\ heap' = {} /\ nextSeq' = 0 /\ active' = 0 /\ inflight' = {}
    /\ cancelEv' = [t \in Task |-> "absent"]
    /\ UNCHANGED <<status, prio, old, history>>

Crash == Die /\ UNCHANGED <<blockedCmd, hint>>

SwappedCommits(c) ==
    /\ c.phase = "ending"
    /\ blockedCmd' = IF c.cmd = None THEN blockedCmd
                     ELSE [blockedCmd EXCEPT ![c.task] = c.cmd]
    /\ UNCHANGED hint
    /\ Die

\* The process dies between the two commits of a run that ended: the first one
\* (session, result, resume_hint="") is in the database, the second (status,
\* error, blocked_cmd) is not.
CrashBetweenCommits(c) ==
    /\ c.phase = "ending"
    /\ SpendHint(c)
    /\ UNCHANGED blockedCmd
    /\ Die

WaitingRunsOnly == {t \in Task : status[t] = "running"}
Waiting == {t \in Task : status[t] \in {"queued", "running"}}

\* The startup half of lifespan: rows left running become queued again, and all
\* queued rows are submitted in the order of their ids.
Recover ==
    /\ ~up
    /\ up' = TRUE
    /\ status' = [t \in Task |-> IF t \in Waiting THEN "queued" ELSE status[t]]
    /\ heap' = {[prio |-> prio[t],
                 seq |-> Cardinality({u \in Waiting : u < t}),
                 task |-> t] : t \in Waiting}
    /\ nextSeq' = Cardinality(Waiting)
    /\ UNCHANGED <<prio, blockedCmd, hint, old, active, inflight, cancelEv, history, crashes>>

-----------------------------------------------------------------------------
RunStep(c) ==
    \/ SkipRun(c) \/ StartRun(c)
    \/ AgentExits(c) \/ Timeout(c) \/ SeesCancel(c) \/ Blocks(c) \/ Passes(c)
    \/ ParkBlocked(c) \/ Finish(c) \/ RunError(c)
    \/ CrashBetweenCommits(c)

TaskRequest(t) ==
    \/ CancelQueued(t) \/ CancelRunning(t) \/ Confirm(t) \/ Approve(t) \/ Deny(t)

Next ==
    \/ \E p \in {0, 1} : Submit(p)
    \/ Dispatch
    \/ \E c \in inflight : RunStep(c)
    \/ \E t \in Task : TaskRequest(t)
    \/ Age \/ Sweep \/ Crash \/ Recover

Spec == Init /\ [][Next]_vars

-----------------------------------------------------------------------------
(* Fairness. The loop runs every ready coroutine, so the worker pops when   *)
(* it can and a created coroutine begins. The read loop wakes at least once *)
(* a second and ends at the deadline. The finally block ends once the tree  *)
(* is dead. Clocks advance, the sweeper runs every RELAY_SWEEP_INTERVAL_SEC,*)
(* and systemd restarts the service. No user is obliged to do anything.     *)

Begins(t) == \E c \in inflight : c.task = t /\ (SkipRun(c) \/ StartRun(c))
LoopEnds(t) == \E c \in inflight : c.task = t /\ (Timeout(c) \/ SeesCancel(c))
RunEnds(t) == \E c \in inflight : c.task = t /\ (ParkBlocked(c) \/ Finish(c))

Fairness ==
    /\ WF_vars(Dispatch)
    /\ \A t \in Task : /\ WF_vars(Begins(t))
                       /\ WF_vars(LoopEnds(t))
                       /\ WF_vars(RunEnds(t))
    /\ WF_vars(Age) /\ WF_vars(Sweep)
    /\ WF_vars(Recover)

FairSpec == Spec /\ Fairness

-----------------------------------------------------------------------------
(* Properties.                                                             *)

\* Every variable has its type.
TypeOK ==
    /\ status \in [Task -> Status]
    /\ prio \in [Task -> {0, 1}]
    /\ blockedCmd \in [Task -> Cmd \cup {None}]
    /\ hint \in [Task -> BOOLEAN]
    /\ old \in 0..MaxTasks
    /\ up \in BOOLEAN
    /\ heap \in SUBSET Entry
    /\ nextSeq \in Nat
    /\ active \in Nat
    /\ inflight \in SUBSET Coroutine
    /\ cancelEv \in [Task -> {"absent", "clear", "set"}]
    /\ granted \in [Task -> SUBSET Cmd]
    /\ passed \in [Task -> SUBSET Cmd]
    /\ crashes \in Nat

\* No slot leaks and none is lent twice: Scheduler._active always counts the
\* coroutines in flight, and never exceeds RELAY_MAX_CONCURRENT.
SlotAccounting ==
    /\ IsFiniteSet(inflight)
    /\ active = Cardinality(inflight)
    /\ active <= MaxConcurrent

\* At no time, a crash and its recovery included, does the table show more than
\* RELAY_MAX_CONCURRENT running rows.
AtMostMaxRunning == Cardinality({t \in Task : status[t] = "running"}) <= MaxConcurrent

Waits(t) ==
    \/ \E e \in heap : e.task = t
    \/ \E c \in inflight : c.task = t /\ c.phase = "created"

Runs(t) == \E c \in inflight : c.task = t /\ c.phase \in {"executing", "ending"}

\* The table and the memory of a live process agree: a queued row is waiting for
\* a slot or about to begin, a row is running exactly when a coroutine runs it.
\* No interleaving of requests, runs and restarts leaves a row that nothing
\* will ever advance.
NoOrphan ==
    up => \A t \in Task : /\ status[t] = "queued" => Waits(t)
                          /\ status[t] = "running" <=> Runs(t)

\* A task is never scheduled twice: over the heap and the coroutines in flight
\* there is at most one occurrence of it, even after cancels that leave their
\* entry behind, approvals that submit the row again, and restarts.
ScheduledOnce ==
    /\ \A e, f \in heap : e.task = f.task => e = f
    /\ \A c, d \in inflight : c.task = d.task => c = d
    /\ \A e \in heap, c \in inflight : e.task # c.task

\* While a row is running its cancel event is in the map, so that the cancel
\* handler's setdefault finds the event the run polls and never makes another.
CancelReaches == up => \A t \in Task : status[t] = "running" => cancelEv[t] # "absent"

\* A high-risk command passes the gate only if a human approved, for this very
\* task, a command whose exemption covers it; whatever crashes, restarts and
\* further blocks came between the approval and the run.
GateHolds ==
    \A t \in Task : passed[t] \subseteq UNION {Covers[g] : g \in granted[t]}

\* An approval is good for the run it resumes and no other: when the run parks
\* or completes, no resume_hint is left that would exempt a later one.
ApprovalIsSpent ==
    \A t \in Task :
        status[t] \in {"pending_approval", "review", "conflict", "done"} => ~hint[t]

\* Each task by itself behaves as TaskLifecycle allows: its row takes the
\* documented transitions only, done, failed and cancelled are final (no stale
\* heap entry, restart or sweep revives the task), commands pass when granted.
\* The mapping is a projection: the row's status and the two histories.
Lifecycle == INSTANCE TaskLifecycle WITH status <- status, granted <- granted, passed <- passed
ImplementsLifecycle == Lifecycle!LifeSpec

\* Every submitted task settles: it ends, or stops in conflict for a human to
\* look at; neither the queue, a run, a crash nor a missing reviewer holds it
\* for ever. (Crashes and approvals are finitely many, by their bounds.)
EveryTaskSettles ==
    \A t \in Task : status[t] # "none" ~> status[t] \in Absorbing \cup {"conflict"}

\* A run is cancelled only because of a cancel request made during that run.
\* An approved task is to go on from the approved command, so a request that
\* an earlier run of the task answered must not end the resumed one.
CancelledOnRequest ==
    \A c \in inflight : c.outcome = "cancelled" => c.asked

-----------------------------------------------------------------------------
(* The inductive invariant behind the properties; RelayProofs proves it.   *)

\* A dead process has no queue, no coroutine, no slot in use.
MemoryInv == ~up => heap = {} /\ inflight = {} /\ active = 0

\* An occurrence of a task outlives its row's "queued" only by a cancel; the
\* row of a run in progress is running.
OccurrenceInv ==
    /\ \A e \in heap : status[e.task] \in {"queued", "cancelled"}
    /\ \A c \in inflight :
          status[c.task] \in IF c.phase = "created" THEN {"queued", "cancelled"}
                                                  ELSE {"running"}

\* A run has an outcome once its loop has ended, and a blocked one its command.
OutcomeInv ==
    \A c \in inflight :
        /\ c.phase = "ending" => c.outcome # "none"
        /\ c.outcome = "blocked" => c.cmd \in Cmd

\* Whatever can still exempt a run was approved: the command of a pending hint,
\* the exemption of a run. A row waits for the approval of an actual command.
ApprovalInv ==
    /\ \A t \in Task : hint[t] => blockedCmd[t] \in granted[t]
    /\ \A t \in Task : status[t] = "pending_approval" => blockedCmd[t] \in Cmd
    /\ \A c \in inflight : c.exempt \in granted[c.task] \cup {None}

\* The conjunction is inductive: each action relies on all of its parts.
IInv ==
    /\ TypeOK
    /\ MemoryInv /\ OccurrenceInv /\ OutcomeInv /\ ApprovalInv
    /\ NoOrphan /\ ScheduledOnce /\ SlotAccounting /\ AtMostMaxRunning
    /\ CancelReaches /\ GateHolds /\ ApprovalIsSpent
=============================================================================
