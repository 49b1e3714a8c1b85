------------------------------- MODULE Executor -------------------------------
(***************************************************************************)
(* Executor.run of app/executor.py against the processes of one agent: how *)
(* the run ends, how the process tree is killed, and what the finally block*)
(* then waits for. What the run does with the lines it reads is in Relay.  *)
(*                                                                         *)
(* The processes run in parallel with the relay. They fork, redirect or    *)
(* close their pipes, ignore SIGTERM or exit at any time, and a process    *)
(* whose parent died belongs to init. _kill is synchronous for the relay   *)
(* (no other coroutine runs meanwhile) but not for the processes: they may *)
(* fork between the walk through /proc and the signals.                    *)
(*                                                                         *)
(* SnapshotRoot and NotScheduled are faulty forms of the definition after  *)
(* them, used to test the properties (README, "Mutants").                  *)
(***************************************************************************)
EXTENDS Integers, FiniteSets

CONSTANT MaxProcs       \* bound: processes of the run, the agent included

VARIABLES
    \* the processes; a process id is not used again
    alive,      \* those that have not died
    forked,     \* how many there ever were
    parent,     \* 0: init (of the agent itself: the relay)
    stubborn,   \* those that ignore SIGTERM
    out, err,   \* those that hold the agent's stdout, stderr pipe open
    \* Executor.run
    phase,      \* "reading" the output; "killing", inside _kill; "waiting" for
                \* the agent's exit; "draining" its stderr; "over"
    outcome,    \* why the read loop ended
    reaped,     \* proc.returncode is set
    snap,       \* pids of the _kill in progress
    again,      \* a second _kill, that of the finally block, will follow
    due,        \* pids of each _kill whose escalation sleeps
    doomed      \* history: what was in the tree when a _kill looked

procVars == <<alive, forked, parent, stubborn, out, err>>
runVars == <<phase, outcome, reaped, snap, again, due, doomed>>
vars == <<procVars, runVars>>

Proc == 1..MaxProcs
agent == 1

Outcome == {"none", "eof", "cancelled", "timeout", "blocked", "stopped"}

\* create_subprocess_exec has started the agent.
Init ==
    /\ alive = {agent} /\ forked = 1
    /\ parent = [p \in Proc |-> 0]
    /\ stubborn \in {{}, {agent}}
    /\ out = {agent} /\ err = {agent}
    /\ phase = "reading" /\ outcome = "none" /\ reaped = FALSE
    /\ snap = {} /\ again = FALSE /\ due = {} /\ doomed = {}

-----------------------------------------------------------------------------
(* The processes.                                                          *)

\* The processes in S end: their pipes close, their children go to init.
Die(S) ==
    /\ alive' = alive \ S
    /\ out' = out \ S /\ err' = err \ S
    /\ parent' = [p \in Proc |-> IF parent[p] \in S THEN 0 ELSE parent[p]]
    /\ UNCHANGED <<forked, stubborn>>

\* p starts a process, which inherits the pipes unless they are redirected.
Fork(p) ==
    /\ forked < MaxProcs
    /\ forked' = forked + 1
    /\ alive' = alive \cup {forked'}
    /\ parent' = [parent EXCEPT ![forked'] = p]
    /\ stubborn' \in {stubborn, stubborn \cup {forked'}}
    /\ out' \in {out} \cup (IF p \in out THEN {out \cup {forked'}} ELSE {})
    /\ err' \in {err} \cup (IF p \in err THEN {err \cup {forked'}} ELSE {})
    /\ UNCHANGED runVars

Exit(p) == Die({p}) /\ UNCHANGED runVars

ClosePipe(p) ==
    /\ \/ p \in out /\ out' = out \ {p} /\ UNCHANGED err
       \/ p \in err /\ err' = err \ {p} /\ UNCHANGED out
    /\ UNCHANGED <<alive, forked, parent, stubborn, runVars>>

-----------------------------------------------------------------------------
(* Killing.                                                                *)

\* The agent and its descendants, among live processes al with parents par.
Tree(al, par) ==
    LET descends[p \in Proc] ==
            p = agent \/ (p \in al /\ par[p] # 0 /\ descends[par[p]])
    IN {agent} \cup {p \in al : descends[p]}

SnapshotRoot(al, par) == {agent}

\* Executor._tree_pids.
Snapshot(al, par) == Tree(al, par)

NotScheduled(S) == due' = due

\* The escalation of a _kill starts to sleep.
Scheduled(S) == due' = due \cup {S}

\* The read loop ends for reason o. With kill, its branch calls _kill; the
\* finally block calls it, once more, when the exit code is not known.
Leave(o, kill) ==
    /\ phase = "reading"
    /\ outcome' = o
    /\ IF kill \/ ~reaped
       THEN /\ phase' = "killing"
            /\ snap' = Snapshot(alive, parent)
            /\ again' = (kill /\ ~reaped)
            /\ doomed' = Tree(alive, parent)
       ELSE /\ phase' = "waiting"
            /\ UNCHANGED <<snap, again, doomed>>
    /\ UNCHANGED <<procVars, reaped, due>>

\* The signals of a _kill, and the walk of the next one.
Signal ==
    /\ phase = "killing"
    /\ Die(snap \ stubborn)
    /\ Scheduled(snap)
    /\ IF again THEN /\ snap' = Snapshot(alive', parent')
                     /\ doomed' = doomed \cup Tree(alive', parent')
                     /\ UNCHANGED phase
                ELSE /\ snap' = {}
                     /\ phase' = "waiting"
                     /\ UNCHANGED doomed
    /\ again' = FALSE
    /\ UNCHANGED <<outcome, reaped>>

\* _escalate, five seconds later.
Escalate ==
    /\ \E S \in due : Die(S) /\ due' = due \ {S}
    /\ UNCHANGED <<phase, outcome, reaped, snap, again, doomed>>

-----------------------------------------------------------------------------
(* The run.                                                                *)

\* The cancel event is set; the deadline has passed; a line the agent wrote is a
\* command the gate stops.
SeesCancel == Leave("cancelled", TRUE)
TimesOut == Leave("timeout", TRUE)
Blocks == Leave("blocked", TRUE)

\* The end of the output: nobody holds the pipe any more.
Eof == out = {} /\ Leave("eof", FALSE)

\* asyncio learns that the agent has exited. (Not inside _kill, which is
\* synchronous.)
Reap ==
    /\ agent \notin alive /\ ~reaped
    /\ phase # "killing"
    /\ reaped' = TRUE
    /\ UNCHANGED <<procVars, phase, outcome, snap, again, due, doomed>>

ToPhase(from, to) ==
    /\ phase = from
    /\ phase' = to
    /\ UNCHANGED <<procVars, outcome, reaped, snap, again, due, doomed>>

\* await proc.wait()
Waited == reaped /\ ToPhase("waiting", "draining")

\* await stderr_task: the pipe is read up to its end.
Drained == err = {} /\ ToPhase("draining", "over")

\* Scheduler.stop cancels the coroutine: in the read loop the finally block still
\* runs, inside the finally block its awaits are given up.
Stopped ==
    \/ Leave("stopped", FALSE)
    \/ ToPhase("waiting", "over")
    \/ ToPhase("draining", "over")

Next ==
    \/ \E p \in alive : Fork(p) \/ Exit(p) \/ ClosePipe(p)
    \/ SeesCancel \/ TimesOut \/ Blocks \/ Eof \/ Stopped
    \/ Signal \/ Escalate \/ Reap \/ Waited \/ Drained

Spec == Init /\ [][Next]_vars

\* The loop runs what is ready, timers fire, the deadline comes. No process has
\* to exit by itself.
Fairness ==
    /\ WF_vars(TimesOut) /\ WF_vars(Signal) /\ WF_vars(Escalate)
    /\ WF_vars(Reap) /\ WF_vars(Waited) /\ WF_vars(Drained)

FairSpec == Spec /\ Fairness

-----------------------------------------------------------------------------
(* Properties.                                                             *)

\* Every variable has its type; only processes of the run are ever signalled.
TypeOK ==
    /\ forked \in Proc
    /\ alive \subseteq 1..forked /\ stubborn \subseteq 1..forked
    /\ out \subseteq alive /\ err \subseteq alive
    /\ parent \in [Proc -> alive \cup {0}]
    /\ phase \in {"reading", "killing", "waiting", "draining", "over"}
    /\ outcome \in Outcome
    /\ reaped \in BOOLEAN /\ again \in BOOLEAN
    /\ snap \subseteq Proc /\ doomed \subseteq Proc
    /\ due \subseteq SUBSET Proc

\* Whatever belongs to the agent's tree when a run is cancelled, times out, is
\* blocked or stopped dies, also what ignores SIGTERM or loses its parent while
\* the signals are sent.
TreeDies == \A p \in Proc : p \in doomed ~> p \notin alive

\* A process outside the tree of every _kill holds the agent's stderr.
HeldByEscapee == phase = "draining" /\ err \ doomed # {}

\* Every run ends and gives its slot back, unless for ever some process that had
\* left the tree, or was forked after the walk, holds the agent's stderr.
ReturnsUnlessHeld == <>(phase = "over") \/ <>[]HeldByEscapee

\* The timeout bounds the run: one that timed out ends.
TimeoutBounds == outcome = "timeout" ~> phase = "over"
=============================================================================
