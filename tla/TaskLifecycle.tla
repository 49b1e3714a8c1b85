---------------------------- MODULE TaskLifecycle ----------------------------
(***************************************************************************)
(* What the relay promises about every task, whatever the scheduler, the   *)
(* restarts and the other tasks do: the states its row moves through, and  *)
(* that the command gate lets a high-risk command pass only when a human   *)
(* approved, for this task, a command that covers it. No queue, slot,      *)
(* coroutine, cancel event or process appears here. Tasks are independent: *)
(* a step moves any of them (the sweeper and a restart move several).      *)
(*                                                                         *)
(* Relay.tla is shown to implement this specification.                     *)
(***************************************************************************)

CONSTANTS
    Task,
    Cmd,        \* the high-risk commands
    Covers      \* Covers[g]: the commands an approval of g lets pass

VARIABLES
    status,     \* of each task, "none" before its row exists
    granted,    \* the commands a human approved for the task so far
    passed      \* the high-risk commands the gate let pass so far

lifeVars == <<status, granted, passed>>

Final == {"done", "failed", "cancelled"}
Parked == {"review", "conflict", "pending_approval"}

LifeInit ==
    /\ status = [t \in Task |-> "none"]
    /\ granted = [t \in Task |-> {}]
    /\ passed = [t \in Task |-> {}]

Keeps(f, t) == f'[t] = f[t]

\* The transitions of a row; "none" to "queued" is its creation, "running" to
\* "queued" a restart of the service, a parked row to "done" the sweeper.
MayBecome ==
    [none |-> {"queued"},
     queued |-> {"running", "cancelled", "failed"},
     running |-> {"queued"} \cup Parked \cup Final,
     review |-> {"done", "conflict"},
     conflict |-> {"done"},
     pending_approval |-> {"done", "failed"},
     done |-> {}, failed |-> {}, cancelled |-> {}]

Move(t) ==
    /\ status'[t] \in MayBecome[status[t]]
    /\ Keeps(granted, t) /\ Keeps(passed, t)

\* The one way back from pending_approval: a human approves command g.
Approval(t) ==
    /\ status[t] = "pending_approval" /\ status'[t] = "queued"
    /\ \E g \in Cmd : granted'[t] = granted[t] \cup {g}
    /\ Keeps(passed, t)

\* A running task gets command k past the gate.
Passage(t) ==
    /\ status[t] = "running" /\ Keeps(status, t)
    /\ \E g \in granted[t] : \E k \in Covers[g] : passed'[t] = passed[t] \cup {k}
    /\ Keeps(granted, t)

Rest(t) == Keeps(status, t) /\ Keeps(granted, t) /\ Keeps(passed, t)

LifeNext == \A t \in Task : Move(t) \/ Approval(t) \/ Passage(t) \/ Rest(t)

LifeSpec == LifeInit /\ [][LifeNext]_lifeVars
=============================================================================
