----------------------------- MODULE MCRuntime -----------------------------
(* The machinery under the tasks on small instances: the scheduler's       *)
(* worker, the events of a task with the streams that show them, and the   *)
(* processes of a run.  Relay.tla has what they do to the rows; here they  *)
(* share no state, so one run takes them one at a time: `part' says which, *)
(* and the others stay where they begin.                                   *)
EXTENDS Scheduler

CONSTANTS Stream, HistoryMax, QueueMax, MaxEvents, MaxRestarts, MaxProcs

ASSUME RuntimeAssumption == HistoryMax \in Nat /\ QueueMax \in Nat /\ MaxProcs \in Nat \ {0}

VARIABLES part,
          status, published, history, stream, restarts
B == INSTANCE EventBus
bvars == <<status, published, history, stream, restarts>>

VARIABLES alive, forked, parent, stubborn, out, err, reading, outcome, reaped, snap, again, due, doomed
X == INSTANCE Executor WITH phase <- reading
xvars == <<alive, forked, parent, stubborn, out, err, reading, outcome, reaped, snap, again, due, doomed>>

InitPart ==
    /\ part \in {"scheduler", "events", "executor"}
    /\ Init /\ B!Init /\ X!Init
    /\ part # "executor" => stubborn = {}

NextPart ==
    /\ UNCHANGED part
    /\ \/ part = "scheduler" /\ Next /\ UNCHANGED <<bvars, xvars>>
       \/ part = "events" /\ B!Next /\ UNCHANGED <<vars, xvars>>
       \/ part = "executor" /\ X!Next /\ UNCHANGED <<vars, bvars>>

(* The fairness of each part.  Work and TimesOut are possible where their  *)
(* part begins, and nobody has to take them while it stays there.          *)
FairPart ==
    /\ InitPart /\ [][NextPart]_<<part, vars, bvars, xvars>>
    /\ WF_vars(part = "scheduler" /\ Work)
    /\ WF_vars(WorkerEnds) /\ WF_vars(CancelRuns) /\ WF_vars(StopReturns)
    /\ \A e \in Entry : WF_vars(e \in inflight /\ Begin(e)) /\ WF_vars(e \in inflight /\ End(e))
    /\ B!Fairness
    /\ WF_xvars(part = "executor" /\ X!TimesOut)
    /\ WF_xvars(X!Signal) /\ WF_xvars(X!Escalate)
    /\ WF_xvars(X!Reap) /\ WF_xvars(X!Waited) /\ WF_xvars(X!Drained)

-----------------------------------------------------------------------------
(* The properties of the parts; those of Scheduler have their own names.   *)

\* A stream repeats, reorders and omits nothing at the seam of the replayed
\* history and the live queue ...
SeamExact == B!SeamExact
\* ... ends only when the execution is over ...
EndedMeansOver == B!EndedMeansOver
\* ... and does end then (stream_task).
StreamsEndIfKept == B!StreamsEndIfKept

\* What a kill saw dies (Executor._kill),
TreeDies == X!TreeDies
\* and a run ends unless an escaped process holds its stderr (Executor.run).
ReturnsUnlessHeld == part = "executor" => X!ReturnsUnlessHeld
=============================================================================
