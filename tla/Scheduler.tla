------------------------------ MODULE Scheduler ------------------------------
(***************************************************************************)
(* app/scheduler.py in detail: the worker coroutine, the condition it      *)
(* waits on, and stop(). Relay.tla lets the worker pop whenever an entry   *)
(* and a slot are there; this module shows why it may: the worker never    *)
(* sleeps while it has something to do.                                    *)
(*                                                                         *)
(* The lock of the condition is never held across an await that yields     *)
(* (cond.wait releases it), so acquiring it never waits, and each action   *)
(* is one turn of the asyncio loop. The worker is the only waiter, so      *)
(* notify and notify_all are the same.                                     *)
(*                                                                         *)
(* PoppedOne, StopNotifies and StopAwaitsSlots are faulty forms of the     *)
(* definition after them, used to test the properties (README, "Mutants"). *)
(***************************************************************************)
EXTENDS Integers, FiniteSets

CONSTANTS
    MaxConcurrent,  \* Scheduler.max_concurrent
    MaxSubmit       \* bound: calls of submit

ASSUME MaxConcurrentAssumption == MaxConcurrent \in Nat \ {0}
ASSUME MaxSubmitAssumption == MaxSubmit \in Nat

VARIABLES
    heap,           \* _heap: entries [prio, seq], one for each call of submit
    seq,            \* _seq
    active,         \* _active
    inflight,       \* the coroutines in _inflight that are not over, by their entry
    phase,          \* of each of them: "created", "running", "cancelled"
    worker,         \* the worker: "ready" to run, "parked" on the condition,
                    \* "cancelled" (it will wake to CancelledError), "ended"
    stopping        \* stop(): "no", "worker" (awaits it), "runs" (awaits them), "over"

vars == <<heap, seq, active, inflight, phase, worker, stopping>>

Entry == [prio : {0, 1}, seq : 0..MaxSubmit-1]
Phase == {"created", "running", "cancelled"}

Init ==
    /\ heap = {} /\ seq = 0 /\ active = 0 /\ inflight = {}
    /\ phase = [s \in 0..MaxSubmit-1 |-> "created"]
    /\ worker = "ready"
    /\ stopping = "no"

\* Condition.notify: a parked worker is made ready.
Notify == worker' = IF worker = "parked" THEN "ready" ELSE worker

\* Scheduler.submit.
Submit(p) ==
    /\ stopping = "no"
    /\ seq < MaxSubmit
    /\ heap' = heap \cup {[prio |-> p, seq |-> seq]}
    /\ seq' = seq + 1
    /\ Notify
    /\ UNCHANGED <<active, inflight, phase, stopping>>

Before(e, f) == e.prio < f.prio \/ (e.prio = f.prio /\ e.seq < f.seq)

PoppedOne ==
    {D \in SUBSET heap : /\ Cardinality(D) <= 1
                         /\ active + Cardinality(D) <= MaxConcurrent
                         /\ D = {} => heap = {} \/ active = MaxConcurrent}
\* What one turn of the worker pops: the least entries, as many as there are
\* slots for. (The pop loop awaits nothing until it parks.)
Popped == {D \in SUBSET heap :
              /\ active + Cardinality(D) <= MaxConcurrent
              /\ D = heap \/ active + Cardinality(D) = MaxConcurrent
              /\ \A d \in D, e \in heap \ D : Before(d, e)}

\* One turn of Scheduler._loop: pop, create the coroutines, park.
Work ==
    /\ worker = "ready"
    /\ \E D \in Popped :
          /\ heap' = heap \ D
          /\ active' = active + Cardinality(D)
          /\ inflight' = inflight \cup D
    /\ worker' = "parked"
    /\ UNCHANGED <<seq, phase, stopping>>

Begin(e) ==
    /\ phase[e.seq] = "created"
    /\ phase' = [phase EXCEPT ![e.seq] = "running"]
    /\ UNCHANGED <<heap, seq, active, inflight, worker, stopping>>

\* run_fn returned, raised (on_error is called) or was cancelled; the finally
\* block of _run_one frees the slot and notifies.
End(e) ==
    /\ phase[e.seq] # "created"
    /\ inflight' = inflight \ {e}
    /\ active' = active - 1
    /\ Notify
    /\ UNCHANGED <<heap, seq, phase, stopping>>

StopNotifies ==
    /\ stopping = "no"
    /\ stopping' = "worker"
    /\ Notify
    /\ UNCHANGED <<heap, seq, active, inflight, phase>>

\* stop() up to its first await: _stop is set, the worker notified and cancelled.
\* The cancellation overrides the notification: cond.wait raises CancelledError.
Stop ==
    /\ stopping = "no"
    /\ stopping' = "worker"
    /\ worker' = "cancelled"
    /\ UNCHANGED <<heap, seq, active, inflight, phase>>

WorkerEnds ==
    /\ worker = "cancelled"
    /\ worker' = "ended"
    /\ UNCHANGED <<heap, seq, active, inflight, phase, stopping>>

NotBegun == {e \in inflight : phase[e.seq] = "created"}

\* stop() goes on when the worker is over: every coroutine is cancelled. One that
\* has not begun never runs its finally block: _active keeps counting it.
CancelRuns ==
    /\ stopping = "worker" /\ worker = "ended"
    /\ stopping' = "runs"
    /\ inflight' = inflight \ NotBegun
    /\ phase' = [s \in DOMAIN phase |-> IF \E e \in inflight \ NotBegun : e.seq = s
                                        THEN "cancelled" ELSE phase[s]]
    /\ UNCHANGED <<heap, seq, active, worker>>

StopAwaitsSlots ==
    /\ stopping = "runs" /\ active = 0
    /\ stopping' = "over"
    /\ UNCHANGED <<heap, seq, active, inflight, phase, worker>>

\* gather returns.
StopReturns ==
    /\ stopping = "runs" /\ inflight = {}
    /\ stopping' = "over"
    /\ UNCHANGED <<heap, seq, active, inflight, phase, worker>>

Next ==
    \/ \E p \in {0, 1} : Submit(p)
    \/ Work
    \/ \E e \in inflight : Begin(e) \/ End(e)
    \/ Stop \/ WorkerEnds \/ CancelRuns \/ StopReturns

Spec == Init /\ [][Next]_vars

\* The loop runs what is ready; a run ends (Executor.run has a deadline, and a
\* cancelled one kills its agent). Nobody has to submit or to stop.
Fairness ==
    /\ WF_vars(Work) /\ WF_vars(WorkerEnds) /\ WF_vars(CancelRuns) /\ WF_vars(StopReturns)
    /\ \A e \in Entry : /\ WF_vars(e \in inflight /\ Begin(e))
                        /\ WF_vars(e \in inflight /\ End(e))

FairSpec == Spec /\ Fairness

-----------------------------------------------------------------------------
(* Properties.                                                             *)

\* Every variable has its type.
TypeOK ==
    /\ heap \in SUBSET Entry
    /\ seq \in 0..MaxSubmit
    /\ active \in Nat
    /\ inflight \in SUBSET Entry
    /\ phase \in [0..MaxSubmit-1 -> Phase]
    /\ worker \in {"ready", "parked", "cancelled", "ended"}
    /\ stopping \in {"no", "worker", "runs", "over"}

\* No wakeup is lost: the worker sleeps only when the heap is empty or every slot
\* is taken, in whatever order submits, ends of runs and the worker's own turns
\* fall.
NoLostWakeup == worker = "parked" => heap = {} \/ active = MaxConcurrent

\* The counter is the number of coroutines, until stop() cancels some that never
\* began, and there are never more of them than slots.
ActiveCounts ==
    /\ stopping \in {"no", "worker"} => active = Cardinality(inflight)
    /\ Cardinality(inflight) <= active /\ active <= MaxConcurrent

\* An entry is in the heap or in flight, not both, and was submitted.
OnePlace ==
    /\ heap \cap inflight = {}
    /\ \A e, f \in heap \cup inflight : e.seq = f.seq => e = f
    /\ \A e \in heap \cup inflight : e.seq < seq

\* Once stop() is called nothing new is started, even if entries are waiting and
\* a run's end frees a slot while stop() waits for the worker.
NothingStartsAfterStop ==
    [][stopping # "no" => inflight' \subseteq inflight]_vars

\* Every submitted entry is started, whatever its priority, unless the service
\* is stopped. (Submits are finitely many, by MaxSubmit: an endless stream of
\* urgent entries does starve the normal ones.)
EveryEntryStarts == \A e \in Entry : e \in heap ~> (e \notin heap \/ stopping # "no")

\* stop() returns.
StopEnds == stopping # "no" ~> stopping = "over"

\* What was asked of the scheduler gets done: an entry starts, stop() returns.
Serves == EveryEntryStarts /\ StopEnds

\* The inductive invariant behind the safety properties; SchedulerProofs proves it.
StopInv ==
    /\ stopping = "no" => worker \in {"ready", "parked"}
    /\ stopping = "worker" => worker \in {"cancelled", "ended"}
    /\ stopping \in {"runs", "over"} => worker = "ended"

IInv ==
    /\ TypeOK /\ IsFiniteSet(heap) /\ IsFiniteSet(inflight)
    /\ NoLostWakeup /\ ActiveCounts /\ OnePlace /\ StopInv
=============================================================================
