------------------------------- MODULE EventBus -------------------------------
(***************************************************************************)
(* The events of one task (app/events.py) and the streams that show them   *)
(* to clients (stream_task in app/main.py).                                *)
(*                                                                         *)
(* publish and subscribe await nothing, so the change of the row and the   *)
(* event about it are one action, and a subscriber sees the history and    *)
(* registers its queue in one action. Other tasks only take event ids in   *)
(* between; here the ids of the task are consecutive.                      *)
(*                                                                         *)
(* DeliveredTwice, STREAM_END_pending and STREAM_END_terminal are faulty   *)
(* forms of the definition after them, used to test the properties         *)
(* (README, "Mutants").                                                    *)
(***************************************************************************)
EXTENDS Integers, Sequences

CONSTANTS
    Stream,         \* the calls of GET /tasks/{id}/stream
    HistoryMax,     \* EventBus.history_max
    QueueMax,       \* maxsize of a subscriber's queue
    MaxEvents,      \* bound: events between two restarts
    MaxRestarts     \* bound: restarts of the service

VARIABLES
    status,         \* the task's row
    published,      \* how many events the running process has published for it
    history,        \* _history[task_id]
    stream,         \* the streams, see StreamState
    restarts

vars == <<status, published, history, stream, restarts>>

TERMINAL == {"done", "conflict", "failed", "cancelled"}

STREAM_END_pending == TERMINAL \cup {"review", "pending_approval"}
STREAM_END_terminal == TERMINAL

\* The status events after which a stream closes.
STREAM_END == TERMINAL \cup {"review"}

Status == {"none", "queued", "running", "pending_approval", "review"} \cup TERMINAL

\* A status event carries the new status, an agent event "agent".
Event == [id : Nat, s : Status \cup {"agent"}]

\* stage: "unused"; "subscribed", the generator has not begun; "open"; "ended",
\* closed by the server; "gone", closed by the client or a restart; "orphan", the
\* client left before the generator began, so its finally block never runs.
\* rest: what is left of the history to replay; sent: what the client received.
\* lost (history): an event did not fit into the queue.
StreamState == [stage : {"unused", "subscribed", "open", "ended", "gone", "orphan"},
                rest : Seq(Event), queue : Seq(Event), sent : Seq(Event), lost : BOOLEAN]

Init ==
    /\ status = "none"
    /\ published = 0
    /\ history = <<>>
    /\ stream = [x \in Stream |-> [stage |-> "unused", rest |-> <<>>, queue |-> <<>>,
                                   sent |-> <<>>, lost |-> FALSE]]
    /\ restarts = 0

-----------------------------------------------------------------------------
(* Publishing.                                                             *)

\* The history keeps its last HistoryMax events.
Trim(h) == IF Len(h) > HistoryMax THEN SubSeq(h, Len(h) - HistoryMax + 1, Len(h)) ELSE h

DeliveredTwice(r, e) ==
    [r EXCEPT !.queue = IF Len(@) < QueueMax THEN Append(@, e) ELSE @,
              !.rest = IF @ # <<>> THEN Append(@, e) ELSE @]

\* put_nowait: an event that finds the queue full is dropped.
Delivered(r, e) == IF Len(r.queue) < QueueMax
                   THEN [r EXCEPT !.queue = Append(@, e)]
                   ELSE [r EXCEPT !.lost = TRUE]

\* The queue of such a stream is in _subs.
Registered(r) == r.stage \in {"subscribed", "open", "orphan"}

\* EventBus.publish.
Publish(s) ==
    LET e == [id |-> published + 1, s |-> s] IN
    /\ published < MaxEvents
    /\ published' = published + 1
    /\ history' = Trim(Append(history, e))
    /\ stream' = [x \in Stream |-> IF Registered(stream[x]) THEN Delivered(stream[x], e)
                                                            ELSE stream[x]]

\* The status changes that are published: the handlers, run_task and the sweeper.
Changes ==
    [none |-> {"queued"},
     queued |-> {"running", "cancelled", "failed"},
     running |-> {"pending_approval", "review"} \cup TERMINAL,
     pending_approval |-> {"queued", "failed", "done"},
     review |-> {"done", "conflict"},
     conflict |-> {"done", "conflict"},
     done |-> {}, failed |-> {}, cancelled |-> {}]

ChangeStatus ==
    /\ \E s \in Changes[status] : status' = s /\ Publish(s)
    /\ UNCHANGED restarts

\* Executor.run publishes what the agent says.
AgentSpeaks ==
    /\ status = "running"
    /\ Publish("agent")
    /\ UNCHANGED <<status, restarts>>

-----------------------------------------------------------------------------
(* Streams.                                                                *)

Goes(x, r) ==
    /\ stream' = [stream EXCEPT ![x] = r]
    /\ UNCHANGED <<status, published, history, restarts>>

\* The request: the row exists; a copy of the history and a registered queue.
Subscribe(x) ==
    /\ stream[x].stage = "unused"
    /\ status # "none"
    /\ Goes(x, [stream[x] EXCEPT !.stage = "subscribed", !.rest = history])

Begin(x) ==
    /\ stream[x].stage = "subscribed"
    /\ Goes(x, [stream[x] EXCEPT !.stage = "open"])

\* gen() after it emitted e: an end closes the stream, and the finally block
\* unregisters the queue.
AfterSending(r, e) ==
    [r EXCEPT !.sent = Append(@, e),
              !.stage = IF e.s \in STREAM_END THEN "ended" ELSE @]

\* The replay of the history comes first.
Replay(x) ==
    LET r == stream[x] IN
    /\ r.stage = "open" /\ r.rest # <<>>
    /\ Goes(x, AfterSending([r EXCEPT !.rest = Tail(@)], Head(r.rest)))

\* Then what comes out of the queue. (A keepalive changes nothing.)
Follow(x) ==
    LET r == stream[x] IN
    /\ r.stage = "open" /\ r.rest = <<>> /\ r.queue # <<>>
    /\ Goes(x, AfterSending([r EXCEPT !.queue = Tail(@)], Head(r.queue)))

\* The client goes away. A generator that has begun unregisters its queue.
Disconnect(x) ==
    \/ stream[x].stage = "open" /\ Goes(x, [stream[x] EXCEPT !.stage = "gone"])
    \/ stream[x].stage = "subscribed" /\ Goes(x, [stream[x] EXCEPT !.stage = "orphan"])

\* The service restarts: events and streams are gone, the row is requeued when
\* it was running (nothing is published about that).
Restart ==
    /\ restarts < MaxRestarts
    /\ restarts' = restarts + 1
    /\ status' = IF status = "running" THEN "queued" ELSE status
    /\ published' = 0
    /\ history' = <<>>
    /\ stream' = [x \in Stream |-> IF Registered(stream[x])
                                   THEN [stream[x] EXCEPT !.stage = "gone"]
                                   ELSE stream[x]]

Next ==
    \/ ChangeStatus \/ AgentSpeaks
    \/ \E x \in Stream : Subscribe(x) \/ Begin(x) \/ Replay(x) \/ Follow(x) \/ Disconnect(x)
    \/ Restart

Spec == Init /\ [][Next]_vars

\* The loop runs a response that can go on; its client reads.
Fairness == \A x \in Stream : WF_vars(Begin(x)) /\ WF_vars(Replay(x)) /\ WF_vars(Follow(x))

FairSpec == Spec /\ Fairness

-----------------------------------------------------------------------------
(* Properties.                                                             *)

\* Every variable has its type, the history and the queues their limits.
TypeOK ==
    /\ status \in Status
    /\ published \in Nat /\ restarts \in Nat
    /\ history \in Seq(Event) /\ Len(history) <= HistoryMax
    /\ stream \in [Stream -> StreamState]
    /\ \A x \in Stream : /\ Len(stream[x].rest) <= HistoryMax
                         /\ Len(stream[x].queue) <= QueueMax

\* What stream r showed, and what it holds to show next.
Shown(r) == r.sent \o r.rest \o r.queue

\* The seam between the replayed history and the live queue neither repeats nor
\* reorders: a stream shows events in the order they were published, each once,
\* also when its queue overflowed in between.
ShownInOrder ==
    \A x \in Stream : LET all == Shown(stream[x]) IN
        \A i, j \in 1..Len(all) : i < j => all[i].id < all[j].id

\* The seam leaves nothing out: a stream whose queue never was full holds, up to
\* the latest, all events from the oldest one the history kept when it began.
NothingMissed ==
    \A x \in Stream : Registered(stream[x]) /\ ~stream[x].lost =>
        LET all == Shown(stream[x]) IN
        /\ Len(all) >= IF published < HistoryMax THEN published ELSE HistoryMax
        /\ \A i \in 1..Len(all) : all[i].id = published - Len(all) + i

\* The task's execution is over (a review is left to a human).
Over == status \notin {"none", "queued", "running", "pending_approval"}

\* The server never closes a stream of a task that goes on: once a stream has
\* ended, the execution is over and stays over, whatever was replayed to it.
EndedMeansOver == \A x \in Stream : stream[x].stage = "ended" => Over

Live(x) == stream[x].stage \in {"subscribed", "open"}

\* A stream with a reading client ends once the execution does, whenever it was
\* opened, provided the process published the end and the queue had room.
StreamsEndIfKept ==
    \A x \in Stream :
        Live(x) /\ Over /\ history # <<>> ~> ~Live(x) \/ stream[x].lost

\* A stream with a reading client ends once the execution has.
StreamsEnd ==
    \A x \in Stream : Live(x) /\ Over ~> ~Live(x)

\* The seam between the replayed history and the live queue is exact.
SeamExact == ShownInOrder /\ NothingMissed
=============================================================================
