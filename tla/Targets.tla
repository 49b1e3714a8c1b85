------------------------------ MODULE Targets ------------------------------
(***************************************************************************)
(* Submission of tasks that name the directories they will change: the     *)
(* check against the tasks in flight (app/targets.py and submit_task of    *)
(* app/main.py), over the life of these tasks.                             *)
(*                                                                         *)
(* A target is the text a client wrote: a sequence of slashes, blanks and  *)
(* the words between them.  It is trimmed and compared as a text; a path   *)
(* is what it names.  The steps that end or park a task are those of       *)
(* Relay, as far as its status goes.                                       *)
(***************************************************************************)
EXTENDS Naturals, Sequences, SequencesExt

CONSTANTS Raw,          \* targets as a client may write them
          Name,         \* of directories: no slash, no blank, not "." or ".."
          Depth,        \* bound: of a path
          MaxTasks      \* bound

VARIABLES task      \* the tasks in the order of their ids
vars == task

Init == task = <<>>

InFlight == {"queued", "running", "pending_approval"}

---------------------------------------------------------------------------
(* targets.py                                                              *)

\* str.strip
Strip(t, c) ==
    LET kept == {i \in DOMAIN t : t[i] # c} IN
    IF kept = {} THEN <<>> ELSE SubSeq(t, Min(kept), Max(kept))

normalize(t) == Strip(Strip(t, " "), "/")

\* The text of b begins with a's and a slash.
Inside(b, a) == IsPrefix(Append(a, "/"), b)

OverlapDown(a, b) == a = <<>> \/ b = <<>> \/ a = b \/ Inside(b, a)

overlap(a, b) == a = <<>> \/ b = <<>> \/ a = b \/ Inside(a, b) \/ Inside(b, a)

\* Targets that are empty once normalised are not compared.
Named(ts) == {normalize(t) : t \in ts} \ {<<>>}

find_conflicts(ts) ==
    {i \in DOMAIN task : /\ task[i].status \in InFlight
                         /\ \E a \in Named(ts), b \in Named(task[i].targets) : overlap(a, b)}

---------------------------------------------------------------------------
Submit(ts, readOnly, force) ==
    /\ Len(task) < MaxTasks
    /\ ts # {} /\ ~readOnly /\ find_conflicts(ts) # {} => force
    /\ task' = Append(task, [targets |-> ts, status |-> "queued", readOnly |-> readOnly, force |-> force])

Becomes(i, from, to) ==
    /\ task[i].status \in from
    /\ task' = [task EXCEPT ![i].status = to]

\* Start, block, approve (back into the queue), and every kind of end: done,
\* review and conflict, failed, cancelled.
Proceeds(i) ==
    \/ Becomes(i, {"queued"}, "running")
    \/ Becomes(i, {"running"}, "pending_approval")
    \/ Becomes(i, {"pending_approval"}, "queued")
    \/ Becomes(i, {"running"}, "queued")            \* found running at a restart
    \/ Becomes(i, InFlight, "over")

Next ==
    \/ \E ts \in SUBSET Raw, r, f \in BOOLEAN : Submit(ts, r, f)
    \/ \E i \in DOMAIN task : Proceeds(i)

Spec == Init /\ [][Next]_vars

---------------------------------------------------------------------------
\* The directories a text can name: its words, a slash between any two.
Path == UNION {[1..n -> Name] : n \in 1..Depth}
Spelled(p) == [i \in 1..(2 * Len(p) - 1) |-> IF i % 2 = 0 THEN "/" ELSE p[(i + 1) \div 2]]
Names(t, p) == normalize(t) = Spelled(p)

\* Two tasks in flight never name the same directory, or one inside the
\* other's, however the clients wrote it at either end (slashes, blanks),
\* unless the later was forced or only reads: whatever became of the earlier
\* one between, a task that waits for approval included.  A text with ".",
\* ".." or two slashes within, and the root, is compared as a text or not at
\* all, and names no path here.
InFlightDisjoint ==
    \A i, j \in DOMAIN task :
        /\ i < j
        /\ task[i].status \in InFlight /\ task[j].status \in InFlight
        /\ ~task[j].readOnly /\ ~task[j].force
        => \A p, q \in Path :
             /\ \E a \in task[i].targets : Names(a, p)
             /\ \E b \in task[j].targets : Names(b, q)
             => ~(IsPrefix(p, q) \/ IsPrefix(q, p))
=============================================================================
