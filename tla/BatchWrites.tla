---------------------------- MODULE BatchWrites ----------------------------
(***************************************************************************)
(* The skill scripts that write a batch to the enterprise platform through *)
(* the `dws' command: todo_batch_create.py, import_records.py,             *)
(* bulk_add_fields.py, oa_batch_approve.py, attendance_schedule_import.py. *)
(*                                                                         *)
(* A script is a sequence of calls.  A call to dws has an effect on the    *)
(* platform (at once, later, never) and a reply, and the reply does not    *)
(* determine the effect: each script draws its own conclusion from it.     *)
(* Between two runs, and during one, somebody edits the input file,        *)
(* decides an approval or changes an attendance group.                     *)
(***************************************************************************)
EXTENDS Naturals, Sequences, FiniteSets

CONSTANTS
    Tools,          \* the scripts considered, a subset of AllTools
    TodoFiles, RecordFiles, FieldFiles, ScheduleFiles,  \* contents of their inputs
    Instances,      \* pending approvals
    Groups,         \* states of the attendance group
    MaxItems,       \* MAX_ITEMS of a todo batch, 30 in the code
    MaxFields,      \* 15 in the code
    MaxBatch        \* MAX_RECORDS_PER_BATCH, 100 in the code

AllTools == {"todo", "import", "fields", "approve", "schedule"}

ASSUME BatchAssumption ==
    /\ Tools \subseteq AllTools
    /\ MaxItems \in Nat \ {0} /\ MaxFields \in Nat \ {0} /\ MaxBatch \in Nat \ {0}

\* A file is a list of rows, and an id stands for one row of it.
ASSUME FileAssumption ==
    \A f \in TodoFiles \cup RecordFiles \cup FieldFiles \cup ScheduleFiles :
        /\ f \in Seq({f[i] : i \in DOMAIN f})
        /\ \A i, j \in DOMAIN f : f[i].id = f[j].id => i = j

None == "none"
Invalid == <<[invalid |-> TRUE]>>    \* no plan: the input was refused

---------------------------------------------------------------------------
(* The dws command, as the scripts use it.                                 *)

\* What a call returned: JSON with and without an identifier, outcome
\* "pending", success = false on exit 0 with or without the statement that
\* nothing was executed, a failing exit with or without it, text that is not
\* JSON, a timeout, no such command.
Replies == {"ok", "noid", "pending", "soft", "softRefused",
            "error", "refused", "garbled", "timeout", "missing"}

Applied(reply) ==
    CASE reply \in {"ok", "noid"} -> {"now"}
      [] reply \in {"softRefused", "refused", "missing"} -> {"never"}
      [] reply \in {"soft", "garbled"} -> {"now", "never"}
      [] OTHER -> {"now", "later", "never"}

Calls == {c \in [reply : Replies, effect : {"now", "later", "never"}] :
            c.effect \in Applied(c.reply)}

\* run_dws of the table and approval scripts: any JSON that a command which
\* exited with 0 printed.
Parsed(reply) == reply \in {"ok", "noid", "pending", "soft", "softRefused"}

\* run_dws_json of the todo script: the payload, or an exception that says
\* whether a write may have been committed.
Returns(reply) == reply \in {"ok", "noid"}
CommitUnknown(reply) == reply \notin {"refused", "softRefused", "missing"}

\* run_dws and unwrap_result of the attendance scripts.
Unwraps(reply) == reply \in {"ok", "noid", "pending"}

---------------------------------------------------------------------------
(* Validation of an input                                                  *)

\* normalize_due: a day becomes its last second, milliseconds and ISO times
\* with a zone become ISO text; anything else is an error.
Due(raw) == CASE raw = "absent" -> None
              [] raw \in {"day", "millis", "isoZone"} -> "iso"
              [] OTHER -> "error"

ValidTodo(t) ==
    /\ t.title /\ t.executors
    /\ t.priority \in {"absent", "allowed"}
    /\ Due(t.due) # "error"
    /\ t.recurs => Due(t.due) # None

\* validate: the batch, each item in its normal form, or Invalid.
TodoPlan(f) ==
    IF f # <<>> /\ Len(f) <= MaxItems /\ \A i \in DOMAIN f : ValidTodo(f[i])
    THEN [i \in DOMAIN f |-> [id |-> f[i].id, due |-> Due(f[i].due), recurs |-> f[i].recurs]]
    ELSE Invalid

\* normalize_record, validate_record: the cells that hold something decide.
Filled(r) == r.shape \in {"cells", "flat"} /\ r.filled

\* The filled rows in their order.
Kept(f) ==
    LET S == {i \in DOMAIN f : Filled(f[i])}
        place(i) == Cardinality({j \in S : j <= i})
    IN [k \in 1..Cardinality(S) |-> f[CHOOSE i \in S : place(i) = k]]

\* import_from_csv drops rows without a value; import_from_json refuses the
\* file for one of them.
RecordPlan(kind, f) ==
    CASE f = <<>> -> Invalid
      [] kind = "csv" -> Kept(f)
      [] OTHER -> IF \A i \in DOMAIN f : Filled(f[i]) THEN f ELSE Invalid

RequiredConfig(type) ==
    CASE type = "select" -> {"options"}
      [] type = "link" -> {"linkedTableId"}
      [] type = "lookup" -> {"associateField", "valuesField", "aggregator"}
      [] type = "filterUp" -> {"targetSheet", "filters", "valuesField", "aggregator"}
      [] OTHER -> {}

ValidField(f) ==
    /\ f.name \in {"fieldName", "name"}    \* the alias is renamed first
    /\ f.type # "unknown"
    /\ RequiredConfig(f.type) \subseteq f.config

FieldPlan(f) ==
    IF f # <<>> /\ Len(f) <= MaxFields /\ \A i \in DOMAIN f : ValidField(f[i])
    THEN f ELSE Invalid

\* validate_class_ids: against the classes bound to the group, or against all
\* classes when the group's answer names none, or not at all.
ClassesAllowed(rows, bound, all) ==
    \/ bound = {} /\ all = {}
    \/ \A i \in DOMAIN rows :
          \/ rows[i].rest
          \/ rows[i].class = 0
          \/ rows[i].class \in (IF bound = {} THEN all ELSE bound)

SchedulePlan(f) ==
    IF f # <<>> /\ \A i \in DOMAIN f : f[i].date THEN f ELSE Invalid

---------------------------------------------------------------------------
VARIABLES
    tool,       \* the script this behaviour is about
    file,       \* what its input file (or argument) holds
    shown,      \* the plan whose digest the last dry run printed
    confirmed,  \* the plans the user has confirmed
    world,      \* approvals still pending, or the attendance group
    pc, opts, plan, pos,    \* the running script
    lookup,     \* what it read before it writes: a task id, the group
    ledger,     \* its statuses, one per call made
    verdict,    \* what the last run reported
    made,       \* history of the run: how often an item's write was applied
    late,       \*   writes that may still be applied
    sent,       \*   how often an item was part of a call
    seen        \*   states of the world since the run began

vars == <<tool, file, shown, confirmed, world, pc, opts, plan, pos, lookup,
          ledger, verdict, made, late, sent, seen>>
script == <<pc, opts, plan, pos, lookup, ledger, verdict>>
history == <<made, late, sent, seen>>

Files(t) == CASE t = "todo" -> TodoFiles
              [] t = "import" -> RecordFiles
              [] t = "fields" -> FieldFiles
              [] t = "schedule" -> ScheduleFiles
              [] OTHER -> {<<>>}

Worlds(t) == CASE t = "approve" -> SUBSET Instances
               [] t = "schedule" -> Groups
               [] OTHER -> {None}

RowsOf(S) == UNION {{f[i] : i \in DOMAIN f} : f \in S}
Ids == {r.id : r \in RowsOf(TodoFiles \cup RecordFiles \cup FieldFiles \cup ScheduleFiles)}
       \cup Instances

Zero == [i \in Ids |-> 0]
NoOpts == [dry |-> FALSE, kind |-> None, size |-> 1]

Init ==
    /\ tool \in Tools
    /\ file \in Files(tool)
    /\ world \in Worlds(tool)
    /\ shown = Invalid /\ confirmed = {}
    /\ pc = "idle" /\ opts = NoOpts /\ plan = <<>> /\ pos = 1
    /\ lookup = Invalid /\ ledger = <<>> /\ verdict = None
    /\ made = Zero /\ late = {} /\ sent = Zero /\ seen = {}

---------------------------------------------------------------------------
(* The people and programs around the script                               *)

EditFile ==
    /\ \E f \in Files(tool) : f # file /\ file' = f
    /\ UNCHANGED <<tool, shown, confirmed, world>> /\ UNCHANGED script /\ UNCHANGED history

\* The user reads a dry run's output and confirms its digest.
Confirm ==
    /\ tool = "todo" /\ shown \notin confirmed \cup {Invalid}
    /\ confirmed' = confirmed \cup {shown}
    /\ UNCHANGED <<tool, file, shown, world>> /\ UNCHANGED script /\ UNCHANGED history

WorldChanges ==
    /\ \E w \in Worlds(tool) : w # world /\ world' = w
    /\ seen' = IF pc = "idle" THEN seen ELSE seen \cup {world'}
    /\ UNCHANGED <<tool, file, shown, confirmed, made, late, sent>> /\ UNCHANGED script

\* A write whose call timed out is carried out after all.
LateEffect ==
    /\ \E i \in late : /\ late' = late \ {i}
                       /\ made' = [made EXCEPT ![i] = @ + 1]
    /\ UNCHANGED <<tool, file, shown, confirmed, world, sent, seen>> /\ UNCHANGED script

---------------------------------------------------------------------------
(* Starting, calling and ending, common to the scripts                     *)

Begin(p, o, at) ==
    /\ pc' = at /\ opts' = o /\ plan' = p /\ pos' = 1
    /\ lookup' = None /\ ledger' = <<>> /\ verdict' = None
    /\ made' = Zero /\ late' = {} /\ sent' = Zero /\ seen' = {world}
    /\ UNCHANGED <<tool, file, confirmed, world>>

Stop(v) == pc' = "idle" /\ verdict' = v

\* A run that ends before its first call.
Refuse(reason) ==
    /\ Stop(reason)
    /\ UNCHANGED <<tool, file, confirmed, world, opts, plan, pos, lookup, ledger>>
    /\ UNCHANGED history

\* One call of dws that writes the items of `rows'.
Write(rows, c) ==
    LET ids == {rows[i].id : i \in DOMAIN rows} IN
    /\ sent' = [i \in Ids |-> IF i \in ids THEN sent[i] + 1 ELSE sent[i]]
    /\ made' = [i \in Ids |-> IF i \in ids /\ c.effect = "now" THEN made[i] + 1 ELSE made[i]]
    /\ late' = IF c.effect = "later" THEN late \cup ids ELSE late
    /\ UNCHANGED <<tool, file, shown, confirmed, world, seen>>

\* The process is killed, or an exception nobody catches ends it.
Die ==
    /\ pc # "idle"
    /\ Stop("died")
    /\ UNCHANGED <<tool, file, shown, confirmed, world, opts, plan, pos, lookup, ledger>>
    /\ UNCHANGED history

---------------------------------------------------------------------------
(* todo_batch_create.py                                                    *)

TodoDryRun ==
    /\ tool = "todo" /\ pc = "idle" /\ TodoPlan(file) # Invalid
    /\ shown' = TodoPlan(file)
    /\ verdict' = "preview"
    /\ UNCHANGED <<tool, file, confirmed, world, pc, opts, plan, pos, lookup, ledger>>
    /\ UNCHANGED history

TodoRunUnmatched(digest) ==
    /\ tool = "todo" /\ pc = "idle" /\ UNCHANGED shown
    /\ LET p == TodoPlan(file) IN
       CASE p = Invalid -> Refuse("invalid")
         [] p # Invalid /\ digest = Invalid -> Refuse("confirmation_required")
         [] OTHER -> Begin(p, NoOpts, "create")

\* The digest given on the command line is compared with the digest of the
\* items just read, and these items are the ones created.  The caller gives
\* a digest the user confirmed, or none (Invalid).
TodoRun(digest) ==
    /\ tool = "todo" /\ pc = "idle" /\ UNCHANGED shown
    /\ LET p == TodoPlan(file) IN
       CASE p = Invalid -> Refuse("invalid")
         [] p # Invalid /\ digest = Invalid -> Refuse("confirmation_required")
         [] p # Invalid /\ digest \notin {Invalid, p} -> Refuse("plan_mismatch")
         [] OTHER -> Begin(p, NoOpts, "create")

TodoStatus(reply) ==
    CASE reply = "noid" -> "unknown"
      [] Returns(reply) -> "unverified"     \* until the task has been read back
      [] CommitUnknown(reply) -> "unknown"
      [] OTHER -> "failed"

TodoCreate(c) ==
    /\ tool = "todo" /\ pc = "create" /\ pos <= Len(plan)
    /\ Write(<<plan[pos]>>, c)
    /\ ledger' = Append(ledger, TodoStatus(c.reply))
    /\ pos' = pos + 1
    /\ pc' = IF Returns(c.reply) /\ c.reply # "noid" THEN "readback" ELSE "create"
    /\ UNCHANGED <<opts, plan, lookup, verdict>>

\* The task just created is read back: another title, another id, no detail
\* or an error leave it unverified.
TodoReadback(answer) ==
    /\ tool = "todo" /\ pc = "readback"
    /\ answer = "match" => made[plan[pos - 1].id] > 0
    /\ ledger' = IF answer = "match" THEN [ledger EXCEPT ![Len(ledger)] = "verified"] ELSE ledger
    /\ pc' = "create"
    /\ UNCHANGED <<tool, file, shown, confirmed, world, opts, plan, pos, lookup, verdict>>
    /\ UNCHANGED history

TodoEndUnfailed ==
    /\ tool = "todo" /\ pc = "create" /\ pos > Len(plan)
    /\ Stop(IF \A i \in DOMAIN ledger : ledger[i] # "failed" THEN "complete" ELSE "incomplete")
    /\ UNCHANGED <<tool, file, shown, confirmed, world, opts, plan, pos, lookup, ledger>>
    /\ UNCHANGED history

TodoEnd ==
    /\ tool = "todo" /\ pc = "create" /\ pos > Len(plan)
    /\ Stop(IF \A i \in DOMAIN ledger : ledger[i] = "verified" THEN "complete" ELSE "incomplete")
    /\ UNCHANGED <<tool, file, shown, confirmed, world, opts, plan, pos, lookup, ledger>>
    /\ UNCHANGED history

---------------------------------------------------------------------------
(* import_records.py and bulk_add_fields.py                                *)

ImportRun(kind, size) ==
    /\ tool = "import" /\ pc = "idle" /\ UNCHANGED shown
    /\ LET p == RecordPlan(kind, file) IN
       IF p = Invalid \/ size <= 0
       THEN Refuse("failed")
       ELSE Begin(p, [NoOpts EXCEPT !.size = IF size > MaxBatch THEN MaxBatch ELSE size], "batch")

FieldsRun ==
    /\ tool = "fields" /\ pc = "idle" /\ UNCHANGED shown
    /\ LET p == FieldPlan(file) IN
       IF p = Invalid THEN Refuse("failed")
       ELSE Begin(p, [NoOpts EXCEPT !.size = Len(p)], "batch")

\* The records from pos on, at most opts.size of them.
Batch == SubSeq(plan, pos, IF pos + opts.size - 1 < Len(plan) THEN pos + opts.size - 1 ELSE Len(plan))

\* One batch is submitted; a failure is noted and the next batch follows.
SubmitBatch(c) ==
    /\ tool \in {"import", "fields"} /\ pc = "batch" /\ pos <= Len(plan)
    /\ Write(Batch, c)
    /\ ledger' = Append(ledger, IF Parsed(c.reply) THEN "submitted" ELSE "failed")
    /\ pos' = pos + opts.size
    /\ UNCHANGED <<pc, opts, plan, lookup, verdict>>

ImportEnd ==
    /\ tool \in {"import", "fields"} /\ pc = "batch" /\ pos > Len(plan)
    /\ Stop(IF \E i \in DOMAIN ledger : ledger[i] = "failed" THEN "failed" ELSE "success")
    /\ UNCHANGED <<tool, file, shown, confirmed, world, opts, plan, pos, lookup, ledger>>
    /\ UNCHANGED history

---------------------------------------------------------------------------
(* oa_batch_approve.py                                                     *)

\* Instances that are pending now are listed, in the order of the answer, which
\* need not name them all; a failed query reads like an empty list.
ApproveList(ids) ==
    /\ tool = "approve" /\ pc = "idle" /\ UNCHANGED shown
    /\ IF ids = <<>>
       THEN Refuse("nothing pending")
       ELSE {ids[i].id : i \in DOMAIN ids} \subseteq world /\ Begin(ids, NoOpts, "ask")

\* --instance-ids: what the caller names is taken as it is, an instance that is
\* not pending or is named twice too.
ApproveGiven(ids) ==
    /\ tool = "approve" /\ pc = "idle" /\ UNCHANGED shown
    /\ IF ids = <<>>
       THEN Refuse("nothing pending")
       ELSE Begin(ids, [NoOpts EXCEPT !.kind = "given"], "ask")

\* A dry run makes no call and asks nobody; each command it prints counts as
\* carried out.
ApproveDryRun ==
    /\ tool = "approve" /\ pc = "idle"
    /\ verdict' = "counted"
    /\ UNCHANGED <<tool, file, shown, confirmed, world, pc, opts, plan, pos, lookup, ledger>>
    /\ UNCHANGED history

\* The count is shown; the user answers, or --yes was given.
ApproveAsk(yes) ==
    /\ tool = "approve" /\ pc = "ask"
    /\ IF yes THEN pc' = "tasks" /\ UNCHANGED verdict ELSE Stop("cancelled")
    /\ UNCHANGED <<tool, file, shown, confirmed, world, opts, plan, pos, lookup, ledger>>
    /\ UNCHANGED history

\* The instance's first task; without one the call that follows carries the
\* literal placeholder, which the platform does not know.
ApproveLookup(found) ==
    /\ tool = "approve" /\ pc = "tasks" /\ pos <= Len(plan)
    /\ lookup' = IF found THEN plan[pos].id ELSE "<TASK_ID>"
    /\ pc' = "act"
    /\ UNCHANGED <<tool, file, shown, confirmed, world, opts, plan, pos, ledger, verdict>>
    /\ UNCHANGED history

ApproveAct(c) ==
    /\ tool = "approve" /\ pc = "act"
    /\ c.effect # "never" => lookup = plan[pos].id
    /\ Write(<<plan[pos]>>, c)
    /\ ledger' = Append(ledger, IF Parsed(c.reply) THEN "success" ELSE "fail")
    /\ pos' = pos + 1
    /\ pc' = "tasks"
    /\ UNCHANGED <<opts, plan, lookup, verdict>>

ApproveEnd ==
    /\ tool = "approve" /\ pc = "tasks" /\ pos > Len(plan)
    /\ Stop("counted")
    /\ UNCHANGED <<tool, file, shown, confirmed, world, opts, plan, pos, lookup, ledger>>
    /\ UNCHANGED history

---------------------------------------------------------------------------
(* attendance_schedule_import.py                                           *)

ScheduleRun(o) ==
    /\ tool = "schedule" /\ pc = "idle" /\ UNCHANGED shown
    /\ LET p == SchedulePlan(file) IN
       IF p = Invalid THEN Refuse("invalid") ELSE Begin(p, o, "group")

\* validate_group_is_turn: `group get', then `filtered-get' when it fails;
\* both failing, an answer without a type or of another type end the run.
ScheduleGroup(answered) ==
    /\ tool = "schedule" /\ pc = "group"
    /\ IF answered /\ world.type = "TURN"
       THEN pc' = "classes" /\ lookup' = world /\ UNCHANGED verdict
       ELSE Stop("invalid") /\ UNCHANGED lookup
    /\ UNCHANGED <<tool, file, shown, confirmed, world, opts, plan, pos, ledger>>
    /\ UNCHANGED history

\* fetch_all_classes reads every class, after the group was read; then the
\* rows are checked and shown.  Only --confirm without --dry-run goes on.
ScheduleClasses(answered) ==
    /\ tool = "schedule" /\ pc = "classes"
    /\ IF answered /\ ClassesAllowed(plan, lookup.bound, world.all)
       THEN IF opts.dry \/ opts.kind # "confirm"
            THEN Stop("preview")
            ELSE pc' = "import" /\ UNCHANGED verdict
       ELSE Stop("invalid")
    /\ UNCHANGED <<tool, file, shown, confirmed, world, opts, plan, pos, lookup, ledger>>
    /\ UNCHANGED history

ScheduleImport(c) ==
    /\ tool = "schedule" /\ pc = "import"
    /\ Write(plan, c)
    /\ Stop(IF Unwraps(c.reply) THEN "success" ELSE "failed")
    /\ UNCHANGED <<opts, plan, pos, lookup, ledger>>

---------------------------------------------------------------------------
IdLists == UNION {[1..n -> [id : Instances]] : n \in 0..Cardinality(Instances)}
Orders == {s \in IdLists : \A i, j \in DOMAIN s : i # j => s[i] # s[j]}

Next ==
    \/ EditFile \/ Confirm \/ WorldChanges \/ LateEffect \/ Die
    \/ TodoDryRun \/ TodoEnd
    \/ \E d \in confirmed \cup {Invalid} : TodoRun(d)
    \/ \E c \in Calls : TodoCreate(c) \/ SubmitBatch(c) \/ ApproveAct(c) \/ ScheduleImport(c)
    \/ \E a \in {"match", "other"} : TodoReadback(a)
    \/ \E kind \in {"csv", "json"}, size \in 0..MaxBatch + 1 : ImportRun(kind, size)
    \/ FieldsRun \/ ImportEnd
    \/ \E ids \in Orders : ApproveList(ids)
    \/ \E ids \in IdLists : ApproveGiven(ids)
    \/ ApproveDryRun
    \/ \E b \in BOOLEAN : ApproveAsk(b) \/ ApproveLookup(b) \/ ScheduleGroup(b) \/ ScheduleClasses(b)
    \/ ApproveEnd
    \/ \E d \in BOOLEAN, k \in {None, "confirm"} : ScheduleRun([NoOpts EXCEPT !.dry = d, !.kind = k])

Spec == Init /\ [][Next]_vars

---------------------------------------------------------------------------
(* Properties                                                              *)

\* A task the todo script reports as failed was not created and will not be:
\* whoever reads the ledger may create it again.  Everything doubtful, a late
\* effect included, is "unknown" or "unverified" (run_dws_json).
FailedMeansAbsent ==
    tool = "todo" => \A i \in DOMAIN ledger :
        ledger[i] = "failed" => made[plan[i].id] = 0 /\ plan[i].id \notin late

\* A batch reported complete was carried out: each of its tasks exists, once,
\* and nothing of it is still on its way (the ledger of todo_batch_create).
CompleteMeansOnce ==
    tool = "todo" /\ verdict = "complete" =>
        \A i \in DOMAIN plan : made[plan[i].id] = 1 /\ plan[i].id \notin late

\* Whatever is created belongs to the batch the user has confirmed, however
\* the file was edited between the dry run, the confirmation and the run: a
\* changed content is refused before the first call.
OnlyConfirmed ==
    [][\A i \in Ids : tool = "todo" /\ sent'[i] > sent[i] =>
          \E p \in confirmed : \E k \in DOMAIN p : p[k] = plan[pos] /\ p[k].id = i]_vars

\* A run submits no record twice, in whatever batches, and a run that reports
\* success has submitted every row that holds a value exactly once
\* (import_records' ranges, bulk_add_fields' single call).
EachSubmittedOnce ==
    tool \in {"import", "fields"} =>
        /\ \A i \in Ids : sent[i] <= 1
        /\ verdict = "success" =>
              \A i \in DOMAIN plan : sent[plan[i].id] = 1

\* What an approval run decides was pending when it was listed, unless the caller
\* named it, and what a schedule run writes was allowed by the states the group
\* had while it was checked, the group's own classes and all classes being read
\* at two times.
ActsOnChecked ==
    /\ tool = "approve" /\ opts.kind # "given" =>
          \A i \in Ids : sent[i] > 0 => \E w \in seen : i \in w
    /\ tool = "schedule" /\ (\E i \in Ids : sent[i] > 0) =>
          \E g, h \in seen : g.type = "TURN" /\ ClassesAllowed(plan, g.bound, h.all)

\* What the batch scripts say of a batch can be relied on by whoever acts on it.
BatchesHonest ==
    /\ FailedMeansAbsent
    /\ CompleteMeansOnce
    /\ EachSubmittedOnce
    /\ ActsOnChecked
=============================================================================
