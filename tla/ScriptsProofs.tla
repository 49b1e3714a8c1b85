--------------------------- MODULE ScriptsProofs ---------------------------
(***************************************************************************)
(* The scripts of MCTools, for any input files, limits and answers: what   *)
(* the batch scripts send and say of it, what the clients of long jobs     *)
(* report, what an installation leaves and what an update of a design.     *)
(***************************************************************************)
EXTENDS MCTools, FiniteSetTheorems, SequenceTheorems, TLAPS

---------------------------------------------------------------------------
(* BatchWrites: only what was confirmed is sent                            *)

\* A plan is a list of rows, and an id stands for one of them, except among the
\* instances an approval names.
Listed(p) ==
    /\ p \in Seq({p[i] : i \in DOMAIN p})
    /\ Len(p) \in Nat /\ DOMAIN p = 1..Len(p)
    /\ \A i \in DOMAIN p : p[i].id \in Ids
    /\ tool # "approve" => \A i, j \in DOMAIN p : p[i].id = p[j].id => i = j

\* A running todo script works through a plan the user has confirmed.
Working == /\ pc \in {"create", "readback"}
           /\ plan \in confirmed /\ pos \in Nat \ {0}
           /\ \A n \in Nat \ {0} : n <= Len(plan) => n \in DOMAIN plan

IInv ==
    /\ sent \in [Ids -> Nat]
    /\ tool = "todo" => file \in TodoFiles /\ (pc = "idle" \/ Working)

USE BatchAssumption DEF script, history

\* Every input file is one.
LEMMA FileListed ==
    ASSUME NEW f \in TodoFiles \cup RecordFiles \cup FieldFiles \cup ScheduleFiles
    PROVE  Listed(f) /\ f \in Seq({f[i] : i \in DOMAIN f})
<1>1. f \in Seq({f[i] : i \in DOMAIN f}) /\ \A i, j \in DOMAIN f : f[i].id = f[j].id => i = j
  BY FileAssumption
<1>2. Len(f) \in Nat /\ DOMAIN f = 1..Len(f)
  BY <1>1, LenProperties
<1>3. \A i \in DOMAIN f : f[i].id \in Ids
  BY DEF Ids, RowsOf
<1> QED BY <1>1, <1>2, <1>3 DEF Listed

\* A plan is as long as the file.
LEMMA PlanDomain ==
    ASSUME NEW f \in TodoFiles, TodoPlan(f) # Invalid
    PROVE  \A n \in Nat \ {0} : n <= Len(TodoPlan(f)) => n \in DOMAIN TodoPlan(f)
<1> DEFINE norm(i) == [id |-> f[i].id, due |-> Due(f[i].due), recurs |-> f[i].recurs]
           g == [i \in DOMAIN f |-> norm(i)]
<1>1. TodoPlan(f) = g
  BY DEF TodoPlan
<1> HIDE DEF norm
<1>2. Len(f) \in Nat /\ DOMAIN f = 1..Len(f)
  BY FileListed DEF Listed
<1>3. Len(g) = Len(f) /\ DOMAIN g = 1..Len(f)
  BY <1>2
<1> QED
  BY <1>1, <1>3

LEMMA InitIInv == Init => IInv
BY DEF Init, IInv, Zero, Files

\* A run that begins is one whose digest the user confirmed.
LEMMA TodoRunStep ==
    ASSUME IInv, NEW d \in confirmed \cup {Invalid}, TodoRun(d)
    PROVE  IInv' /\ (sent' = sent \/ sent' = Zero)
<1> DEFINE p == TodoPlan(file)
<1>1. CASE p = Invalid
  BY <1>1 DEF TodoRun, Refuse, Stop, IInv
<1>2. CASE p # Invalid /\ d # p
  BY <1>2 DEF TodoRun, Refuse, Stop, IInv
<1>3. CASE p # Invalid /\ d = p
  <2>1. Begin(p, NoOpts, "create") /\ tool = "todo"
    BY <1>3 DEF TodoRun
  <2>2. \A n \in Nat \ {0} : n <= Len(p) => n \in DOMAIN p
    BY <1>3, <2>1, PlanDomain DEF IInv
  <2> HIDE DEF p
  <2> QED
    BY <1>3, <2>1, <2>2 DEF Begin, IInv, Working, Zero
<1> QED
  BY <1>1, <1>2, <1>3

\* A call counts the rows it carries.
LEMMA WriteCounts ==
    ASSUME sent \in [Ids -> Nat], NEW rows, NEW c, Write(rows, c)
    PROVE  /\ sent' \in [Ids -> Nat]
           /\ \A i \in Ids : sent'[i] > sent[i] => i \in {rows[k].id : k \in DOMAIN rows}
<1> DEFINE ids == {rows[k].id : k \in DOMAIN rows}
<1>1. sent' = [i \in Ids |-> IF i \in ids THEN sent[i] + 1 ELSE sent[i]]
  BY DEF Write
<1> HIDE DEF ids
<1>2. sent' \in [Ids -> Nat]
  BY <1>1
<1>3. \A i \in Ids : sent'[i] > sent[i] => i \in ids
  BY <1>1
<1> QED
  BY <1>2, <1>3 DEF ids

\* The todo script's next call.
LEMMA TodoCreateStep ==
    ASSUME IInv, NEW c \in Calls, TodoCreate(c)
    PROVE  /\ IInv'
           /\ \A i \in Ids : sent'[i] > sent[i] =>
                \E p \in confirmed : \E k \in DOMAIN p : p[k] = plan[pos] /\ p[k].id = i
<1>1. /\ tool = "todo" /\ pos \in Nat \ {0} /\ pos <= Len(plan) /\ plan \in confirmed
      /\ pos \in DOMAIN plan
  BY DEF TodoCreate, IInv, Working
<1>2. Write(<<plan[pos]>>, c)
  BY DEF TodoCreate
<1>3. /\ sent' \in [Ids -> Nat]
      /\ \A i \in Ids : sent'[i] > sent[i] =>
            i \in {<<plan[pos]>>[k].id : k \in DOMAIN <<plan[pos]>>}
  BY <1>2, WriteCounts DEF IInv
<1>4. \A i \in Ids : sent'[i] > sent[i] => i = plan[pos].id
  BY <1>3
<1>5. Working'
  BY <1>1, <1>2 DEF TodoCreate, Write, IInv, Working
<1>6. UNCHANGED <<tool, file>>
  BY <1>2 DEF Write
<1> QED
  BY <1>1, <1>3, <1>4, <1>5, <1>6 DEF IInv

\* Every step keeps the invariant; whatever it sends was confirmed.
LEMMA StepIInv ==
    ASSUME IInv, [Next]_vars
    PROVE  /\ IInv'
           /\ \A i \in Ids : tool = "todo" /\ sent'[i] > sent[i] =>
                \E p \in confirmed : \E k \in DOMAIN p : p[k] = plan[pos] /\ p[k].id = i
<1> DEFINE Confirmed ==
        \A i \in Ids : tool = "todo" /\ sent'[i] > sent[i] =>
            \E p \in confirmed : \E k \in DOMAIN p : p[k] = plan[pos] /\ p[k].id = i
<1>1. sent \in [Ids -> Nat]
  BY DEF IInv
<1>2. sent' = sent \/ sent' = Zero => Confirmed
  <2>1. \A i \in Ids : ~(sent[i] > sent[i]) /\ ~(0 > sent[i])
    BY <1>1
  <2> QED
    BY <2>1 DEF Zero
<1>3. CASE EditFile \/ Confirm \/ WorldChanges \/ LateEffect \/ Die
  <2>1. sent' = sent
    BY <1>3 DEF EditFile, Confirm, WorldChanges, LateEffect, Die
  <2>2. IInv'
    BY <1>3, <2>1 DEF EditFile, Confirm, WorldChanges, LateEffect, Die, Stop, IInv, Working, Files
  <2> QED
    BY <1>2, <2>1, <2>2
<1>4. CASE TodoDryRun \/ TodoEnd \/ \E a \in {"match", "other"} : TodoReadback(a)
  <2>1. sent' = sent
    BY <1>4 DEF TodoDryRun, TodoEnd, TodoReadback
  <2>2. IInv'
    BY <1>4, <2>1 DEF TodoDryRun, TodoEnd, TodoReadback, Stop, IInv, Working
  <2> QED
    BY <1>2, <2>1, <2>2
<1>5. ASSUME NEW d \in confirmed \cup {Invalid}, TodoRun(d) PROVE IInv' /\ Confirmed
  BY <1>2, <1>5, TodoRunStep
<1>6. ASSUME NEW c \in Calls, TodoCreate(c) PROVE IInv' /\ Confirmed
  BY <1>6, TodoCreateStep
<1>7. ASSUME tool # "todo", UNCHANGED tool,
             sent' = sent \/ sent' = Zero \/ \E rows : \E c \in Calls : Write(rows, c)
      PROVE  IInv' /\ Confirmed
  <2>1. Zero \in [Ids -> Nat]
    BY DEF Zero
  <2> QED
    BY <1>1, <1>7, <2>1, WriteCounts DEF IInv
<1>8. ASSUME NEW c \in Calls, SubmitBatch(c) \/ ApproveAct(c) \/ ScheduleImport(c)
      PROVE  IInv' /\ Confirmed
  <2>1. tool # "todo"
    BY <1>8 DEF SubmitBatch, ApproveAct, ScheduleImport
  <2>2. PICK rows : Write(rows, c)
    BY <1>8 DEF SubmitBatch, ApproveAct, ScheduleImport
  <2>3. UNCHANGED tool
    BY <2>2 DEF Write
  <2> QED
    BY <1>7, <2>1, <2>2, <2>3
<1>9. CASE \/ \E kind \in {"csv", "json"}, size \in 0..MaxBatch + 1 : ImportRun(kind, size)
           \/ FieldsRun \/ \E ids \in Orders : ApproveList(ids)
           \/ \E ids \in IdLists : ApproveGiven(ids)
           \/ \E d \in BOOLEAN, k \in {None, "confirm"} :
                  ScheduleRun([NoOpts EXCEPT !.dry = d, !.kind = k])
  <2>1. tool # "todo"
    BY <1>9 DEF ImportRun, FieldsRun, ApproveList, ApproveGiven, ScheduleRun
  <2>2. UNCHANGED tool /\ (sent' = sent \/ sent' = Zero)
    BY <1>9 DEF ImportRun, FieldsRun, ApproveList, ApproveGiven, ScheduleRun, Refuse, Begin
  <2> QED
    BY <1>7, <2>1, <2>2
<1>10. CASE ImportEnd \/ ApproveEnd \/ ApproveDryRun \/ \E b \in BOOLEAN : ApproveAsk(b) \/ ApproveLookup(b)
                                            \/ ScheduleGroup(b) \/ ScheduleClasses(b)
  <2>1. tool # "todo" /\ UNCHANGED <<tool, sent>>
    BY <1>10 DEF ImportEnd, ApproveEnd, ApproveDryRun, ApproveAsk, ApproveLookup, ScheduleGroup, ScheduleClasses
  <2> QED
    BY <1>7, <2>1
<1>11. CASE UNCHANGED vars
  <2>1. sent' = sent /\ IInv'
    BY <1>11 DEF vars, IInv, Working
  <2> QED
    BY <1>2, <2>1
<1> QED
  BY <1>3, <1>4, <1>5, <1>6, <1>8, <1>9, <1>10, <1>11 DEF Next

\* A todo is created only if it belongs to a batch the user has confirmed: the
\* digest is compared with the plan just read, and that plan is carried out.
THEOREM OnlyConfirmedIsSent == Spec => OnlyConfirmed
<1>1. IInv /\ [Next]_vars => IInv'
  BY StepIInv
<1>2. IInv /\ [Next]_vars =>
        [\A i \in Ids : tool = "todo" /\ sent'[i] > sent[i] =>
             \E p \in confirmed : \E k \in DOMAIN p : p[k] = plan[pos] /\ p[k].id = i]_vars
  BY StepIInv
<1> QED
  BY InitIInv, <1>1, <1>2, PTL DEF Spec, OnlyConfirmed

---------------------------------------------------------------------------
(* BatchWrites: what is said of a batch is so                              *)

Types ==
    /\ tool \in AllTools /\ file \in Files(tool) /\ world \in Worlds(tool)
    /\ sent \in [Ids -> Nat] /\ made \in [Ids -> Nat] /\ late \subseteq Ids
    /\ pos \in Nat \ {0} /\ Listed(plan)

\* The todo script keeps one status for each call, in order.  What was not tried
\* yet has no effect and no late one; what was tried has one effect at most, none
\* if it failed, and exactly the one if it was read back.
TodoInv ==
    /\ pc \in {"idle", "create", "readback"}
    /\ pos <= Len(plan) + 1
    /\ ledger \in Seq({"verified", "unverified", "unknown", "failed"}) /\ Len(ledger) = pos - 1
    /\ \A i \in DOMAIN plan : LET id == plan[i].id IN
          /\ i >= pos => made[id] = 0 /\ id \notin late
          /\ made[id] = 0 \/ (made[id] = 1 /\ id \notin late)
          /\ i < pos /\ ledger[i] = "failed" => made[id] = 0 /\ id \notin late
          /\ i < pos /\ ledger[i] = "verified" => made[id] = 1
    /\ pc = "readback" => pos > 1 /\ ledger[pos - 1] # "failed"
    /\ verdict = "complete" => pc = "idle" /\ pos = Len(plan) + 1
                               /\ \A i \in DOMAIN ledger : ledger[i] = "verified"

\* The batches submitted are the rows before pos, each once.
BatchInv ==
    /\ pc \in {"idle", "batch"}
    /\ opts.size \in Nat \ {0}
    /\ \A i \in Ids : sent[i] = IF \E k \in DOMAIN plan : k < pos /\ plan[k].id = i THEN 1 ELSE 0
    /\ verdict = "success" => pc = "idle" /\ pos > Len(plan)

\* What an approval run works through was pending when it began, or named.
ApproveInv ==
    /\ pc \in {"idle", "ask", "tasks", "act"}
    /\ pc # "idle" /\ opts.kind # "given" => \A k \in DOMAIN plan : \E w \in seen : plan[k].id \in w
    /\ pc = "act" => pos <= Len(plan)
    /\ opts.kind # "given" => \A i \in Ids : sent[i] > 0 => \E w \in seen : i \in w

\* The schedule script goes on with a group it has read, then with checked rows.
Checked == \E g, h \in seen : g.type = "TURN" /\ ClassesAllowed(plan, g.bound, h.all)
ScheduleInv ==
    /\ pc \in {"idle", "group", "classes", "import"}
    /\ pc # "idle" => world \in seen
    /\ pc = "classes" => lookup \in seen /\ lookup.type = "TURN"
    /\ pc = "import" => Checked
    /\ (\E i \in Ids : sent[i] > 0) => Checked

ScriptsInv ==
    /\ Types
    /\ tool = "todo" => TodoInv
    /\ tool \in {"import", "fields"} => BatchInv
    /\ tool = "approve" => ApproveInv
    /\ tool = "schedule" => ScheduleInv

LEMMA ScriptsInit == Init => ScriptsInv
<1> SUFFICES ASSUME Init PROVE ScriptsInv
  OBVIOUS
<1>1. /\ <<>> \in Seq({"verified", "unverified", "unknown", "failed"}) /\ Len(<<>>) = 0
      /\ DOMAIN <<>> = {} /\ <<>> \in Seq({<<>>[i] : i \in DOMAIN <<>>}) /\ 1..0 = {}
  OBVIOUS
<1>2. Listed(plan)
  BY <1>1 DEF Init, Listed
<1>3. Types
  BY <1>2 DEF Init, Types, Zero
<1>4. TodoInv /\ BatchInv /\ ApproveInv
  BY <1>1 DEF Init, TodoInv, BatchInv, ApproveInv, NoOpts, Zero, None
<1>5. ScheduleInv
  BY DEF Init, ScheduleInv, Zero
<1> QED BY <1>3, <1>4, <1>5 DEF ScriptsInv

\* A step that ends a run, or only speaks, says neither "complete" nor "success".
LEMMA QuietInv ==
    ASSUME ScriptsInv, pc' = "idle", verdict' \notin {"complete", "success"},
           UNCHANGED <<tool, file, world, opts, plan, pos, ledger, made, late, sent, seen>>
    PROVE  ScriptsInv'
<1>1. Types'
  BY DEF ScriptsInv, Types, Listed
<1>2. tool = "todo" => TodoInv'
  BY DEF ScriptsInv, TodoInv
<1>3. tool \in {"import", "fields"} => BatchInv'
  BY DEF ScriptsInv, BatchInv
<1>4. tool = "approve" => ApproveInv'
  BY DEF ScriptsInv, ApproveInv
<1>5. tool = "schedule" => ScheduleInv'
  BY DEF ScriptsInv, ScheduleInv, Checked
<1> QED BY <1>1, <1>2, <1>3, <1>4, <1>5 DEF ScriptsInv

\* A run that begins has made no call yet.
LEMMA BeginInv ==
    ASSUME ScriptsInv, NEW p, NEW o, NEW start, Begin(p, o, start), Listed(p),
           tool = "todo" => start = "create",
           tool \in {"import", "fields"} => start = "batch" /\ o.size \in Nat \ {0},
           tool = "approve" => start = "ask" /\ (o.kind # "given" => \A k \in DOMAIN p : p[k].id \in world),
           tool = "schedule" => start = "group"
    PROVE  ScriptsInv'
<1>1. /\ pc' = start /\ opts' = o /\ plan' = p /\ pos' = 1 /\ ledger' = <<>> /\ verdict' = None
      /\ made' = Zero /\ late' = {} /\ sent' = Zero /\ seen' = {world}
      /\ UNCHANGED <<tool, file, world>>
  BY DEF Begin
<1>2. /\ <<>> \in Seq({"verified", "unverified", "unknown", "failed"}) /\ Len(<<>>) = 0
      /\ DOMAIN p = 1..Len(p) /\ Len(p) \in Nat /\ \A i \in DOMAIN p : p[i].id \in Ids
  BY DEF Listed
<1>3. Types'
  BY <1>1 DEF ScriptsInv, Types, Zero, Listed
<1>4. tool = "todo" => TodoInv'
  BY <1>1, <1>2 DEF TodoInv, Zero, None
<1>5. tool \in {"import", "fields"} => BatchInv'
  BY <1>1, <1>2 DEF BatchInv, Zero, None
<1>6. tool = "approve" => ApproveInv'
  BY <1>1 DEF ApproveInv, Zero
<1>7. tool = "schedule" => ScheduleInv'
  BY <1>1 DEF ScheduleInv, Zero
<1> QED BY <1>1, <1>3, <1>4, <1>5, <1>6, <1>7 DEF ScriptsInv

\* What a call does: the rows it carries are counted, and carried out or not.
LEMMA WriteEffect ==
    ASSUME ScriptsInv, NEW rows, NEW c, Write(rows, c), {rows[k].id : k \in DOMAIN rows} \subseteq Ids
    PROVE  LET ids == {rows[k].id : k \in DOMAIN rows} IN
           /\ sent' \in [Ids -> Nat] /\ made' \in [Ids -> Nat] /\ late' \subseteq Ids
           /\ \A i \in Ids : sent'[i] = IF i \in ids THEN sent[i] + 1 ELSE sent[i]
           /\ \A i \in Ids : made'[i] = IF i \in ids /\ c.effect = "now" THEN made[i] + 1 ELSE made[i]
           /\ late' = IF c.effect = "later" THEN late \cup ids ELSE late
           /\ UNCHANGED <<tool, file, world, seen>>
<1> DEFINE ids == {rows[k].id : k \in DOMAIN rows}
<1>1. /\ sent' = [i \in Ids |-> IF i \in ids THEN sent[i] + 1 ELSE sent[i]]
      /\ made' = [i \in Ids |-> IF i \in ids /\ c.effect = "now" THEN made[i] + 1 ELSE made[i]]
      /\ late' = IF c.effect = "later" THEN late \cup ids ELSE late
      /\ UNCHANGED <<tool, file, world, seen>>
  BY DEF Write
<1>2. sent \in [Ids -> Nat] /\ made \in [Ids -> Nat] /\ late \subseteq Ids
  BY DEF ScriptsInv, Types
<1> HIDE DEF ids
<1>3. sent' \in [Ids -> Nat] /\ made' \in [Ids -> Nat]
  BY <1>1, <1>2
<1>4. /\ \A i \in Ids : sent'[i] = IF i \in ids THEN sent[i] + 1 ELSE sent[i]
      /\ \A i \in Ids : made'[i] = IF i \in ids /\ c.effect = "now" THEN made[i] + 1 ELSE made[i]
  BY <1>1
<1>5. late' \subseteq Ids
  BY <1>1, <1>2 DEF ids
<1> QED BY <1>1, <1>3, <1>4, <1>5 DEF ids

---------------------------------------------------------------------------
(* The world around the scripts                                            *)

LEMMA WorldInv ==
    ASSUME ScriptsInv, EditFile \/ Confirm \/ WorldChanges
    PROVE  ScriptsInv'
<1>1. /\ UNCHANGED <<tool, pc, opts, plan, pos, lookup, ledger, verdict, made, late, sent>>
      /\ seen \subseteq seen' /\ world' \in Worlds(tool) /\ file' \in Files(tool)
      /\ pc # "idle" /\ world \in seen => world' \in seen'
  BY DEF EditFile, Confirm, WorldChanges, ScriptsInv, Types
<1>2. Types'
  BY <1>1 DEF ScriptsInv, Types, Listed
<1>3. tool = "todo" => TodoInv'
  BY <1>1 DEF ScriptsInv, TodoInv
<1>4. tool \in {"import", "fields"} => BatchInv'
  BY <1>1 DEF ScriptsInv, BatchInv
<1>5. tool = "approve" => ApproveInv'
  BY <1>1 DEF ScriptsInv, ApproveInv
<1>6. tool = "schedule" => ScheduleInv'
  BY <1>1 DEF ScriptsInv, ScheduleInv, Checked
<1> QED BY <1>1, <1>2, <1>3, <1>4, <1>5, <1>6 DEF ScriptsInv

\* A late effect is that of a row that was tried and of which nothing is known.
LEMMA LateEffectInv == ASSUME ScriptsInv, LateEffect PROVE ScriptsInv'
<1>1. PICK i \in late : late' = late \ {i} /\ made' = [made EXCEPT ![i] = @ + 1]
  BY DEF LateEffect
<1>2. UNCHANGED <<tool, file, world, pc, opts, plan, pos, lookup, ledger, verdict, sent, seen>>
  BY DEF LateEffect
<1>3. made \in [Ids -> Nat] /\ i \in Ids
  BY <1>1 DEF ScriptsInv, Types
<1>4. made' \in [Ids -> Nat] /\ \A j \in Ids : made'[j] = IF j = i THEN made[i] + 1 ELSE made[j]
  BY <1>1, <1>3
<1>5. Types'
  BY <1>1, <1>2, <1>4 DEF ScriptsInv, Types, Listed
<1>6. tool = "todo" => TodoInv'
  <2> SUFFICES ASSUME tool = "todo" PROVE TodoInv'
    OBVIOUS
  <2>1. TodoInv /\ \A k \in DOMAIN plan : plan[k].id \in Ids
    BY DEF ScriptsInv, Types, Listed
  <2>2. \A k \in DOMAIN plan :
          /\ k >= pos => made'[plan[k].id] = 0 /\ plan[k].id \notin late'
          /\ made'[plan[k].id] = 0 \/ (made'[plan[k].id] = 1 /\ plan[k].id \notin late')
          /\ k < pos /\ ledger[k] = "failed" => made'[plan[k].id] = 0 /\ plan[k].id \notin late'
          /\ k < pos /\ ledger[k] = "verified" => made'[plan[k].id] = 1
    BY <1>1, <1>3, <1>4, <2>1 DEF TodoInv
  <2> QED BY <1>2, <2>1, <2>2 DEF TodoInv
<1>7. tool \in {"import", "fields"} => BatchInv'
  BY <1>2 DEF ScriptsInv, BatchInv
<1>8. tool = "approve" => ApproveInv'
  BY <1>2 DEF ScriptsInv, ApproveInv
<1>9. tool = "schedule" => ScheduleInv'
  BY <1>2 DEF ScriptsInv, ScheduleInv, Checked
<1> QED BY <1>2, <1>5, <1>6, <1>7, <1>8, <1>9 DEF ScriptsInv

---------------------------------------------------------------------------
(* todo_batch_create.py                                                    *)

LEMMA TodoPlanListed ==
    ASSUME NEW f \in TodoFiles, TodoPlan(f) # Invalid
    PROVE  Listed(TodoPlan(f))
<1> DEFINE norm(i) == [id |-> f[i].id, due |-> Due(f[i].due), recurs |-> f[i].recurs]
           g == [i \in DOMAIN f |-> norm(i)]
<1>1. TodoPlan(f) = g
  BY DEF TodoPlan
<1>2. Listed(f)
  BY FileListed
<1>3. \A i \in DOMAIN f : g[i].id = f[i].id
  OBVIOUS
<1> HIDE DEF norm
<1>4. /\ DOMAIN g = DOMAIN f /\ DOMAIN f = 1..Len(f) /\ Len(f) \in Nat /\ Len(g) = Len(f)
      /\ g \in Seq({g[i] : i \in DOMAIN g})
  BY <1>2 DEF Listed
<1> HIDE DEF g
<1>5. Listed(g)
  BY <1>2, <1>3, <1>4 DEF Listed
<1> QED BY <1>1, <1>5 DEF g

LEMMA TodoRunInv == ASSUME ScriptsInv, NEW d \in confirmed \cup {Invalid}, TodoRun(d) PROVE ScriptsInv'
<1> DEFINE p == TodoPlan(file)
<1>1. CASE p = Invalid \/ d # p
  <2>1. Refuse("invalid") \/ Refuse("confirmation_required") \/ Refuse("plan_mismatch")
    BY <1>1 DEF TodoRun
  <2> QED BY <2>1, QuietInv DEF Refuse, Stop
<1>2. CASE p # Invalid /\ d = p
  <2>1. Begin(p, NoOpts, "create") /\ tool = "todo" /\ file \in TodoFiles
    BY <1>2 DEF TodoRun, ScriptsInv, Types, Files
  <2>2. Listed(p)
    BY <1>2, <2>1, TodoPlanListed
  <2> HIDE DEF p
  <2> QED BY <2>1, <2>2, BeginInv
<1> QED BY <1>1, <1>2

\* A status says no more than the reply allows.
LEMMA StatusHonest ==
    ASSUME NEW c \in Calls
    PROVE  /\ TodoStatus(c.reply) \in {"unverified", "unknown", "failed"}
           /\ TodoStatus(c.reply) = "failed" => c.effect = "never"
           /\ Returns(c.reply) /\ c.reply # "noid" => TodoStatus(c.reply) # "failed"
<1>1. c.reply \in Replies /\ c.effect \in Applied(c.reply)
  BY DEF Calls
<1> QED BY <1>1 DEF Replies, Applied, TodoStatus, Returns, CommitUnknown

LEMMA TodoCreateInv == ASSUME ScriptsInv, NEW c \in Calls, TodoCreate(c) PROVE ScriptsInv'
<1>1. /\ tool = "todo" /\ pc = "create" /\ pos <= Len(plan) /\ pos \in Nat \ {0}
      /\ TodoInv /\ Listed(plan) /\ pos \in DOMAIN plan /\ plan[pos].id \in Ids
  BY DEF TodoCreate, ScriptsInv, Types, Listed
<1>2. /\ Write(<<plan[pos]>>, c)
      /\ ledger' = Append(ledger, TodoStatus(c.reply)) /\ pos' = pos + 1
      /\ pc' = IF Returns(c.reply) /\ c.reply # "noid" THEN "readback" ELSE "create"
      /\ UNCHANGED <<opts, plan, lookup, verdict>>
  BY DEF TodoCreate
<1>3. {<<plan[pos]>>[k].id : k \in DOMAIN <<plan[pos]>>} = {plan[pos].id}
  OBVIOUS
<1>4. /\ sent' \in [Ids -> Nat] /\ made' \in [Ids -> Nat] /\ late' \subseteq Ids
      /\ \A i \in Ids : made'[i] = IF i = plan[pos].id /\ c.effect = "now" THEN made[i] + 1 ELSE made[i]
      /\ late' = IF c.effect = "later" THEN late \cup {plan[pos].id} ELSE late
      /\ UNCHANGED <<tool, file, world, seen>>
  BY <1>1, <1>2, <1>3, WriteEffect
<1>5. Types'
  BY <1>1, <1>2, <1>4 DEF ScriptsInv, Types, Listed
<1>6. /\ ledger' \in Seq({"verified", "unverified", "unknown", "failed"}) /\ Len(ledger') = pos
      /\ \A i \in 1..(pos - 1) : ledger'[i] = ledger[i]
      /\ ledger'[pos] = TodoStatus(c.reply)
  BY <1>1, <1>2, StatusHonest, AppendProperties DEF TodoInv
<1>7. \A i \in DOMAIN plan :
        /\ i >= pos' => made'[plan[i].id] = 0 /\ plan[i].id \notin late'
        /\ made'[plan[i].id] = 0 \/ (made'[plan[i].id] = 1 /\ plan[i].id \notin late')
        /\ i < pos' /\ ledger'[i] = "failed" => made'[plan[i].id] = 0 /\ plan[i].id \notin late'
        /\ i < pos' /\ ledger'[i] = "verified" => made'[plan[i].id] = 1
  <2> SUFFICES ASSUME NEW i \in DOMAIN plan
               PROVE  /\ i >= pos' => made'[plan[i].id] = 0 /\ plan[i].id \notin late'
                      /\ made'[plan[i].id] = 0 \/ (made'[plan[i].id] = 1 /\ plan[i].id \notin late')
                      /\ i < pos' /\ ledger'[i] = "failed" => made'[plan[i].id] = 0 /\ plan[i].id \notin late'
                      /\ i < pos' /\ ledger'[i] = "verified" => made'[plan[i].id] = 1
    OBVIOUS
  <2>1. i \in Nat /\ i >= 1 /\ plan[i].id \in Ids
    BY <1>1 DEF Listed
  <2>2. /\ i >= pos => made[plan[i].id] = 0 /\ plan[i].id \notin late
        /\ made[plan[i].id] = 0 \/ (made[plan[i].id] = 1 /\ plan[i].id \notin late)
        /\ i < pos /\ ledger[i] = "failed" => made[plan[i].id] = 0 /\ plan[i].id \notin late
        /\ i < pos /\ ledger[i] = "verified" => made[plan[i].id] = 1
    BY <1>1 DEF TodoInv
  <2>3. CASE i = pos
    <3>1. TodoStatus(c.reply) \in {"unverified", "unknown", "failed"}
          /\ (TodoStatus(c.reply) = "failed" => c.effect = "never")
      BY StatusHonest
    <3>2. made'[plan[i].id] = IF c.effect = "now" THEN 1 ELSE 0
      BY <1>4, <2>1, <2>2, <2>3, <1>1
    <3> QED BY <1>1, <1>2, <1>4, <1>6, <2>2, <2>3, <3>1, <3>2
  <2>4. CASE i # pos
    <3>1. plan[i].id # plan[pos].id
      BY <1>1, <2>4 DEF Listed
    <3>2. made'[plan[i].id] = made[plan[i].id] /\ (plan[i].id \in late' => plan[i].id \in late)
      BY <1>4, <2>1, <3>1
    <3>3. i < pos' => i \in 1..(pos - 1)
      BY <1>1, <1>2, <2>1, <2>4
    <3> QED BY <1>1, <1>2, <1>6, <2>1, <2>2, <2>4, <3>2, <3>3
  <2> QED BY <2>3, <2>4
<1>8. pc' = "readback" => pos' > 1 /\ ledger'[pos' - 1] # "failed"
  BY <1>1, <1>2, <1>6, StatusHonest
<1>9. TodoInv'
  BY <1>1, <1>2, <1>6, <1>7, <1>8 DEF TodoInv, Listed
<1> QED BY <1>1, <1>4, <1>5, <1>9 DEF ScriptsInv

LEMMA TodoReadbackInv ==
    ASSUME ScriptsInv, NEW answer, TodoReadback(answer)
    PROVE  ScriptsInv'
<1>1. /\ tool = "todo" /\ pc = "readback" /\ pos \in Nat /\ pos > 1 /\ pos <= Len(plan) + 1
      /\ TodoInv /\ Listed(plan) /\ pos - 1 \in DOMAIN plan
      /\ ledger \in Seq({"verified", "unverified", "unknown", "failed"}) /\ Len(ledger) = pos - 1
      /\ ledger[pos - 1] # "failed"
  BY DEF TodoReadback, ScriptsInv, Types, Listed, TodoInv
<1>2. /\ answer = "match" => made[plan[pos - 1].id] > 0
      /\ ledger' = IF answer = "match" THEN [ledger EXCEPT ![Len(ledger)] = "verified"] ELSE ledger
      /\ pc' = "create"
      /\ UNCHANGED <<tool, file, world, opts, plan, pos, verdict, made, late, sent, seen>>
  BY DEF TodoReadback
<1>3. Types'
  BY <1>1, <1>2 DEF ScriptsInv, Types, Listed
<1>4. /\ ledger' \in Seq({"verified", "unverified", "unknown", "failed"}) /\ Len(ledger') = pos - 1
      /\ \A i \in 1..(pos - 1) :
            ledger'[i] = IF i = pos - 1 /\ answer = "match" THEN "verified" ELSE ledger[i]
  <2>1. Len(ledger) \in 1..Len(ledger)
    BY <1>1
  <2>2. /\ [ledger EXCEPT ![Len(ledger)] = "verified"] \in Seq({"verified", "unverified", "unknown", "failed"})
        /\ Len([ledger EXCEPT ![Len(ledger)] = "verified"]) = Len(ledger)
        /\ \A i \in 1..Len(ledger) : [ledger EXCEPT ![Len(ledger)] = "verified"][i]
                                       = IF i = Len(ledger) THEN "verified" ELSE ledger[i]
    BY <1>1, <2>1, ExceptSeq
  <2>3. CASE answer = "match"
    BY <1>1, <1>2, <2>2, <2>3
  <2>4. CASE answer # "match"
    BY <1>1, <1>2, <2>4
  <2> QED BY <2>3, <2>4
<1>5. made \in [Ids -> Nat] /\ plan[pos - 1].id \in Ids
  BY <1>1 DEF ScriptsInv, Types, Listed
<1>6. answer = "match" => made[plan[pos - 1].id] = 1
  BY <1>1, <1>2, <1>5 DEF TodoInv
<1>7. \A i \in DOMAIN plan :
        /\ i < pos /\ ledger'[i] = "failed" => made[plan[i].id] = 0 /\ plan[i].id \notin late
        /\ i < pos /\ ledger'[i] = "verified" => made[plan[i].id] = 1
  <2> SUFFICES ASSUME NEW i \in DOMAIN plan, i < pos
               PROVE  /\ ledger'[i] = "failed" => made[plan[i].id] = 0 /\ plan[i].id \notin late
                      /\ ledger'[i] = "verified" => made[plan[i].id] = 1
    OBVIOUS
  <2>1. i \in 1..(pos - 1)
    BY <1>1 DEF Listed
  <2> QED BY <1>1, <1>4, <1>6, <2>1 DEF TodoInv
<1>8. verdict = "complete" => FALSE
  BY <1>1 DEF TodoInv
<1>9. TodoInv'
  BY <1>1, <1>2, <1>4, <1>7, <1>8 DEF TodoInv
<1> QED BY <1>1, <1>2, <1>3, <1>9 DEF ScriptsInv

LEMMA TodoEndInv == ASSUME ScriptsInv, TodoEnd \/ TodoDryRun PROVE ScriptsInv'
<1>1. UNCHANGED <<tool, file, world, opts, plan, pos, ledger, made, late, sent, seen>> /\ pc' = "idle"
  BY DEF TodoEnd, TodoDryRun, Stop
<1>2. CASE verdict' # "complete" /\ verdict' # "success"
  BY <1>1, <1>2, QuietInv
<1>3. CASE verdict' = "complete" \/ verdict' = "success"
  <2>1. /\ TodoEnd /\ tool = "todo" /\ pos > Len(plan) /\ \A i \in DOMAIN ledger : ledger[i] = "verified"
    BY <1>3 DEF TodoEnd, TodoDryRun, Stop
  <2>2. TodoInv /\ pos \in Nat /\ Len(plan) \in Nat
    BY <2>1 DEF ScriptsInv, Types, Listed
  <2>3. pos = Len(plan) + 1
    BY <2>1, <2>2 DEF TodoInv
  <2>4. Types'
    BY <1>1 DEF ScriptsInv, Types, Listed
  <2>5. TodoInv'
    BY <1>1, <2>1, <2>2, <2>3 DEF TodoInv
  <2> QED BY <1>1, <2>1, <2>4, <2>5 DEF ScriptsInv
<1> QED BY <1>2, <1>3

---------------------------------------------------------------------------
(* import_records.py and bulk_add_fields.py                                *)

\* Counting what lies below them numbers the elements of a set of numbers.
LEMMA Numbered ==
    ASSUME NEW A \in SUBSET Nat, IsFiniteSet(A)
    PROVE  /\ Cardinality(A) \in Nat
           /\ \A k \in 1..Cardinality(A) : \E i \in A : Cardinality({j \in A : j <= i}) = k
<1> DEFINE below(i) == {j \in A : j <= i}
           g == [i \in A |-> Cardinality(below(i))]
           N == Cardinality(A)
<1>1. N \in Nat
  BY FS_CardinalityType
<1>2. \A i \in A : IsFiniteSet(below(i)) /\ Cardinality(below(i)) \in Nat
                   /\ Cardinality(below(i)) <= N /\ i \in below(i) /\ Cardinality(below(i)) >= 1
  <2> SUFFICES ASSUME NEW i \in A
               PROVE  IsFiniteSet(below(i)) /\ Cardinality(below(i)) \in Nat
                      /\ Cardinality(below(i)) <= N /\ i \in below(i) /\ Cardinality(below(i)) >= 1
    OBVIOUS
  <2>1. below(i) \subseteq A /\ i \in below(i)
    OBVIOUS
  <2>2. IsFiniteSet(below(i)) /\ Cardinality(below(i)) \in Nat /\ Cardinality(below(i)) <= N
    BY <1>1, <2>1, FS_Subset, FS_CardinalityType
  <2>3. Cardinality(below(i)) # 0
    BY <2>1, <2>2, FS_EmptySet
  <2> QED BY <2>1, <2>2, <2>3
<1>3. g \in [A -> 1..N]
  BY <1>1, <1>2
<1>4. \A i, j \in A : i < j => g[i] < g[j]
  <2> SUFFICES ASSUME NEW i \in A, NEW j \in A, i < j PROVE g[i] < g[j]
    OBVIOUS
  <2>1. below(i) \subseteq below(j) /\ j \in below(j) /\ j \notin below(i)
    <3>1. i \in Nat /\ j \in Nat /\ \A m \in A : m \in Nat
      OBVIOUS
    <3>2. \A m \in A : m <= i => m <= j
      BY <3>1
    <3>3. j <= j /\ ~(j <= i)
      BY <3>1
    <3> QED BY <3>2, <3>3
  <2>2. Cardinality(below(i)) <= Cardinality(below(j)) /\ Cardinality(below(i)) # Cardinality(below(j))
    BY <1>2, <2>1, FS_Subset
  <2> QED BY <1>2, <2>2
<1> HIDE DEF g
<1>5. g \in Injection(A, 1..N)
  BY <1>3, <1>4 DEF Injection, IsInjective
<1>6. IsFiniteSet(1..N) /\ Cardinality(1..N) = N
  BY <1>1, FS_Interval
<1>7. g \in Surjection(A, 1..N)
  BY <1>1, <1>5, <1>6, FS_Injection
<1>8. \A k \in 1..N : \E i \in A : g[i] = k
  BY <1>7 DEF Surjection
<1> QED BY <1>1, <1>8 DEF g

\* The filled rows are a list like the file.
LEMMA KeptListed == ASSUME NEW f \in RecordFiles PROVE Listed(Kept(f))
<1> DEFINE A == {i \in DOMAIN f : Filled(f[i])}
           N == Cardinality(A)
           place(i) == Cardinality({j \in A : j <= i})
           at_(k) == CHOOSE i \in A : place(i) = k
           g == [k \in 1..N |-> f[at_(k)]]
<1>1. Listed(f)
  BY FileListed
<1>2. A \in SUBSET (1..Len(f)) /\ Len(f) \in Nat
  BY <1>1 DEF Listed
<1>3. N \in Nat /\ \A k \in 1..N : \E i \in A : place(i) = k
  <2> HIDE DEF A
  <2>1. A \in SUBSET Nat /\ IsFiniteSet(A)
    <3>1. IsFiniteSet(1..Len(f)) /\ 1..Len(f) \subseteq Nat
      BY <1>2, FS_Interval
    <3> QED BY <1>2, <3>1, FS_Subset
  <2> QED BY <2>1, Numbered
<1>4. \A k \in 1..N : at_(k) \in A /\ place(at_(k)) = k
  BY <1>3
<1>5. Kept(f) = g
  BY DEF Kept
<1> HIDE DEF place, at_, N
<1>6. \A k, m \in 1..N : at_(k) = at_(m) => k = m
  BY <1>4
<1>7. /\ DOMAIN g = 1..N /\ Len(g) = N /\ g \in Seq({g[k] : k \in DOMAIN g})
      /\ \A k \in 1..N : g[k] = f[at_(k)]
  BY <1>3
<1> HIDE DEF g
<1>8. \A k \in 1..N : at_(k) \in DOMAIN f
  BY <1>4
<1>9. \A k \in DOMAIN g : g[k].id \in Ids
  BY <1>1, <1>7, <1>8 DEF Listed
<1>10. \A k, m \in DOMAIN g : g[k].id = g[m].id => k = m
  <2> SUFFICES ASSUME NEW k \in 1..N, NEW m \in 1..N, f[at_(k)].id = f[at_(m)].id PROVE k = m
    BY <1>7
  <2>1. at_(k) = at_(m)
    BY <1>8, FileAssumption
  <2> QED BY <1>6, <2>1
<1>11. Listed(g)
  BY <1>3, <1>7, <1>9, <1>10 DEF Listed
<1> QED BY <1>5, <1>11

LEMMA ImportRunInv ==
    ASSUME ScriptsInv, NEW kind, NEW size \in 0..MaxBatch + 1, ImportRun(kind, size)
    PROVE  ScriptsInv'
<1> DEFINE p == RecordPlan(kind, file)
           o == [NoOpts EXCEPT !.size = IF size > MaxBatch THEN MaxBatch ELSE size]
<1>1. tool = "import" /\ file \in RecordFiles
  BY DEF ImportRun, ScriptsInv, Types, Files
<1>2. CASE p = Invalid \/ size <= 0
  <2>1. Refuse("failed")
    BY <1>2 DEF ImportRun
  <2> QED BY <2>1, QuietInv DEF Refuse, Stop
<1>3. CASE ~(p = Invalid \/ size <= 0)
  <2>1. Begin(p, o, "batch")
    BY <1>3 DEF ImportRun
  <2>2. o.size \in Nat \ {0}
    BY <1>3 DEF NoOpts
  <2>3. Listed(p)
    <3>1. p = Kept(file) \/ p = file
      BY <1>3 DEF RecordPlan
    <3> QED BY <1>1, <3>1, FileListed, KeptListed
  <2> HIDE DEF p, o
  <2> QED BY <1>1, <2>1, <2>2, <2>3, BeginInv
<1> QED BY <1>2, <1>3

LEMMA FieldsRunInv == ASSUME ScriptsInv, FieldsRun PROVE ScriptsInv'
<1> DEFINE p == FieldPlan(file)
           o == [NoOpts EXCEPT !.size = Len(p)]
<1>1. tool = "fields" /\ file \in FieldFiles
  BY DEF FieldsRun, ScriptsInv, Types, Files
<1>2. CASE p = Invalid
  <2>1. Refuse("failed")
    BY <1>2 DEF FieldsRun
  <2> QED BY <2>1, QuietInv DEF Refuse, Stop
<1>3. CASE p # Invalid
  <2>1. Begin(p, o, "batch") /\ p = file /\ file # <<>>
    BY <1>3 DEF FieldsRun, FieldPlan
  <2>2. Listed(file) /\ file \in Seq({file[i] : i \in DOMAIN file})
    BY <1>1, FileListed
  <2>3. Len(file) \in Nat \ {0}
    BY <2>1, <2>2, EmptySeq
  <2>4. o.size \in Nat \ {0}
    BY <2>1, <2>3 DEF NoOpts
  <2> HIDE DEF p, o
  <2> QED BY <1>1, <2>1, <2>2, <2>4, BeginInv
<1> QED BY <1>2, <1>3

\* The rows of the next batch.
LEMMA BatchRows ==
    ASSUME ScriptsInv, opts.size \in Nat \ {0}, pos <= Len(plan)
    PROVE  \E last \in Nat :
             /\ last = IF pos + opts.size - 1 < Len(plan) THEN pos + opts.size - 1 ELSE Len(plan)
             /\ {Batch[k].id : k \in DOMAIN Batch} = {plan[k].id : k \in pos..last}
             /\ pos..last \subseteq DOMAIN plan
<1> DEFINE last == IF pos + opts.size - 1 < Len(plan) THEN pos + opts.size - 1 ELSE Len(plan)
<1>1. /\ pos \in Nat \ {0} /\ Len(plan) \in Nat /\ DOMAIN plan = 1..Len(plan)
      /\ plan \in Seq({plan[i] : i \in DOMAIN plan})
  BY DEF ScriptsInv, Types, Listed
<1>2. last \in Nat /\ pos <= last /\ last <= Len(plan) /\ pos..last \subseteq DOMAIN plan
  BY <1>1
<1>3. Batch = SubSeq(plan, pos, last)
  BY DEF Batch
<1> HIDE DEF last
<1>4. /\ Len(Batch) = last - pos + 1 /\ DOMAIN Batch = 1..(last - pos + 1)
      /\ \A k \in 1..(last - pos + 1) : Batch[k] = plan[pos + k - 1]
  BY <1>1, <1>2, <1>3, SubSeqProperties
<1>5. ASSUME NEW k \in DOMAIN Batch PROVE Batch[k].id \in {plan[m].id : m \in pos..last}
  <2>1. k \in 1..(last - pos + 1) /\ Batch[k] = plan[pos + k - 1]
    BY <1>4
  <2>2. pos + k - 1 \in pos..last
    BY <1>1, <1>2, <2>1
  <2> QED BY <2>1, <2>2
<1>6. ASSUME NEW m \in pos..last PROVE plan[m].id \in {Batch[k].id : k \in DOMAIN Batch}
  <2>1. m - pos + 1 \in DOMAIN Batch /\ pos + (m - pos + 1) - 1 = m
    BY <1>1, <1>2, <1>4
  <2>2. Batch[m - pos + 1] = plan[m]
    BY <1>4, <2>1
  <2> QED BY <2>1, <2>2
<1>7. {Batch[k].id : k \in DOMAIN Batch} = {plan[k].id : k \in pos..last}
  BY <1>5, <1>6
<1> QED BY <1>2, <1>7 DEF last

LEMMA SubmitBatchInv == ASSUME ScriptsInv, NEW c \in Calls, SubmitBatch(c) PROVE ScriptsInv'
<1>1. /\ tool \in {"import", "fields"} /\ pc = "batch" /\ pos <= Len(plan)
      /\ Write(Batch, c) /\ pos' = pos + opts.size /\ UNCHANGED <<pc, opts, plan, lookup, verdict>>
      /\ BatchInv /\ opts.size \in Nat \ {0} /\ pos \in Nat \ {0} /\ Listed(plan)
  BY DEF SubmitBatch, ScriptsInv, Types, BatchInv
<1>2. PICK last \in Nat :
         /\ last = IF pos + opts.size - 1 < Len(plan) THEN pos + opts.size - 1 ELSE Len(plan)
         /\ {Batch[k].id : k \in DOMAIN Batch} = {plan[k].id : k \in pos..last}
         /\ pos..last \subseteq DOMAIN plan
  BY <1>1, BatchRows
<1>3. /\ sent' \in [Ids -> Nat] /\ made' \in [Ids -> Nat] /\ late' \subseteq Ids
      /\ \A i \in Ids : sent'[i] = IF i \in {plan[k].id : k \in pos..last} THEN sent[i] + 1 ELSE sent[i]
      /\ UNCHANGED <<tool, file, world, seen>>
  <2>1. \A k \in pos..last : plan[k].id \in Ids
    BY <1>1, <1>2 DEF Listed
  <2>2. {Batch[k].id : k \in DOMAIN Batch} \subseteq Ids
    BY <1>2, <2>1
  <2>3. /\ sent' \in [Ids -> Nat] /\ made' \in [Ids -> Nat] /\ late' \subseteq Ids
        /\ \A i \in Ids : sent'[i] = IF i \in {Batch[k].id : k \in DOMAIN Batch}
                                      THEN sent[i] + 1 ELSE sent[i]
        /\ UNCHANGED <<tool, file, world, seen>>
    BY <1>1, <2>2, WriteEffect
  <2> QED BY <1>2, <2>3
<1>4. Types'
  BY <1>1, <1>3 DEF ScriptsInv, Types, Listed
<1>5. ASSUME NEW i \in Ids
      PROVE  sent'[i] = IF \E k \in DOMAIN plan : k < pos' /\ plan[k].id = i THEN 1 ELSE 0
  <2>1. sent[i] = IF \E k \in DOMAIN plan : k < pos /\ plan[k].id = i THEN 1 ELSE 0
    BY <1>1 DEF BatchInv
  <2>2. \A k \in DOMAIN plan : k \in Nat /\ k >= 1 /\ k <= Len(plan) /\ Len(plan) \in Nat
    BY <1>1 DEF Listed
  <2>3. \A k \in DOMAIN plan : k < pos' <=> k < pos \/ k \in pos..last
    BY <1>1, <1>2, <2>2
  <2>4. CASE \E k \in pos..last : plan[k].id = i
    <3>1. PICK k \in pos..last : plan[k].id = i
      BY <2>4
    <3>2. k \in DOMAIN plan /\ ~(k < pos) /\ k < pos'
      BY <1>1, <1>2, <2>3
    <3>3. \A m \in DOMAIN plan : plan[m].id = i => m = k
      BY <1>1, <3>1, <3>2 DEF Listed
    <3>4. sent[i] = 0
      BY <2>1, <3>2, <3>3
    <3> QED BY <1>3, <3>1, <3>2, <3>4
  <2>5. CASE ~\E k \in pos..last : plan[k].id = i
    BY <1>3, <2>1, <2>3, <2>5
  <2> QED BY <2>4, <2>5
<1>6. BatchInv'
  BY <1>1, <1>5 DEF BatchInv
<1> QED BY <1>1, <1>3, <1>4, <1>6 DEF ScriptsInv

LEMMA ImportEndInv == ASSUME ScriptsInv, ImportEnd PROVE ScriptsInv'
<1>1. /\ UNCHANGED <<tool, file, world, opts, plan, pos, ledger, made, late, sent, seen>> /\ pc' = "idle"
      /\ tool \in {"import", "fields"} /\ pos > Len(plan)
  BY DEF ImportEnd, Stop
<1>2. Types'
  BY <1>1 DEF ScriptsInv, Types, Listed
<1>3. BatchInv'
  BY <1>1 DEF ScriptsInv, BatchInv
<1> QED BY <1>1, <1>2, <1>3 DEF ScriptsInv

---------------------------------------------------------------------------
(* oa_batch_approve.py                                                     *)

\* A list of instances is one of rows.
LEMMA NamedListed == ASSUME NEW ids \in IdLists, tool = "approve" PROVE Listed(ids)
<1>1. PICK n \in 0..Cardinality(Instances) : ids \in [1..n -> [id : Instances]]
  BY DEF IdLists
<1>2. n \in Nat
  BY <1>1
<1>3. /\ DOMAIN ids = 1..n /\ Len(ids) = n /\ ids \in Seq({ids[i] : i \in DOMAIN ids})
      /\ \A i \in 1..n : ids[i].id \in Instances
  BY <1>1, <1>2
<1> QED BY <1>2, <1>3 DEF Listed, Ids

LEMMA ApproveListInv ==
    ASSUME ScriptsInv, NEW ids \in Orders, ApproveList(ids)
    PROVE  ScriptsInv'
<1>1. tool = "approve"
  BY DEF ApproveList
<1>2. CASE ids = <<>>
  <2>1. Refuse("nothing pending")
    BY <1>2 DEF ApproveList
  <2> QED BY <2>1, QuietInv DEF Refuse, Stop
<1>3. CASE ids # <<>>
  <2>1. Begin(ids, NoOpts, "ask") /\ {ids[i].id : i \in DOMAIN ids} \subseteq world
    BY <1>3 DEF ApproveList
  <2>2. Listed(ids)
    BY <1>1, NamedListed DEF Orders
  <2>3. \A k \in DOMAIN ids : ids[k].id \in world
    BY <2>1
  <2> QED BY <1>1, <2>1, <2>2, <2>3, BeginInv
<1> QED BY <1>2, <1>3

LEMMA ApproveGivenInv ==
    ASSUME ScriptsInv, NEW ids \in IdLists, ApproveGiven(ids)
    PROVE  ScriptsInv'
<1>1. tool = "approve"
  BY DEF ApproveGiven
<1>2. CASE ids = <<>>
  <2>1. Refuse("nothing pending")
    BY <1>2 DEF ApproveGiven
  <2> QED BY <2>1, QuietInv DEF Refuse, Stop
<1>3. CASE ids # <<>>
  <2> DEFINE o == [NoOpts EXCEPT !.kind = "given"]
  <2>1. Begin(ids, o, "ask") /\ o.kind = "given"
    BY <1>3 DEF ApproveGiven, NoOpts
  <2>2. Listed(ids)
    BY <1>1, NamedListed
  <2> HIDE DEF o
  <2> QED BY <1>1, <2>1, <2>2, BeginInv
<1> QED BY <1>2, <1>3

\* Steps of an approval run between its calls.
LEMMA ApproveQuiet ==
    ASSUME ScriptsInv,
           (\E b \in BOOLEAN : ApproveAsk(b) \/ ApproveLookup(b)) \/ ApproveEnd
    PROVE  ScriptsInv'
<1>1. /\ UNCHANGED <<tool, file, world, opts, plan, pos, ledger, made, late, sent, seen>>
      /\ tool = "approve" /\ pc \in {"ask", "tasks"}
  BY DEF ApproveAsk, ApproveLookup, ApproveEnd
<1>2. CASE pc' = "idle"
  <2>1. verdict' \in {"cancelled", "counted"}
    BY <1>2 DEF ApproveAsk, ApproveLookup, ApproveEnd, Stop
  <2> QED BY <1>1, <1>2, <2>1, QuietInv
<1>3. CASE pc' # "idle"
  <2>1. pc' = "tasks" \/ (pc' = "act" /\ pos <= Len(plan))
    BY <1>3 DEF ApproveAsk, ApproveLookup, ApproveEnd, Stop
  <2>2. Types'
    BY <1>1 DEF ScriptsInv, Types, Listed
  <2>3. ApproveInv'
    BY <1>1, <2>1 DEF ScriptsInv, ApproveInv
  <2> QED BY <1>1, <2>2, <2>3 DEF ScriptsInv
<1> QED BY <1>2, <1>3

LEMMA ApproveActInv == ASSUME ScriptsInv, NEW c \in Calls, ApproveAct(c) PROVE ScriptsInv'
<1>1. /\ tool = "approve" /\ pc = "act" /\ Write(<<plan[pos]>>, c) /\ pos' = pos + 1
      /\ pc' = "tasks" /\ UNCHANGED <<opts, plan, lookup, verdict>>
      /\ ApproveInv /\ Listed(plan) /\ pos \in Nat \ {0} /\ pos <= Len(plan)
  BY DEF ApproveAct, ScriptsInv, Types, ApproveInv
<1>2. pos \in DOMAIN plan /\ plan[pos].id \in Ids
  BY <1>1 DEF Listed
<1>3. {<<plan[pos]>>[k].id : k \in DOMAIN <<plan[pos]>>} = {plan[pos].id}
  OBVIOUS
<1>4. /\ sent' \in [Ids -> Nat] /\ made' \in [Ids -> Nat] /\ late' \subseteq Ids
      /\ \A i \in Ids : sent'[i] = IF i \in {plan[pos].id} THEN sent[i] + 1 ELSE sent[i]
      /\ UNCHANGED <<tool, file, world, seen>>
  BY <1>1, <1>2, <1>3, WriteEffect
<1>5. Types'
  BY <1>1, <1>4 DEF ScriptsInv, Types, Listed
<1>6. ASSUME opts.kind # "given", NEW i \in Ids, sent'[i] > 0 PROVE \E w \in seen' : i \in w
  <2>1. CASE i = plan[pos].id
    BY <1>1, <1>2, <1>4, <1>6, <2>1 DEF ApproveInv
  <2>2. CASE i # plan[pos].id
    BY <1>1, <1>4, <1>6, <2>2 DEF ApproveInv
  <2> QED BY <2>1, <2>2
<1>7. ApproveInv'
  BY <1>1, <1>4, <1>6 DEF ApproveInv
<1> QED BY <1>1, <1>4, <1>5, <1>7 DEF ScriptsInv

---------------------------------------------------------------------------
(* attendance_schedule_import.py                                           *)

LEMMA ScheduleRunInv == ASSUME ScriptsInv, NEW o, ScheduleRun(o) PROVE ScriptsInv'
<1> DEFINE p == SchedulePlan(file)
<1>1. tool = "schedule" /\ file \in ScheduleFiles
  BY DEF ScheduleRun, ScriptsInv, Types, Files
<1>2. CASE p = Invalid
  <2>1. Refuse("invalid")
    BY <1>2 DEF ScheduleRun
  <2> QED BY <2>1, QuietInv DEF Refuse, Stop
<1>3. CASE p # Invalid
  <2>1. Begin(p, o, "group") /\ p = file
    BY <1>3 DEF ScheduleRun, SchedulePlan
  <2>2. Listed(p)
    BY <1>1, <2>1, FileListed
  <2> HIDE DEF p
  <2> QED BY <1>1, <2>1, <2>2, BeginInv
<1> QED BY <1>2, <1>3

\* What the checks read are states of the group during the run.
LEMMA ScheduleCheckInv ==
    ASSUME ScriptsInv, \E b \in BOOLEAN : ScheduleGroup(b) \/ ScheduleClasses(b)
    PROVE  ScriptsInv'
<1>1. /\ UNCHANGED <<tool, file, world, opts, plan, pos, ledger, made, late, sent, seen>>
      /\ tool = "schedule" /\ pc \in {"group", "classes"} /\ ScheduleInv
  BY DEF ScheduleGroup, ScheduleClasses, ScriptsInv
<1>2. CASE pc' = "idle"
  <2>1. verdict' \in {"invalid", "preview"}
    BY <1>2 DEF ScheduleGroup, ScheduleClasses, Stop
  <2> QED BY <1>1, <1>2, <2>1, QuietInv
<1>3. CASE pc' # "idle"
  <2>1. \/ pc' = "classes" /\ lookup' = world /\ world.type = "TURN"
        \/ /\ pc = "classes" /\ pc' = "import"
           /\ ClassesAllowed(plan, lookup.bound, world.all)
    BY <1>3 DEF ScheduleGroup, ScheduleClasses, Stop
  <2>2. pc' = "import" => Checked
    BY <1>1, <2>1 DEF ScheduleInv, Checked
  <2>3. (Checked <=> Checked') /\ world \in seen
    BY <1>1 DEF Checked, ScheduleInv
  <2>4. ScheduleInv'
    BY <1>1, <2>1, <2>2, <2>3 DEF ScheduleInv
  <2>5. Types'
    BY <1>1 DEF ScriptsInv, Types, Listed
  <2> QED BY <1>1, <2>4, <2>5 DEF ScriptsInv
<1> QED BY <1>2, <1>3

LEMMA ScheduleImportInv ==
    ASSUME ScriptsInv, NEW c \in Calls, ScheduleImport(c)
    PROVE  ScriptsInv'
<1>1. /\ tool = "schedule" /\ pc = "import" /\ Write(plan, c) /\ pc' = "idle"
      /\ UNCHANGED <<opts, plan, pos, lookup, ledger>> /\ ScheduleInv /\ Listed(plan)
  BY DEF ScheduleImport, Stop, ScriptsInv, Types
<1>2. {plan[k].id : k \in DOMAIN plan} \subseteq Ids
  BY <1>1 DEF Listed
<1>3. /\ sent' \in [Ids -> Nat] /\ made' \in [Ids -> Nat] /\ late' \subseteq Ids
      /\ UNCHANGED <<tool, file, world, seen>>
  BY <1>1, <1>2, WriteEffect
<1>4. Types'
  BY <1>1, <1>3 DEF ScriptsInv, Types, Listed
<1>5. Checked'
  BY <1>1, <1>3 DEF ScheduleInv, Checked
<1>6. ScheduleInv'
  BY <1>1, <1>5 DEF ScheduleInv
<1> QED BY <1>1, <1>3, <1>4, <1>6 DEF ScriptsInv

---------------------------------------------------------------------------
(* All steps                                                               *)

LEMMA DieInv == ASSUME ScriptsInv, Die PROVE ScriptsInv'
BY QuietInv DEF Die, Stop

LEMMA ScriptsStep == ASSUME ScriptsInv, [Next]_vars PROVE ScriptsInv'
<1>1. CASE EditFile \/ Confirm \/ WorldChanges \/ LateEffect \/ Die
  BY <1>1, WorldInv, LateEffectInv, DieInv
<1>2. CASE TodoDryRun \/ TodoEnd \/ \E d \in confirmed \cup {Invalid} : TodoRun(d)
  BY <1>2, TodoEndInv, TodoRunInv
<1>3. CASE \E c \in Calls : TodoCreate(c) \/ SubmitBatch(c) \/ ApproveAct(c) \/ ScheduleImport(c)
  BY <1>3, TodoCreateInv, SubmitBatchInv, ApproveActInv, ScheduleImportInv
<1>4. CASE \E a \in {"match", "other"} : TodoReadback(a)
  BY <1>4, TodoReadbackInv
<1>5. CASE \/ \E kind \in {"csv", "json"}, size \in 0..MaxBatch + 1 : ImportRun(kind, size)
           \/ FieldsRun \/ ImportEnd
  BY <1>5, ImportRunInv, FieldsRunInv, ImportEndInv
<1>6. CASE \E ids \in Orders : ApproveList(ids)
  BY <1>6, ApproveListInv
<1>11. CASE \E ids \in IdLists : ApproveGiven(ids)
  BY <1>11, ApproveGivenInv
<1>12. CASE ApproveDryRun
  BY <1>12, QuietInv DEF ApproveDryRun
<1>7. CASE \E b \in BOOLEAN : ApproveAsk(b) \/ ApproveLookup(b) \/ ScheduleGroup(b) \/ ScheduleClasses(b)
  BY <1>7, ApproveQuiet, ScheduleCheckInv
<1>8. CASE ApproveEnd
  BY <1>8, ApproveQuiet
<1>9. CASE \E d \in BOOLEAN, k \in {None, "confirm"} :
              ScheduleRun([NoOpts EXCEPT !.dry = d, !.kind = k])
  BY <1>9, ScheduleRunInv
<1>10. CASE UNCHANGED vars
  <2>1. Types'
    BY <1>10 DEF vars, ScriptsInv, Types, Listed
  <2>2. TodoInv <=> TodoInv'
    BY <1>10 DEF vars, TodoInv
  <2>3. BatchInv <=> BatchInv'
    BY <1>10 DEF vars, BatchInv
  <2>4. ApproveInv <=> ApproveInv'
    BY <1>10 DEF vars, ApproveInv
  <2>5. ScheduleInv <=> ScheduleInv'
    BY <1>10 DEF vars, ScheduleInv, Checked
  <2> QED BY <1>10, <2>1, <2>2, <2>3, <2>4, <2>5 DEF vars, ScriptsInv
<1> QED BY <1>1, <1>2, <1>3, <1>4, <1>5, <1>6, <1>7, <1>8, <1>9, <1>10, <1>11, <1>12 DEF Next

LEMMA ScriptsHonest == ScriptsInv => BatchesHonest
<1> SUFFICES ASSUME ScriptsInv PROVE BatchesHonest
  OBVIOUS
<1>1. /\ Listed(plan) /\ pos \in Nat \ {0} /\ Len(plan) \in Nat /\ DOMAIN plan = 1..Len(plan)
      /\ sent \in [Ids -> Nat] /\ \A i \in DOMAIN plan : plan[i].id \in Ids
  BY DEF ScriptsInv, Types, Listed
<1>2. ASSUME tool = "todo" PROVE FailedMeansAbsent /\ CompleteMeansOnce
  <2>1. TodoInv /\ DOMAIN ledger = 1..(pos - 1)
    BY <1>1, <1>2 DEF ScriptsInv, TodoInv
  <2>2. \A i \in DOMAIN ledger : i \in DOMAIN plan /\ i < pos
    BY <1>1, <2>1 DEF TodoInv
  <2>3. FailedMeansAbsent
    BY <2>1, <2>2 DEF TodoInv, FailedMeansAbsent
  <2>4. verdict = "complete" => \A i \in DOMAIN plan : i < pos /\ i \in DOMAIN ledger
    BY <1>1, <2>1 DEF TodoInv
  <2>5. verdict = "complete" => \A i \in DOMAIN plan : made[plan[i].id] = 1
    BY <2>1, <2>4 DEF TodoInv
  <2>6. CompleteMeansOnce
    BY <2>1, <2>5 DEF TodoInv, CompleteMeansOnce
  <2> QED BY <2>3, <2>6
<1>3. ASSUME tool \in {"import", "fields"} PROVE EachSubmittedOnce
  <2>1. BatchInv
    BY <1>3 DEF ScriptsInv
  <2>2. \A i \in Ids : sent[i] <= 1
    BY <1>1, <2>1 DEF BatchInv
  <2>3. verdict = "success" => \A i \in DOMAIN plan : sent[plan[i].id] = 1
    <3>1. verdict = "success" => \A i \in DOMAIN plan : i < pos
      BY <1>1, <2>1 DEF BatchInv
    <3> QED BY <1>1, <2>1, <3>1 DEF BatchInv
  <2> QED BY <2>2, <2>3 DEF EachSubmittedOnce
<1>4. ActsOnChecked
  BY DEF ScriptsInv, ApproveInv, ScheduleInv, Checked, ActsOnChecked
<1> QED
  BY <1>2, <1>3, <1>4 DEF BatchesHonest, FailedMeansAbsent, CompleteMeansOnce, EachSubmittedOnce

\* Whatever the input files, the limits, the replies and the late effects: a
\* task called failed is not there and will not be, a batch called complete
\* is there once, no record is submitted twice, and what an approval or a
\* schedule run writes was checked against states of the world during it.
THEOREM BatchesAreHonest == Spec => []BatchesHonest
<1>1. ScriptsInv /\ [Next]_vars => ScriptsInv'
  BY ScriptsStep
<1> QED
  BY ScriptsInit, <1>1, ScriptsHonest, PTL DEF Spec

---------------------------------------------------------------------------
(* LongJobs: what a client reports as done is done                         *)

\* A client that is still at work has reported and written nothing; where it
\* is follows from its kind, and it fetches what was finished.
JobInv ==
    /\ call # "over" => outcome = "none" /\ ~result
    /\ call = "fetch" => client = "export" /\ job = "finished"
    /\ call = "trigger" => client = "import"
    /\ call \in {"start", "poll"} => client \in J!Starters \cup J!Watchers
    /\ client = "download" => stored
    /\ ReportedIsDone

LEMMA JobInit == J!Init => JobInv
BY DEF J!Init, JobInv, ReportedIsDone, J!ReportedIsDone, J!Kinds, J!Starters, J!Watchers,
       J!Puts, J!OneCall

LEMMA JobStep == ASSUME JobInv, [J!Next]_(J!vars) PROVE JobInv'
<1> USE DEF JobInv, ReportedIsDone, J!ReportedIsDone, J!Report, J!Goes, J!Ended,
            J!Starters, J!Watchers
<1>1. CASE J!Work
  BY <1>1 DEF J!Work
<1>2. CASE J!Start
  BY <1>2 DEF J!Start
<1>3. CASE J!PollExport
  BY <1>3 DEF J!PollExport
<1>4. CASE J!Fetch
  BY <1>4 DEF J!Fetch
<1>5. CASE J!PollApp
  BY <1>5 DEF J!PollApp
<1>6. CASE J!Wait \/ J!Run
  BY <1>6 DEF J!Wait, J!Run, J!AskTask
<1>7. CASE J!Stream
  BY <1>7 DEF J!Stream
<1>8. CASE J!Prepare \/ J!PrepareAttachment
  BY <1>8 DEF J!Prepare, J!PrepareAttachment
<1>9. CASE J!Put \/ J!PutAttachment
  BY <1>9 DEF J!Put, J!PutAttachment
<1>10. CASE J!Trigger
  BY <1>10 DEF J!Trigger
<1>11. CASE J!Ask
  BY <1>11 DEF J!Ask
<1>12. CASE J!Upload \/ J!Download
  BY <1>12 DEF J!Upload, J!Download
<1>13. CASE UNCHANGED J!vars
  BY <1>13 DEF J!vars
<1> QED
  BY <1>1, <1>2, <1>3, <1>4, <1>5, <1>6, <1>7, <1>8, <1>9, <1>10, <1>11, <1>12, <1>13 DEF J!Next

\* For any number of polls and reconnections, whatever call or answer is lost:
\* a success stands for a finished job or a stored file, a final status for a
\* job that has ended, a local file for a result that was there.
THEOREM ReportsAreDone == J!Spec => []ReportedIsDone
<1>1. JobInv /\ [J!Next]_(J!vars) => JobInv'
  BY JobStep
<1>2. JobInv => ReportedIsDone
  BY DEF JobInv
<1> QED
  BY JobInit, <1>1, <1>2, PTL DEF J!Spec

---------------------------------------------------------------------------
(* Provision: what a rerun leaves                                          *)

Content == Version \cup Edit \cup {"missing", "part", "archive", "random", "on"}
Places == {"check", "reload", "restart", "swap", "judge", "judge first", "back", "restart back",
           "replace", "copy"}

ProvTypes ==
    /\ tree \in Version /\ service \in Content /\ loaded \in Content
    /\ disk \in [tools : Content, template : Content, unit : Content,
                 secret : Content, mirror : Content, timers : Content]
    /\ bak \in [unit : Content, mirror : [0..MaxMinute -> Content]]
    /\ socat \in BOOLEAN /\ hurt \in BOOLEAN /\ shared \in BOOLEAN /\ clean \in BOOLEAN
    /\ minute \in 0..MaxMinute /\ synced \in 0..(MaxMinute + 1) /\ lost \subseteq Edit /\ unsaved \subseteq Edit
    /\ at \in [item : 0..8, place : Places, heal : BOOLEAN,
               verdict : {"PASS", "WARN", "FAIL"}, begun : BOOLEAN]

\* Backups are named by minutes up to the last replacement, so that the next one
\* overwrites none unless it falls into the same minute.
SavedInv ==
    /\ synced = MaxMinute + 1 \/ synced <= minute
    /\ \A m \in 0..MaxMinute : bak.mirror[m] # "missing" => synced <= MaxMinute /\ m <= synced
    /\ P!LocalVersionsSaved

\* Systemd has read the installed unit and the relay runs it, unless a run is
\* between the two; the text a run has written or judges is the tree's.
Running == loaded = disk.unit /\ service \in {"missing", loaded}

UnitInv ==
    /\ ~hurt => \/ Running
                \/ at.item = 4 /\ at.place \in P!UnitUnderWay
    /\ at.item = 4 /\ at.place \in {"reload", "restart", "swap", "judge", "judge first"} =>
          disk.unit = tree
    /\ at.item = 4 /\ at.place \in {"restart", "swap"} => loaded = disk.unit
    /\ at.item = 4 /\ at.place = "restart back" /\ ~hurt => loaded = disk.unit

\* The items up to n are as an installing run leaves them.
Done(n) ==
    /\ n >= 1 => disk.tools # "missing"
    /\ n >= 2 => disk.template # "missing"
    /\ n >= 3 => ~socat
    /\ n >= 4 => disk.unit = tree
    /\ n >= 5 => disk.secret # "missing"
    /\ n >= 6 => disk.mirror = tree
    /\ n >= 7 => service \in Healthy
    /\ n >= 8 => disk.timers # "missing"

\* An installing run that has only passed leaves the items behind it done; a run
\* begun on a clean machine finds them all done, and writes nothing.
DoneInv ==
    /\ at.heal /\ at.verdict = "PASS" => Done(at.item - 1)
    /\ clean => Done(8)
    /\ at.begun => at.place = "check" /\ Done(8)

ProvInv == ProvTypes /\ SavedInv /\ UnitInv /\ DoneInv

\* What a run that only passed left stays so.
Settled ==
    at.begun /\ at # P!Idle =>
        /\ UNCHANGED <<disk, bak, loaded, socat>>
        /\ service' # service => hurt /\ service' = loaded

\* The items in their order.
LEMMA Numbers ==
    ASSUME ProvTypes
    PROVE  /\ Len(P!Order) = 8
           /\ P!Item("tools") <=> at.item = 1
           /\ P!Item("template") <=> at.item = 2
           /\ P!Item("tls") <=> at.item = 3
           /\ P!Item("unit") <=> at.item = 4
           /\ P!Item("secret") <=> at.item = 5
           /\ P!Item("mirror") <=> at.item = 6
           /\ P!Item("service") <=> at.item = 7
           /\ P!Item("timers") <=> at.item = 8
<1>1. Len(P!Order) = 8
  BY DEF P!Order
<1>2. at.item \in 0..8
  BY DEF ProvTypes
<1>3. at.item \in {0, 1, 2, 3, 4, 5, 6, 7, 8}
  BY <1>2
<1> QED BY <1>1, <1>3 DEF P!Item, P!Order

LEMMA BetweenRuns ==
    /\ P!Idle \in [item : 0..8, place : Places, heal : BOOLEAN,
                   verdict : {"PASS", "WARN", "FAIL"}, begun : BOOLEAN]
    /\ P!Idle.item = 0 /\ ~P!Idle.heal /\ ~P!Idle.begun /\ P!Idle.place = "check"
    /\ P!Idle.verdict = "PASS"
BY DEF P!Idle, Places

LEMMA ProvInit == P!Init => ProvInv
<1> SUFFICES ASSUME P!Init PROVE ProvInv
  OBVIOUS
<1> USE DEF P!Init, P!Idle, P!Missing
<1>1. ProvTypes
  <2>1. at \in [item : 0..8, place : Places, heal : BOOLEAN,
                verdict : {"PASS", "WARN", "FAIL"}, begun : BOOLEAN]
    BY DEF Places
  <2>2. bak \in [unit : Content, mirror : [0..MaxMinute -> Content]]
    BY DEF Content
  <2>3. disk \in [tools : Content, template : Content, unit : Content,
                  secret : Content, mirror : Content, timers : Content]
    BY DEF Content
  <2>4. 0 \in 0..MaxMinute /\ MaxMinute + 1 \in 0..(MaxMinute + 1)
    BY ToolsAssumption
  <2>5. service \in Content /\ loaded \in Content /\ tree \in Version
    BY DEF Content
  <2> QED BY <2>1, <2>2, <2>3, <2>4, <2>5 DEF ProvTypes
<1>2. SavedInv
  BY DEF SavedInv, P!LocalVersionsSaved
<1>3. UnitInv /\ DoneInv
  BY DEF UnitInv, Running, DoneInv, Done
<1> QED BY <1>1, <1>2, <1>3 DEF ProvInv

---------------------------------------------------------------------------
(* How a run goes on: with the next item, within one, or not at all        *)

LEMMA Reported ==
    ASSUME ProvInv, NEW v \in {"PASS", "WARN", "FAIL"}, at.item \in 1..8, P!Report(v), UNCHANGED tree,
           at.heal /\ at.verdict = "PASS" /\ v = "PASS" => \A n \in {at.item} : Done(n)',
           at.begun => Done(8)'
    PROVE  /\ at' \in [item : 0..8, place : Places, heal : BOOLEAN,
                       verdict : {"PASS", "WARN", "FAIL"}, begun : BOOLEAN]
           /\ clean' \in BOOLEAN
           /\ at'.item # 4 \/ at'.place = "check"
           /\ DoneInv'
<1>1. /\ at \in [item : 0..8, place : Places, heal : BOOLEAN,
                 verdict : {"PASS", "WARN", "FAIL"}, begun : BOOLEAN]
      /\ Len(P!Order) = 8
  BY Numbers DEF ProvInv, ProvTypes
<1>2. P!Worst(v) \in {"PASS", "WARN", "FAIL"}
      /\ (P!Worst(v) = "PASS" => v = "PASS" /\ at.verdict = "PASS")
  BY <1>1 DEF P!Worst
<1>3. /\ at' = IF at.item = 8 THEN P!Idle
               ELSE [at EXCEPT !.item = at.item + 1, !.place = "check", !.verdict = P!Worst(v)]
      /\ clean' = (at.item = 8 /\ at.heal /\ P!Worst(v) = "PASS")
  BY <1>1 DEF P!Report
<1>4. CASE at.item = 8
  <2>1. at' = P!Idle
    BY <1>3, <1>4
  <2>2. clean' => Done(8)'
    BY <1>2, <1>3, <1>4
  <2>3. clean' \in BOOLEAN
    BY <1>3
  <2> QED BY <2>1, <2>2, <2>3 DEF P!Idle, Places, DoneInv
<1>5. CASE at.item # 8
  <2> DEFINE w == P!Worst(v)
  <2> HIDE DEF w
  <2>1. at' = [at EXCEPT !.item = at.item + 1, !.place = "check", !.verdict = w] /\ clean' = FALSE
    BY <1>3, <1>5 DEF w
  <2>2. w \in {"PASS", "WARN", "FAIL"} /\ (w = "PASS" => v = "PASS" /\ at.verdict = "PASS")
    BY <1>2 DEF w
  <2>3. at.item + 1 \in 0..8 /\ at.item + 1 - 1 = at.item
    BY <1>5
  <2>4. /\ at'.item = at.item + 1 /\ at'.place = "check" /\ at'.heal = at.heal
        /\ at'.verdict = w /\ at'.begun = at.begun
        /\ at' \in [item : 0..8, place : Places, heal : BOOLEAN,
                    verdict : {"PASS", "WARN", "FAIL"}, begun : BOOLEAN]
    BY <1>1, <2>1, <2>2, <2>3 DEF Places
  <2>5. at'.heal /\ at'.verdict = "PASS" => \A n \in {at.item} : Done(n)'
    BY <2>2, <2>4
  <2>6. at'.heal /\ at'.verdict = "PASS" => Done(at.item - 1)'
    <3>1. at'.item - 1 = at.item
      BY <2>3, <2>4
    <3> QED BY <2>5, <3>1
  <2>7. at'.begun => at'.place = "check" /\ Done(8)'
    BY <2>4
  <2> QED BY <2>1, <2>4, <2>6, <2>7 DEF DoneInv
<1> QED BY <1>4, <1>5

\* An item's step that concerns neither the unit nor the backups.
LEMMA ItemStep ==
    ASSUME ProvInv, NEW k \in {1, 2, 3, 5, 6, 8}, at.item = k,
           UNCHANGED <<tree, minute, bak, loaded, service, lost, unsaved, hurt, synced, shared>>,
           disk' \in [tools : Content, template : Content, unit : Content,
                      secret : Content, mirror : Content, timers : Content],
           disk'.unit = disk.unit, socat' \in BOOLEAN,
           at.begun => UNCHANGED <<disk, socat>>,
           NEW v \in {"PASS", "WARN", "FAIL"}, P!Report(v) \/ P!Abort,
           at.heal /\ at.verdict = "PASS" /\ v = "PASS" => Done(k)'
    PROVE  ProvInv' /\ Settled
<1>1. ProvTypes /\ SavedInv /\ UnitInv /\ DoneInv
  BY DEF ProvInv
<1>2. at.begun => Done(8)'
  BY <1>1 DEF DoneInv, Done
<1>3. /\ at' \in [item : 0..8, place : Places, heal : BOOLEAN,
                  verdict : {"PASS", "WARN", "FAIL"}, begun : BOOLEAN]
      /\ clean' \in BOOLEAN
      /\ at'.item # 4 \/ at'.place = "check"
      /\ DoneInv'
  <2>1. CASE P!Report(v)
    <3>1. at.item \in 1..8
      OBVIOUS
    <3>2. at.heal /\ at.verdict = "PASS" /\ v = "PASS" => \A n \in {at.item} : Done(n)'
      OBVIOUS
    <3> QED BY <1>2, <2>1, <3>1, <3>2, Reported
  <2>2. CASE P!Abort
    <3>1. at' = P!Idle /\ clean' = FALSE
      BY <2>2 DEF P!Abort
    <3>2. clean' \in BOOLEAN
      BY <3>1
    <3> QED BY <3>1, <3>2 DEF P!Idle, Places, DoneInv
  <2> QED BY <2>1, <2>2
<1>4. ProvTypes'
  BY <1>1, <1>3 DEF ProvTypes
<1>5. SavedInv'
  BY <1>1 DEF SavedInv, P!LocalVersionsSaved
<1>6. UnitInv'
  <2>1. Running' <=> Running
    BY DEF Running
  <2>2. at.item # 4
    OBVIOUS
  <2>3. ~hurt' => Running'
    BY <1>1, <2>1, <2>2 DEF UnitInv
  <2> QED BY <1>3, <2>3 DEF UnitInv
<1>7. Settled
  BY DEF Settled
<1> QED BY <1>3, <1>4, <1>5, <1>6, <1>7 DEF ProvInv

\* What the world does: it happens between two runs, or harms none.
LEMMA AroundRuns ==
    ASSUME ProvInv,
           \/ P!NewTree \/ P!Minute \/ P!Kill
           \/ \E e \in Edit : P!LocalEdit(e)
           \/ \E b \in BOOLEAN : P!Begin(b)
    PROVE  ProvInv' /\ Settled
<1> USE DEF P!machine
<1>1. ProvTypes /\ SavedInv /\ UnitInv /\ DoneInv
  BY DEF ProvInv
<1>2. P!Idle \in [item : 0..8, place : Places, heal : BOOLEAN,
                  verdict : {"PASS", "WARN", "FAIL"}, begun : BOOLEAN]
      /\ P!Idle.item = 0 /\ ~P!Idle.heal /\ ~P!Idle.begun /\ P!Idle.place = "check"
      /\ P!Idle.verdict = "PASS"
  BY BetweenRuns
<1>3. CASE P!NewTree
  <2>1. at = P!Idle /\ UNCHANGED <<disk, bak, loaded, service, socat, minute, at, lost, unsaved, hurt, synced, shared>>
        /\ tree' \in Version /\ clean' = FALSE
    BY <1>3 DEF P!NewTree
  <2>2. ProvTypes'
    BY <1>1, <2>1 DEF ProvTypes
  <2>3. SavedInv'
    BY <1>1, <2>1 DEF SavedInv, P!LocalVersionsSaved
  <2>4. UnitInv' /\ DoneInv' /\ Settled
    BY <1>1, <1>2, <2>1 DEF UnitInv, Running, DoneInv, Settled
  <2> QED BY <2>2, <2>3, <2>4 DEF ProvInv
<1>4. CASE P!Minute
  <2>1. /\ UNCHANGED <<tree, disk, bak, loaded, service, socat, at, lost, unsaved, hurt, synced, shared, clean>>
        /\ minute < MaxMinute /\ minute' = minute + 1
    BY <1>4 DEF P!Minute, P!history
  <2>2. minute' \in 0..MaxMinute
    BY <1>1, <2>1, ToolsAssumption DEF ProvTypes
  <2>3. ProvTypes'
    BY <1>1, <2>1, <2>2 DEF ProvTypes
  <2>4. synced \in Nat /\ minute \in Nat
    BY <1>1, ToolsAssumption DEF ProvTypes
  <2>5. SavedInv'
    BY <1>1, <2>1, <2>4 DEF SavedInv, P!LocalVersionsSaved
  <2>6. UnitInv' /\ DoneInv' /\ Settled
    <3>1. (Running' <=> Running) /\ (at.place \in P!UnitUnderWay)' = (at.place \in P!UnitUnderWay)
      BY <2>1 DEF Running, P!UnitUnderWay
    <3>2. UnitInv'
      BY <1>1, <2>1, <3>1 DEF UnitInv
    <3> QED BY <1>1, <2>1, <3>2 DEF DoneInv, Done, Settled
  <2> QED BY <2>3, <2>5, <2>6 DEF ProvInv
<1>5. CASE P!Kill
  <2>1. /\ UNCHANGED <<tree, disk, bak, loaded, service, socat, minute, lost, unsaved, synced, shared>>
        /\ at' = P!Idle /\ hurt' = (hurt \/ at.place \in P!UnitUnderWay) /\ clean' = FALSE
    BY <1>5 DEF P!Kill
  <2>2. ProvTypes'
    BY <1>1, <1>2, <2>1 DEF ProvTypes
  <2>3. SavedInv'
    BY <1>1, <2>1 DEF SavedInv, P!LocalVersionsSaved
  <2>4. UnitInv' /\ DoneInv' /\ Settled
    <3>1. Running' <=> Running
      BY <2>1 DEF Running
    <3>2. UnitInv'
      BY <1>1, <1>2, <2>1, <3>1 DEF UnitInv
    <3> QED BY <1>2, <2>1, <3>2 DEF DoneInv, Settled
  <2> QED BY <2>2, <2>3, <2>4 DEF ProvInv
<1>6. ASSUME NEW e \in Edit, P!LocalEdit(e) PROVE ProvInv' /\ Settled
  <2>1. /\ UNCHANGED <<tree, bak, loaded, service, socat, minute, at, lost, unsaved, hurt, synced, shared>>
        /\ at = P!Idle /\ disk' = [disk EXCEPT !.mirror = e] /\ clean' = FALSE
    BY <1>6 DEF P!LocalEdit
  <2>2. /\ disk' \in [tools : Content, template : Content, unit : Content,
                      secret : Content, mirror : Content, timers : Content]
        /\ disk'.unit = disk.unit
    BY <1>1, <2>1 DEF ProvTypes, Content
  <2>3. ProvTypes'
    BY <1>1, <2>1, <2>2 DEF ProvTypes
  <2>4. SavedInv'
    BY <1>1, <2>1 DEF SavedInv, P!LocalVersionsSaved
  <2>5. UnitInv' /\ DoneInv' /\ Settled
    BY <1>1, <1>2, <2>1, <2>2 DEF UnitInv, Running, DoneInv, Settled
  <2> QED BY <2>3, <2>4, <2>5 DEF ProvInv
<1>7. ASSUME NEW b \in BOOLEAN, P!Begin(b) PROVE ProvInv' /\ Settled
  <2>1. /\ UNCHANGED <<tree, disk, bak, loaded, service, socat, minute, lost, unsaved, hurt, synced, shared>>
        /\ at = P!Idle /\ at' = [P!Idle EXCEPT !.item = 1, !.heal = b, !.begun = clean]
        /\ clean' = FALSE
    BY <1>7 DEF P!Begin
  <2>2. clean \in BOOLEAN
    BY <1>1 DEF ProvTypes
  <2>3. /\ at' \in [item : 0..8, place : Places, heal : BOOLEAN,
                    verdict : {"PASS", "WARN", "FAIL"}, begun : BOOLEAN]
        /\ at'.item = 1 /\ at'.begun = clean /\ at'.place = "check"
    <3>1. at' = [item |-> 1, place |-> "check", heal |-> b, verdict |-> "PASS", begun |-> clean]
      BY <2>1 DEF P!Idle
    <3> QED BY <2>2, <3>1 DEF Places
  <2>4. ProvTypes'
    BY <1>1, <2>1, <2>3 DEF ProvTypes
  <2>5. SavedInv'
    BY <1>1, <2>1 DEF SavedInv, P!LocalVersionsSaved
  <2>6. UnitInv' /\ Settled
    BY <1>1, <1>2, <2>1, <2>3 DEF UnitInv, Running, P!UnitUnderWay, Settled
  <2>7. DoneInv'
    BY <1>1, <2>1, <2>3 DEF DoneInv, Done
  <2> QED BY <2>4, <2>5, <2>6, <2>7 DEF ProvInv
<1> QED BY <1>3, <1>4, <1>5, <1>6, <1>7

---------------------------------------------------------------------------
(* The items                                                               *)

\* One file other than the unit's is set.
LEMMA SetFile ==
    ASSUME ProvTypes, NEW x \in Content
    PROVE  \A d \in {[disk EXCEPT !.tools = x], [disk EXCEPT !.template = x], [disk EXCEPT !.secret = x],
                     [disk EXCEPT !.mirror = x], [disk EXCEPT !.timers = x]} :
             /\ d \in [tools : Content, template : Content, unit : Content,
                       secret : Content, mirror : Content, timers : Content]
             /\ d.unit = disk.unit
BY DEF ProvTypes

LEMMA PrerequisitesInv == ASSUME ProvInv, NEW b \in BOOLEAN, P!Prerequisites(b) PROVE ProvInv' /\ Settled
<1>1. ProvTypes /\ DoneInv /\ at.item = 1
  BY Numbers DEF ProvInv, P!Prerequisites
<1>2. UNCHANGED <<tree, minute, bak, loaded, service, socat, lost, unsaved, hurt, synced, shared>>
  BY DEF P!Prerequisites, P!machine, P!Rest
<1>3. tree \in Content /\ tree # "missing"
  BY <1>1, VersionAssumption DEF ProvTypes, Content
<1>4. CASE disk.tools # "missing"
  <2>1. P!Report("PASS") /\ UNCHANGED disk /\ Done(1)'
    BY <1>4 DEF P!Prerequisites, P!machine, P!Missing, Done
  <2> QED BY <1>1, <1>2, <2>1, ItemStep DEF ProvTypes
<1>5. CASE disk.tools = "missing" /\ (~at.heal \/ ~b)
  <2>1. UNCHANGED disk /\ ~at.begun /\ (P!Report("FAIL") \/ P!Abort)
    BY <1>1, <1>5 DEF P!Prerequisites, P!machine, P!Missing, DoneInv, Done
  <2> QED BY <1>1, <1>2, <2>1, ItemStep DEF ProvTypes
<1>6. CASE disk.tools = "missing" /\ at.heal /\ b
  <2>1. disk' = [disk EXCEPT !.tools = tree] /\ ~at.begun /\ P!Report("PASS")
    BY <1>1, <1>6 DEF P!Prerequisites, P!machine, P!Missing, DoneInv, Done
  <2>2. Done(1)'
    BY <1>1, <1>3, <2>1 DEF Done, ProvTypes
  <2>3. /\ disk' \in [tools : Content, template : Content, unit : Content,
                      secret : Content, mirror : Content, timers : Content]
        /\ disk'.unit = disk.unit
    BY <1>1, <1>3, <2>1, SetFile
  <2> QED BY <1>1, <1>2, <2>1, <2>2, <2>3, ItemStep DEF ProvTypes
<1> QED BY <1>4, <1>5, <1>6

LEMMA TemplateInv == ASSUME ProvInv, P!Template PROVE ProvInv' /\ Settled
<1>1. ProvTypes /\ DoneInv /\ at.item = 2
  BY Numbers DEF ProvInv, P!Template
<1>2. UNCHANGED <<tree, minute, bak, loaded, service, socat, lost, unsaved, hurt, synced, shared>>
  BY DEF P!Template, P!Rest
<1>3. tree \in Content /\ tree # "missing"
  BY <1>1, VersionAssumption DEF ProvTypes, Content
<1>4. CASE disk.template = "missing" /\ at.heal
  <2>1. disk' = [disk EXCEPT !.template = tree] /\ ~at.begun /\ P!Report("PASS")
    BY <1>1, <1>4 DEF P!Template, P!Missing, DoneInv, Done
  <2>2. at.verdict = "PASS" => Done(2)'
    BY <1>1, <1>2, <1>3, <1>4, <2>1 DEF Done, DoneInv, ProvTypes
  <2>3. /\ disk' \in [tools : Content, template : Content, unit : Content,
                      secret : Content, mirror : Content, timers : Content]
        /\ disk'.unit = disk.unit
    BY <1>1, <1>3, <2>1, SetFile
  <2> QED BY <1>1, <1>2, <2>1, <2>2, <2>3, ItemStep DEF ProvTypes
<1>5. CASE disk.template # "missing"
  <2>1. UNCHANGED disk /\ P!Report("PASS")
    BY <1>5 DEF P!Template, P!Missing
  <2>2. at.heal /\ at.verdict = "PASS" => Done(2)'
    BY <1>1, <1>2, <1>5, <2>1 DEF Done, DoneInv
  <2> QED BY <1>1, <1>2, <2>1, <2>2, ItemStep DEF ProvTypes
<1>6. CASE disk.template = "missing" /\ ~at.heal
  <2>1. UNCHANGED disk /\ P!Report("WARN")
    BY <1>6 DEF P!Template, P!Missing
  <2> QED BY <1>1, <1>2, <2>1, ItemStep DEF ProvTypes
<1> QED BY <1>4, <1>5, <1>6

LEMMA TlsInv == ASSUME ProvInv, P!Tls PROVE ProvInv' /\ Settled
<1>1. ProvTypes /\ DoneInv /\ at.item = 3
  BY Numbers DEF ProvInv, P!Tls
<1>2. UNCHANGED <<tree, minute, bak, loaded, service, disk, lost, unsaved, hurt, synced, shared>>
      /\ socat' = FALSE /\ P!Report("PASS")
  BY DEF P!Tls, P!Rest
<1>3. at.heal /\ at.verdict = "PASS" => Done(3)'
  BY <1>1, <1>2 DEF Done, DoneInv
<1>4. at.begun => UNCHANGED socat
  <2>1. at.begun => ~socat
    BY <1>1 DEF Done, DoneInv
  <2>2. socat \in BOOLEAN
    BY <1>1 DEF ProvTypes
  <2> QED BY <1>2, <2>1, <2>2
<1>5. socat' \in BOOLEAN
  BY <1>2
<1> QED BY <1>1, <1>2, <1>3, <1>4, <1>5, ItemStep DEF ProvTypes

LEMMA SecretInv == ASSUME ProvInv, P!Secret PROVE ProvInv' /\ Settled
<1>1. ProvTypes /\ DoneInv /\ at.item = 5
  BY Numbers DEF ProvInv, P!Secret
<1>2. UNCHANGED <<tree, minute, bak, loaded, service, socat, lost, unsaved, hurt, synced, shared>>
  BY DEF P!Secret, P!Rest
<1>3. \E v \in {"PASS", "WARN", "FAIL"} :
        P!Report(v) /\ (disk.secret = "missing" /\ ~at.heal => v = "WARN")
  BY DEF P!Secret, P!Missing
<1>4. CASE disk.secret = "missing" /\ at.heal
  <2>1. PICK x \in {"archive", "random"} : disk' = [disk EXCEPT !.secret = x]
    BY <1>4 DEF P!Secret, P!Missing
  <2>2. ~at.begun
    BY <1>1, <1>4 DEF DoneInv, Done
  <2>3. at.verdict = "PASS" => Done(5)'
    BY <1>1, <1>2, <1>4, <2>1 DEF Done, DoneInv, ProvTypes
  <2>4. x \in Content
    BY DEF Content
  <2>5. /\ disk' \in [tools : Content, template : Content, unit : Content,
                      secret : Content, mirror : Content, timers : Content]
        /\ disk'.unit = disk.unit
    BY <1>1, <2>1, <2>4, SetFile
  <2> QED BY <1>1, <1>2, <1>3, <2>2, <2>3, <2>5, ItemStep DEF ProvTypes
<1>5. CASE disk.secret # "missing"
  <2>1. UNCHANGED disk
    BY <1>5 DEF P!Secret, P!Missing
  <2>2. at.heal /\ at.verdict = "PASS" => Done(5)'
    BY <1>1, <1>2, <1>5, <2>1 DEF Done, DoneInv
  <2> QED BY <1>1, <1>2, <1>3, <2>1, <2>2, ItemStep DEF ProvTypes
<1>6. CASE disk.secret = "missing" /\ ~at.heal
  <2>1. UNCHANGED disk /\ P!Report("WARN")
    BY <1>6 DEF P!Secret, P!Missing
  <2> QED BY <1>1, <1>2, <2>1, ItemStep DEF ProvTypes
<1> QED BY <1>4, <1>5, <1>6

LEMMA TimersInv == ASSUME ProvInv, NEW b \in BOOLEAN, P!Timers(b) PROVE ProvInv' /\ Settled
<1>1. ProvTypes /\ DoneInv /\ at.item = 8
  BY Numbers DEF ProvInv, P!Timers
<1>2. UNCHANGED <<tree, minute, bak, loaded, service, socat, lost, unsaved, hurt, synced, shared>>
  BY DEF P!Timers, P!Rest
<1>3. CASE disk.timers # "missing"
  <2>1. UNCHANGED disk /\ P!Report("PASS")
    BY <1>3 DEF P!Timers, P!Missing
  <2>2. at.heal /\ at.verdict = "PASS" => Done(8)'
    BY <1>1, <1>2, <1>3, <2>1 DEF Done, DoneInv
  <2> QED BY <1>1, <1>2, <2>1, <2>2, ItemStep DEF ProvTypes
<1>4. CASE disk.timers = "missing" /\ (~at.heal \/ ~b)
  <2>1. UNCHANGED disk /\ (P!Report("FAIL") \/ P!Abort)
    BY <1>4 DEF P!Timers, P!Missing
  <2> QED BY <1>1, <1>2, <2>1, ItemStep DEF ProvTypes
<1>5. CASE disk.timers = "missing" /\ at.heal /\ b
  <2>1. disk' = [disk EXCEPT !.timers = "on"] /\ ~at.begun /\ P!Report("PASS")
    BY <1>1, <1>5 DEF P!Timers, P!Missing, DoneInv, Done
  <2>2. at.verdict = "PASS" => Done(8)'
    BY <1>1, <1>2, <1>5, <2>1 DEF Done, DoneInv, ProvTypes
  <2>3. "on" \in Content
    BY DEF Content
  <2>4. /\ disk' \in [tools : Content, template : Content, unit : Content,
                      secret : Content, mirror : Content, timers : Content]
        /\ disk'.unit = disk.unit
    BY <1>1, <2>1, <2>3, SetFile
  <2> QED BY <1>1, <1>2, <2>1, <2>2, <2>4, ItemStep DEF ProvTypes
<1> QED BY <1>3, <1>4, <1>5

\* A run that goes on within an item is an installing one that found it undone.
LEMMA Inside ==
    ASSUME ProvInv, NEW p \in Places, P!Within(p), ~at.begun, at.item \in {4, 6},
           \A k \in {at.item - 1} : at.heal /\ at.verdict = "PASS" => Done(k)'
    PROVE  /\ at' \in [item : 0..8, place : Places, heal : BOOLEAN,
                       verdict : {"PASS", "WARN", "FAIL"}, begun : BOOLEAN]
           /\ at'.item = at.item /\ at'.place = p /\ clean' \in BOOLEAN
           /\ DoneInv'
<1>1. at' = [at EXCEPT !.place = p] /\ clean' = FALSE
  BY DEF P!Within
<1>2. /\ at' \in [item : 0..8, place : Places, heal : BOOLEAN,
                  verdict : {"PASS", "WARN", "FAIL"}, begun : BOOLEAN]
      /\ at'.item = at.item /\ at'.place = p /\ at'.verdict = at.verdict
      /\ at'.heal = at.heal /\ ~at'.begun
  BY <1>1 DEF ProvInv, ProvTypes
<1>3. at'.heal /\ at'.verdict = "PASS" => Done(at.item - 1)'
  <2>1. at'.item - 1 = at.item - 1
    BY <1>2
  <2> QED BY <1>2, <2>1
<1>4. DoneInv'
  BY <1>1, <1>2, <1>3 DEF DoneInv
<1> QED BY <1>1, <1>2, <1>4

LEMMA UnitWriteInv == ASSUME ProvInv, NEW b \in BOOLEAN, P!UnitWrite(b) PROVE ProvInv' /\ Settled
<1>1. ProvTypes /\ SavedInv /\ UnitInv /\ DoneInv /\ at.item = 4 /\ at.place = "check"
  BY Numbers DEF ProvInv, P!UnitWrite
<1>2. UNCHANGED <<tree, minute, loaded, service, socat, lost, unsaved, synced, shared>>
  BY DEF P!UnitWrite, P!Rest
<1>3. SavedInv' \/ bak'.mirror # bak.mirror
  BY <1>1, <1>2 DEF SavedInv, P!LocalVersionsSaved
<1>4. CASE disk.unit = tree \/ ~at.heal
  <2>1. UNCHANGED <<disk, bak, hurt>> /\ \E v \in {"PASS", "WARN", "FAIL"} :
           P!Report(v) /\ (v = "PASS" => disk.unit = tree)
    BY <1>4 DEF P!UnitWrite
  <2>2. PICK v \in {"PASS", "WARN", "FAIL"} : P!Report(v) /\ (v = "PASS" => disk.unit = tree)
    BY <2>1
  <2>3. at.heal /\ at.verdict = "PASS" /\ v = "PASS" => \A n \in {at.item} : Done(n)'
    BY <1>1, <1>2, <2>1, <2>2 DEF DoneInv, Done
  <2>4. at.begun => Done(8)'
    BY <1>1, <1>2, <2>1 DEF DoneInv, Done
  <2>5. /\ at' \in [item : 0..8, place : Places, heal : BOOLEAN,
                    verdict : {"PASS", "WARN", "FAIL"}, begun : BOOLEAN]
        /\ clean' \in BOOLEAN
        /\ at'.item # 4 \/ at'.place = "check"
        /\ DoneInv'
    BY <1>1, <1>2, <2>2, <2>3, <2>4, Reported
  <2>6. ProvTypes'
    BY <1>1, <1>2, <2>1, <2>5 DEF ProvTypes
  <2>7. UnitInv'
    BY <1>1, <1>2, <2>1, <2>5 DEF UnitInv, Running, P!UnitUnderWay
  <2> QED BY <1>2, <1>3, <2>1, <2>5, <2>6, <2>7 DEF ProvInv, Settled
<1>5. CASE disk.unit # tree /\ at.heal
  <2>1. /\ \E old \in {disk.unit, "part"} : bak' = [bak EXCEPT !.unit = old]
        /\ disk' = [disk EXCEPT !.unit = IF b THEN tree ELSE "part"]
        /\ hurt' = (hurt \/ ~b)
        /\ IF b THEN P!Within("reload") ELSE P!Abort
    BY <1>5 DEF P!UnitWrite, P!Part
  <2>2. ~at.begun
    BY <1>1, <1>5 DEF DoneInv, Done
  <2>3. /\ disk' \in [tools : Content, template : Content, unit : Content,
                      secret : Content, mirror : Content, timers : Content]
        /\ bak' \in [unit : Content, mirror : [0..MaxMinute -> Content]]
        /\ bak'.mirror = bak.mirror /\ hurt' \in BOOLEAN
    <3>1. tree \in Content /\ "part" \in Content
      BY <1>1 DEF ProvTypes, Content
    <3>2. hurt' \in BOOLEAN
      BY <2>1
    <3>3. bak' \in [unit : Content, mirror : [0..MaxMinute -> Content]] /\ bak'.mirror = bak.mirror
      <4>1. PICK old \in {disk.unit, "part"} : bak' = [bak EXCEPT !.unit = old]
        BY <2>1
      <4>2. old \in Content
        BY <1>1, <3>1 DEF ProvTypes
      <4> QED BY <1>1, <4>1, <4>2 DEF ProvTypes
    <3>4. disk' \in [tools : Content, template : Content, unit : Content,
                     secret : Content, mirror : Content, timers : Content]
      BY <1>1, <2>1, <3>1 DEF ProvTypes
    <3> QED BY <3>2, <3>3, <3>4
  <2>4. at.verdict = "PASS" => Done(3)'
    BY <1>1, <1>2, <1>5, <2>1 DEF DoneInv, Done, ProvTypes
  <2>5. b => disk'.unit = tree /\ hurt' = hurt
    BY <1>1, <2>1 DEF ProvTypes
  <2>6. /\ at' \in [item : 0..8, place : Places, heal : BOOLEAN,
                    verdict : {"PASS", "WARN", "FAIL"}, begun : BOOLEAN]
        /\ clean' \in BOOLEAN /\ DoneInv' /\ UnitInv'
    <3>1. CASE ~b
      <4>1. at' = P!Idle /\ clean' = FALSE
        BY <2>1, <3>1 DEF P!Abort
      <4>2. hurt' = TRUE
        BY <2>1, <3>1
      <4>3. clean' \in BOOLEAN
        BY <4>1
      <4> QED BY <4>1, <4>2, <4>3 DEF P!Idle, Places, DoneInv, UnitInv, Running
    <3>2. CASE b
      <4>1. P!Within("reload")
        BY <2>1, <3>2
      <4>2. "reload" \in Places /\ at.item - 1 = 3
        <5>1. "reload" \in Places
          BY DEF Places
        <5>2. at.item - 1 = 3
          BY <1>1
        <5> QED BY <5>1, <5>2
      <4>3. \A k \in {at.item - 1} : at.verdict = "PASS" => Done(k)'
        BY <2>4, <4>2
      <4>4. at.item \in {4, 6}
        BY <1>1
      <4>5. /\ at' \in [item : 0..8, place : Places, heal : BOOLEAN,
                        verdict : {"PASS", "WARN", "FAIL"}, begun : BOOLEAN]
            /\ at'.item = at.item /\ at'.place = "reload" /\ clean' \in BOOLEAN
            /\ DoneInv'
        BY <1>5, <2>2, <4>1, <4>2, <4>3, <4>4, Inside
      <4>6. UnitInv'
        BY <1>1, <1>2, <2>5, <3>2, <4>5 DEF UnitInv, Running, P!UnitUnderWay
      <4> QED BY <4>5, <4>6
    <3> QED BY <3>1, <3>2
  <2>7. ProvTypes'
    BY <1>1, <1>2, <2>3, <2>6 DEF ProvTypes
  <2> QED BY <1>3, <2>2, <2>3, <2>6, <2>7 DEF ProvInv, Settled
<1> QED BY <1>4, <1>5

\* A step within the unit's item that goes on within it, or ends the item, or
\* the run; the saved text may have been put back.
LEMMA UnitStep ==
    ASSUME ProvInv, at.item = 4, at.place # "check",
           UNCHANGED <<tree, minute, bak, socat, lost, unsaved, synced, shared>>,
           disk' = disk \/ disk' = [disk EXCEPT !.unit = bak.unit],
           service' \in Content, loaded' \in Content, hurt' \in BOOLEAN,
           \/ P!Report("PASS") /\ disk' = disk /\ disk.unit = tree
           \/ P!Report("WARN")
           \/ P!Abort
           \/ \E p \in Places : P!Within(p)
    PROVE  /\ ProvTypes' /\ SavedInv' /\ DoneInv' /\ Settled
           /\ P!Report("PASS") \/ P!Report("WARN") \/ P!Abort => at'.item # 4 \/ at'.place = "check"
           /\ \A p \in Places : P!Within(p) => at'.item = 4 /\ at'.place = p
<1>1. ProvTypes /\ SavedInv /\ UnitInv /\ DoneInv
  BY DEF ProvInv
<1>2. ~at.begun
  BY <1>1 DEF DoneInv
<1>3. at.item - 1 = 3 /\ at.item \in 1..8 /\ at.item \in {4, 6}
  <2>1. at.item - 1 = 3
    OBVIOUS
  <2> QED BY <2>1
<1>4. /\ disk' \in [tools : Content, template : Content, unit : Content,
                    secret : Content, mirror : Content, timers : Content]
      /\ disk'.tools = disk.tools /\ disk'.template = disk.template
  BY <1>1 DEF ProvTypes
<1>5. at.heal /\ at.verdict = "PASS" => Done(3)'
  <2>1. at.heal /\ at.verdict = "PASS" => Done(3)
    BY <1>1, <1>3 DEF DoneInv
  <2>2. Done(3) => Done(3)'
    BY <1>4 DEF Done
  <2> QED BY <2>1, <2>2
<1>6. ASSUME NEW v \in {"PASS", "WARN", "FAIL"}, P!Report(v), v = "PASS" => disk' = disk /\ disk.unit = tree
      PROVE  /\ at' \in [item : 0..8, place : Places, heal : BOOLEAN,
                         verdict : {"PASS", "WARN", "FAIL"}, begun : BOOLEAN]
             /\ clean' \in BOOLEAN /\ DoneInv'
             /\ at'.item # 4 \/ at'.place = "check"
  <2>1. at.heal /\ at.verdict = "PASS" /\ v = "PASS" => \A n \in {at.item} : Done(n)'
    <3>1. v = "PASS" /\ Done(3)' => Done(4)'
      BY <1>6 DEF Done
    <3> QED BY <1>5, <3>1
  <2> QED BY <1>2, <1>3, <1>6, <2>1, Reported
<1>7. ASSUME P!Abort
      PROVE  /\ at' \in [item : 0..8, place : Places, heal : BOOLEAN,
                         verdict : {"PASS", "WARN", "FAIL"}, begun : BOOLEAN]
             /\ clean' \in BOOLEAN /\ DoneInv'
             /\ at'.item # 4 \/ at'.place = "check"
  <2>1. at' = P!Idle /\ clean' = FALSE
    BY <1>7 DEF P!Abort
  <2>2. clean' \in BOOLEAN
    BY <2>1
  <2>3. /\ at' \in [item : 0..8, place : Places, heal : BOOLEAN,
                    verdict : {"PASS", "WARN", "FAIL"}, begun : BOOLEAN]
        /\ at'.item = 0 /\ ~at'.heal /\ ~at'.begun
    BY <2>1, BetweenRuns
  <2>4. DoneInv'
    BY <2>1, <2>3 DEF DoneInv
  <2> QED BY <2>2, <2>3, <2>4
<1>8. ASSUME NEW p \in Places, P!Within(p)
      PROVE  /\ at' \in [item : 0..8, place : Places, heal : BOOLEAN,
                         verdict : {"PASS", "WARN", "FAIL"}, begun : BOOLEAN]
             /\ clean' \in BOOLEAN /\ DoneInv'
             /\ at'.item = 4 /\ at'.place = p
  <2>1. \A k \in {at.item - 1} : at.heal /\ at.verdict = "PASS" => Done(k)'
    BY <1>3, <1>5
  <2> QED BY <1>2, <1>3, <1>8, <2>1, Inside
<1>9. /\ at' \in [item : 0..8, place : Places, heal : BOOLEAN,
                  verdict : {"PASS", "WARN", "FAIL"}, begun : BOOLEAN]
      /\ clean' \in BOOLEAN /\ DoneInv'
  BY <1>6, <1>7, <1>8
<1>10. ProvTypes'
  BY <1>1, <1>4, <1>9 DEF ProvTypes
<1>11. SavedInv'
  BY <1>1 DEF SavedInv, P!LocalVersionsSaved
<1>12. Settled
  BY <1>2 DEF Settled
<1>13. P!Report("PASS") => at'.item # 4 \/ at'.place = "check"
  <2> SUFFICES ASSUME P!Report("PASS") PROVE at'.item # 4 \/ at'.place = "check"
    OBVIOUS
  <2>1. at' = [at EXCEPT !.item = at.item + 1, !.place = "check", !.verdict = P!Worst("PASS")]
    BY Numbers, <1>1 DEF P!Report
  <2> QED BY <1>1, <2>1 DEF ProvTypes
<1>14. /\ P!Report("WARN") => at'.item # 4 \/ at'.place = "check"
       /\ P!Abort => at'.item # 4 \/ at'.place = "check"
  BY <1>6, <1>7
<1>15. \A p \in Places : P!Within(p) => at'.item = 4 /\ at'.place = p
  BY <1>8
<1> QED BY <1>9, <1>10, <1>11, <1>12, <1>13, <1>14, <1>15

LEMMA UnitReloadInv == ASSUME ProvInv, NEW b \in BOOLEAN, P!UnitReload(b) PROVE ProvInv' /\ Settled
<1>1. ProvTypes /\ UnitInv /\ at.item = 4 /\ at.place = "reload" /\ disk.unit = tree
  BY Numbers DEF ProvInv, UnitInv, Running, P!UnitReload
<1>2. /\ UNCHANGED <<tree, minute, disk, bak, service, socat, lost, unsaved, synced, shared>>
      /\ loaded' = IF b THEN disk.unit ELSE loaded
      /\ hurt' = IF b THEN hurt /\ service # "missing" ELSE TRUE
      /\ IF ~b THEN P!Abort
         ELSE IF service = "missing" THEN P!Report("PASS")
         ELSE \E p \in {"restart", "swap"} : P!Within(p)
  BY DEF P!UnitReload, P!Rest, P!Missing
<1>3. /\ service' \in Content /\ loaded' \in Content /\ hurt' \in BOOLEAN
      /\ {"restart", "swap"} \subseteq Places
  <2>1. hurt' \in BOOLEAN
    BY <1>1, <1>2 DEF ProvTypes
  <2> QED BY <1>1, <1>2, <2>1 DEF ProvTypes, Places
<1>4. /\ ProvTypes' /\ SavedInv' /\ DoneInv' /\ Settled
      /\ P!Report("PASS") \/ P!Report("WARN") \/ P!Abort => at'.item # 4 \/ at'.place = "check"
      /\ \A p \in Places : P!Within(p) => at'.item = 4 /\ at'.place = p
  BY <1>1, <1>2, <1>3, UnitStep
<1>5. CASE ~b
  <2>1. hurt' = TRUE /\ (at'.item # 4 \/ at'.place = "check")
    BY <1>2, <1>4, <1>5
  <2>2. UnitInv'
    BY <2>1 DEF UnitInv, Running
  <2> QED BY <1>4, <2>2 DEF ProvInv
<1>6. CASE b /\ service = "missing"
  <2>1. loaded' = disk'.unit /\ service' = "missing" /\ (at'.item # 4 \/ at'.place = "check")
    BY <1>2, <1>4, <1>6
  <2>2. UnitInv'
    BY <2>1 DEF UnitInv, Running
  <2> QED BY <1>4, <2>2 DEF ProvInv
<1>7. CASE b /\ service # "missing"
  <2>1. PICK p \in {"restart", "swap"} : P!Within(p)
    BY <1>2, <1>7
  <2>2. loaded' = disk'.unit /\ disk'.unit = tree' /\ at'.item = 4 /\ at'.place = p
    BY <1>1, <1>2, <1>3, <1>4, <1>7, <2>1
  <2>3. UnitInv'
    BY <2>2 DEF UnitInv, Running, P!UnitUnderWay
  <2> QED BY <1>4, <2>3 DEF ProvInv
<1> QED BY <1>5, <1>6, <1>7

LEMMA UnitRestartInv == ASSUME ProvInv, P!UnitRestart PROVE ProvInv' /\ Settled
<1>1. /\ ProvTypes /\ at.item = 4 /\ at.place \in {"restart", "swap"}
      /\ disk.unit = tree /\ loaded = disk.unit
  BY Numbers DEF ProvInv, UnitInv, Running, P!UnitRestart
<1>2. /\ UNCHANGED <<tree, minute, disk, bak, loaded, socat, lost, unsaved, synced, shared>>
      /\ service' = loaded /\ hurt' = FALSE
  BY DEF P!UnitRestart, P!Rest
<1>3. PICK p \in {"judge", "judge first"} : P!Within(p)
  BY DEF P!UnitRestart
<1>4. service' \in Content /\ loaded' \in Content /\ hurt' \in BOOLEAN /\ p \in Places
  <2>1. hurt' \in BOOLEAN
    BY <1>2
  <2> QED BY <1>1, <1>2, <2>1 DEF ProvTypes, Places
<1>5. /\ ProvTypes' /\ SavedInv' /\ DoneInv' /\ Settled
      /\ at'.item = 4 /\ at'.place = p
  BY <1>1, <1>2, <1>3, <1>4, UnitStep
<1>6. UnitInv'
  BY <1>1, <1>2, <1>3, <1>5 DEF UnitInv, Running
<1> QED BY <1>5, <1>6 DEF ProvInv

\* An unhealthy unit is taken back, in three steps.
LEMMA UnitJudgeInv == ASSUME ProvInv, NEW b \in BOOLEAN, P!UnitJudge(b) PROVE ProvInv' /\ Settled
<1>1. /\ ProvTypes /\ UnitInv /\ at.item = 4 /\ at.place \in {"judge", "judge first"}
      /\ disk.unit = tree
  BY Numbers DEF ProvInv, UnitInv, Running, P!UnitJudge
<1>2. UNCHANGED <<tree, minute, bak, loaded, service, socat, lost, unsaved, hurt, synced, shared>>
  BY DEF P!UnitJudge, P!Rest
<1>3. \/ P!Report("PASS") /\ disk' = disk
      \/ P!Report("WARN") /\ disk' = disk
      \/ P!Within("back") /\ disk' = [disk EXCEPT !.unit = bak.unit]
  BY DEF P!UnitJudge
<1>4. service' \in Content /\ loaded' \in Content /\ hurt' \in BOOLEAN /\ "back" \in Places
  BY <1>1, <1>2 DEF ProvTypes, Places
<1>5. /\ ProvTypes' /\ SavedInv' /\ DoneInv' /\ Settled
      /\ P!Report("PASS") \/ P!Report("WARN") \/ P!Abort => at'.item # 4 \/ at'.place = "check"
      /\ \A p \in Places : P!Within(p) => at'.item = 4 /\ at'.place = p
  BY <1>1, <1>2, <1>3, <1>4, UnitStep
<1>6. UnitInv'
  <2>1. CASE P!Within("back")
    BY <1>4, <1>5, <2>1 DEF UnitInv, Running, P!UnitUnderWay
  <2>2. CASE (P!Report("PASS") \/ P!Report("WARN")) /\ disk' = disk
    <3>1. ~hurt => loaded = disk.unit /\ service \in {"missing", loaded}
      BY <1>1 DEF UnitInv, Running, P!UnitUnderWay
    <3> QED BY <1>2, <1>5, <2>2, <3>1 DEF UnitInv, Running
  <2> QED BY <1>3, <2>1, <2>2
<1> QED BY <1>5, <1>6 DEF ProvInv

LEMMA UnitReloadBackInv == ASSUME ProvInv, NEW b \in BOOLEAN, P!UnitReloadBack(b) PROVE ProvInv' /\ Settled
<1>1. ProvTypes /\ at.item = 4 /\ at.place = "back"
  BY Numbers DEF ProvInv, P!UnitReloadBack
<1>2. /\ UNCHANGED <<tree, minute, disk, bak, service, socat, lost, unsaved, synced, shared>>
      /\ loaded' = IF b THEN disk.unit ELSE loaded
      /\ hurt' = (hurt \/ ~b)
      /\ P!Within("restart back")
  BY DEF P!UnitReloadBack, P!Rest
<1>3. service' \in Content /\ loaded' \in Content /\ hurt' \in BOOLEAN /\ "restart back" \in Places
  <2>1. hurt' \in BOOLEAN
    BY <1>2
  <2> QED BY <1>1, <1>2, <2>1 DEF ProvTypes, Places
<1>4. /\ ProvTypes' /\ SavedInv' /\ DoneInv' /\ Settled
      /\ at'.item = 4 /\ at'.place = "restart back"
  BY <1>1, <1>2, <1>3, UnitStep
<1>5. ~hurt' => loaded' = disk'.unit
  BY <1>2
<1>6. UnitInv'
  BY <1>4, <1>5 DEF UnitInv, Running, P!UnitUnderWay
<1> QED BY <1>4, <1>6 DEF ProvInv

LEMMA UnitRestartBackInv == ASSUME ProvInv, P!UnitRestartBack PROVE ProvInv' /\ Settled
<1>1. /\ ProvTypes /\ at.item = 4 /\ at.place = "restart back"
      /\ ~hurt => loaded = disk.unit
  BY Numbers DEF ProvInv, UnitInv, Running, P!UnitRestartBack
<1>2. /\ UNCHANGED <<tree, minute, disk, bak, loaded, socat, lost, unsaved, hurt, synced, shared>>
      /\ service' = loaded
      /\ P!Report("WARN")
  BY DEF P!UnitRestartBack, P!Rest
<1>3. service' \in Content /\ loaded' \in Content /\ hurt' \in BOOLEAN
  BY <1>1, <1>2 DEF ProvTypes
<1>4. /\ ProvTypes' /\ SavedInv' /\ DoneInv' /\ Settled
      /\ at'.item # 4 \/ at'.place = "check"
  BY <1>1, <1>2, <1>3, UnitStep
<1>5. UnitInv'
  BY <1>1, <1>2, <1>4 DEF UnitInv, Running
<1> QED BY <1>4, <1>5 DEF ProvInv

\* A local version is saved under the minute's name before it is replaced.
LEMMA MirrorSaveInv == ASSUME ProvInv, NEW b \in BOOLEAN, P!MirrorSave(b) PROVE ProvInv' /\ Settled
<1>1. ProvTypes /\ SavedInv /\ UnitInv /\ DoneInv /\ at.item = 6
  BY Numbers DEF ProvInv, P!MirrorSave
<1>2. UNCHANGED <<tree, minute, disk, loaded, service, socat, hurt>>
  BY DEF P!MirrorSave, P!Rest
<1>3. at.item \in 1..8 /\ at.item - 1 = 5
  BY <1>1
<1>4. CASE disk.mirror = tree \/ ~at.heal
  <2>1. /\ UNCHANGED <<bak, lost, unsaved, synced, shared>>
        /\ \E v \in {"PASS", "WARN", "FAIL"} : P!Report(v) /\ (v = "PASS" => disk.mirror = tree)
    BY <1>4 DEF P!MirrorSave
  <2>2. at.heal /\ at.verdict = "PASS" /\ disk.mirror = tree => Done(6)'
    BY <1>1, <1>2 DEF DoneInv, Done
  <2> QED BY <1>1, <1>2, <2>1, <2>2, ItemStep DEF ProvTypes
<1>5. CASE disk.mirror # tree /\ at.heal
  <2>1. /\ bak' = IF disk.mirror = "missing" THEN bak
                  ELSE [bak EXCEPT !.mirror[minute] = IF b THEN disk.mirror ELSE "part"]
        /\ lost' = lost \cup ({disk.mirror} \cap Edit)
        /\ unsaved' = IF b THEN unsaved ELSE unsaved \cup ({disk.mirror} \cap Edit)
        /\ shared' = (shared \/ synced = minute) /\ synced' = minute
        /\ P!Within("replace")
    BY <1>5 DEF P!MirrorSave, P!Missing, P!Part
  <2>2. ~at.begun
    BY <1>1, <1>5 DEF DoneInv, Done
  <2>3. \A k \in {at.item - 1} : at.heal /\ at.verdict = "PASS" => Done(k)'
    <3>1. at.heal /\ at.verdict = "PASS" => Done(5)
      BY <1>1, <1>3 DEF DoneInv
    <3>2. Done(5) => Done(5)'
      BY <1>2 DEF Done
    <3> QED BY <1>3, <3>1, <3>2
  <2>4. /\ at' \in [item : 0..8, place : Places, heal : BOOLEAN,
                    verdict : {"PASS", "WARN", "FAIL"}, begun : BOOLEAN]
        /\ at'.item = at.item /\ clean' \in BOOLEAN /\ DoneInv'
    <3>1. "replace" \in Places /\ at.item \in {4, 6}
      BY <1>1 DEF Places
    <3> QED BY <2>1, <2>2, <2>3, <3>1, Inside
  <2>5. /\ bak' \in [unit : Content, mirror : [0..MaxMinute -> Content]]
        /\ \A m \in 0..MaxMinute :
              bak'.mirror[m] = IF disk.mirror # "missing" /\ m = minute
                               THEN IF b THEN disk.mirror ELSE "part"
                               ELSE bak.mirror[m]
    <3>1. "part" \in Content
      BY DEF Content
    <3> QED BY <1>1, <2>1, <3>1 DEF ProvTypes
  <2>6. /\ shared' \in BOOLEAN /\ lost' \subseteq Edit /\ unsaved' \subseteq Edit /\ synced' \in 0..(MaxMinute + 1)
        /\ minute \in 0..MaxMinute /\ MaxMinute \in Nat
    <3>1. shared' \in BOOLEAN
      BY <2>1
    <3>2. lost' \subseteq Edit /\ unsaved' \subseteq Edit
      BY <1>1, <2>1 DEF ProvTypes
    <3>3. minute \in 0..MaxMinute /\ MaxMinute \in Nat
      BY <1>1, ToolsAssumption DEF ProvTypes
    <3>4. synced' \in 0..(MaxMinute + 1)
      BY <2>1, <3>3
    <3> QED BY <3>1, <3>2, <3>3, <3>4
  <2>7. ProvTypes'
    BY <1>1, <1>2, <2>4, <2>5, <2>6 DEF ProvTypes
  <2>8. \A m \in 0..MaxMinute : bak'.mirror[m] # "missing" => synced' <= MaxMinute /\ m <= synced'
    <3>1. synced \in 0..(MaxMinute + 1)
      BY <1>1 DEF ProvTypes
    <3>2. \A m \in 0..MaxMinute : bak.mirror[m] # "missing" => m <= minute
      BY <1>1, <2>6, <3>1 DEF SavedInv
    <3> QED BY <2>1, <2>5, <2>6, <3>2
  <2>9. ASSUME ~shared', NEW e \in lost' \ unsaved' PROVE \E m \in DOMAIN bak'.mirror : bak'.mirror[m] = e
    <3>1. ~shared /\ synced # minute
      BY <2>1, <2>9
    <3>2. DOMAIN bak'.mirror = 0..MaxMinute /\ DOMAIN bak.mirror = 0..MaxMinute
      BY <1>1, <2>5 DEF ProvTypes
    <3>3. e # "missing"
      BY <2>6, VersionAssumption
    <3>4. CASE e \in lost \ unsaved
      <4>1. PICK m \in 0..MaxMinute : bak.mirror[m] = e
        BY <1>1, <3>1, <3>2, <3>4 DEF SavedInv, P!LocalVersionsSaved
      <4>2. synced \in 0..(MaxMinute + 1) /\ m <= synced /\ synced <= MaxMinute
        BY <1>1, <3>3, <4>1 DEF SavedInv, ProvTypes
      <4>3. m # minute
        BY <1>1, <2>6, <3>1, <4>2 DEF SavedInv
      <4> QED BY <2>5, <3>2, <4>1, <4>3
    <3>5. CASE e \notin lost \ unsaved
      <4>1. e = disk.mirror /\ b
        BY <2>1, <2>9, <3>5
      <4> QED BY <2>5, <2>6, <3>2, <3>3, <4>1
    <3> QED BY <3>4, <3>5
  <2>10. SavedInv'
    BY <1>2, <2>1, <2>8, <2>9, <2>6 DEF SavedInv, P!LocalVersionsSaved
  <2>11. UnitInv'
    BY <1>1, <1>2, <2>4 DEF UnitInv, Running
  <2> QED BY <2>2, <2>4, <2>7, <2>10, <2>11 DEF ProvInv, Settled
<1> QED BY <1>4, <1>5

LEMMA MirrorReplaceInv == ASSUME ProvInv, NEW b \in BOOLEAN, P!MirrorReplace(b) PROVE ProvInv' /\ Settled
<1>1. ProvTypes /\ SavedInv /\ UnitInv /\ DoneInv /\ at.item = 6 /\ at.place \in {"replace", "copy"}
  BY Numbers DEF ProvInv, P!MirrorReplace
<1>2. UNCHANGED <<tree, minute, bak, loaded, service, socat, lost, unsaved, hurt, synced, shared>>
  BY DEF P!MirrorReplace, P!Rest
<1>3. at.item \in 1..8 /\ at.item - 1 = 5
  BY <1>1
<1>4. ~at.begun
  BY <1>1 DEF DoneInv
<1>5. tree \in Content /\ "part" \in Content
  BY <1>1 DEF ProvTypes, Content
<1>6. CASE at.place = "copy" /\ b
  <2>1. disk' = [disk EXCEPT !.mirror = tree] /\ P!Report("PASS")
    BY <1>6 DEF P!MirrorReplace
  <2>2. at.heal /\ at.verdict = "PASS" => Done(6)'
    BY <1>1, <1>2, <2>1 DEF Done, DoneInv, ProvTypes
  <2>3. /\ disk' \in [tools : Content, template : Content, unit : Content,
                      secret : Content, mirror : Content, timers : Content]
        /\ disk'.unit = disk.unit
    BY <1>1, <1>5, <2>1, SetFile
  <2> QED BY <1>1, <1>2, <1>4, <2>1, <2>2, <2>3, ItemStep DEF ProvTypes
<1>7. CASE at.place = "replace"
  <2>1. disk' = [disk EXCEPT !.mirror = "part"] /\ P!Within("copy")
    BY <1>7 DEF P!MirrorReplace, P!Part
  <2>2. \A k \in {at.item - 1} : at.heal /\ at.verdict = "PASS" => Done(k)'
    <3>1. at.heal /\ at.verdict = "PASS" => Done(5)
      BY <1>1, <1>3 DEF DoneInv
    <3>2. Done(5) => Done(5)'
      BY <1>1, <1>2, <2>1 DEF Done, ProvTypes
    <3> QED BY <1>3, <3>1, <3>2
  <2>3. /\ at' \in [item : 0..8, place : Places, heal : BOOLEAN,
                    verdict : {"PASS", "WARN", "FAIL"}, begun : BOOLEAN]
        /\ at'.item = at.item /\ clean' \in BOOLEAN /\ DoneInv'
    <3>1. "copy" \in Places /\ at.item \in {4, 6}
      BY <1>1 DEF Places
    <3> QED BY <1>4, <2>1, <2>2, <3>1, Inside
  <2>4. /\ disk' \in [tools : Content, template : Content, unit : Content,
                      secret : Content, mirror : Content, timers : Content]
        /\ disk'.unit = disk.unit
    BY <1>1, <1>5, <2>1, SetFile
  <2>5. ProvTypes'
    BY <1>1, <1>2, <2>3, <2>4 DEF ProvTypes
  <2>6. SavedInv'
    BY <1>1, <1>2 DEF SavedInv, P!LocalVersionsSaved
  <2>7. UnitInv'
    BY <1>1, <1>2, <2>3, <2>4 DEF UnitInv, Running
  <2> QED BY <1>4, <2>3, <2>5, <2>6, <2>7 DEF ProvInv, Settled
<1>8. CASE at.place = "copy" /\ ~b
  <2>1. disk' = [disk EXCEPT !.mirror = "part"] /\ P!Abort
    BY <1>8 DEF P!MirrorReplace, P!Part
  <2>2. /\ disk' \in [tools : Content, template : Content, unit : Content,
                      secret : Content, mirror : Content, timers : Content]
        /\ disk'.unit = disk.unit
    BY <1>1, <1>5, <2>1, SetFile
  <2> QED BY <1>1, <1>2, <1>4, <2>1, <2>2, ItemStep DEF ProvTypes
<1> QED BY <1>1, <1>6, <1>7, <1>8

\* The relay is started with the installed unit, or goes on with the one it has.
LEMMA ServiceInv == ASSUME ProvInv, NEW b \in BOOLEAN, P!Service(b) PROVE ProvInv' /\ Settled
<1>1. ProvTypes /\ SavedInv /\ UnitInv /\ DoneInv /\ at.item = 7
  BY Numbers DEF ProvInv, P!Service
<1>2. UNCHANGED <<tree, minute, disk, bak, loaded, socat, lost, unsaved, hurt, synced, shared>>
  BY DEF P!Service, P!Rest
<1>3. at.item \in 1..8 /\ at.item - 1 = 6
  BY <1>1
<1>4. "missing" \notin Healthy
  BY VersionAssumption
<1>5. /\ service' = service \/ service' = loaded
      /\ \/ P!Report("PASS") /\ service' \in Healthy
         \/ P!Report("FAIL") /\ service' = service
         \/ P!Abort
  BY DEF P!Service, P!Missing
<1>6. service' # service /\ service # "missing" => at.heal
  BY DEF P!Service, P!Missing
<1>7. at.begun => service # "missing" /\ service \in Healthy
  BY <1>1, <1>4 DEF DoneInv, Done
<1>8. /\ at' \in [item : 0..8, place : Places, heal : BOOLEAN,
                  verdict : {"PASS", "WARN", "FAIL"}, begun : BOOLEAN]
      /\ clean' \in BOOLEAN
      /\ at'.item # 4
      /\ DoneInv'
  <2>1. CASE P!Abort
    <3>1. at' = P!Idle /\ clean' = FALSE
      BY <2>1 DEF P!Abort
    <3>2. clean' \in BOOLEAN
      BY <3>1
    <3> QED BY <3>1, <3>2 DEF P!Idle, Places, DoneInv
  <2>2. ASSUME NEW v \in {"PASS", "WARN", "FAIL"}, P!Report(v),
               v = "PASS" => service' \in Healthy, v # "PASS" => service' = service
        PROVE  /\ at' \in [item : 0..8, place : Places, heal : BOOLEAN,
                           verdict : {"PASS", "WARN", "FAIL"}, begun : BOOLEAN]
               /\ clean' \in BOOLEAN
               /\ at'.item # 4
               /\ DoneInv'
    <3>1. at.heal /\ at.verdict = "PASS" /\ v = "PASS" => \A n \in {at.item} : Done(n)'
      <4>1. at.heal /\ at.verdict = "PASS" => Done(6)
        BY <1>1, <1>3 DEF DoneInv
      <4>2. Done(6) /\ service' \in Healthy => Done(7)'
        BY <1>1, <1>2 DEF Done, ProvTypes
      <4> QED BY <1>1, <2>2, <4>1, <4>2
    <3>2. at.begun => Done(8)'
      <4>1. at.begun => Done(8)
        BY <1>1 DEF DoneInv
      <4>2. at.begun => service' \in Healthy
        BY <1>7, <2>2
      <4>3. Done(8) /\ service' \in Healthy => Done(8)'
        BY <1>1, <1>2 DEF Done, ProvTypes
      <4> QED BY <4>1, <4>2, <4>3
    <3>3. /\ at' \in [item : 0..8, place : Places, heal : BOOLEAN,
                      verdict : {"PASS", "WARN", "FAIL"}, begun : BOOLEAN]
          /\ clean' \in BOOLEAN
          /\ DoneInv'
      BY <1>2, <1>3, <2>2, <3>1, <3>2, Reported
    <3>4. at'.item # 4
      <4>1. at' = [at EXCEPT !.item = at.item + 1, !.place = "check", !.verdict = P!Worst(v)]
        BY <1>1, <2>2, Numbers DEF P!Report
      <4> QED BY <1>1, <4>1 DEF ProvTypes
    <3> QED BY <3>3, <3>4
  <2> QED BY <1>5, <2>1, <2>2
<1>9. ProvTypes'
  BY <1>1, <1>2, <1>5, <1>8 DEF ProvTypes
<1>10. SavedInv'
  BY <1>1, <1>2 DEF SavedInv, P!LocalVersionsSaved
<1>11. UnitInv'
  <2>1. ~hurt => loaded = disk.unit /\ service \in {"missing", loaded}
    BY <1>1 DEF UnitInv, Running
  <2>2. ~hurt' => Running'
    BY <1>2, <1>5, <2>1 DEF Running
  <2> QED BY <1>8, <2>2 DEF UnitInv
<1>12. Settled
  <2>1. at.begun /\ service' # service => service' = loaded /\ hurt
    BY <1>1, <1>5, <1>7 DEF UnitInv, Running
  <2> QED BY <1>2, <2>1 DEF Settled
<1> QED BY <1>8, <1>9, <1>10, <1>11, <1>12 DEF ProvInv

LEMMA ProvStep == ASSUME ProvInv, [P!Next]_(P!vars) PROVE ProvInv' /\ Settled
<1>1. CASE P!NewTree \/ P!Minute \/ P!Kill \/ \E e \in Edit : P!LocalEdit(e)
  BY <1>1, AroundRuns
<1>2. ASSUME NEW b \in BOOLEAN,
             \/ P!Begin(b) \/ P!Prerequisites(b) \/ P!UnitWrite(b) \/ P!UnitReload(b)
             \/ P!UnitJudge(b) \/ P!UnitReloadBack(b) \/ P!MirrorSave(b) \/ P!MirrorReplace(b)
             \/ P!Service(b) \/ P!Timers(b)
      PROVE  ProvInv' /\ Settled
  BY <1>2, AroundRuns, PrerequisitesInv, UnitWriteInv, UnitReloadInv, UnitJudgeInv,
     UnitReloadBackInv, MirrorSaveInv, MirrorReplaceInv, ServiceInv, TimersInv
<1>3. CASE P!Template \/ P!Tls \/ P!UnitRestart \/ P!UnitRestartBack \/ P!Secret
  BY <1>3, TemplateInv, TlsInv, UnitRestartInv, UnitRestartBackInv, SecretInv
<1>4. CASE UNCHANGED P!vars
  <2>1. UNCHANGED <<tree, disk, bak, loaded, service, socat, minute, at, lost, unsaved, hurt, synced, shared, clean>>
    BY <1>4 DEF P!vars, P!machine, P!history
  <2>2. ProvTypes'
    BY <2>1 DEF ProvInv, ProvTypes
  <2>3. SavedInv' /\ UnitInv'
    BY <2>1 DEF ProvInv, SavedInv, P!LocalVersionsSaved, UnitInv, Running, P!UnitUnderWay
  <2>4. DoneInv' /\ Settled
    BY <2>1 DEF ProvInv, DoneInv, Done, Settled
  <2> QED BY <2>2, <2>3, <2>4 DEF ProvInv
<1> QED BY <1>1, <1>2, <1>3, <1>4 DEF P!Next

\* For any versions, minutes and number of runs, killed between any two of their
\* commands: a local version that was replaced is saved unless its backup copy
\* failed or shared its minute; systemd has read the installed unit and the relay
\* runs it, unless a run ended, or could not reload, between the unit's text and
\* the restart; and a run after one that only passed writes nothing.
THEOREM RerunsAreSafe == P!Spec => ProvisionSafe
<1>1. ProvInv /\ [P!Next]_(P!vars) => ProvInv'
  BY ProvStep
<1>2. ProvInv => P!LocalVersionsSaved /\ P!RunsWhatIsInstalled
  <2>1. P!Idle.item = 0
    BY DEF P!Idle
  <2>2. ProvInv => P!RunsWhatIsInstalled
    <3> SUFFICES ASSUME ProvInv, at = P!Idle, ~hurt
                 PROVE  loaded = disk.unit /\ service \in {"missing", loaded}
      BY DEF P!RunsWhatIsInstalled, P!Missing
    <3>1. at.item # 4
      BY <2>1
    <3>2. Running
      BY <3>1 DEF ProvInv, UnitInv
    <3> QED BY <3>2 DEF Running
  <2> QED BY <2>2 DEF ProvInv, SavedInv
<1>3. ProvInv /\ [P!Next]_(P!vars) =>
        [at.begun /\ at # P!Idle =>
            /\ UNCHANGED <<disk, bak, loaded, socat>>
            /\ service' # service => hurt /\ service' = loaded]_(P!vars)
  BY ProvStep DEF Settled
<1> QED
  BY ProvInit, <1>1, <1>2, <1>3, PTL
     DEF P!Spec, ProvisionSafe, P!ProvisionSafe, P!SecondRunChangesNothing

---------------------------------------------------------------------------
(* DesignUpdate: sets and lists                                            *)

HIDE BatchAssumption DEF script, history

\* The least and the greatest of a finite set of numbers.
LEMMA Extremes ==
    ASSUME NEW A \in SUBSET Nat, IsFiniteSet(A), A # {}
    PROVE  /\ D!First(A) \in A /\ \A i \in A : D!First(A) <= i
           /\ D!MaxOf(A) \in A /\ \A i \in A : i <= D!MaxOf(A)
<1> DEFINE below(i) == {j \in A : j <= i}
           N == Cardinality(A)
<1>1. N \in Nat \ {0} /\ \A k \in 1..N : \E i \in A : Cardinality(below(i)) = k
  BY Numbered, FS_EmptySet, FS_CardinalityType
<1>2. \A i \in A : IsFiniteSet(below(i)) /\ i \in below(i)
  BY FS_Subset
<1>3. \E i \in A : \A j \in A : i <= j
  <2>1. PICK i \in A : Cardinality(below(i)) = 1
    BY <1>1
  <2>2. PICK x : below(i) = {x}
    BY <1>2, <2>1, FS_Singleton
  <2>3. ASSUME NEW j \in A, ~(i <= j) PROVE FALSE
    <3>1. j \in below(i) /\ j # i
      BY <2>3
    <3> QED BY <1>2, <2>2, <3>1
  <2> QED BY <2>3
<1>4. \E i \in A : \A j \in A : j <= i
  <2>1. PICK i \in A : Cardinality(below(i)) = N
    BY <1>1
  <2>2. below(i) = A
    BY <2>1, FS_Subset
  <2> QED BY <2>2
<1>5. D!First(A) \in A /\ \A i \in A : D!First(A) <= i
  BY <1>3 DEF D!First
<1>6. D!MaxOf(A) \in A /\ \A i \in A : i <= D!MaxOf(A)
  BY <1>4 DEF D!MaxOf
<1> QED BY <1>5, <1>6

\* The values of a function on a finite set are finitely many.
LEMMA FiniteRange == ASSUME NEW f, IsFiniteSet(DOMAIN f) PROVE IsFiniteSet({f[i] : i \in DOMAIN f})
<1> DEFINE T == {f[i] : i \in DOMAIN f}
           g == [i \in DOMAIN f |-> f[i]]
<1>1. g \in Surjection(DOMAIN f, T)
  BY DEF Surjection
<1> QED BY <1>1, FS_Surjection

\* An item is put into a list, or taken out of it, and the others keep their order.
LEMMA InsertedAt ==
    ASSUME NEW T, NEW s \in Seq(T), NEW e \in T, NEW n \in 1..Len(s) + 1
    PROVE  LET r == D!InsertAt(s, n, e)
           IN /\ r \in Seq(T) /\ Len(r) = Len(s) + 1
              /\ \A k \in 1..Len(s) + 1 :
                   r[k] = IF k < n THEN s[k] ELSE IF k = n THEN e ELSE s[k - 1]
<1> DEFINE a == SubSeq(s, 1, n - 1)
           b == SubSeq(s, n, Len(s))
<1>1. Len(s) \in Nat /\ n \in Int /\ n >= 1 /\ n <= Len(s) + 1 /\ \A k \in 1..Len(s) : s[k] \in T
  BY LenProperties, ElementOfSeq
<1>2. a \in Seq(T) /\ Len(a) = n - 1 /\ \A k \in 1..n - 1 : a[k] = s[k]
  <2>1. \A k \in 1..n - 1 : s[k] \in T
    BY <1>1
  <2> QED BY <1>1, <2>1, SubSeqProperties
<1>3. b \in Seq(T) /\ Len(b) = Len(s) - n + 1 /\ \A k \in 1..Len(s) - n + 1 : b[k] = s[n + k - 1]
  <2>1. \A k \in n..Len(s) : s[k] \in T
    BY <1>1
  <2> QED BY <1>1, <2>1, SubSeqProperties
<1> HIDE DEF a, b
<1>4. <<e>> \in Seq(T) /\ Len(<<e>>) = 1 /\ <<e>>[1] = e
  OBVIOUS
<1>5. /\ a \o <<e>> \in Seq(T) /\ Len(a \o <<e>>) = n
      /\ \A k \in 1..n : (a \o <<e>>)[k] = IF k <= n - 1 THEN a[k] ELSE e
  BY <1>1, <1>2, <1>4, ConcatProperties
<1> DEFINE ae == a \o <<e>>
<1>6. /\ ae \o b \in Seq(T) /\ Len(ae \o b) = Len(s) + 1
      /\ \A k \in 1..Len(s) + 1 : (ae \o b)[k] = IF k <= n THEN ae[k] ELSE b[k - n]
  <2> HIDE DEF ae
  <2>1. ae \in Seq(T) /\ Len(ae) = n
    BY <1>5 DEF ae
  <2> QED BY <1>1, <1>3, <2>1, ConcatProperties
<1>7. D!InsertAt(s, n, e) = ae \o b
  BY DEF D!InsertAt, a, b
<1>8. \A k \in 1..Len(s) + 1 : (ae \o b)[k] = IF k < n THEN s[k] ELSE IF k = n THEN e ELSE s[k - 1]
  BY <1>1, <1>2, <1>3, <1>5, <1>6
<1> QED BY <1>6, <1>7, <1>8

LEMMA RemovedAt ==
    ASSUME NEW T, NEW s \in Seq(T), NEW n \in 1..Len(s)
    PROVE  LET r == D!RemoveAt(s, n)
           IN /\ r \in Seq(T) /\ Len(r) = Len(s) - 1
              /\ \A k \in 1..Len(s) - 1 : r[k] = IF k < n THEN s[k] ELSE s[k + 1]
<1> DEFINE a == SubSeq(s, 1, n - 1)
           b == SubSeq(s, n + 1, Len(s))
<1>1. Len(s) \in Nat /\ n \in Int /\ n >= 1 /\ n <= Len(s) /\ \A k \in 1..Len(s) : s[k] \in T
  BY LenProperties, ElementOfSeq
<1>2. a \in Seq(T) /\ Len(a) = n - 1 /\ \A k \in 1..n - 1 : a[k] = s[k]
  <2>1. \A k \in 1..n - 1 : s[k] \in T
    BY <1>1
  <2> QED BY <1>1, <2>1, SubSeqProperties
<1>3. b \in Seq(T) /\ Len(b) = Len(s) - n /\ \A k \in 1..Len(s) - n : b[k] = s[n + k]
  <2>1. \A k \in n + 1..Len(s) : s[k] \in T
    BY <1>1
  <2> QED BY <1>1, <2>1, SubSeqProperties
<1> HIDE DEF a, b
<1>4. /\ a \o b \in Seq(T) /\ Len(a \o b) = Len(s) - 1
      /\ \A k \in 1..Len(s) - 1 : (a \o b)[k] = IF k <= n - 1 THEN a[k] ELSE b[k - (n - 1)]
  BY <1>1, <1>2, <1>3, ConcatProperties
<1>5. D!RemoveAt(s, n) = a \o b
  BY DEF D!RemoveAt, a, b
<1>6. ASSUME NEW k \in 1..Len(s) - 1 PROVE (a \o b)[k] = IF k < n THEN s[k] ELSE s[k + 1]
  <2>1. CASE k < n
    BY <1>1, <1>2, <1>4, <2>1
  <2>2. CASE ~(k < n)
    <3>1. k - (n - 1) \in 1..Len(s) - n /\ n + (k - (n - 1)) = k + 1 /\ ~(k <= n - 1)
      BY <1>1, <2>2
    <3>2. b[k - (n - 1)] = s[k + 1]
      BY <1>3, <3>1
    <3> QED BY <1>4, <2>2, <3>1, <3>2
  <2> QED BY <2>1, <2>2
<1> QED BY <1>4, <1>5, <1>6

---------------------------------------------------------------------------
(* DesignUpdate                                                            *)

ItemT == [id : Nat, label : Labels, table : BOOLEAN, subs : SUBSET Labels]
PlaceT == [i : Nat, x : Nat, y : Nat, w : Nat \ {0}, h : Nat \ {0}]
DocT == [kind : D!Kinds, items : Seq(ItemT), place : SUBSET PlaceT,
         sources : SUBSET {"built-in", "connected"}]

\* Rows of charts: a chart that begins in a lower row begins below those above.
Rows(place) ==
    /\ IsFiniteSet(place) /\ place \in SUBSET PlaceT
    /\ \A p, q \in place : p.y < q.y => p.y + p.h <= q.y
    /\ \A p, q \in place : p # q => p.i # q.i /\ ~D!Overlap(p, q)

\* A document whose items are told apart by their id, each chart in its place.
Sound(d) ==
    /\ d \in DocT
    /\ \A i, j \in DOMAIN d.items : d.items[i].id = d.items[j].id => i = j
    /\ d.kind = "report" =>
         Rows(d.place) /\ {p.i : p \in d.place} = {d.items[k].id : k \in DOMAIN d.items}

\* What a change has to leave as it is: the items it does not name.
Keeps(d, e, named) ==
    /\ e.kind = d.kind /\ e.sources = d.sources
    /\ \A i \in DOMAIN d.items :
         \/ d.items[i].label \in named
         \/ \E j \in DOMAIN e.items : e.items[j].id = d.items[i].id /\ e.items[j].label = d.items[i].label

LEMMA ItemsOf == ASSUME NEW d, Sound(d)
    PROVE /\ Len(d.items) \in Nat /\ DOMAIN d.items = 1..Len(d.items)
          /\ d.items \in Seq(ItemT) /\ \A i \in 1..Len(d.items) : d.items[i] \in ItemT
          /\ D!Range(d.items) = {d.items[i] : i \in 1..Len(d.items)}
<1>1. d.items \in Seq(ItemT)
  BY DEF Sound, DocT
<1> QED BY <1>1, LenProperties, ElementOfSeq DEF D!Range

\* The new id is the id of no item.
LEMMA FreshIsNew == ASSUME NEW d, Sound(d)
    PROVE D!FreshId(d) \in Nat /\ \A i \in DOMAIN d.items : d.items[i].id < D!FreshId(d)
<1> DEFINE f == [i \in DOMAIN d.items |-> d.items[i].id]
           ids == {c.id : c \in D!Range(d.items)}
<1>1. IsFiniteSet(DOMAIN d.items)
  BY ItemsOf, FS_Interval
<1>2. ids = {f[i] : i \in DOMAIN f}
  BY DEF D!Range
<1>3. IsFiniteSet(ids)
  <2> HIDE DEF ids
  <2>1. DOMAIN f = DOMAIN d.items
    OBVIOUS
  <2> HIDE DEF f
  <2> QED BY <1>1, <1>2, <2>1, FiniteRange
<1>4. ids \subseteq Nat /\ \A i \in DOMAIN d.items : d.items[i].id \in ids
  <2>1. \A i \in DOMAIN d.items : d.items[i].id \in Nat
    BY ItemsOf DEF ItemT
  <2>2. \A i \in DOMAIN f : f[i] = d.items[i].id
    OBVIOUS
  <2> HIDE DEF ids
  <2> QED BY <1>2, <2>1, <2>2
<1> DEFINE A == {0} \cup ids
<1>5. IsFiniteSet(A) /\ A \subseteq Nat /\ A # {}
  <2> HIDE DEF ids
  <2>1. IsFiniteSet({0})
    BY FS_Singleton
  <2>2. IsFiniteSet({0} \cup ids)
    BY <1>3, <2>1, FS_Union
  <2> QED BY <1>4, <2>2
<1>6. D!FreshId(d) = 1 + D!MaxOf(A)
  BY DEF D!FreshId
<1> HIDE DEF ids
<1>7. D!MaxOf(A) \in A /\ \A i \in A : i <= D!MaxOf(A)
  <2> HIDE DEF A
  <2> QED BY <1>5, Extremes
<1>8. D!MaxOf(A) \in Nat /\ \A i \in DOMAIN d.items : d.items[i].id \in Nat /\ d.items[i].id <= D!MaxOf(A)
  <2>1. ids \subseteq A
    OBVIOUS
  <2> HIDE DEF A
  <2> QED BY <1>4, <1>5, <1>7, <2>1
<1> HIDE DEF A
<1> QED BY <1>6, <1>8

\* The greatest of a number that every place has.
LEMMA GreatestOf ==
    ASSUME NEW f, IsFiniteSet(DOMAIN f), DOMAIN f # {}, \A p \in DOMAIN f : f[p] \in Nat
    PROVE  LET m == D!MaxOf({f[p] : p \in DOMAIN f})
           IN m \in Nat /\ (\E p \in DOMAIN f : f[p] = m) /\ \A p \in DOMAIN f : f[p] <= m
<1> DEFINE A == {f[p] : p \in DOMAIN f}
<1>1. IsFiniteSet(A)
  BY FiniteRange
<1>2. A \in SUBSET Nat /\ A # {}
  OBVIOUS
<1>3. D!MaxOf(A) \in A /\ \A i \in A : i <= D!MaxOf(A)
  <2> HIDE DEF A
  <2> QED BY <1>1, <1>2, Extremes
<1>4. D!MaxOf(A) \in Nat /\ \E p \in DOMAIN f : f[p] = D!MaxOf(A)
  BY <1>2, <1>3
<1>5. \A p \in DOMAIN f : f[p] <= D!MaxOf(A)
  BY <1>3
<1> QED BY <1>4, <1>5

\* A new chart goes right of what is in the last row, or below everything.
LEMMA NextIsFree ==
    ASSUME NEW place, Rows(place), NEW w \in Nat
    PROVE  LET at_ == D!NextPlace(place, w)
           IN /\ at_.x \in Nat /\ at_.y \in Nat
              /\ \A p \in place : \/ p.y + p.h <= at_.y
                                  \/ p.y = at_.y /\ p.x + p.w <= at_.x
<1>1. CASE place = {}
  BY <1>1 DEF D!NextPlace
<1>2. CASE place # {}
  <2> DEFINE fy == [p \in place |-> p.y]
             y == D!MaxOf({p.y : p \in place})
             row == {p \in place : p.y = y}
             fx == [p \in row |-> p.x + p.w]
             right == D!MaxOf({p.x + p.w : p \in row})
             fh == [p \in row |-> p.h]
             tall == D!MaxOf({p.h : p \in row})
  <2>1. \A p \in place : /\ p.x \in Nat /\ p.y \in Nat /\ p.w \in Nat /\ p.h \in Nat
                         /\ p.x + p.w \in Nat
    BY DEF Rows, PlaceT
  <2>2. y \in Nat /\ (\E p \in place : p.y = y) /\ \A p \in place : p.y <= y
    <3>1. IsFiniteSet(DOMAIN fy) /\ DOMAIN fy # {} /\ \A p \in DOMAIN fy : fy[p] \in Nat
      BY <1>2, <2>1 DEF Rows
    <3>2. {p.y : p \in place} = {fy[p] : p \in DOMAIN fy} /\ DOMAIN fy = place
      OBVIOUS
    <3>3. \A p \in place : fy[p] = p.y
      OBVIOUS
    <3>4. y = D!MaxOf({fy[p] : p \in DOMAIN fy})
      BY <3>2
    <3> HIDE DEF fy, y
    <3>5. y \in Nat /\ (\E p \in DOMAIN fy : fy[p] = y) /\ \A p \in DOMAIN fy : fy[p] <= y
      BY <3>1, <3>4, GreatestOf
    <3> QED BY <3>2, <3>3, <3>5
  <2> HIDE DEF y
  <2>3. IsFiniteSet(row) /\ row # {} /\ row \subseteq place
    BY <2>2, FS_Subset DEF Rows
  <2>4. right \in Nat /\ \A p \in row : p.x + p.w <= right
    <3>1. IsFiniteSet(DOMAIN fx) /\ DOMAIN fx # {} /\ \A p \in DOMAIN fx : fx[p] \in Nat
      <4>1. DOMAIN fx = row /\ \A p \in row : fx[p] = p.x + p.w
        OBVIOUS
      <4> HIDE DEF fx, row
      <4> QED BY <2>1, <2>3, <4>1
    <3>2. {p.x + p.w : p \in row} = {fx[p] : p \in DOMAIN fx} /\ DOMAIN fx = row
      OBVIOUS
    <3>3. \A p \in row : fx[p] = p.x + p.w
      OBVIOUS
    <3>4. right = D!MaxOf({fx[p] : p \in DOMAIN fx})
      BY <3>2
    <3> HIDE DEF fx, row, right
    <3>5. right \in Nat /\ \A p \in DOMAIN fx : fx[p] <= right
      BY <3>1, <3>4, GreatestOf
    <3> QED BY <3>2, <3>3, <3>5
  <2>5. tall \in Nat /\ \A p \in row : p.h <= tall
    <3>1. IsFiniteSet(DOMAIN fh) /\ DOMAIN fh # {} /\ \A p \in DOMAIN fh : fh[p] \in Nat
      <4>1. DOMAIN fh = row /\ \A p \in row : fh[p] = p.h
        OBVIOUS
      <4> HIDE DEF fh, row
      <4> QED BY <2>1, <2>3, <4>1
    <3>2. {p.h : p \in row} = {fh[p] : p \in DOMAIN fh} /\ DOMAIN fh = row
      OBVIOUS
    <3>3. \A p \in row : fh[p] = p.h
      OBVIOUS
    <3> HIDE DEF fh
    <3> QED BY <3>1, <3>2, <3>3, GreatestOf
  <2>6. D!NextPlace(place, w) = IF right + w <= 6 THEN [x |-> right, y |-> y]
                                ELSE [x |-> 0, y |-> y + tall]
    BY <1>2 DEF D!NextPlace, y
  <2>7. \A p \in place : p.y < y => p.y + p.h <= y
    BY <2>2 DEF Rows
  <2>8. \A p \in place : p.y = y => p \in row
    OBVIOUS
  <2> HIDE DEF right, tall, row
  <2>9. \A p \in place : p.y = y => p.x + p.w <= right /\ p.y + p.h <= y + tall
    BY <2>1, <2>2, <2>4, <2>5, <2>8
  <2>10. \A p \in place : p.y < y \/ p.y = y
    BY <2>1, <2>2
  <2>11. CASE right + w <= 6
    <3>1. D!NextPlace(place, w) = [x |-> right, y |-> y]
      BY <2>6, <2>11
    <3> QED BY <2>2, <2>4, <2>7, <2>9, <2>10, <3>1
  <2>12. CASE ~(right + w <= 6)
    <3>1. D!NextPlace(place, w) = [x |-> 0, y |-> y + tall]
      BY <2>6, <2>12
    <3>2. \A p \in place : p.y + p.h <= y + tall
      BY <2>1, <2>2, <2>5, <2>7, <2>9, <2>10
    <3> QED BY <2>2, <2>5, <3>1, <3>2
  <2> QED BY <2>11, <2>12
<1> QED BY <1>1, <1>2

\* A chart that is added where there is room leaves every chart its place.
LEMMA AddedRows ==
    ASSUME NEW place, Rows(place), NEW new \in PlaceT,
           \A p \in place : /\ p.i # new.i
                            /\ \/ p.y + p.h <= new.y
                               \/ p.y = new.y /\ p.x + p.w <= new.x
    PROVE  Rows(place \cup {new})
<1> DEFINE all == place \cup {new}
<1>1. IsFiniteSet(all) /\ all \in SUBSET PlaceT
  BY FS_AddElement DEF Rows
<1>2. /\ new.x \in Nat /\ new.y \in Nat /\ new.w \in Nat \ {0} /\ new.h \in Nat \ {0}
      /\ \A p \in place : p.x \in Nat /\ p.y \in Nat /\ p.w \in Nat \ {0} /\ p.h \in Nat \ {0}
  BY DEF Rows, PlaceT
<1>3. \A p, q \in place : p.y < q.y => p.y + p.h <= q.y
  BY DEF Rows
<1>4. ASSUME NEW p \in place
      PROVE  /\ ~(new.y < p.y) /\ (p.y < new.y => p.y + p.h <= new.y)
             /\ ~D!Overlap(p, new) /\ ~D!Overlap(new, p)
  <2>1. p.x \in Nat /\ p.y \in Nat /\ p.w \in Nat \ {0} /\ p.h \in Nat \ {0}
    BY <1>2
  <2>2. CASE p.y + p.h <= new.y
    BY <1>2, <2>1, <2>2 DEF D!Overlap
  <2>3. CASE p.y = new.y /\ p.x + p.w <= new.x
    BY <1>2, <2>1, <2>3 DEF D!Overlap
  <2> QED BY <2>2, <2>3
<1>5. ~(new.y < new.y)
  BY <1>2
<1>6. \A p, q \in all : p.y < q.y => p.y + p.h <= q.y
  BY <1>3, <1>4, <1>5
<1>7. \A p, q \in place : p # q => p.i # q.i /\ ~D!Overlap(p, q)
  BY DEF Rows
<1>8. \A p, q \in all : p # q => p.i # q.i /\ ~D!Overlap(p, q)
  BY <1>4, <1>7
<1> QED BY <1>1, <1>6, <1>8 DEF Rows

LEMMA PlacedRows ==
    ASSUME NEW place, Rows(place), NEW id \in Nat, \A p \in place : p.i # id,
           NEW size \in [w : Nat \ {0}, h : Nat \ {0}]
    PROVE  /\ Rows(D!Placed(place, id, size))
           /\ {p.i : p \in D!Placed(place, id, size)} = {p.i : p \in place} \cup {id}
<1> DEFINE at_ == D!NextPlace(place, size.w)
           new == [i |-> id, x |-> at_.x, y |-> at_.y, w |-> size.w, h |-> size.h]
<1>1. D!Placed(place, id, size) = place \cup {new}
  BY DEF D!Placed
<1>2. /\ at_.x \in Nat /\ at_.y \in Nat
      /\ \A p \in place : \/ p.y + p.h <= at_.y
                          \/ p.y = at_.y /\ p.x + p.w <= at_.x
  BY NextIsFree
<1> HIDE DEF at_
<1>3. new \in PlaceT /\ new.i = id /\ new.x = at_.x /\ new.y = at_.y
  BY <1>2 DEF PlaceT
<1> HIDE DEF new
<1>4. Rows(place \cup {new})
  BY <1>2, <1>3, AddedRows
<1> QED BY <1>1, <1>3, <1>4

\* The first item with a label.
LEMMA FirstHit ==
    ASSUME NEW d, Sound(d), NEW label, D!Find(d.items, label) # {}
    PROVE  LET n == D!First(D!Find(d.items, label)) IN n \in 1..Len(d.items) /\ d.items[n].label = label
<1> DEFINE hit == D!Find(d.items, label)
<1>1. hit = {i \in 1..Len(d.items) : d.items[i].label = label}
  BY ItemsOf DEF D!Find
<1>2. IsFiniteSet(1..Len(d.items)) /\ 1..Len(d.items) \subseteq Nat
  BY ItemsOf, FS_Interval
<1>3. hit \subseteq 1..Len(d.items)
  BY <1>1
<1>4. IsFiniteSet(hit) /\ hit \in SUBSET Nat /\ hit # {}
  <2> HIDE DEF hit
  <2>1. hit # {}
    BY DEF hit
  <2> QED BY <1>2, <1>3, <2>1, FS_Subset
<1> HIDE DEF hit
<1>5. D!First(hit) \in hit
  BY <1>4, Extremes
<1> QED BY <1>1, <1>5 DEF hit

ChangeT == [act : {"add", "delete", "replace", "update"}, label : Labels,
            at : Labels \cup {D!NoTable}, size : Sizes]

\* A new item in a list of items, and the chart's place with it.
LEMMA Grown ==
    ASSUME NEW d, Sound(d), NEW n \in 1..Len(d.items) + 1, NEW new \in ItemT, new.id = D!FreshId(d),
           NEW r \in Seq(ItemT), Len(r) = Len(d.items) + 1,
           \A k \in 1..Len(d.items) + 1 :
             r[k] = IF k < n THEN d.items[k] ELSE IF k = n THEN new ELSE d.items[k - 1],
           NEW place \in SUBSET PlaceT,
           d.kind = "report" => Rows(place) /\ {p.i : p \in place} = {p.i : p \in d.place} \cup {new.id}
    PROVE  LET e == [d EXCEPT !.items = r, !.place = place]
           IN Sound(e) /\ Keeps(d, e, {})
<1> DEFINE id == D!FreshId(d)
           s == d.items
           e == [d EXCEPT !.items = r, !.place = place]
<1>2. d \in DocT /\ s \in Seq(ItemT) /\ Len(s) \in Nat /\ DOMAIN s = 1..Len(s) /\ \A i \in 1..Len(s) : s[i] \in ItemT
  BY ItemsOf DEF Sound
<1>3. n \in 1..Len(s) + 1
  OBVIOUS
<1>4. id \in Nat /\ \A i \in 1..Len(s) : s[i].id < id /\ s[i].id \in Nat
  BY <1>2, FreshIsNew DEF ItemT
<1>5. new \in ItemT /\ new.id = id
  OBVIOUS
<1> HIDE DEF id
<1>7. /\ r \in Seq(ItemT) /\ Len(r) = Len(s) + 1 /\ DOMAIN r = 1..Len(s) + 1
      /\ \A k \in 1..Len(s) + 1 :
           r[k] = IF k < n THEN s[k] ELSE IF k = n THEN new ELSE s[k - 1]
  BY LenProperties
<1>8. \A i \in 1..Len(s) : \E j \in 1..Len(s) + 1 : r[j] = s[i] /\ j # n
  <2> SUFFICES ASSUME NEW i \in 1..Len(s) PROVE \E j \in 1..Len(s) + 1 : r[j] = s[i] /\ j # n
    OBVIOUS
  <2>1. CASE i < n
    BY <1>2, <1>3, <1>7, <2>1
  <2>2. CASE ~(i < n)
    <3>1. i + 1 \in 1..Len(s) + 1 /\ ~(i + 1 < n) /\ i + 1 # n /\ (i + 1) - 1 = i
      BY <1>2, <1>3, <2>2
    <3> QED BY <1>7, <3>1
  <2> QED BY <2>1, <2>2
<1>9. \A k \in 1..Len(s) + 1 : k # n =>
        \E i \in 1..Len(s) : r[k] = s[i] /\ i = IF k < n THEN k ELSE k - 1
  BY <1>2, <1>3, <1>7
<1>10. \A k, m \in 1..Len(s) + 1 : r[k].id = r[m].id => k = m
  <2> SUFFICES ASSUME NEW k \in 1..Len(s) + 1, NEW m \in 1..Len(s) + 1, r[k].id = r[m].id PROVE k = m
    OBVIOUS
  <2>1. r[n].id = id
    BY <1>2, <1>3, <1>5, <1>7
  <2>4. ASSUME NEW j \in 1..Len(s) + 1, j # n PROVE r[j].id # r[n].id
    <3>1. PICK i \in 1..Len(s) : r[j] = s[i]
      BY <1>9, <2>4
    <3>2. s[i].id < id /\ s[i].id \in Nat
      BY <1>4
    <3> QED BY <1>4, <2>1, <3>1, <3>2
  <2>2. CASE k = n \/ m = n
    BY <2>2, <2>4
  <2>3. CASE k # n /\ m # n
    <3>1. PICK i \in 1..Len(s) : r[k] = s[i] /\ i = IF k < n THEN k ELSE k - 1
      BY <1>9, <2>3
    <3>2. PICK j \in 1..Len(s) : r[m] = s[j] /\ j = IF m < n THEN m ELSE m - 1
      BY <1>9, <2>3
    <3>3. i = j
      BY <1>2, <3>1, <3>2 DEF Sound
    <3>4. k \in Int /\ m \in Int /\ n \in Int
      BY <1>2, <1>3
    <3> QED BY <2>3, <3>1, <3>2, <3>3, <3>4
  <2> QED BY <2>2, <2>3
<1>11. {r[k].id : k \in DOMAIN r} = {s[k].id : k \in DOMAIN s} \cup {id}
  <2>1. r[n].id = id
    BY <1>2, <1>3, <1>5, <1>7
  <2>2. \A k \in 1..Len(s) + 1 : r[k].id \in {s[i].id : i \in 1..Len(s)} \cup {id}
    BY <1>9, <2>1
  <2>3. \A i \in 1..Len(s) : s[i].id \in {r[k].id : k \in 1..Len(s) + 1}
    BY <1>8
  <2>4. id \in {r[k].id : k \in 1..Len(s) + 1}
    BY <1>3, <2>1
  <2>5. DOMAIN r = 1..Len(s) + 1 /\ DOMAIN s = 1..Len(s)
    BY <1>2, <1>7
  <2> HIDE DEF s, e
  <2>6. {r[k].id : k \in 1..Len(s) + 1} \subseteq {s[i].id : i \in 1..Len(s)} \cup {id}
    BY ONLY <2>2
  <2>7. {s[i].id : i \in 1..Len(s)} \cup {id} \subseteq {r[k].id : k \in 1..Len(s) + 1}
    BY ONLY <2>3, <2>4
  <2>8. {r[k].id : k \in 1..Len(s) + 1} = {s[i].id : i \in 1..Len(s)} \cup {id}
    BY ONLY <2>6, <2>7
  <2> QED BY ONLY <2>5, <2>8
<1>12. d.kind = "report" => Rows(place) /\ {p.i : p \in place} = {r[k].id : k \in DOMAIN r}
  BY <1>5, <1>11 DEF Sound
<1>13. /\ e \in DocT /\ e.items = r /\ e.place = place
       /\ e.kind = d.kind /\ e.sources = d.sources
  BY <1>2, <1>7 DEF DocT
<1> HIDE DEF e
<1>14. Sound(e)
  <2>1. \A i, j \in DOMAIN e.items : e.items[i].id = e.items[j].id => i = j
    BY <1>7, <1>10, <1>13
  <2>2. e.kind = "report" => Rows(e.place) /\ {p.i : p \in e.place} = {e.items[k].id : k \in DOMAIN e.items}
    BY <1>12, <1>13
  <2> QED BY <1>13, <2>1, <2>2 DEF Sound
<1>15. Keeps(d, e, {})
  BY <1>2, <1>7, <1>8, <1>13 DEF Keeps
<1> QED BY <1>14, <1>15 DEF e

LEMMA InsertSound ==
    ASSUME NEW d, Sound(d), NEW c \in ChangeT
    PROVE  Sound(D!Insert(d, c)) /\ Keeps(d, D!Insert(d, c), {})
<1> DEFINE id == D!FreshId(d)
           new == [id |-> id, label |-> c.label, table |-> FALSE, subs |-> {}]
           hit == D!Find(d.items, c.at)
           n == IF hit = {} THEN Len(d.items) + 1 ELSE D!First(hit) + 1
           s == d.items
           r == D!InsertAt(s, n, new)
           place == IF d.kind = "report" THEN D!Placed(d.place, id, c.size) ELSE d.place
           e == [d EXCEPT !.items = r, !.place = place]
<1>1. D!Insert(d, c) = e
  BY DEF D!Insert
<1>2. d \in DocT /\ s \in Seq(ItemT) /\ Len(s) \in Nat /\ DOMAIN s = 1..Len(s) /\ \A i \in 1..Len(s) : s[i] \in ItemT
  BY ItemsOf DEF Sound
<1>3. n \in 1..Len(s) + 1
  <2>1. CASE hit = {}
    BY <1>2, <2>1
  <2>2. CASE hit # {}
    <3>1. D!First(hit) \in 1..Len(s)
      BY <2>2, FirstHit
    <3> HIDE DEF hit
    <3> QED BY <1>2, <2>2, <3>1
  <2> QED BY <2>1, <2>2
<1>4. id \in Nat /\ \A i \in 1..Len(s) : s[i].id < id /\ s[i].id \in Nat
  BY <1>2, FreshIsNew DEF ItemT
<1>5. new \in ItemT /\ new.id = id
  BY <1>4 DEF ItemT, ChangeT
<1>6. c.size \in [w : Nat \ {0}, h : Nat \ {0}]
  BY DesignAssumption DEF ChangeT
<1> HIDE DEF id, new, n
<1>7. /\ r \in Seq(ItemT) /\ Len(r) = Len(s) + 1 /\ DOMAIN r = 1..Len(s) + 1
      /\ \A k \in 1..Len(s) + 1 :
           r[k] = IF k < n THEN s[k] ELSE IF k = n THEN new ELSE s[k - 1]
  <2>1. /\ r \in Seq(ItemT) /\ Len(r) = Len(s) + 1
        /\ \A k \in 1..Len(s) + 1 :
             r[k] = IF k < n THEN s[k] ELSE IF k = n THEN new ELSE s[k - 1]
    <3> HIDE DEF s
    <3> QED BY <1>2, <1>3, <1>5, InsertedAt
  <2> QED BY <2>1, LenProperties
<1>8. place \in SUBSET PlaceT /\ (d.kind = "report" => Rows(place) /\ {p.i : p \in place} = {p.i : p \in d.place} \cup {new.id})
  <2>1. CASE d.kind = "report"
    <3>1. Rows(d.place) /\ {p.i : p \in d.place} = {s[k].id : k \in DOMAIN s}
      BY <2>1 DEF Sound
    <3>2. \A p \in d.place : \E k \in 1..Len(s) : p.i = s[k].id
      BY <1>2, <3>1
    <3>3. \A p \in d.place : p.i # id
      BY <1>4, <3>2
    <3>4. Rows(D!Placed(d.place, id, c.size)) /\ {p.i : p \in D!Placed(d.place, id, c.size)} = {p.i : p \in d.place} \cup {id}
      BY <1>4, <1>6, <3>1, <3>3, PlacedRows
    <3> QED BY <1>5, <2>1, <3>1, <3>4 DEF Rows
  <2>2. CASE d.kind # "report"
    BY <1>2, <2>2 DEF DocT
  <2> QED BY <2>1, <2>2
<1> HIDE DEF place, r, s, e
<1>9. new.id = D!FreshId(d)
  BY <1>5 DEF id
<1>10. LET f == [d EXCEPT !.items = r, !.place = place] IN Sound(f) /\ Keeps(d, f, {})
  BY <1>3, <1>5, <1>7, <1>8, <1>9, Grown DEF s
<1> QED BY <1>1, <1>10 DEF e

\* An item is changed where it stands and keeps its id.
LEMMA Retouched ==
    ASSUME NEW d, Sound(d), NEW n \in 1..Len(d.items), NEW new \in ItemT, new.id = d.items[n].id,
           NEW named, new.label = d.items[n].label \/ d.items[n].label \in named
    PROVE  LET e == [d EXCEPT !.items = [d.items EXCEPT ![n] = new]]
           IN Sound(e) /\ Keeps(d, e, named)
<1> DEFINE s == d.items
           r == [s EXCEPT ![n] = new]
           e == [d EXCEPT !.items = r]
<1>1. d \in DocT /\ s \in Seq(ItemT) /\ Len(s) \in Nat /\ DOMAIN s = 1..Len(s)
  BY ItemsOf DEF Sound
<1>2. r \in Seq(ItemT) /\ DOMAIN r = DOMAIN s /\ \A i \in DOMAIN s : r[i] = IF i = n THEN new ELSE s[i]
  <2>1. r \in Seq(ItemT)
    BY <1>1, ExceptSeq
  <2> QED BY <1>1, <2>1
<1> HIDE DEF r
<1>3. e \in DocT /\ e.items = r /\ e.place = d.place /\ e.kind = d.kind /\ e.sources = d.sources
  BY <1>1, <1>2 DEF DocT
<1> HIDE DEF e
<1>4. \A i \in DOMAIN s : r[i].id = s[i].id
  BY <1>1, <1>2
<1>5. \A i \in DOMAIN s : s[i].label \in named \/ r[i].label = s[i].label
  BY <1>1, <1>2
<1>6. {r[k].id : k \in DOMAIN r} = {s[k].id : k \in DOMAIN s}
  BY <1>2, <1>4
<1>7. Sound(e)
  <2>1. \A i, j \in DOMAIN r : r[i].id = r[j].id => i = j
    BY <1>2, <1>4 DEF Sound
  <2>2. d.kind = "report" => Rows(d.place) /\ {p.i : p \in d.place} = {r[k].id : k \in DOMAIN r}
    BY <1>6 DEF Sound
  <2>3. \A i, j \in DOMAIN e.items : e.items[i].id = e.items[j].id => i = j
    BY <1>3, <2>1
  <2>4. e.kind = "report" => Rows(e.place) /\ {p.i : p \in e.place} = {e.items[k].id : k \in DOMAIN e.items}
    BY <1>3, <2>2
  <2> QED BY <1>3, <2>3, <2>4 DEF Sound
<1>8. Keeps(d, e, named)
  BY <1>2, <1>3, <1>4, <1>5 DEF Keeps
<1> QED BY <1>7, <1>8 DEF e, r

LEMMA RenameSound ==
    ASSUME NEW d, Sound(d), NEW c \in ChangeT, c.at # D!NoTable
    PROVE  Sound(D!Rename(d, c)) /\ Keeps(d, D!Rename(d, c), {c.label})
<1> DEFINE hit == D!Find(d.items, c.label)
           n == D!First(hit)
<1>1. CASE hit = {}
  BY <1>1 DEF D!Rename, Keeps
<1>2. CASE hit # {}
  <2>1. n \in 1..Len(d.items) /\ d.items[n].label = c.label
    BY <1>2, FirstHit
  <2> DEFINE new == [d.items[n] EXCEPT !.label = c.at]
  <2>2. d.items[n] \in ItemT /\ d \in DocT
    BY <2>1, ItemsOf DEF Sound
  <2>3. D!Rename(d, c) = [d EXCEPT !.items = [d.items EXCEPT ![n] = new]]
    BY <1>2, <2>2 DEF D!Rename, DocT
  <2> HIDE DEF n
  <2>4. new \in ItemT /\ new.id = d.items[n].id
    BY <2>2 DEF ItemT, ChangeT
  <2> HIDE DEF new
  <2>5. d.items[n].label \in {c.label}
    BY <2>1
  <2> QED BY <2>1, <2>3, <2>4, <2>5, Retouched
<1> QED BY <1>1, <1>2

LEMMA DeleteSound ==
    ASSUME NEW d, Sound(d), NEW c \in ChangeT
    PROVE  Sound(D!Delete(d, c)) /\ Keeps(d, D!Delete(d, c), {c.label})
<1> DEFINE tables == D!Find(d.items, c.at)
           hit == D!Find(d.items, c.label)
           inTable == tables # {} /\ d.items[D!First(tables)].table
           s == d.items
<1>1. CASE inTable
  <2> DEFINE n == D!First(tables)
             new == [d.items[n] EXCEPT !.subs = @ \ {c.label}]
  <2>1. n \in 1..Len(d.items)
    BY <1>1, FirstHit
  <2>2. d.items[n] \in ItemT /\ d \in DocT
    BY <2>1, ItemsOf DEF Sound
  <2>3. D!Delete(d, c) = [d EXCEPT !.items = [d.items EXCEPT ![n] = new]]
    BY <1>1, <2>2 DEF D!Delete, DocT
  <2> HIDE DEF n
  <2>4. new \in ItemT /\ new.id = d.items[n].id /\ new.label = d.items[n].label
    BY <2>2 DEF ItemT
  <2> HIDE DEF new
  <2> QED BY <2>1, <2>3, <2>4, Retouched
<1>2. CASE ~inTable /\ hit = {}
  BY <1>2 DEF D!Delete, Keeps
<1>3. CASE ~inTable /\ hit # {}
  <2> DEFINE n == D!First(hit)
             r == D!RemoveAt(s, n)
             place == {p \in d.place : p.i # s[n].id}
             e == [d EXCEPT !.items = r, !.place = place]
  <2>1. n \in 1..Len(s) /\ s[n].label = c.label
    BY <1>3, FirstHit
  <2>2. d \in DocT /\ s \in Seq(ItemT) /\ Len(s) \in Nat /\ DOMAIN s = 1..Len(s)
    BY ItemsOf DEF Sound
  <2>3. D!Delete(d, c) = e
    BY <1>3, <2>2 DEF D!Delete, DocT
  <2> HIDE DEF n
  <2>4. /\ r \in Seq(ItemT) /\ Len(r) = Len(s) - 1 /\ DOMAIN r = 1..Len(s) - 1
        /\ \A k \in 1..Len(s) - 1 : r[k] = IF k < n THEN s[k] ELSE s[k + 1]
    <3>1. /\ r \in Seq(ItemT) /\ Len(r) = Len(s) - 1
          /\ \A k \in 1..Len(s) - 1 : r[k] = IF k < n THEN s[k] ELSE s[k + 1]
      <4> HIDE DEF s
      <4> QED BY <2>1, <2>2, RemovedAt
    <3> QED BY <3>1, LenProperties
  <2> HIDE DEF r
  <2>5. \A i \in 1..Len(s) : i # n => \E j \in 1..Len(s) - 1 : r[j] = s[i]
    <3> SUFFICES ASSUME NEW i \in 1..Len(s), i # n PROVE \E j \in 1..Len(s) - 1 : r[j] = s[i]
      OBVIOUS
    <3>1. CASE i < n
      BY <2>1, <2>2, <2>4, <3>1
    <3>2. CASE ~(i < n)
      <4>1. i - 1 \in 1..Len(s) - 1 /\ ~(i - 1 < n) /\ (i - 1) + 1 = i
        BY <2>1, <2>2, <3>2
      <4> QED BY <2>4, <4>1
    <3> QED BY <3>1, <3>2
  <2>6. \A k \in 1..Len(s) - 1 :
          \E i \in 1..Len(s) : r[k] = s[i] /\ i # n /\ i = IF k < n THEN k ELSE k + 1
    BY <2>1, <2>2, <2>4
  <2>7. \A i, j \in 1..Len(s) : s[i].id = s[j].id => i = j
    BY <2>2 DEF Sound
  <2>8. \A k, m \in 1..Len(s) - 1 : r[k].id = r[m].id => k = m
    <3> SUFFICES ASSUME NEW k \in 1..Len(s) - 1, NEW m \in 1..Len(s) - 1, r[k].id = r[m].id PROVE k = m
      OBVIOUS
    <3>1. PICK i \in 1..Len(s) : r[k] = s[i] /\ i = IF k < n THEN k ELSE k + 1
      BY <2>6
    <3>2. PICK j \in 1..Len(s) : r[m] = s[j] /\ j = IF m < n THEN m ELSE m + 1
      BY <2>6
    <3>3. i = j
      BY <2>7, <3>1, <3>2
    <3>4. k \in Int /\ m \in Int /\ n \in Int
      BY <2>1, <2>2
    <3> QED BY <3>1, <3>2, <3>3, <3>4
  <2>9. {r[k].id : k \in DOMAIN r} = {s[k].id : k \in DOMAIN s} \ {s[n].id}
    <3>1. \A k \in 1..Len(s) - 1 : r[k].id \in {s[i].id : i \in 1..Len(s)} /\ r[k].id # s[n].id
      BY <2>1, <2>6, <2>7
    <3>2. \A i \in 1..Len(s) : s[i].id # s[n].id => s[i].id \in {r[k].id : k \in 1..Len(s) - 1}
      BY <2>5
    <3> QED BY <2>2, <2>4, <3>1, <3>2
  <2>10. place \in SUBSET PlaceT /\ (d.kind = "report" => Rows(place) /\ {p.i : p \in place} = {r[k].id : k \in DOMAIN r})
    <3>1. place \subseteq d.place /\ d.place \in SUBSET PlaceT
      BY <2>2 DEF DocT
    <3>2. CASE d.kind = "report"
      <4>1. Rows(d.place) /\ {p.i : p \in d.place} = {s[k].id : k \in DOMAIN s}
        BY <3>2 DEF Sound
      <4>2. IsFiniteSet(place)
        BY <3>1, <4>1, FS_Subset DEF Rows
      <4>3. Rows(place)
        BY <3>1, <4>1, <4>2 DEF Rows
      <4>4. {p.i : p \in place} = {p.i : p \in d.place} \ {s[n].id}
        OBVIOUS
      <4> QED BY <2>9, <3>1, <4>1, <4>3, <4>4
    <3> QED BY <3>1, <3>2
  <2> HIDE DEF place
  <2>11. /\ e \in DocT /\ e.items = r /\ e.place = place
         /\ e.kind = d.kind /\ e.sources = d.sources
    BY <2>2, <2>4, <2>10 DEF DocT
  <2> HIDE DEF e
  <2>12. Sound(e)
    BY <2>4, <2>8, <2>10, <2>11 DEF Sound
  <2>13. Keeps(d, e, {c.label})
    BY <2>1, <2>2, <2>4, <2>5, <2>11 DEF Keeps
  <2> QED BY <2>3, <2>12, <2>13
<1> QED BY <1>1, <1>2, <1>3

\* The places when a chart with a new id takes over the place of an old one.
TakenOver(place, old, new) == {IF p.i = old THEN [p EXCEPT !.i = new] ELSE p : p \in place}

LEMMA ReplacedRows ==
    ASSUME NEW place, Rows(place), NEW old, NEW new \in Nat, \A p \in place : p.i # new
    PROVE  LET after == TakenOver(place, old, new)
           IN Rows(after) /\ {p.i : p \in after} = {IF p.i = old THEN new ELSE p.i : p \in place}
<1> DEFINE m == [p \in place |-> IF p.i = old THEN [p EXCEPT !.i = new] ELSE p]
           after == {IF p.i = old THEN [p EXCEPT !.i = new] ELSE p : p \in place}
<1>1. after = {m[p] : p \in DOMAIN m} /\ DOMAIN m = place
  OBVIOUS
<1>2. \A p \in place : /\ m[p] \in PlaceT /\ m[p].i = IF p.i = old THEN new ELSE p.i
                       /\ m[p].x = p.x /\ m[p].y = p.y /\ m[p].w = p.w /\ m[p].h = p.h
  BY DEF Rows, PlaceT
<1>3. {p.i : p \in after} = {IF p.i = old THEN new ELSE p.i : p \in place}
  <2>1. \A p \in place : m[p] \in after
    OBVIOUS
  <2> HIDE DEF m, after
  <2>2. \A q \in after : \E p \in place : q = m[p]
    BY <1>1
  <2> QED BY <1>2, <2>1, <2>2
<1>4. after = {m[p] : p \in place}
  BY <1>1
<1> HIDE DEF m, after
<1>5. IsFiniteSet(after) /\ after \in SUBSET PlaceT
  BY <1>1, <1>2, FiniteRange DEF Rows
<1>6. \A q \in after : \E p \in place : q = m[p]
  BY <1>4
<1>7. \A p, q \in after : p.y < q.y => p.y + p.h <= q.y
  <2> SUFFICES ASSUME NEW p \in after, NEW q \in after, p.y < q.y PROVE p.y + p.h <= q.y
    OBVIOUS
  <2>1. PICK a \in place : p = m[a]
    BY <1>6
  <2>2. PICK b \in place : q = m[b]
    BY <1>6
  <2>3. p.y = a.y /\ p.h = a.h /\ q.y = b.y
    BY <1>2, <2>1, <2>2
  <2>4. \A u, v \in place : u.y < v.y => u.y + u.h <= v.y
    BY DEF Rows
  <2>5. a.y < b.y => a.y + a.h <= b.y
    BY <2>4
  <2> QED BY <2>3, <2>5
<1>8. \A p, q \in after : p # q => p.i # q.i /\ ~D!Overlap(p, q)
  <2> SUFFICES ASSUME NEW p \in after, NEW q \in after, p # q PROVE p.i # q.i /\ ~D!Overlap(p, q)
    OBVIOUS
  <2>1. PICK a \in place : p = m[a]
    BY <1>6
  <2>2. PICK b \in place : q = m[b]
    BY <1>6
  <2>3. a # b
    BY <2>1, <2>2
  <2>4. a.i # b.i /\ ~D!Overlap(a, b)
    BY <2>3 DEF Rows
  <2>5. p.i # q.i
    BY <1>2, <2>1, <2>2, <2>4
  <2>6. /\ p.x = a.x /\ p.y = a.y /\ p.w = a.w /\ p.h = a.h
        /\ q.x = b.x /\ q.y = b.y /\ q.w = b.w /\ q.h = b.h
    BY <1>2, <2>1, <2>2
  <2>7. ~D!Overlap(p, q)
    BY <2>4, <2>6 DEF D!Overlap
  <2> QED BY <2>5, <2>7
<1>9. Rows(after)
  BY <1>5, <1>7, <1>8 DEF Rows
<1> QED BY <1>3, <1>9 DEF after, TakenOver

LEMMA ReplaceSound ==
    ASSUME NEW d, Sound(d), NEW c \in ChangeT
    PROVE  Sound(D!Replace(d, c)) /\ Keeps(d, D!Replace(d, c), {c.label})
<1> DEFINE hit == D!Find(d.items, c.label)
           n == D!First(hit)
           id == D!FreshId(d)
           s == d.items
<1>1. CASE hit = {}
  BY <1>1 DEF D!Replace, Keeps
<1>2. CASE hit # {}
  <2> DEFINE new == [s[n] EXCEPT !.id = id]
             old == s[n].id
             r == [s EXCEPT ![n] = new]
             place == {IF p.i = old THEN [p EXCEPT !.i = id] ELSE p : p \in d.place}
             e == [d EXCEPT !.items = r, !.place = place]
  <2>1. n \in 1..Len(s) /\ s[n].label = c.label
    BY <1>2, FirstHit
  <2>2. d \in DocT /\ s \in Seq(ItemT) /\ Len(s) \in Nat /\ DOMAIN s = 1..Len(s) /\ s[n] \in ItemT
    BY <2>1, ItemsOf DEF Sound
  <2>3. D!Replace(d, c) = e
    BY <1>2, <2>1, <2>2 DEF D!Replace, DocT
  <2> HIDE DEF n
  <2>4. id \in Nat /\ \A i \in 1..Len(s) : s[i].id # id
    <3>1. id \in Nat /\ \A i \in 1..Len(s) : s[i].id < id /\ s[i].id \in Nat
      BY <2>2, FreshIsNew, ItemsOf DEF ItemT
    <3> QED BY <3>1
  <2> HIDE DEF id
  <2>5. new \in ItemT /\ new.id = id /\ new.label = c.label
    BY <2>1, <2>2, <2>4 DEF ItemT
  <2> HIDE DEF new
  <2>6. r \in Seq(ItemT) /\ DOMAIN r = 1..Len(s) /\ \A i \in 1..Len(s) : r[i] = IF i = n THEN new ELSE s[i]
    <3>1. r \in Seq(ItemT)
      BY <2>1, <2>2, <2>5, ExceptSeq
    <3> QED BY <2>1, <2>2, <3>1
  <2> HIDE DEF r
  <2>7. \A i \in 1..Len(s) : r[i].id = IF i = n THEN id ELSE s[i].id
    BY <2>5, <2>6
  <2>8. \A i, j \in 1..Len(s) : s[i].id = s[j].id => i = j
    BY <2>2 DEF Sound
  <2>9. \A i, j \in 1..Len(s) : r[i].id = r[j].id => i = j
    BY <2>4, <2>7, <2>8
  <2>10. place \in SUBSET PlaceT
    <3>1. \A p \in d.place : p \in PlaceT /\ [p EXCEPT !.i = id] \in PlaceT
      BY <2>2, <2>4 DEF DocT, PlaceT
    <3> QED BY <3>1
  <2>11. d.kind = "report" => Rows(place) /\ {p.i : p \in place} = {r[k].id : k \in DOMAIN r}
    <3> SUFFICES ASSUME d.kind = "report" PROVE Rows(place) /\ {p.i : p \in place} = {r[k].id : k \in DOMAIN r}
      OBVIOUS
    <3>1. Rows(d.place) /\ {p.i : p \in d.place} = {s[k].id : k \in DOMAIN s}
      BY DEF Sound
    <3>2. \A p \in d.place : p.i # id
      BY <2>2, <2>4, <3>1
    <3>3. Rows(place) /\ {p.i : p \in place} = {IF p.i = old THEN id ELSE p.i : p \in d.place}
      <4>1. place = TakenOver(d.place, old, id)
        BY DEF TakenOver
      <4> HIDE DEF old, place
      <4> QED BY <2>4, <3>1, <3>2, <4>1, ReplacedRows
    <3>4. {IF p.i = old THEN id ELSE p.i : p \in d.place} = {IF a = old THEN id ELSE a : a \in {p.i : p \in d.place}}
      OBVIOUS
    <3>5. \A i \in 1..Len(s) : r[i].id = IF s[i].id = old THEN id ELSE s[i].id
      BY <2>1, <2>7, <2>8
    <3>6. {IF a = old THEN id ELSE a : a \in {s[k].id : k \in DOMAIN s}} = {r[k].id : k \in DOMAIN r}
      <4> DEFINE f(a) == IF a = old THEN id ELSE a
      <4>1. {f(a) : a \in {s[k].id : k \in DOMAIN s}} = {f(s[k].id) : k \in DOMAIN s}
        <5> HIDE DEF f
        <5> QED OBVIOUS
      <4>2. \A k \in 1..Len(s) : r[k].id = f(s[k].id)
        BY <3>5
      <4> HIDE DEF f
      <4>3. {f(s[k].id) : k \in 1..Len(s)} = {r[k].id : k \in 1..Len(s)}
        BY <4>2
      <4> QED BY <2>2, <2>6, <4>1, <4>3 DEF f
    <3> QED BY <3>1, <3>3, <3>4, <3>6
  <2> HIDE DEF place
  <2>12. /\ e \in DocT /\ e.items = r /\ e.place = place
         /\ e.kind = d.kind /\ e.sources = d.sources
    BY <2>2, <2>6, <2>10 DEF DocT
  <2> HIDE DEF e
  <2>13. Sound(e)
    <3>1. \A i, j \in DOMAIN e.items : e.items[i].id = e.items[j].id => i = j
      BY <2>6, <2>9, <2>12
    <3>2. e.kind = "report" => Rows(e.place) /\ {p.i : p \in e.place} = {e.items[k].id : k \in DOMAIN e.items}
      BY <2>11, <2>12
    <3> QED BY <2>12, <3>1, <3>2 DEF Sound
  <2>14. \A i \in 1..Len(s) : s[i].label \in {c.label} \/ r[i] = s[i]
    BY <2>1, <2>6
  <2>15. Keeps(d, e, {c.label})
    BY <2>2, <2>6, <2>12, <2>14 DEF Keeps
  <2> QED BY <2>3, <2>13, <2>15
<1> QED BY <1>1, <1>2

\* One change: it leaves the document sound, and every item it does not name.
LEMMA MadeSound ==
    ASSUME NEW d, Sound(d), NEW c \in D!Changes(d.kind), NEW rebuilds \in BOOLEAN
    PROVE  LET e == D!Made(d, c, rebuilds)
           IN Sound(e) /\ Keeps(d, e, IF c.act = "add" THEN {} ELSE {c.label})
<1>1. c \in ChangeT /\ (c.act = "update" => c.at # D!NoTable)
  BY DEF D!Changes, D!Change, ChangeT
<1>2. ASSUME NEW b \in ChangeT, D!Made(d, c, rebuilds) = D!Insert(d, b)
      PROVE  Sound(D!Made(d, c, rebuilds)) /\ Keeps(d, D!Made(d, c, rebuilds), IF c.act = "add" THEN {} ELSE {c.label})
  <2>1. Sound(D!Insert(d, b)) /\ Keeps(d, D!Insert(d, b), {})
    BY InsertSound
  <2> QED BY <1>2, <2>1 DEF Keeps
<1>3. CASE rebuilds
  <2> DEFINE b == [c EXCEPT !.at = D!NoTable]
  <2>1. b \in ChangeT
    BY <1>1 DEF ChangeT
  <2>2. D!Made(d, c, rebuilds) = D!Insert(d, b)
    BY <1>3 DEF D!Made
  <2> QED BY <1>2, <2>1, <2>2
<1>4. CASE ~rebuilds /\ c.act = "add"
  <2>1. D!Made(d, c, rebuilds) = D!Insert(d, c)
    BY <1>4 DEF D!Made, D!Applied
  <2> QED BY <1>1, <1>2, <2>1
<1>5. CASE ~rebuilds /\ c.act = "delete"
  <2>1. D!Made(d, c, rebuilds) = D!Delete(d, c)
    BY <1>5 DEF D!Made, D!Applied
  <2> QED BY <1>1, <1>5, <2>1, DeleteSound
<1>6. CASE ~rebuilds /\ c.act = "replace"
  <2>1. D!Made(d, c, rebuilds) = D!Replace(d, c)
    BY <1>6 DEF D!Made, D!Applied
  <2> QED BY <1>1, <1>6, <2>1, ReplaceSound
<1>7. CASE ~rebuilds /\ c.act = "update"
  <2>1. D!Made(d, c, rebuilds) = D!Rename(d, c)
    BY <1>7 DEF D!Made, D!Applied
  <2> QED BY <1>1, <1>7, <2>1, RenameSound
<1>8. c.act \in {"add", "delete", "replace", "update"}
  BY <1>1 DEF ChangeT
<1> QED BY <1>3, <1>4, <1>5, <1>6, <1>7, <1>8

---------------------------------------------------------------------------
(* The runs of the scripts, and the designer between them                  *)

RunT == [pc : {"idle", "read", "change", "apply"}, changes : Seq(D!Change), force : BOOLEAN,
         found : BOOLEAN, read : DocT \cup {<<>>}, next : DocT \cup {<<>>}, made : Nat, n : Nat]

Named(changes) == {c.label : c \in {b \in D!Range(changes) : b.act # "add"}}

\* What is about to be written has every item that was found and not named.
ReadKept(r) ==
    \/ ~r.found
    \/ r.read.kind = "report" /\ r.force /\ D!AllAdd(r.changes)
    \/ \A i \in DOMAIN r.read.items :
         \/ r.read.items[i].label \in Named(r.changes)
         \/ \E j \in DOMAIN r.next.items :
              /\ r.next.items[j].id = r.read.items[i].id
              /\ r.next.items[j].label = r.read.items[i].label

RunInv(r, kind) ==
    /\ r \in RunT
    /\ r.pc # "idle" => r.changes \in Seq(D!Changes(kind))
    /\ r.pc \in {"change", "apply"} => Sound(r.read) /\ r.read.kind = kind
    /\ r.pc = "apply" => /\ Sound(r.next) /\ r.next.kind = kind
                         /\ r.found => r.read.sources \subseteq r.next.sources
                         /\ ReadKept(r)

DesignInv == Sound(doc) /\ RunInv(change, doc.kind)

LEMMA IdleRun == ASSUME NEW k \in Nat, NEW kind PROVE RunInv(D!NoRun(k), kind)
<1>1. <<>> \in Seq(D!Change)
  OBVIOUS
<1> QED BY <1>1 DEF RunInv, RunT, D!NoRun

LEMMA DesignInit == ASSUME D!Init PROVE DesignInv
<1>1. /\ doc.kind \in D!Kinds /\ doc.place = {} /\ doc.sources = {}
      /\ doc = [kind |-> doc.kind, items |-> doc.items, place |-> {}, sources |-> {}]
      /\ \/ doc.items = <<>>
         \/ doc.kind = "form" /\ doc.items = <<[id |-> 1, label |-> CHOOSE l \in Labels : TRUE,
                                               table |-> TRUE, subs |-> Labels]>>
  BY DEF D!Init, D!Kinds
<1>2. change = D!NoRun(0)
  BY DEF D!Init
<1> DEFINE one == [id |-> 1, label |-> CHOOSE l \in Labels : TRUE, table |-> TRUE, subs |-> Labels]
<1>3. one \in ItemT
  BY DesignAssumption DEF ItemT
<1> HIDE DEF one
<1>4. doc.items \in Seq(ItemT) /\ \A i, j \in DOMAIN doc.items : i = j
  <2>1. CASE doc.items = <<>>
    BY <2>1
  <2>2. CASE doc.items = <<one>>
    BY <1>3, <2>2
  <2> QED BY <1>1, <2>1, <2>2 DEF one
<1>5. doc \in DocT
  BY <1>1, <1>4 DEF DocT
<1>6. Rows({})
  BY FS_EmptySet DEF Rows
<1>7. doc.kind = "report" => Rows(doc.place) /\ {p.i : p \in doc.place} = {doc.items[k].id : k \in DOMAIN doc.items}
  <2> SUFFICES ASSUME doc.kind = "report" PROVE Rows(doc.place) /\ {p.i : p \in doc.place} = {doc.items[k].id : k \in DOMAIN doc.items}
    OBVIOUS
  <2>1. doc.items = <<>> /\ DOMAIN doc.items = {}
    BY <1>1
  <2> QED BY <1>1, <1>6, <2>1
<1>8. Sound(doc)
  BY <1>4, <1>5, <1>7 DEF Sound
<1> QED BY <1>2, <1>8, IdleRun DEF DesignInv

LEMMA BeginDesign == ASSUME DesignInv, D!Begin PROVE DesignInv'
<1> DEFINE kind == doc.kind
<1>1. change.n \in Nat /\ doc' = doc
  BY DEF DesignInv, RunInv, RunT, D!Begin
<1>2. PICK cs \in IF kind = "page" THEN {<<>>} ELSE UNION {[1..n -> D!Changes(kind)] : n \in 1..MaxChanges},
           force \in IF kind = "report" THEN BOOLEAN ELSE {FALSE} :
        change' = [D!NoRun(change.n + 1) EXCEPT !.pc = "read", !.changes = cs, !.force = force]
  BY DEF D!Begin
<1>3. cs \in Seq(D!Changes(kind))
  <2>1. CASE kind = "page"
    BY <1>2, <2>1
  <2>2. CASE kind # "page"
    <3>1. PICK n \in 1..MaxChanges : cs \in [1..n -> D!Changes(kind)]
      BY <1>2, <2>2
    <3>2. n \in Nat
      <4>1. MaxChanges \in Nat
        BY DesignAssumption
      <4> QED BY <3>1, <4>1
    <3> QED BY <3>1, <3>2
  <2> QED BY <2>1, <2>2
<1>4. cs \in Seq(D!Change)
  <2>1. D!Changes(kind) \subseteq D!Change
    BY DEF D!Changes
  <2> QED BY <1>3, <2>1
<1>5. force \in BOOLEAN /\ change.n + 1 \in Nat
  <2>1. (IF kind = "report" THEN BOOLEAN ELSE {FALSE}) \subseteq BOOLEAN
    OBVIOUS
  <2>2. force \in IF kind = "report" THEN BOOLEAN ELSE {FALSE}
    BY <1>2
  <2>3. force \in BOOLEAN
    BY <2>1, <2>2
  <2>4. change.n + 1 \in Nat
    BY <1>1
  <2> QED BY <2>3, <2>4
<1>6. change' \in RunT /\ change'.pc = "read" /\ change'.changes = cs
  BY <1>2, <1>4, <1>5 DEF RunT, D!NoRun
<1>7. RunInv(change', kind)
  BY <1>3, <1>6 DEF RunInv
<1> QED BY <1>1, <1>7 DEF DesignInv

LEMMA MakeChangeDesign == ASSUME DesignInv, D!MakeChange PROVE DesignInv'
<1> DEFINE rebuilds == D!Rebuilds(change)
           c == change.changes[change.made + 1]
           e == D!Made(change.next, c, rebuilds)
           named == IF c.act = "add" THEN {} ELSE {c.label}
<1>1. /\ change \in RunT /\ change.pc = "apply" /\ change.made < Len(change.changes) /\ doc' = doc
      /\ change' = [change EXCEPT !.made = @ + 1, !.next = e]
  BY DEF DesignInv, RunInv, D!MakeChange, RunT
<1>2. /\ change.changes \in Seq(D!Changes(doc.kind)) /\ Sound(change.read) /\ change.read.kind = doc.kind
      /\ Sound(change.next) /\ change.next.kind = doc.kind
      /\ change.found => change.read.sources \subseteq change.next.sources
      /\ ReadKept(change)
  BY <1>1 DEF DesignInv, RunInv
<1>3. change.made \in Nat
  BY <1>1 DEF RunT
<1>4. change.made + 1 \in 1..Len(change.changes) /\ c \in D!Changes(doc.kind) /\ c \in D!Range(change.changes)
  <2>1. change.made + 1 \in 1..Len(change.changes)
    BY <1>1, <1>2, <1>3, LenProperties
  <2> QED BY <1>2, <2>1, ElementOfSeq, LenProperties DEF D!Range
<1>5. rebuilds \in BOOLEAN
  BY DEF D!Rebuilds, D!AllAdd
<1>6. named \subseteq Named(change.changes)
  BY <1>4 DEF Named
<1> HIDE DEF rebuilds, c
<1>7. Sound(e) /\ Keeps(change.next, e, named)
  BY <1>2, <1>4, <1>5, MadeSound
<1> HIDE DEF e, named
<1>8. /\ e \in DocT /\ e.kind = doc.kind
      /\ change.found => change.read.sources \subseteq e.sources
  BY <1>2, <1>7 DEF Sound, Keeps
<1>9. /\ change' \in RunT /\ change'.pc = "apply" /\ change'.next = e /\ change'.read = change.read
      /\ change'.changes = change.changes /\ change'.force = change.force
      /\ change'.found = change.found
  <2>1. PICK m \in Nat : m = change.made + 1
    BY <1>3
  <2>2. change' = [change EXCEPT !.made = m, !.next = e]
    BY <1>1, <2>1
  <2> QED BY <1>1, <1>8, <2>2 DEF RunT
<1>10. ReadKept(change')
  <2>1. CASE ~change.found \/ (change.read.kind = "report" /\ change.force /\ D!AllAdd(change.changes))
    BY <1>9, <2>1 DEF ReadKept
  <2>2. CASE change.found /\ ~(change.read.kind = "report" /\ change.force /\ D!AllAdd(change.changes))
    <3> SUFFICES ASSUME NEW i \in DOMAIN change.read.items,
                        change.read.items[i].label \notin Named(change.changes)
                 PROVE  \E j \in DOMAIN e.items : /\ e.items[j].id = change.read.items[i].id
                                                  /\ e.items[j].label = change.read.items[i].label
      BY <1>9 DEF ReadKept
    <3>1. PICK j \in DOMAIN change.next.items : /\ change.next.items[j].id = change.read.items[i].id
                                                /\ change.next.items[j].label = change.read.items[i].label
      BY <1>2, <2>2 DEF ReadKept
    <3>2. change.next.items[j].label \notin named
      BY <1>6, <3>1
    <3> QED BY <1>7, <3>1, <3>2 DEF Keeps
  <2> QED BY <2>1, <2>2
<1>11. RunInv(change', doc.kind)
  BY <1>2, <1>7, <1>8, <1>9, <1>10 DEF RunInv
<1> QED BY <1>1, <1>11 DEF DesignInv

LEMMA ChangeSchemaDesign == ASSUME DesignInv, D!ChangeSchema PROVE DesignInv'
<1>1. /\ change \in RunT /\ change.pc = "change" /\ doc' = doc
      /\ change.changes \in Seq(D!Changes(doc.kind)) /\ Sound(change.read) /\ change.read.kind = doc.kind
  BY DEF DesignInv, RunInv, D!ChangeSchema
<1>2. CASE change' = D!NoRun(change.n)
  <2>1. change.n \in Nat
    BY <1>1 DEF RunT
  <2> QED BY <1>1, <1>2, <2>1, IdleRun DEF DesignInv
<1>3. CASE change' # D!NoRun(change.n)
  <2> DEFINE d == change.read
             rebuilds == D!Rebuilds(change)
             bare == [d EXCEPT !.items = <<>>, !.place = {}]
             kept == IF change.found THEN d.sources ELSE {}
             page == [d EXCEPT !.sources = kept \cup {"built-in"}]
             e == IF d.kind = "page" THEN page ELSE D!Base(change)
  <2>1. change' = [change EXCEPT !.pc = "apply", !.next = e]
    BY <1>1, <1>3 DEF D!ChangeSchema, D!Stop, D!PageOf, Sound, DocT
  <2>2. d \in DocT /\ Sound(d)
    BY <1>1 DEF Sound
  <2>3. Rows({})
    BY FS_EmptySet DEF Rows
  <2>4. /\ bare \in DocT /\ bare.items = <<>> /\ bare.place = {}
        /\ bare.kind = d.kind /\ bare.sources = d.sources
    <3>1. <<>> \in Seq(ItemT)
      OBVIOUS
    <3> QED BY <2>2, <3>1 DEF DocT
  <2>5. /\ page \in DocT /\ page.items = d.items /\ page.place = d.place
        /\ page.kind = d.kind /\ (change.found => d.sources \subseteq page.sources)
    <3>1. kept \in SUBSET {"built-in", "connected"} /\ (change.found => kept = d.sources)
      BY <2>2 DEF DocT
    <3> HIDE DEF kept
    <3> QED BY <2>2, <3>1 DEF DocT
  <2>6. e = page \/ e = d \/ (rebuilds /\ e = bare)
    BY DEF D!Base
  <2> HIDE DEF page, bare, e, rebuilds
  <2>7. Sound(bare)
    <3>1. DOMAIN bare.items = {}
      BY <2>4
    <3>2. Rows(bare.place) /\ {p.i : p \in bare.place} = {bare.items[k].id : k \in DOMAIN bare.items}
      BY <2>3, <2>4, <3>1
    <3> QED BY <2>4, <3>1, <3>2 DEF Sound
  <2>8. Sound(page)
    BY <2>2, <2>5 DEF Sound
  <2>9. Sound(e) /\ e \in DocT /\ e.kind = doc.kind /\ (change.found => d.sources \subseteq e.sources)
    BY <1>1, <2>2, <2>4, <2>5, <2>6, <2>7, <2>8
  <2>10. /\ change' \in RunT /\ change'.pc = "apply" /\ change'.next = e /\ change'.read = d
         /\ change'.changes = change.changes /\ change'.force = change.force
        /\ change'.found = change.found
    BY <1>1, <2>1, <2>9 DEF RunT
  <2>11. ReadKept(change')
    <3>1. CASE e.items = d.items
      BY <2>10, <3>1 DEF ReadKept
    <3>2. CASE rebuilds /\ e = bare
      <4>1. D!AllAdd(change.changes) /\ (d.items = <<>> \/ ~change.found \/ (d.kind = "report" /\ change.force))
        BY <3>2 DEF rebuilds, D!Rebuilds
      <4>2. d.items = <<>> => DOMAIN d.items = {}
        OBVIOUS
      <4> QED BY <2>10, <4>1, <4>2 DEF ReadKept
    <3> QED BY <2>5, <2>6, <3>1, <3>2
  <2>12. RunInv(change', doc.kind)
    BY <1>1, <2>9, <2>10, <2>11 DEF RunInv
  <2> QED BY <1>1, <2>12 DEF DesignInv
<1> QED BY <1>2, <1>3

LEMMA DesignerDesign == ASSUME DesignInv, D!Design PROVE DesignInv'
<1> DEFINE s == doc.items
           below == D!MaxOf({0} \cup {p.y + p.h : p \in doc.place})
           id == D!FreshId(doc)
           new == [id |-> id, label |-> CHOOSE l \in Labels : TRUE, table |-> FALSE, subs |-> {}]
           spot == [i |-> id, x |-> 0, y |-> below, w |-> 3, h |-> 2]
           place == IF doc.kind = "form" THEN doc.place ELSE doc.place \cup {spot}
           r == Append(s, new)
           e == [doc EXCEPT !.items = r, !.place = place]
           page == [doc EXCEPT !.sources = doc.sources \cup {"connected"}]
<1>1. doc \in DocT /\ Sound(doc) /\ change' = change /\ RunInv(change, doc.kind)
  BY DEF DesignInv, Sound, D!Design
<1>2. CASE doc.kind = "page"
  <2>1. doc' = page
    BY <1>1, <1>2 DEF D!Design, DocT
  <2>2. /\ page \in DocT /\ page.items = doc.items /\ page.place = doc.place /\ page.kind = doc.kind
    BY <1>1 DEF DocT
  <2> HIDE DEF page
  <2>3. Sound(page)
    BY <1>1, <2>2 DEF Sound
  <2> QED BY <1>1, <2>1, <2>2, <2>3 DEF DesignInv
<1>3. CASE doc.kind # "page"
  <2>1. doc' = e
    BY <1>1, <1>3 DEF D!Design, DocT
  <2>2. s \in Seq(ItemT) /\ Len(s) \in Nat /\ DOMAIN s = 1..Len(s)
    BY <1>1, ItemsOf
  <2>3. id \in Nat /\ \A i \in DOMAIN s : s[i].id < id
    BY <1>1, FreshIsNew
  <2>4. \A i \in DOMAIN s : s[i].id # id
    <3>1. \A i \in DOMAIN s : s[i].id \in Nat
      BY <1>1, ItemsOf DEF ItemT
    <3> QED BY <2>3, <3>1
  <2> HIDE DEF id
  <2>5. new \in ItemT /\ new.id = id
    BY <2>3, DesignAssumption DEF ItemT
  <2> HIDE DEF new
  <2>6. r \in Seq(ItemT) /\ Len(r) = Len(s) + 1 /\ (\A k \in 1..Len(s) : r[k] = s[k]) /\ r[Len(s) + 1] = new
    <3> HIDE DEF s
    <3> QED BY <2>2, <2>5, AppendProperties
  <2> HIDE DEF r
  <2>7. \A k \in 1..Len(s) + 1 :
          r[k] = IF k < Len(s) + 1 THEN s[k] ELSE IF k = Len(s) + 1 THEN new ELSE s[k - 1]
    BY <2>2, <2>6
  <2>8. place \in SUBSET PlaceT /\ (doc.kind = "report" => Rows(place) /\ {p.i : p \in place} = {p.i : p \in doc.place} \cup {new.id})
    <3>1. CASE doc.kind = "form"
      BY <1>1, <3>1 DEF DocT
    <3>2. CASE doc.kind = "report"
      <4>1. Rows(doc.place) /\ {p.i : p \in doc.place} = {s[k].id : k \in DOMAIN s}
        BY <1>1, <3>2 DEF Sound
      <4>2. \A p \in doc.place : p.i # id
        BY <2>4, <4>1
      <4>3. below \in Nat /\ \A p \in doc.place : p.y + p.h <= below
        <5> DEFINE f == [p \in doc.place |-> p.y + p.h]
                   A == {p.y + p.h : p \in doc.place}
        <5>1. A = {f[p] : p \in DOMAIN f} /\ DOMAIN f = doc.place
          OBVIOUS
        <5>2. IsFiniteSet(A)
          <6> HIDE DEF f, A
          <6>1. IsFiniteSet(doc.place)
            BY <4>1 DEF Rows
          <6> QED BY <5>1, <6>1, FiniteRange
        <5>3. A \in SUBSET Nat
          <6>1. \A p \in doc.place : p.y + p.h \in Nat
            BY <4>1 DEF Rows, PlaceT
          <6> QED BY <6>1
        <5>4. \A p \in doc.place : p.y + p.h \in A
          OBVIOUS
        <5>5. below = D!MaxOf({0} \cup A)
          OBVIOUS
        <5> HIDE DEF A, below
        <5>6. IsFiniteSet({0} \cup A) /\ {0} \cup A \in SUBSET Nat /\ {0} \cup A # {}
          <6>1. IsFiniteSet({0})
            BY FS_Singleton
          <6>2. IsFiniteSet({0} \cup A)
            BY <5>2, <6>1, FS_Union
          <6> QED BY <5>3, <6>2
        <5> DEFINE B == {0} \cup A
        <5>7. D!MaxOf(B) \in B /\ \A i \in B : i <= D!MaxOf(B)
          <6> HIDE DEF B
          <6>1. IsFiniteSet(B) /\ B \in SUBSET Nat /\ B # {}
            BY <5>6 DEF B
          <6> QED BY <6>1, Extremes
        <5>8. B \subseteq Nat /\ A \subseteq B
          BY <5>3
        <5>9. below = D!MaxOf(B)
          BY <5>5
        <5> HIDE DEF B
        <5> QED BY <5>4, <5>7, <5>8, <5>9
      <4> HIDE DEF below
      <4>4. spot \in PlaceT /\ spot.i = id /\ spot.y = below
        BY <2>3, <4>3 DEF PlaceT
      <4> HIDE DEF spot
      <4>5. Rows(doc.place \cup {spot})
        BY <4>1, <4>2, <4>3, <4>4, AddedRows
      <4>6. {p.i : p \in doc.place \cup {spot}} = {p.i : p \in doc.place} \cup {id}
        BY <4>4
      <4> QED BY <2>5, <3>2, <4>5, <4>6 DEF Rows
    <3> QED BY <1>1, <1>3, <3>1, <3>2 DEF DocT, D!Kinds
  <2> HIDE DEF place, s, e
  <2>9. Len(s) + 1 \in 1..Len(doc.items) + 1 /\ new.id = D!FreshId(doc)
    BY <2>2, <2>5 DEF id, s
  <2>10. LET f == [doc EXCEPT !.items = r, !.place = place] IN Sound(f) /\ Keeps(doc, f, {})
    BY <1>1, <2>5, <2>6, <2>7, <2>8, <2>9, Grown DEF s
  <2>11. Sound(e) /\ e.kind = doc.kind
    BY <2>10 DEF e, Keeps
  <2> QED BY <1>1, <2>1, <2>11 DEF DesignInv
<1> QED BY <1>2, <1>3

LEMMA DesignStep == ASSUME DesignInv, [D!Next]_(D!vars) PROVE DesignInv'
<1>1. CASE D!Begin
  BY <1>1, BeginDesign
<1>2. CASE D!Refuse
  <2>1. change' = D!NoRun(change.n) /\ doc' = doc /\ change.n \in Nat
    BY <1>2 DEF D!Refuse, D!Stop, DesignInv, RunInv, RunT
  <2> QED BY <2>1, IdleRun DEF DesignInv
<1>3. CASE D!ReadSchema
  <2>1. /\ change \in RunT /\ change.pc = "read" /\ doc' = doc /\ Sound(doc) /\ doc \in DocT
        /\ change.changes \in Seq(D!Changes(doc.kind))
        /\ \E found \in BOOLEAN : change' = [change EXCEPT !.pc = "change", !.read = doc, !.found = found]
    BY <1>3 DEF D!ReadSchema, DesignInv, RunInv, Sound
  <2>2. change' \in RunT /\ change'.pc = "change" /\ change'.read = doc /\ change'.changes = change.changes
    BY <2>1 DEF RunT
  <2>3. RunInv(change', doc.kind)
    BY <2>1, <2>2 DEF RunInv
  <2> QED BY <2>1, <2>3 DEF DesignInv
<1>4. CASE D!ChangeSchema
  BY <1>4, ChangeSchemaDesign
<1>5. CASE D!MakeChange
  BY <1>5, MakeChangeDesign
<1>6. CASE D!WriteSchema
  <2>1. /\ change.pc = "apply" /\ change' = D!NoRun(change.n) /\ change.n \in Nat
        /\ doc' = doc \/ doc' = change.next
    BY <1>6 DEF D!WriteSchema, D!Ready, D!Stop, DesignInv, RunInv, RunT
  <2>2. Sound(doc) /\ Sound(change.next)
    BY <2>1 DEF DesignInv, RunInv
  <2> QED BY <2>1, <2>2, IdleRun DEF DesignInv
<1>7. CASE D!Design
  BY <1>7, DesignerDesign
<1>8. CASE UNCHANGED D!vars
  BY <1>8 DEF D!vars, DesignInv
<1> QED BY <1>1, <1>2, <1>3, <1>4, <1>5, <1>6, <1>7, <1>8 DEF D!Next

\* For any labels, sizes of charts and lists of changes, whatever the designer
\* adds meanwhile and whichever writes fail: what a script is about to write has
\* every item its changes do not name, unless the container of the items was not
\* found in the answer, and the charts of a report lie side by side, each in one
\* place.
THEOREM DesignsAreKept == D!Spec => []DesignKept
<1>1. DesignInv => D!EveryChartPlaced
  <2> SUFFICES ASSUME DesignInv, doc.kind = "report" PROVE D!EveryChartPlaced
    BY DEF D!EveryChartPlaced
  <2>1. Rows(doc.place) /\ {p.i : p \in doc.place} = {doc.items[k].id : k \in DOMAIN doc.items}
    BY DEF DesignInv, Sound
  <2>2. {c.id : c \in D!Range(doc.items)} = {doc.items[k].id : k \in DOMAIN doc.items}
    BY DEF D!Range
  <2>3. \A p, q \in doc.place : p # q => p.i # q.i /\ ~D!Overlap(p, q)
    BY <2>1 DEF Rows
  <2> QED BY <2>1, <2>2, <2>3 DEF D!EveryChartPlaced
<1>2. DesignInv => D!KeepsTheRest
  <2> SUFFICES ASSUME DesignInv, D!Ready, change.found PROVE D!KeepsTheRest
    BY DEF D!KeepsTheRest
  <2>1. change.read.sources \subseteq change.next.sources /\ ReadKept(change)
    BY DEF DesignInv, RunInv, D!Ready
  <2>2. CASE change.read.kind = "report" /\ change.force /\ D!AllAdd(change.changes)
    BY <2>1, <2>2 DEF D!KeepsTheRest
  <2>3. CASE ~(change.read.kind = "report" /\ change.force /\ D!AllAdd(change.changes))
    <3>1. ASSUME NEW c \in D!Range(change.read.items), c.label \notin Named(change.changes)
          PROVE  \E d \in D!Range(change.next.items) : d.id = c.id
      <4>1. PICK i \in DOMAIN change.read.items : c = change.read.items[i]
        BY DEF D!Range
      <4>2. PICK j \in DOMAIN change.next.items : change.next.items[j].id = c.id
        BY <2>1, <2>3, <3>1, <4>1 DEF ReadKept
      <4> QED BY <4>2 DEF D!Range
    <3> QED BY <2>1, <3>1 DEF D!KeepsTheRest, Named
  <2> QED BY <2>2, <2>3
<1> QED
  BY DesignInit, DesignStep, <1>1, <1>2, PTL DEF D!Spec, DesignKept, D!DesignKept
=============================================================================
