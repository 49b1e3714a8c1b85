------------------------------ MODULE Reports ------------------------------
(***************************************************************************)
(* The attendance report scripts (dingtalk-misc/scripts/attendance_*.py):  *)
(* the ids given are resolved to users, the range of dates is cut into     *)
(* slices and the users into batches, every batch and slice is queried     *)
(* from each source, and a workbook is written from what was answered.     *)
(* A call may fail, may be refused for lack of permission, and may answer  *)
(* page by page.                                                           *)
(***************************************************************************)
EXTENDS Integers, FiniteSets, SequencesExt

CONSTANTS
    Scripts,        \* a subset of AllScripts
    Ids,            \* ids of users and of departments
    RawLists,       \* the lists of ids a user gives
    Members,        \* departments and their members
    LastDay,        \* bound: days (or leave types) are 1..LastDay
    External,       \* leave types whose rules another system has
    Ends,           \* where in its day the given range may end, see below
    BatchSize,      \* 100, 50, 20 or 5 users in the code
    SliceDays,      \* 32, 31 or 7 days in the code
    MaxPages,       \* bound: full pages of one answer
    MaxFailures     \* bound: failing calls of a run

AllScripts == {"monthly", "daily", "detail", "checkin", "vacation", "schedule", "record"}

\* An instant is a day and midnight (0), some time (1) or the last second (2).
Instant == [day : 1..LastDay, time : 0..2]
Leq(a, b) == a.day < b.day \/ (a.day = b.day /\ a.time <= b.time)
Earlier(a, b) == IF Leq(a, b) THEN a ELSE b

VARIABLES
    script, raw, users, from, to,
    pc,
    ids, named,     \* ids not looked at yet, users named but not yet taken
    cur, slices,    \* the cutting of the range
    source, first, slice,   \* the call under way: its batch is of the users from first on
    page,
    single,         \* users queried one by one after a batch was refused
    got,            \* what was answered: source, user, day, how often
    unknown,        \* what of it is a line that the balance could not be had
    failed, verdict

range == <<script, raw, from, to>>
call == <<source, first, slice>>
vars == <<range, users, pc, ids, named, cur, slices, call, page, single, got, unknown, failed, verdict>>

---------------------------------------------------------------------------
(* The calls of a script, in order                                         *)

Sources == CASE script = "detail" -> <<"result", "record">>
             [] script \in {"monthly", "daily"} -> <<"data", "leave">>
             [] OTHER -> <<"data">>

\* chunk_users and its copies: the users from one on, as many as a call may name.
BatchEnd == IF first + BatchSize - 1 < Len(users) THEN first + BatchSize - 1 ELSE Len(users)
Batch == {users[x] : x \in first..BatchEnd}

LastSource == source = Len(Sources)
LastBatch == first + BatchSize > Len(users)
LastSlice == slice = Len(slices)
Moves(s, f, l) == source' = s /\ first' = f /\ slice' = l

\* main of detail: both sources for a batch and slice before the next one.
DetailNext ==
    \/ ~LastSource /\ Moves(source + 1, first, slice)
    \/ LastSource /\ ~LastSlice /\ Moves(1, first, slice + 1)
    \/ LastSource /\ LastSlice /\ Moves(1, first + BatchSize, 1)

\* main of monthly: the first source for all batches and slices, then
\* query_leave_data, in the same order.
MonthlyNext ==
    \/ ~LastSlice /\ Moves(source, first, slice + 1)
    \/ LastSlice /\ ~LastBatch /\ Moves(source, first + BatchSize, 1)
    \/ LastSlice /\ LastBatch /\ Moves(source + 1, 1, 1)
DailyNext == MonthlyNext
CheckinNext == MonthlyNext

\* fetch_all_schedules, fetch_approve_list: the range is one slice.
ScheduleNext == MonthlyNext
RecordNext == MonthlyNext

\* query_balance_records: leave type by leave type.
VacationNext ==
    \/ ~LastBatch /\ Moves(source, first + BatchSize, slice)
    \/ LastBatch /\ Moves(source, 1, slice + 1)

NextCall == CASE script = "detail" -> DetailNext
              [] script = "monthly" -> MonthlyNext
              [] script = "daily" -> DailyNext
              [] script = "checkin" -> CheckinNext
              [] script = "schedule" -> ScheduleNext
              [] script = "record" -> RecordNext
              [] OTHER -> VacationNext

\* The outermost loop has ended.
CallsOver == source > Len(Sources) \/ first > Len(users) \/ slice > Len(slices)

Days(s) == s.from.day..s.to.day

Init ==
    /\ script \in Scripts
    /\ raw \in RawLists /\ ids = raw /\ named = <<>> /\ users = <<>>
    /\ from \in {t \in Instant : t.time < 2} /\ to \in {t \in Instant : t.time \in Ends}
    /\ Leq(from, to)
    /\ pc = "resolve" /\ cur = from /\ slices = <<>>
    /\ source = 1 /\ first = 1 /\ slice = 1 /\ page = 0 /\ single = {}
    /\ got = <<>> /\ unknown = {} /\ failed = 0 /\ verdict = "none"

---------------------------------------------------------------------------
(* Users                                                                   *)

Expanded(id) == IF id \in DOMAIN Members THEN Members[id] ELSE <<>>
QueryFrame == UNCHANGED <<range, cur, slices, call, page, single, got, unknown, failed, verdict>>

\* schedule and record take the ids as they are.
TakeIds ==
    /\ pc = "resolve" /\ script \in {"schedule", "record"}
    /\ users' = ids /\ ids' = <<>> /\ pc' = "slice"
    /\ UNCHANGED named /\ QueryFrame

\* resolve_users_from_input: one query for all ids as departments; if it names
\* anybody, these are the users ("together") and an id that is a user's is
\* dropped; otherwise it goes on id by id ("each").
ResolveUsers ==
    /\ pc = "resolve" /\ script \notin {"schedule", "record"}
    /\ \/ pc' = "together" /\ \E id \in ToSet(ids) : Expanded(id) # <<>>
       \/ pc' = "each"
    /\ UNCHANGED <<users, ids, named>> /\ QueryFrame

\* An id whose query fails or names nobody is taken for a user's; one that is
\* a user's already is passed over.
NextId ==
    /\ pc \in {"together", "each"} /\ named = <<>> /\ ids # <<>>
    /\ ids' = Tail(ids)
    /\ LET id == Head(ids) IN
       \/ pc = "together" /\ named' = Expanded(id)
       \/ pc = "each" /\ id \in ToSet(users) /\ named' = <<>>
       \/ pc = "each" /\ id \notin ToSet(users) /\ named' \in {Expanded(id), <<id>>} \ {<<>>}
    /\ UNCHANGED <<pc, users>> /\ QueryFrame

\* A user is taken once.
TakeUser ==
    /\ named # <<>> /\ named' = Tail(named)
    /\ users' = IF Head(named) \in ToSet(users) THEN users ELSE Append(users, Head(named))
    /\ UNCHANGED <<pc, ids>> /\ QueryFrame

\* The users' names are looked up; one without a name goes by the id.
UsersResolved ==
    /\ pc \in {"together", "each"} /\ named = <<>> /\ ids = <<>>
    /\ pc' = "slice"
    /\ UNCHANGED <<users, ids, named>> /\ QueryFrame

---------------------------------------------------------------------------
(* The range of dates                                                      *)

\* slice_date_range: a slice ends with its last day or with the range, and
\* the next begins at midnight of the day that one second later is in.
NextStart(end) == [day |-> IF end.time = 2 THEN end.day + 1 ELSE end.day, time |-> 0]

\* slice_checkin_date_range: at midnight of the day after.
CheckinNextStart(end) == [day |-> end.day + 1, time |-> 0]

\* schedule and record ask for the whole range, vacation for each type.
Cut ==
    /\ pc = "slice" /\ Leq(cur, to)
    /\ LET days == CASE script \in {"schedule", "record"} -> LastDay
                     [] script = "vacation" -> 1
                     [] OTHER -> SliceDays
           end == Earlier([day |-> cur.day + days - 1, time |-> 2], to)
       IN /\ slices' = Append(slices, [from |-> cur, to |-> end])
          /\ cur' = IF script \in {"detail", "monthly", "daily"} THEN NextStart(end) ELSE CheckinNextStart(end)
    /\ UNCHANGED <<range, users, pc, ids, named, call, page, single, got, unknown, failed, verdict>>

CutEnds ==
    /\ pc = "slice" /\ ~Leq(cur, to)
    /\ pc' = "query"
    /\ UNCHANGED <<users, ids, named>> /\ QueryFrame

---------------------------------------------------------------------------
(* One call                                                                *)

Querying == pc = "query" /\ ~CallsOver
Kept == UNCHANGED <<range, users, ids, named, cur, slices>>
Frame == Kept /\ UNCHANGED unknown

Keys(us) == {<<Sources[source], u, d>> : u \in us, d \in Days(slices[slice])}
Received(us) ==
    got' = [k \in DOMAIN got \cup Keys(us) |->
              (IF k \in DOMAIN got THEN got[k] ELSE 0) + (IF k \in Keys(us) THEN 1 ELSE 0)]
Done(v) == pc' = "done" /\ verdict' = v

AnswersBatch ==
    /\ Querying /\ single = {}
    /\ Received(Batch)
    /\ NextCall /\ page' = 0
    /\ Kept /\ UNCHANGED <<pc, single, failed, verdict>>

\* The answer, or its last page, which is the one that is not full.
Answered == AnswersBatch /\ UNCHANGED unknown

\* vacation: a failing call about an external leave type fills the batch with
\* a line that its balance is not to be had, and is not counted.
ExternalType == script = "vacation" /\ Days(slices[slice]) \subseteq External
Unavailable ==
    /\ AnswersBatch /\ ExternalType
    /\ unknown' = unknown \cup Keys(Batch)

\* query_check_results: a full page is followed by the next.
FullPage ==
    /\ Querying /\ script = "detail" /\ Sources[source] = "result"
    /\ page < MaxPages /\ page' = page + 1
    /\ Frame /\ UNCHANGED <<pc, call, single, got, failed, verdict>>

\* A failing call of detail, monthly, daily or checkin is counted and warned
\* of, and the next one follows.
GoesOnUncounted ==
    /\ script \notin {"schedule", "record", "vacation"}
    /\ NextCall /\ page' = 0 /\ failed' = IF page = 0 THEN failed + 1 ELSE failed
    /\ UNCHANGED <<pc, verdict>>
GoesOnCounted ==
    /\ script \notin {"schedule", "record", "vacation"}
    /\ NextCall /\ page' = 0 /\ failed' = failed + 1
    /\ UNCHANGED <<pc, verdict>>

\* schedule and record only write a line to stderr.
GoesOn ==
    /\ script \in {"schedule", "record"}
    /\ NextCall /\ failed' = failed + 1
    /\ UNCHANGED <<page, pc, verdict>>

GivesUp ==
    /\ script = "vacation" /\ ~ExternalType
    /\ Done("error") /\ UNCHANGED <<call, page, failed>>

Failed ==
    /\ Querying /\ failed < MaxFailures
    /\ GoesOnCounted \/ GoesOn \/ GivesUp
    /\ Frame /\ UNCHANGED <<single, got>>

\* No permission ends the run; schedule and record go on as above.
Refused ==
    /\ Querying /\ script \notin {"schedule", "record"}
    /\ Done("exit 2")
    /\ Frame /\ UNCHANGED <<call, page, single, got, failed>>

\* vacation: a leave type that does not apply to someone of the batch is asked
\* for user by user; one without balance fills the batch with its message.
AskOneByOne ==
    /\ Querying /\ script = "vacation" /\ ~ExternalType /\ single = {}
    /\ single' = Batch
    /\ Frame /\ UNCHANGED <<pc, call, page, got, failed, verdict>>

AnsweredOne(u) ==
    /\ Querying /\ u \in single
    /\ Received({u})
    /\ single' = single \ {u}
    /\ IF single' = {} THEN NextCall ELSE UNCHANGED call
    /\ Frame /\ UNCHANGED <<pc, page, failed, verdict>>

---------------------------------------------------------------------------
(* The workbook                                                            *)

Of(src, u) == {k \in DOMAIN got : k[1] = src /\ k[2] = u}

\* What was answered twice is counted twice.
Sum(src, u) == Cardinality(UNION {{k} \X (1..got[k]) : k \in Of(src, u)})

\* aggregate_monthly sums over the records of a user (a day's record is one),
\* query_leave_data over the leave of a day and the report over the days.
MonthlyCell(u) == Sum("data", u)
LeaveCell(u) == Sum("leave", u)

\* build_calendar_sheet, aggregate_daily, build_schedule_table, build_rows of
\* vacation: a cell for each day or leave type that some record is about.
CalendarCells(u) == Cardinality(Of("data", u))
DailyRows(u) == {k[3] : k \in Of("data", u)}
ScheduleCells(u) == Cardinality(Of("data", u))
VacationCells(u) == Cardinality(Of("data", u))

\* build_record_rows: a row for each record, with the first result of the
\* same user and time; transform_records_to_rows of checkin: a row for each.
DetailRows(u) ==
    [all |-> Sum("record", u),
     matched |-> Cardinality({k \in Of("record", u) : <<"result", u, k[3]>> \in DOMAIN got})]
CheckinRows(u) == Sum("data", u)

Report(works, good) ==
    /\ pc = "query" /\ CallsOver
    /\ Done(IF works THEN good ELSE "error")
    /\ Frame /\ UNCHANGED <<call, page, single, got, failed>>

\* print_summary shows how many calls failed.
WriteCounted(works) ==
    /\ script \notin {"schedule", "record"}
    /\ Report(works, IF failed = 0 THEN "complete" ELSE "failures shown")

\* main of schedule and record: nothing found, or a success with whatever
\* was found.
WriteUncounted(works) ==
    /\ script \in {"schedule", "record"}
    /\ Report(works, IF got = <<>> THEN "nothing found" ELSE "success")

Next ==
    \/ TakeIds \/ ResolveUsers \/ NextId \/ TakeUser \/ UsersResolved
    \/ Cut \/ CutEnds
    \/ Answered \/ Unavailable \/ FullPage \/ Failed \/ Refused \/ AskOneByOne
    \/ \E u \in single : AnsweredOne(u)
    \/ \E b \in BOOLEAN : WriteCounted(b) \/ WriteUncounted(b)

Spec == Init /\ [][Next]_vars

---------------------------------------------------------------------------
(* Properties                                                              *)

\* A report that shows no failure holds, for every user and every day of the
\* range, what each source answered, once: batches, slices and pages neither
\* leave a day out nor count it twice.  In the place of a balance stands a line
\* that it is not to be had only where the leave type is external.
CompleteMeansAll ==
    LET n == to.day - from.day + 1 IN
    verdict = "complete" => \A u \in ToSet(users) :
        /\ script = "monthly" => MonthlyCell(u) = n /\ LeaveCell(u) = n /\ CalendarCells(u) = n
        /\ script = "daily" => DailyRows(u) = from.day..to.day /\ LeaveCell(u) = n
        /\ script = "detail" => DetailRows(u) = [all |-> n, matched |-> n]
        /\ script = "checkin" => CheckinRows(u) = n
        /\ script = "vacation" => /\ VacationCells(u) = n
                                  /\ \A k \in unknown : k[3] \in External

\* The schedule, whose success tells nothing of failed calls, has a cell for
\* every user and day when no call failed.
ScheduleFull ==
    script = "schedule" /\ verdict = "success" /\ failed = 0 =>
        \A u \in ToSet(users) : ScheduleCells(u) = to.day - from.day + 1

\* No record is fetched twice, so no sum is doubled, in runs with failures too
\* (schedule and record keep an id that was given twice, and fetch it twice).
FetchedOnce ==
    script \notin {"schedule", "record"} => \A k \in DOMAIN got : got[k] = 1

\* Who was asked for is in it: a department by its members, unless the query
\* for it failed, when its id stands for a user's; and a user, unless the list
\* names a department too, when the script may take all ids for departments
\* and drop the user without a word.
Mixed == \E d \in ToSet(raw) : Expanded(d) # <<>>
CoveredBy(us, id) ==
    IF Expanded(id) = <<>> THEN id \in us \/ Mixed
    ELSE ToSet(Expanded(id)) \subseteq us \/ id \in us
EveryoneAsked == verdict \in {"complete", "success"} => \A id \in ToSet(raw) : CoveredBy(ToSet(users), id)

\* A report counts every record once, and leaves nobody and none out unless it
\* says so.
ReportIsWhole == CompleteMeansAll /\ ScheduleFull /\ FetchedOnce /\ EveryoneAsked
=============================================================================
