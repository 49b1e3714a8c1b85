----------------------------- MODULE MCClients -----------------------------
(* What is shown to a user side by side: the calendar's scripts, those     *)
(* that list or report, the proxy, and a workflow's designer view.  They   *)
(* share no state.  MCScripts runs them with the rest on small inputs;     *)
(* ClientsProofs has their theorems, for any values of these constants.    *)
EXTENDS Integers, Sequences

CONSTANTS Items, MaxPages,                                  \* Summaries
          Day, MaxBusy, Rooms, RoomGroups,                  \* Calendar
          Scripts, UserIds, RawLists, Members, LastDay, External, Ends,   \* Reports
          BatchSize, SliceDays, MaxFullPages, MaxFailures,
          CallIds, Conversations, ToolIndex, MaxChunks,     \* Proxy
          FlowNodes, ViewNodes, FlowSpecs, SourceViews, MaxSaves  \* ProcessUpdate

ASSUME PagesAssumption == Items \in Nat /\ MaxPages \in Nat
ASSUME DayAssumption == Day \in Nat /\ MaxBusy \in Nat

VARIABLES list, have, reader, cursor, pages, listed, total, summary
S == INSTANCE Summaries WITH kind <- list, pc <- reader, outcome <- summary
svars == <<list, have, reader, cursor, pages, listed, total, summary>>

VARIABLES busy, duration, left, merged, passed, upTo, slots, planner, meeting, scopes, room, taken, events
C == INSTANCE Calendar WITH pc <- planner, cursor <- upTo, Groups <- RoomGroups
cvars == <<busy, duration, left, merged, passed, upTo, slots, planner, meeting, scopes, room, taken, events>>

VARIABLES report, raw, users, from, to, step, ids, named, cur, slices, source, first, slice, page,
          single, got, unknown, failed, said
R == INSTANCE Reports WITH script <- report, pc <- step, verdict <- said, Ids <- UserIds,
     MaxPages <- MaxFullPages
rvars == <<report, raw, users, from, to, step, ids, named, cur, slices, source, first, slice, page,
           single, got, unknown, failed, said>>

\* Ids are given and departments have members, a call names somebody and a
\* slice is at least a day.
ASSUME ReportAssumption ==
    /\ Scripts \subseteq R!AllScripts
    /\ \A given \in RawLists : given \in Seq(UserIds)
    /\ \A d \in DOMAIN Members : Members[d] \in Seq(UserIds)
    /\ LastDay \in Nat /\ MaxFullPages \in Nat /\ MaxFailures \in Nat
    /\ BatchSize \in Nat \ {0} /\ SliceDays \in Nat \ {0}

VARIABLES asked, reading, phase, nextIndex, open, text, heard, told, turns, blocks
X == INSTANCE Proxy WITH next <- nextIndex, tools <- heard, said <- told
xvars == <<asked, reading, phase, nextIndex, open, text, heard, told, turns, blocks>>

ASSUME ConversationAssumption == \A c \in Conversations : X!WellFormed(c)

VARIABLES versions, live, edited, update
F == INSTANCE ProcessUpdate WITH run <- update, Nodes <- FlowNodes, Specs <- FlowSpecs,
     Sources <- SourceViews, MaxRuns <- MaxSaves
fvars == <<versions, live, edited, update>>

\* Flows and views are lists; an item of a view has these fields.
ASSUME FlowAssumption ==
    /\ \A spec \in FlowSpecs : spec \in Seq(FlowNodes)
    /\ \A v \in SourceViews :
          /\ v \in Seq(ViewNodes)
          /\ \A i \in DOMAIN v : DOMAIN v[i] = {"id", "comp", "cfg", "kids"}

---------------------------------------------------------------------------
(* Their properties                                                        *)

\* Free times, unless the search for engagements failed, and summaries printed as
\* complete are exactly what is there.
ShownIsExact == C!SlotsExact /\ S!CompleteIsWhole

\* A report that says it is complete holds every row of every person asked
\* for, but for users listed beside a department.
ReportIsWhole == R!ReportIsWhole

\* Every call, result and text of a conversation survives the translation.
TranslatesWhole == X!TranslatesWhole

\* The version that is live is the flow as it was given, unless an answer that
\* was taken for a success says that it was declined.
PublishedAsGiven == F!PublishedAsGiven
=============================================================================
