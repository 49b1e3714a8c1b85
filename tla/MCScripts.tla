----------------------------- MODULE MCScripts -----------------------------
(* The scripts of the skills, the proxy and the installer on small inputs. *)
(* They share no state, so one run takes them one at a time: `part' says   *)
(* which, and the others stay where they begin.                            *)
EXTENDS MCTools, MCClients

(* BatchWrites: for every script files that are accepted, refused for each  *)
(* of its reasons, and long enough for three calls.                         *)
Todo(i, d) == [id |-> i, title |-> TRUE, executors |-> TRUE, priority |-> "absent",
               due |-> d, recurs |-> FALSE]
MCTodoFiles == {
    <<Todo("a", "day"), Todo("b", "absent")>>,
    <<Todo("a", "isoZone"), [Todo("b", "absent") EXCEPT !.priority = "allowed"]>>,
    <<Todo("a", "absent"), [Todo("c", "millis") EXCEPT !.recurs = TRUE]>>,
    <<Todo("a", "isoNaive")>>, <<>>, <<[Todo("b", "absent") EXCEPT !.recurs = TRUE]>>,
    <<Todo("a", "day"), Todo("b", "day"), Todo("c", "day")>>}

Row(i, s, f) == [id |-> i, shape |-> s, filled |-> f]
MCRecordFiles == {
    <<Row("a", "flat", TRUE), Row("b", "cells", TRUE), Row("c", "flat", TRUE)>>,
    <<Row("a", "flat", TRUE), Row("b", "cells", FALSE), Row("c", "flat", TRUE)>>,
    <<Row("a", "flat", FALSE)>>, <<>>}

Field(i, t, c) == [id |-> i, name |-> "name", type |-> t, config |-> c]
MCFieldFiles == {
    <<Field("a", "plain", {}), Field("b", "select", {"options"})>>,
    <<Field("a", "plain", {}), Field("b", "lookup", {"associateField", "aggregator"})>>,
    <<Field("a", "unknown", {})>>,
    <<Field("a", "plain", {}), Field("b", "plain", {}), Field("c", "plain", {})>>}

Shift(i, c, r) == [id |-> i, class |-> c, rest |-> r, date |-> TRUE]
MCScheduleFiles == {
    <<Shift("a", 1, FALSE), Shift("b", 2, FALSE)>>,
    <<Shift("a", 1, FALSE), Shift("b", 2, TRUE)>>,
    <<[Shift("a", 1, FALSE) EXCEPT !.date = FALSE]>>}

Group(t, b, a) == [type |-> t, bound |-> b, all |-> a]
MCGroups == {Group("TURN", {1}, {1, 2}), Group("TURN", {}, {1, 2}),
             Group("TURN", {}, {}), Group("FIXED", {1}, {1})}

VARIABLE part

(* A list with a user given twice, a department, and both, with a user who   *)
(* is not of the department.                                                 *)
MCRawLists == {<<"u1", "u2", "u1">>, <<"d1">>, <<"u3", "d1", "u1">>}
MCMembers == [d \in {"d1"} |-> <<"u1", "u2">>]

(* Conversations with system messages and texts between calls and results.   *)
Block(t, i) == [type |-> t, id |-> i]
Message(r, bs) == [role |-> r, blocks |-> bs]
Question == Message("user", <<Block("text", 0)>>)
System == Message("system", <<Block("text", 0)>>)
Reply == Message("assistant", <<Block("text", 0)>>)
TwoCalls == Message("assistant", <<Block("text", 0), Block("tool_use", 1), Block("tool_use", 2)>>)
Results == {Message("user", bs) : bs \in {
    <<Block("tool_result", 1), Block("tool_result", 2)>>,
    <<Block("tool_result", 2), Block("text", 0), Block("tool_result", 1)>>,
    <<Block("text", 0), Block("tool_result", 1), Block("image", 0), Block("tool_result", 2)>>}}
MCConversations ==
    {<<Question>>, <<System, Question>>} \cup
    UNION {{<<Question, TwoCalls, r>>, <<System, Question, TwoCalls, r, Reply, Question>>,
            <<Question, TwoCalls, System, r>>,
            <<Question, System, TwoCalls, System, r, TwoCalls, r, System>>} : r \in Results}

(* Flows with and without a start, an end, a branch, a node of no known      *)
(* component, a step; views whose nodes lie elsewhere than in the flow.      *)
Node(i, t, o, c, k) == [id |-> i, type |-> t, own |-> o, cfg |-> c, kids |-> k]
View(i, t, k) == [id |-> i, comp |-> t, cfg |-> "source", kids |-> k]
Start == Node("s", "apply", FALSE, "c", <<>>)
Finish == Node("e", "finish", FALSE, "c", <<>>)
MCSpecs ==
    {<<Start, Node("a", t, o, "c", <<>>), Finish>> : t \in {"operator", "dataCreate"}, o \in BOOLEAN}
    \cup {<<Node("b", "route", FALSE, "c",
                 <<Node("x", "condition", FALSE, "c", <<Node("a", "approver", FALSE, "c", <<>>)>>)>>), Finish>>,
          <<Node("a", "dataCreate", FALSE, "missing", <<>>)>>, <<Finish, Finish>>, <<>>,
          <<Node("s", "sendCard", FALSE, "c", <<>>), Node("b", "route", FALSE, "c", <<>>),
            Node("a", "copy", FALSE, "c", <<>>)>>,
          <<Start>>, <<Node("e", "finish", FALSE, "c", <<Node("a", "copy", FALSE, "c", <<>>)>>)>>}
(* What those are made of: nodes within nodes within nodes.                  *)
MCFlowNodesOver(ks) ==
    [id : {"s", "a", "b", "e", "x"}, own : BOOLEAN, cfg : {"c", "missing"}, kids : ks,
     type : {"apply", "finish", "operator", "approval", "approver", "dataCreate", "sendCard",
             "route", "condition", "copy"}]
MCFlowNodes == MCFlowNodesOver(Seq(MCFlowNodesOver(Seq(MCFlowNodesOver({<<>>})))))
MCViewNodesOver(ks) ==
    [id : {"s", "a", "b", "e", "f", "r", "t", "x"}, cfg : {"c", "source"}, kids : ks,
     comp : {"ApplyNode", "EndNode", "ApprovalNode", "operator", "dataCreate", "sendCard",
             "route", "condition", "copy"}]
MCViewNodes == MCViewNodesOver(Seq(MCViewNodesOver(Seq(MCViewNodesOver({<<>>})))))
MCSources ==
    {<<View("s", "ApplyNode", <<>>), View("e", "EndNode", <<>>)>>,
     <<View("t", "ApplyNode", <<>>), View("a", "ApprovalNode", <<>>),
       View("b", "route", <<View("x", "condition", <<View("e", "EndNode", <<>>)>>)>>)>>,
     <<View("s", "ApplyNode", <<>>),
       View("r", "route", <<View("b", "condition", <<View("a", "operator", <<>>)>>)>>),
       View("f", "EndNode", <<>>)>>,
     <<View("a", "copy", <<>>), View("e", "EndNode", <<View("x", "condition", <<>>)>>)>>}

(* Charts that fit into a row together, and charts of different heights.     *)
MCSizes == {[w |-> 3, h |-> 3], [w |-> 2, h |-> 1]}

Parts == {"batch", "provision", "reports", "proxy", "process", "design", "jobs", "calendar", "lists"}

InitPart ==
    /\ part \in Parts
    /\ Init
    /\ part # "batch" => /\ tool = "approve" /\ file = CHOOSE f \in Files(tool) : TRUE
                         /\ world = CHOOSE w \in Worlds(tool) : TRUE
    /\ P!Init
    /\ part # "provision" => tree = "v1" /\ ~socat /\ ~archive
    /\ R!Init
    /\ part # "reports" => /\ report = "monthly" /\ ids = <<"u1", "u2", "u1">>
                           /\ from = [day |-> 1, time |-> 0] /\ to = [day |-> 1, time |-> 2]
    /\ X!Init
    /\ F!Init
    /\ part # "process" => versions[1].view[1].id = "t"
    /\ D!Init
    /\ part # "design" => doc.kind = "page"
    /\ J!Init
    /\ part # "jobs" => client = "wait"
    /\ C!Init
    /\ part # "calendar" => busy = <<>> /\ duration = 1 /\ taken = {}
    /\ S!Init
    /\ part # "lists" => list = "inbox" /\ have = {}

NextPart ==
    /\ UNCHANGED part
    /\ \/ part = "batch" /\ Next
          /\ UNCHANGED <<pvars, rvars, xvars, fvars, dvars, jvars, cvars, svars>>
       \/ part = "provision" /\ P!Next
          /\ UNCHANGED <<vars, rvars, xvars, fvars, dvars, jvars, cvars, svars>>
       \/ part = "reports" /\ R!Next
          /\ UNCHANGED <<vars, pvars, xvars, fvars, dvars, jvars, cvars, svars>>
       \/ part = "proxy" /\ X!Next
          /\ UNCHANGED <<vars, pvars, rvars, fvars, dvars, jvars, cvars, svars>>
       \/ part = "process" /\ F!Next
          /\ UNCHANGED <<vars, pvars, rvars, xvars, dvars, jvars, cvars, svars>>
       \/ part = "design" /\ D!Next
          /\ UNCHANGED <<vars, pvars, rvars, xvars, fvars, jvars, cvars, svars>>
       \/ part = "jobs" /\ J!Next
          /\ UNCHANGED <<vars, pvars, rvars, xvars, fvars, dvars, cvars, svars>>
       \/ part = "calendar" /\ C!Next
          /\ UNCHANGED <<vars, pvars, rvars, xvars, fvars, dvars, jvars, svars>>
       \/ part = "lists" /\ S!Next
          /\ UNCHANGED <<vars, pvars, rvars, xvars, fvars, dvars, jvars, cvars>>

SpecPart == InitPart /\ [][NextPart]_<<part, vars, pvars, rvars, xvars, fvars, dvars, jvars, cvars, svars>>

---------------------------------------------------------------------------
(* The properties of the parts are those of MCTools and MCClients.         *)
=============================================================================
