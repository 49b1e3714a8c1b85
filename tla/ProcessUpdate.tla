--------------------------- MODULE ProcessUpdate ---------------------------
(***************************************************************************)
(* Saving and publishing a workflow definition (yida_process_update.py,    *)
(* yida_process_flow.py): the flow is normalised and validated, its        *)
(* designer view is built, merged into the view of the source version or   *)
(* given by the caller, a draft is created, saved and perhaps published,   *)
(* each by a call that may fail, be carried out although its answer is     *)
(* lost, or be declined in an answer that is taken for a success.          *)
(*                                                                         *)
(* A node is [id, type, own, cfg, kids]: own says that it is addressed to  *)
(* the originator, cfg stands for its settings, kids are its branches.     *)
(* A view node is [id, comp, cfg, kids]; cfg "source" is what the designer *)
(* had there before.  What is done to a list of nodes is done to the kids  *)
(* of each by a recursive function.                                        *)
(***************************************************************************)
EXTENDS Naturals, Sequences, FiniteSets

CONSTANTS Nodes,     \* the nodes flows are made of, those in branches too
          ViewNodes, \* the nodes views are made of
          Specs,     \* flow specifications a caller may pass: sequences of nodes
          Sources,   \* designer views the source version may have, or a caller give
          MaxRuns    \* runs of the script, one after the other

VARIABLES versions,  \* the service's versions of the process: [flow, view]
          live,      \* the published version
          edited,    \* versions somebody changed in the designer after a save
          run        \* the run in progress, or the report of the last one

vars == <<versions, live, edited, run>>

-----------------------------------------------------------------------------
(* An operator step addressed to the originator becomes an approval by the *)
(* originator.                                                             *)
Originates(n) == n.type \in {"operator", "executor"} /\ n.own

Normal(n, kids) == [n EXCEPT !.type = IF Originates(n) THEN "approval" ELSE n.type, !.kids = kids]
Normalized[ns \in Seq(Nodes)] == [i \in DOMAIN ns |-> Normal(ns[i], Normalized[ns[i].kids])]
Normalize(n) == Normal(n, Normalized[n.kids])

(* Every node with the way to it, kid by kid.                               *)
Within(n, i, below) == {<<<<i>>, n>>} \cup {<<<<i>> \o w[1], w[2]>> : w \in below}
Walked[ns \in Seq(Nodes)] == UNION {Within(ns[i], i, Walked[ns[i].kids]) : i \in DOMAIN ns}
Walk(nodes) == UNION {Within(nodes[i], i, Walked[nodes[i].kids]) : i \in DOMAIN nodes}

Ids(nodes) == {w[2].id : w \in Walk(nodes)}

Configured(n) == n.type \in {"dataCreate", "dataUpdate", "dataRetrieve", "sendCard"} => n.cfg # "missing"

Valid(nodes) ==
  /\ nodes # <<>>
  /\ \A v, w \in Walk(nodes) : v[2].id = w[2].id => v = w
  /\ \A w \in Walk(nodes) : Configured(w[2])

Flow(spec) == [i \in DOMAIN spec |-> Normalize(spec[i])]

-----------------------------------------------------------------------------
Component(n) ==
  CASE n.type \in {"approval", "approver"} -> "ApprovalNode"
    [] n.type = "apply"  -> "ApplyNode"
    [] n.type = "finish" -> "EndNode"
    [] OTHER -> n.type

View(n, kids) == [id |-> n.id, comp |-> Component(n), cfg |-> n.cfg, kids |-> kids]
Viewed[ns \in Seq(Nodes)] == [i \in DOMAIN ns |-> View(ns[i], Viewed[ns[i].kids])]
ViewChild(n) == View(n, IF n.kids = <<>> THEN <<>> ELSE Viewed[n.kids])

BuildView(flow) == [i \in DOMAIN flow |-> ViewChild(flow[i])]

NodeOf(flow, id) == CHOOSE n \in {w[2] : w \in Walk(flow)} : n.id = id

(* The bug a mutant plants: stale branches survive the refresh.             *)
RefreshedKeepsKids(child, n) ==
  IF child.comp = Component(n) /\ n.type \in {"apply", "finish"} THEN child
  ELSE [ViewChild(n) EXCEPT !.kids = IF n.kids = <<>> THEN child.kids ELSE @]

(* A view node the flow knows takes the flow's settings and branches; start *)
(* and end stay as the designer had them.                                   *)
Refreshed(child, n) ==
  IF child.comp = Component(n) /\ n.type \in {"apply", "finish"} THEN child
  ELSE [ViewChild(n) EXCEPT !.id = child.id]

(* A node the flow does not know is searched for ones it does.              *)
InSync(child, kids, flow) ==
  IF child.id \in Ids(flow) THEN Refreshed(child, NodeOf(flow, child.id))
  ELSE [child EXCEPT !.kids = kids]
SyncBelow(items, flow) ==
  LET synced[ks \in Seq(ViewNodes)] == [i \in DOMAIN ks |-> InSync(ks[i], synced[ks[i].kids], flow)]
  IN synced[items]
Sync(items, flow) == [i \in DOMAIN items |-> InSync(items[i], SyncBelow(items[i].kids, flow), flow)]

-----------------------------------------------------------------------------
Idle == [pc |-> "idle", flow |-> <<>>, view |-> <<>>, ordered |-> <<>>, turn |-> 0, draft |-> 0,
         reuse |-> FALSE, publish |-> FALSE, given |-> FALSE, declined |-> FALSE,
         report |-> "none", n |-> 0]

Init == /\ \E s \in Sources : versions = <<[flow |-> <<>>, view |-> s]>>
        /\ live = 1 /\ edited = {} /\ run = Idle

Fail == run' = [run EXCEPT !.pc = "idle", !.report = "failed"]

(* Arguments are read, the flow is normalised and validated.  A flow that is *)
(* refused ends the run before any call.                                     *)
Begin ==
  /\ run.pc = "idle" /\ run.n < MaxRuns
  /\ \E spec \in Specs, publish \in BOOLEAN, d \in {0} \cup (2..Len(versions)) :
       run' = IF Valid(Flow(spec))
              THEN [Idle EXCEPT !.pc = "view", !.flow = Flow(spec), !.draft = d, !.reuse = d # 0,
                                !.publish = publish, !.n = run.n + 1]
              ELSE [Idle EXCEPT !.report = "failed", !.n = run.n + 1]
  /\ UNCHANGED <<versions, live, edited>>

Viewing(view) ==
  run' = [run EXCEPT !.pc = IF run.reuse THEN "save" ELSE "create", !.view = view,
                     !.ordered = <<>>, !.turn = 0]

(* The view of the source version, or of a reused draft when no source is    *)
(* named, is merged with the flow; unless it can be read the view is built    *)
(* anew.                                                                     *)
LoadView ==
  /\ run.pc = "view"
  /\ \/ Viewing(BuildView(run.flow))
     \/ \E v \in {1} \cup IF run.reuse THEN {run.draft} ELSE {} :
          run' = [run EXCEPT !.pc = "merge", !.view = Sync(versions[v].view, run.flow)]
  /\ UNCHANGED <<versions, live, edited>>

(* A view the caller gives is taken as it is, and compared with nothing.     *)
TakeView ==
  /\ run.pc = "view"
  /\ \E v \in Sources :
       run' = [run EXCEPT !.pc = IF run.reuse THEN "save" ELSE "create", !.view = v, !.given = TRUE]
  /\ UNCHANGED <<versions, live, edited>>

(* merge_process_view_schema, a turn of its loops at a time: the start node   *)
(* the flow does not name comes first, ...                                   *)
KeepStart ==
  /\ run.pc = "merge" /\ run.turn < Len(run.view)
  /\ LET child == run.view[run.turn + 1]
     IN run' = [run EXCEPT !.turn = @ + 1,
                  !.ordered = IF child.comp = "ApplyNode" /\ child.id \notin Ids(run.flow)
                              THEN Append(@, child) ELSE @]
  /\ UNCHANGED <<versions, live, edited>>

(* ... then the flow's nodes in their order, taken from the view where it has *)
(* them, the last if it has several; a start node it does not have is left out. *)
PlaceNode ==
  /\ run.pc = "merge" /\ run.turn \in Len(run.view) .. Len(run.view) + Len(run.flow) - 1
  /\ LET node == run.flow[run.turn - Len(run.view) + 1]
         existing == {i \in DOMAIN run.view : run.view[i].id = node.id}
         Then(o) == run' = [run EXCEPT !.turn = @ + 1, !.ordered = o]
     IN \/ \E last \in existing :
              (\A i \in existing : i <= last) /\ Then(Append(run.ordered, run.view[last]))
        \/ existing = {} /\ Then(IF node.type = "apply" THEN run.ordered
                                 ELSE Append(run.ordered, ViewChild(node)))
  /\ UNCHANGED <<versions, live, edited>>

Merged ==
  /\ run.pc = "merge" /\ run.turn = Len(run.view) + Len(run.flow)
  /\ Viewing(IF run.ordered = <<>> THEN run.view ELSE run.ordered)
  /\ UNCHANGED <<versions, live, edited>>

(* What an answer with exit code 0 does to the run: the code does not look    *)
(* whether it says "success": false.                                         *)
Goes(next, report, declined) ==
  run' = [run EXCEPT !.pc = next, !.report = report, !.declined = @ \/ declined]

(* The draft is a copy of the source; its id is searched for in the answer,  *)
(* where a flag may be taken for it (version 0 then, which does not exist).   *)
CreateDraft ==
  /\ run.pc = "create"
  /\ \/ Fail /\ UNCHANGED versions
     \/ run' = [run EXCEPT !.pc = "save", !.draft = 0, !.declined = TRUE] /\ UNCHANGED versions
     \/ /\ versions' = Append(versions, versions[1])
        /\ \/ Fail
           \/ \E id \in {Len(versions) + 1, 0} : run' = [run EXCEPT !.pc = "save", !.draft = id]
  /\ UNCHANGED <<live, edited>>

Saved == [versions EXCEPT ![run.draft] = [flow |-> run.flow, view |-> run.view]]

SavedGoes(declined) ==
  Goes(IF run.publish THEN "publish" ELSE "idle", IF run.publish THEN "none" ELSE "saved", declined)

SaveDraft ==
  /\ run.pc = "save"
  /\ \/ (Fail \/ SavedGoes(TRUE)) /\ UNCHANGED <<versions, edited>>
     \/ /\ run.draft # 0 /\ versions' = Saved /\ edited' = edited \ {run.draft}
        /\ Fail \/ SavedGoes(FALSE)
  /\ UNCHANGED live

Publish ==
  /\ run.pc = "publish"
  /\ \/ (Fail \/ Goes("idle", "published", TRUE)) /\ UNCHANGED live
     \/ /\ run.draft # 0 /\ live' = run.draft
        /\ Fail \/ Goes("idle", "published", FALSE)
  /\ UNCHANGED <<versions, edited>>

(* Somebody works on a draft in the designer between two steps of a run.     *)
Designer ==
  /\ \E v \in 2..Len(versions) :
       /\ v \notin edited /\ edited' = edited \cup {v}
       /\ versions' = [versions EXCEPT ![v].flow = <<>>, ![v].view = versions[1].view]
  /\ UNCHANGED <<live, run>>

Next == Begin \/ LoadView \/ TakeView \/ KeepStart \/ PlaceNode \/ Merged \/ CreateDraft \/ SaveDraft \/ Publish \/ Designer

Spec == Init /\ [][Next]_vars

-----------------------------------------------------------------------------
(* The tree without the start node, which the designer may name otherwise:   *)
(* the steps of a view, numbered, with their settings and what is below them; *)
(* an end, too, stays as the designer had it.                                 *)
IsStep(c) == c.comp # "ApplyNode"
Look(c, below) == <<c.id, c.comp, IF c.comp = "EndNode" THEN <<>> ELSE <<c.cfg, below>>>>
Place(view, i) == Cardinality({j \in 1..i : IsStep(view[j])})
Shaped[view \in Seq(ViewNodes)] ==
  {<<Place(view, i), Look(view[i], Shaped[view[i].kids])>> : i \in {k \in DOMAIN view : IsStep(view[k])}}
Shape(view) ==
  {<<Place(view, i), Look(view[i], Shaped[view[i].kids])>> : i \in {k \in DOMAIN view : IsStep(view[k])}}

HasStep(flow) == \E i \in DOMAIN flow : IsStep(ViewChild(flow[i]))

(* What the designer shows is what the engine runs: whatever version the    *)
(* view came from, the saved view has exactly the flow's steps, in the      *)
(* flow's order and nesting, with the flow's settings - no step of the old   *)
(* version survives in a branch and none is missing (yida_process_flow.py    *)
(* keeps "both surfaces aligned").  Two views are no work of the script's: a *)
(* view the caller gives, and the old one, which the merge keeps when a flow *)
(* of nothing but a start leaves it nothing to show.                         *)
ViewShowsFlow ==
  run.pc \in {"create", "save", "publish"} /\ ~run.given /\ HasStep(run.flow) =>
     Shape(run.view) = Shape(BuildView(run.flow))

(* A run that says it published has put its own flow in force: the live      *)
(* version carries the flow the run was given unless somebody changed that   *)
(* draft after the run had saved it, although creating, saving and           *)
(* publishing are three calls, of which each may fail or be carried out      *)
(* unanswered.  Only an answer that says it was declined, and comes with     *)
(* exit code 0, is believed to have done what it did not.                    *)
ReportedIsLive ==
  run.report \in {"saved", "published"} /\ ~run.declined =>
     /\ run.draft # 0 /\ (run.draft \in edited \/ versions[run.draft].flow = run.flow)
     /\ run.report = "published" => live = run.draft

(* A published process is the one the run was given, for people and engine.  *)
PublishedAsGiven == ViewShowsFlow /\ ReportedIsLive
=============================================================================
