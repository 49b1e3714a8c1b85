---------------------------- MODULE DesignUpdate ----------------------------
(***************************************************************************)
(* The scripts that rewrite a form, a report or a custom page of a Yida    *)
(* application (yida_form_update.py, yida_report_update.py,                *)
(* yida_custom_page_update.py and the builders they use): the whole schema *)
(* is read, changed in memory and written back, while others may work in   *)
(* the designer.  Runs follow each other on one document.                  *)
(*                                                                         *)
(* An item is a form field or a chart [id, label, table, subs]: subs are   *)
(* the labels of a table field's columns; at is what a change goes after,  *)
(* the table it means or the new label.  place is the grid of a report:    *)
(* [i, x, y, w, h] per chart.  sources are a custom page's data sources.   *)
(***************************************************************************)
EXTENDS Naturals, Sequences, FiniteSets, SequencesExt

CONSTANTS Labels,    \* labels of fields, titles of charts
          Sizes,     \* [w, h] of charts on the six-column grid
          MaxRuns, MaxItems, MaxChanges    \* bounds

VARIABLES doc,       \* what the service holds
          run,       \* the run in progress, or the report of the last one
          designed   \* somebody changed the document since the run read it

vars == <<doc, run, designed>>

NoTable == "no table"
Kinds == {"form", "report", "page"}

-----------------------------------------------------------------------------
Find(items, label) == {i \in DOMAIN items : items[i].label = label}
First(S) == CHOOSE i \in S : \A j \in S : i <= j

MaxOf(S) == CHOOSE i \in S : \A j \in S : j <= i
FreshId(d) == 1 + MaxOf({0} \cup {c.id : c \in Range(d.items)})

(* The bug a mutant plants: the new row starts below the newest chart, not   *)
(* below the tallest of the row.                                             *)
NextPlaceBelowLast(place, w) ==
  IF place = {} THEN [x |-> 0, y |-> 0]
  ELSE LET y     == MaxOf({p.y : p \in place})
           row   == {p \in place : p.y = y}
           right == MaxOf({p.x + p.w : p \in row})
           last  == CHOOSE p \in row : p.x + p.w = right
       IN IF right + w <= 6 THEN [x |-> right, y |-> y] ELSE [x |-> 0, y |-> y + last.h]

(* Where a new chart goes: right of the last row if it fits, else below.     *)
NextPlace(place, w) ==
  IF place = {} THEN [x |-> 0, y |-> 0]
  ELSE LET y     == MaxOf({p.y : p \in place})
           row   == {p \in place : p.y = y}
           right == MaxOf({p.x + p.w : p \in row})
       IN IF right + w <= 6 THEN [x |-> right, y |-> y]
          ELSE [x |-> 0, y |-> y + MaxOf({p.h : p \in row})]

Placed(place, id, size) ==
  LET at == NextPlace(place, size.w)
  IN place \cup {[i |-> id, x |-> at.x, y |-> at.y, w |-> size.w, h |-> size.h]}

Insert(d, c) ==
  LET hit == Find(d.items, c.at)
      new == [id |-> FreshId(d), label |-> c.label, table |-> FALSE, subs |-> {}]
  IN [d EXCEPT !.items = InsertAt(@, IF hit = {} THEN Len(@) + 1 ELSE First(hit) + 1, new),
               !.place = IF d.kind = "report" THEN Placed(@, new.id, c.size) ELSE @]

(* A delete names a top-level field, or a column of a table; when there is   *)
(* no such table the label is looked for at the top level.                   *)
Delete(d, c) ==
  LET table == Find(d.items, c.at)
      hit   == Find(d.items, c.label)
  IN IF table # {} /\ d.items[First(table)].table
     THEN [d EXCEPT !.items[First(table)].subs = @ \ {c.label}]
     ELSE IF hit = {} THEN d
     ELSE [d EXCEPT !.items = RemoveAt(@, First(hit)),
                    !.place = {p \in @ : p.i # d.items[First(hit)].id}]

(* A replaced chart takes over the place of the old one.                     *)
Replace(d, c) ==
  LET hit == Find(d.items, c.label)
      new == FreshId(d)
  IN IF hit = {} THEN d
     ELSE [d EXCEPT !.items[First(hit)].id = new,
                    !.place = {IF p.i = d.items[First(hit)].id THEN [p EXCEPT !.i = new] ELSE p : p \in @}]

Rename(d, c) ==
  LET hit == Find(d.items, c.label)
  IN IF hit = {} THEN d ELSE [d EXCEPT !.items[First(hit)].label = c.at]

Applied(d, c) ==
  CASE c.act = "add"     -> Insert(d, c)
    [] c.act = "delete"  -> Delete(d, c)
    [] c.act = "replace" -> Replace(d, c)
    [] c.act = "update"  -> Rename(d, c)

Change == [act: {"add", "delete", "replace", "update"}, label: Labels,
           at: Labels \cup {NoTable}, size: Sizes]

Changes(kind) ==
  {c \in Change : /\ c.act = "replace" => kind = "report"
                  /\ c.act \in {"replace", "delete"} /\ kind = "report" => c.at = NoTable
                  /\ c.act = "update" => c.at # NoTable
                  /\ (kind = "form" \/ c.act # "add") => c.size = CHOOSE s \in Sizes : TRUE}

AllAdd(changes) == \A c \in Range(changes) : c.act = "add"

(* An empty skeleton is built in full, if every change adds; --force-rebuild *)
(* does it to a report that has charts.  A design whose container is not     *)
(* found where the scripts look for it counts as empty, whatever it holds.   *)
Rebuilds(r) ==
  /\ AllAdd(r.changes)
  /\ \/ r.read.items = <<>>
     \/ ~r.found
     \/ r.read.kind = "report" /\ r.force

(* Changes that do not all add are refused on an empty form, and on a design *)
(* whose container is not found.                                             *)
RefusesChanges(r) ==
  /\ ~AllAdd(r.changes)
  /\ ~r.found \/ (r.read.kind = "form" /\ r.read.items = <<>>)

(* What the changes are made to, and one of them: a document is built from   *)
(* nothing, one item after the other, in rows.                               *)
Base(r) == IF Rebuilds(r) THEN [r.read EXCEPT !.items = <<>>, !.place = {}] ELSE r.read

Made(d, c, rebuilds) ==
  IF rebuilds THEN Insert(d, [c EXCEPT !.at = NoTable]) ELSE Applied(d, c)

(* The schema of a page is made anew around the code; its data sources are   *)
(* the ones read, then the built-in ones it lacks.  Ones that are not found  *)
(* where the script looks in the answer, which it does not unwrap, are none. *)
PageOf(r, builtin) ==
  [r.read EXCEPT !.sources = (IF r.found THEN @ ELSE {}) \cup builtin]

-----------------------------------------------------------------------------
NoRun(k) == [pc |-> "idle", changes |-> <<>>, force |-> FALSE, found |-> TRUE, read |-> <<>>,
             next |-> <<>>, made |-> 0, n |-> k]

Init ==
  /\ \E k \in Kinds :
       \E items \in IF k = "form" THEN {<<>>, <<[id |-> 1, label |-> CHOOSE l \in Labels : TRUE, table |-> TRUE, subs |-> Labels]>>}
                    ELSE {<<>>} :
         doc = [kind |-> k, items |-> items, place |-> {}, sources |-> {}]
  /\ run = NoRun(0) /\ designed = FALSE

Stop == run' = NoRun(run.n)

(* Arguments are read; a custom page is written only if get-info says that   *)
(* it is one, or with --force.                                               *)
Begin ==
  /\ run.pc = "idle" /\ run.n < MaxRuns
  /\ \E cs \in IF doc.kind = "page" THEN {<<>>}
              ELSE UNION {[1..n -> Changes(doc.kind)] : n \in 1..MaxChanges},
        force \in IF doc.kind = "report" THEN BOOLEAN ELSE {FALSE} :
       run' = [NoRun(run.n + 1) EXCEPT !.pc = "read", !.changes = cs, !.force = force]
  /\ UNCHANGED <<doc, designed>>

Refuse == run.pc \in {"read", "change", "apply"} /\ Stop /\ UNCHANGED <<doc, designed>>

(* What is read is the whole schema; whether the container of the items, or  *)
(* the data sources of a page, are where the script looks is up to the       *)
(* service's answer.                                                         *)
ReadSchema ==
  /\ run.pc = "read"
  /\ \E found \in BOOLEAN :
       run' = [run EXCEPT !.pc = "change", !.read = doc, !.found = found]
  /\ designed' = FALSE /\ UNCHANGED doc

(* A page's new code is compiled, its field ids are compared with the        *)
(* forms' and it is linted, unless a flag skips that; a failure stops the    *)
(* run (Refuse).                                                             *)
ChangeSchema ==
  /\ run.pc = "change"
  /\ IF RefusesChanges(run) THEN Stop
     ELSE run' = [run EXCEPT !.pc = "apply",
            !.next = IF run.read.kind = "page" THEN PageOf(run, {"built-in"})
                     ELSE Base(run)]
  /\ UNCHANGED <<doc, designed>>

(* The changes are made to it in memory, one after the other; one that       *)
(* cannot be made stops the run.                                             *)
MakeChange ==
  /\ run.pc = "apply" /\ run.made < Len(run.changes)
  /\ run' = [run EXCEPT !.made = @ + 1,
               !.next = Made(@, run.changes[run.made + 1], Rebuilds(run))]
  /\ UNCHANGED <<doc, designed>>

Ready == run.pc = "apply" /\ run.made = Len(run.changes)

(* The write may fail, or be carried out although it is not answered.        *)
WriteSchema ==
  /\ Ready
  /\ doc' \in {doc, run.next}
  /\ Stop /\ UNCHANGED designed

(* In the designer: a field or a chart is added below the others, a data     *)
(* source is connected.                                                      *)
Design ==
  /\ ~designed /\ Len(doc.items) < MaxItems
  /\ designed' = TRUE
  /\ doc' = IF doc.kind = "page" THEN [doc EXCEPT !.sources = @ \cup {"connected"}]
            ELSE LET below == MaxOf({0} \cup {p.y + p.h : p \in doc.place})
                     id    == FreshId(doc)
                 IN [doc EXCEPT !.items = Append(@, [id |-> id, label |-> CHOOSE l \in Labels : TRUE, table |-> FALSE, subs |-> {}]),
                       !.place = IF doc.kind = "form" THEN @
                                 ELSE @ \cup {[i |-> id, x |-> 0, y |-> below, w |-> 3, h |-> 2]}]
  /\ UNCHANGED run

Next == Begin \/ Refuse \/ ReadSchema \/ ChangeSchema \/ MakeChange \/ WriteSchema \/ Design

Spec == Init /\ [][Next]_vars

-----------------------------------------------------------------------------
Overlap(p, q) ==
  /\ p.x < q.x + q.w /\ q.x < p.x + p.w
  /\ p.y < q.y + q.h /\ q.y < p.y + p.h

(* Every chart of a report has one place on the grid, every place belongs to *)
(* a chart, and no two charts lie on each other, after any sequence of       *)
(* additions, removals and replacements by the script and of additions in    *)
(* the designer, failed and half-seen writes among them.  (A designer who    *)
(* staggers the rows is not covered: NextPlace looks at the last row only.)   *)
EveryChartPlaced ==
  doc.kind = "report" =>
    /\ {p.i : p \in doc.place} = {c.id : c \in Range(doc.items)}
    /\ \A p, q \in doc.place : p # q => p.i # q.i /\ ~Overlap(p, q)

(* What the script is about to write still holds everything it read that its *)
(* changes do not name: a field or chart goes only if a change deletes or     *)
(* replaces its label, or the caller asked for the report to be rebuilt; a    *)
(* page keeps the data sources people connected to it.  Two things are not    *)
(* promised, because the code does not keep them: a design whose container or *)
(* data sources are not found in the answer is rebuilt, or stripped of its    *)
(* sources, without a word from the caller; and what somebody saves in the    *)
(* designer after the read is overwritten.                                    *)
KeepsTheRest ==
  Ready /\ run.found =>
    LET named == {c.label : c \in {d \in Range(run.changes) : d.act # "add"}}
    IN /\ run.read.sources \subseteq run.next.sources
       /\ \/ run.read.kind = "report" /\ run.force /\ AllAdd(run.changes)
          \/ \A c \in Range(run.read.items) :
               c.label \in named \/ (\E d \in Range(run.next.items) : d.id = c.id)

(* An update loses nothing of a design it could read that it does not name,   *)
(* and breaks no layout.                                                      *)
DesignKept == EveryChartPlaced /\ KeepsTheRest
=============================================================================
