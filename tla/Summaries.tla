------------------------------ MODULE Summaries ------------------------------
(***************************************************************************)
(* The scripts that list what a service holds for a person and say so: the *)
(* reports received (page after page), the to-dos of a day, the overdue    *)
(* ones, the minutes, the agenda, unread mail, pending approvals, the      *)
(* members of a department.  A call may fail, its answer may have a shape  *)
(* nobody expected, and a page may repeat what an earlier one held.        *)
(***************************************************************************)
EXTENDS Naturals, FiniteSets

CONSTANTS Items,     \* items of the service, in its order: 1 .. Items
          MaxPages   \* pages the inbox scan reads at most

VARIABLES kind,     \* the script that runs
          have,     \* the items in the window asked for; they are fixed while it runs
          pc,
          cursor,   \* the inbox scan has been given everything up to here
          pages,    \* pages read
          listed,   \* what was collected to be shown
          total,    \* how many items the script has counted
          outcome

vars == <<kind, have, pc, cursor, pages, listed, total, outcome>>

Detail == {"minutes", "pending", "dept"}      \* a list, then a call for each entry
Kinds  == {"inbox", "todo", "overdue", "agenda", "mail"} \cup Detail

Init ==
  /\ kind \in Kinds
  /\ have \in SUBSET (1 .. Items)
  /\ pc = IF kind = "mail" THEN "mailbox" ELSE "list"
  /\ cursor = 0 /\ pages = 0 /\ listed = {} /\ total = 0 /\ outcome = "none"

End(what) == pc' = "over" /\ outcome' = what

(* Items already seen are passed over.                                       *)
Collect(page) ==
  /\ listed' = listed \cup page
  /\ total' = total + Cardinality(page \ listed)

Stay == UNCHANGED <<listed, total>>

(* A page holds every item of the window between the cursor and the next     *)
(* one, and maybe earlier ones again.                                        *)
Page(next) == {p \in SUBSET (have \cap 1 .. next) : have \cap cursor + 1 .. next \subseteq p}

(* One page of the inbox.  A failed call, an answer that contradicts itself, *)
(* a cursor that does not advance, and the last page allowed when there are  *)
(* more, each end the scan with an error.                                    *)
ScanInbox ==
  /\ kind = "inbox" /\ pc = "list"
  /\ pages' = pages + 1
  /\ \/ End("error") /\ Stay /\ UNCHANGED cursor
     \/ \E next \in cursor + 1 .. Items :
          \E page \in Page(next) :
            /\ Collect(page) /\ cursor' = next
            /\ IF pages' = MaxPages THEN End("error") ELSE UNCHANGED <<pc, outcome>>
     \/ \E page \in Page(Items) :
          /\ Collect(page) /\ End("complete") /\ UNCHANGED cursor
  /\ UNCHANGED <<kind, have>>

(* A call without a usable answer: the careful scripts end with an error ... *)
Raises == End("error") /\ Stay

(* ... and the others go on as if the service had answered with nothing.     *)
ReturnsNone == End("empty") /\ Stay

(* The rows of an answer: those of an unknown shape, or without an id, are   *)
(* passed over without a word.                                               *)
Rows == SUBSET have

(* The to-dos of a day: only an answer that says it is complete will do, and *)
(* a to-do without an id is an error.                                        *)
ListTodos ==
  /\ kind = "todo" /\ pc = "list"
  /\ (Raises \/ (Collect(have) /\ End("complete")))
  /\ UNCHANGED <<kind, have, cursor, pages>>

(* The overdue ones are called complete whether the answer says so or not.   *)
ListOverdue ==
  /\ kind = "overdue" /\ pc = "list"
  /\ (Raises \/ \E part \in SUBSET have : Collect(part) /\ End("complete"))
  /\ UNCHANGED <<kind, have, cursor, pages>>

ListAgenda ==
  /\ kind = "agenda" /\ pc = "list"
  /\ (ReturnsNone \/ \E part \in Rows : Collect(part) /\ End("shown"))
  /\ UNCHANGED <<kind, have, cursor, pages>>

(* The mailbox is found first; without it the mail script gives up.          *)
FindMailbox ==
  /\ kind = "mail" /\ pc = "mailbox"
  /\ (Raises \/ (pc' = "list" /\ Stay /\ UNCHANGED outcome))
  /\ UNCHANGED <<kind, have, cursor, pages>>

ListMail ==
  /\ kind = "mail" /\ pc = "list"
  /\ (ReturnsNone \/ \E part \in Rows : Collect(part) /\ End("shown"))
  /\ UNCHANGED <<kind, have, cursor, pages>>

(* An answer's rows, if there are any, are then asked about one by one.      *)
Entries ==
  \E part \in Rows \ {{}} :
    /\ total' = Cardinality(part) /\ pc' = "details"
    /\ UNCHANGED <<listed, outcome>>

ListMinutes ==
  /\ kind = "minutes" /\ pc = "list" /\ (Raises \/ ReturnsNone \/ Entries)
  /\ UNCHANGED <<kind, have, cursor, pages>>

ListPending ==
  /\ kind = "pending" /\ pc = "list" /\ (ReturnsNone \/ Entries)
  /\ UNCHANGED <<kind, have, cursor, pages>>

(* A department that cannot be found, and one that is not there, are an error. *)
ListDepartments ==
  /\ kind = "dept" /\ pc = "list" /\ (Raises \/ Entries)
  /\ UNCHANGED <<kind, have, cursor, pages>>

(* One entry is shown; that its own call failed is shown in its place.       *)
ShowEntry == \E i \in have \ listed : listed' = listed \cup {i} /\ UNCHANGED <<pc, outcome>>

ShowDetails ==
  /\ kind \in {"pending", "dept"} /\ pc = "details"
  /\ IF Cardinality(listed) = total THEN End("shown") /\ UNCHANGED listed ELSE ShowEntry
  /\ UNCHANGED <<kind, have, cursor, pages, total>>

(* A summary of the minutes that cannot be had ends the script; nothing that *)
(* was collected is written.                                                 *)
WriteMinutes ==
  /\ kind = "minutes" /\ pc = "details"
  /\ IF Cardinality(listed) = total
     THEN End("shown") /\ UNCHANGED listed
     ELSE ShowEntry \/ (End("error") /\ UNCHANGED listed)
  /\ UNCHANGED <<kind, have, cursor, pages, total>>

Next == \/ ScanInbox \/ ListTodos \/ ListOverdue \/ ListAgenda
        \/ FindMailbox \/ ListMail
        \/ ListMinutes \/ ListPending \/ ListDepartments \/ ShowDetails \/ WriteMinutes

Spec == Init /\ [][Next]_vars

-----------------------------------------------------------------------------
(* What is called complete is: the inbox after any number of pages that     *)
(* overlap, and a day's to-dos, hold every item of the window, each counted  *)
(* once; and what is shown with its details is as long as the list was.      *)
CompleteIsWhole ==
  /\ outcome = "complete" /\ kind \in {"inbox", "todo"} => listed = have
  /\ outcome \in {"complete", "shown"} => total = Cardinality(listed)
=============================================================================
