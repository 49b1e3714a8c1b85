------------------------------ MODULE LongJobs ------------------------------
(***************************************************************************)
(* Clients of a job that outlives one call: the export and the import of   *)
(* an AI table, the creation of an AI application, a question to Hermes,   *)
(* the relay's own command line (run, wait, stream), and the uploads a     *)
(* service has to be told about.  Every call may be lost on the way, be    *)
(* carried out although its answer is lost, or time out.                   *)
(***************************************************************************)
EXTENDS Naturals

CONSTANTS MaxPolls,  \* polls before a client gives up
          Retries    \* reconnections of the Hermes client

VARIABLES kind,      \* the client that runs
          pc,        \* its next call
          known,     \* it was told an id to ask for the job with
          polls,     \* polls, or reconnections, so far
          job,       \* the job as the service has it
          stored,    \* the client's file is in the service's store
          file,      \* a result was written to the local disk
          outcome    \* what the client reports

vars == <<kind, pc, known, polls, job, stored, file, outcome>>

Starters == {"export", "app", "run"}            \* start a job and poll it
Watchers == {"wait", "stream"}                  \* are told its id
Puts     == {"import", "attach"}                \* ask for a place, then put a file
OneCall  == {"hermes", "upload", "download"}
Kinds    == Starters \cup Watchers \cup Puts \cup OneCall

Ended == {"finished", "failed"}

Init ==
  /\ kind \in Kinds
  /\ pc = CASE kind \in Starters -> "start" [] kind \in Watchers -> "poll"
            [] kind \in Puts -> "prepare" [] OTHER -> "ask"
  /\ job = IF kind \in Watchers THEN "working" ELSE "none"
  /\ known = (kind \in Watchers)
  /\ polls = 0 /\ stored = (kind = "download") /\ file = FALSE /\ outcome = "none"

Report(what) == pc' = "over" /\ outcome' = what
Goes(next)   == pc' = next /\ UNCHANGED outcome

(* The service works on the job at its own pace.                             *)
Work ==
  /\ job = "working" /\ job' \in Ended
  /\ UNCHANGED <<kind, pc, known, polls, stored, file, outcome>>

(* The job is started; the answer names it, or not, or is lost; the answer   *)
(* to an export may already carry the address of the result.                 *)
Start ==
  /\ pc = "start"
  /\ \/ Report("error") /\ UNCHANGED <<job, known>>
     \/ /\ job' = "working"
        /\ \/ Report("error") /\ UNCHANGED known
           \/ /\ known' \in IF kind = "run" THEN {TRUE} ELSE BOOLEAN
              /\ Goes("poll")
     \/ kind = "export" /\ job' = "finished" /\ known' \in BOOLEAN /\ Goes("fetch")
  /\ UNCHANGED <<kind, polls, stored, file>>

(* The bug a mutant plants: after the last poll the client goes on to fetch. *)
PollExportAnyway ==
  /\ pc = "poll" /\ kind = "export"
  /\ \/ ~known /\ Report("pending") /\ UNCHANGED polls
     \/ polls = MaxPolls /\ Goes("fetch") /\ UNCHANGED polls
     \/ /\ known /\ polls < MaxPolls /\ polls' = polls + 1
        /\ \/ Report("error")
           \/ Goes("poll")
           \/ job = "finished" /\ Goes("fetch")
  /\ UNCHANGED <<kind, known, job, stored, file>>

(* The export is over when an answer carries the address of the result; a   *)
(* poll that fails ends the client, and so does its last poll.               *)
PollExport ==
  /\ pc = "poll" /\ kind = "export"
  /\ \/ ~known /\ Report("pending") /\ UNCHANGED polls
     \/ polls = MaxPolls /\ Report("pending") /\ UNCHANGED polls
     \/ /\ known /\ polls < MaxPolls /\ polls' = polls + 1
        /\ \/ Report("error")
           \/ Goes("poll")
           \/ job = "finished" /\ Goes("fetch")
  /\ UNCHANGED <<kind, known, job, stored, file>>

(* The result is downloaded, unless the caller only wanted its address.      *)
Fetch ==
  /\ pc = "fetch"
  /\ \/ Report("error") /\ UNCHANGED file
     \/ Report("success") /\ file' \in BOOLEAN
  /\ UNCHANGED <<kind, known, polls, job, stored>>

(* A query that fails is only counted; without an id every query fails.  The *)
(* client that runs out of time says that the job may go on, and exits 0.    *)
PollApp ==
  /\ pc = "poll" /\ kind = "app"
  /\ \/ polls = MaxPolls /\ Report("pending") /\ UNCHANGED polls
     \/ /\ polls < MaxPolls /\ polls' = polls + 1
        /\ \/ Goes("poll")
           \/ known /\ job = "finished" /\ Report("success")
           \/ known /\ job = "failed" /\ Report("error")
  /\ UNCHANGED <<kind, known, job, stored, file>>

(* The relay's client asks until the task has ended or the deadline passed;  *)
(* an answer other than 401 that is no task is asked again.                  *)
AskTask ==
  /\ UNCHANGED <<kind, known, job, stored, file>>
  /\ \/ polls = MaxPolls /\ Report("pending") /\ UNCHANGED polls
     \/ /\ polls < MaxPolls /\ polls' = polls + 1
        /\ \/ Report("error")
           \/ Goes("poll")
           \/ job \in Ended /\ Report("final")

Wait == pc = "poll" /\ kind = "wait" /\ AskTask
Run  == pc = "poll" /\ kind = "run" /\ AskTask

(* A stream that breaks off or passes the deadline ends the client without   *)
(* an error, and without a final status.                                     *)
Stream ==
  /\ pc = "poll" /\ kind = "stream"
  /\ \/ Report("error") \/ Report("ended")
     \/ job \in Ended /\ Report("final")
  /\ UNCHANGED <<kind, known, polls, job, stored, file>>

(* A place for the file is asked for, for an import ...                      *)
Prepare ==
  /\ pc = "prepare" /\ kind = "import"
  /\ (Report("error") \/ Goes("put"))
  /\ UNCHANGED <<kind, known, polls, job, stored, file>>

(* ... or for an attachment; its token is known before the file is stored.   *)
PrepareAttachment ==
  /\ pc = "prepare" /\ kind = "attach"
  /\ \/ Report("error") /\ UNCHANGED known
     \/ known' = TRUE /\ Goes("put")
  /\ UNCHANGED <<kind, polls, job, stored, file>>

(* The attachment is put where the service said; only status 200 counts, and *)
(* only then is the token told.                                              *)
PutAttachment ==
  /\ pc = "put" /\ kind = "attach"
  /\ \/ Report("error") /\ stored' \in BOOLEAN
     \/ Report("success") /\ stored' = TRUE
  /\ UNCHANGED <<kind, known, polls, job, file>>

(* The file to import likewise.                                              *)
Put ==
  /\ pc = "put" /\ kind = "import"
  /\ \/ Report("error") /\ stored' \in BOOLEAN
     \/ Goes("trigger") /\ stored' = TRUE
  /\ UNCHANGED <<kind, known, polls, job, file>>

(* The import waits for the service, which answers with the status it has    *)
(* reached by then; whatever is not success is exit status 2.                *)
Trigger ==
  /\ pc = "trigger"
  /\ \/ Report("error") /\ job' \in {"none", "working"}
     \/ \E s \in {"working", "finished", "failed"} :
          job' = s /\ Report(IF s = "finished" THEN "success" ELSE "unfinished")
  /\ UNCHANGED <<kind, known, polls, stored, file>>

(* A question is one POST.  A connection that breaks, before the service got *)
(* the question or after, is tried again: the question is then asked again.  *)
(* A stream that breaks off is an answer, whole or not.                      *)
Ask ==
  /\ pc = "ask" /\ kind = "hermes"
  /\ \/ /\ job' \in {job, "working"}
        /\ IF polls < Retries THEN polls' = polls + 1 /\ Goes("ask")
           ELSE Report("error") /\ UNCHANGED polls
     \/ Report("error") /\ UNCHANGED <<job, polls>>
     \/ job' = "finished" /\ Report("success") /\ UNCHANGED polls
     \/ job' = "failed" /\ Report("ended") /\ UNCHANGED polls
  /\ UNCHANGED <<kind, known, stored, file>>

Upload ==
  /\ pc = "ask" /\ kind = "upload"
  /\ \/ Report("error") /\ stored' \in BOOLEAN
     \/ Report("success") /\ stored' = TRUE
  /\ UNCHANGED <<kind, known, polls, job, file>>

Download ==
  /\ pc = "ask" /\ kind = "download"
  /\ \/ Report("error") /\ UNCHANGED file
     \/ Report("success") /\ file' = TRUE
  /\ UNCHANGED <<kind, known, polls, job, stored>>

Next == Work \/ Start \/ PollExport \/ Fetch \/ PollApp \/ Wait \/ Run \/ Stream
        \/ Prepare \/ PrepareAttachment \/ Put \/ PutAttachment \/ Trigger \/ Ask \/ Upload \/ Download

Spec == Init /\ [][Next]_vars

-----------------------------------------------------------------------------
(* What a client reports as done is done, whatever was lost, repeated or    *)
(* given up on the way: a success stands for a finished job or a file the   *)
(* service has, a final status for a job that has ended, and a local file   *)
(* for a result that was there to fetch.                                    *)
ReportedIsDone ==
  /\ outcome = "success" =>
       IF kind \in {"attach", "upload", "download"} THEN stored ELSE job = "finished"
  /\ outcome = "final" => job \in Ended
  /\ file => job = "finished" \/ kind = "download"
=============================================================================
