------------------------------ MODULE MCTools ------------------------------
(* Scripts of the skills and the installer side by side: the batch writes, *)
(* provision.sh, the clients of long jobs and the scripts that rewrite a   *)
(* design.  They share no state.  MCScripts runs them with the rest on     *)
(* small inputs; ScriptsProofs has their theorems, for any values of these *)
(* constants.                                                              *)
EXTENDS BatchWrites

CONSTANTS Version, Healthy, Edit, MaxMinute, MaxInstalls,   \* Provision
          MaxPolls, Retries,                                \* LongJobs
          Labels, Sizes, MaxUpdates, MaxCharts, MaxChanges  \* DesignUpdate

ASSUME ToolsAssumption ==
    /\ MaxMinute \in Nat /\ MaxInstalls \in Nat
    /\ MaxPolls \in Nat /\ Retries \in Nat

\* A version of the resource tree is none of the other contents of a file.
ASSUME VersionAssumption ==
    /\ {"missing", "part"} \cap (Version \cup Edit) = {}
    /\ Version \cap Edit = {} /\ Healthy \subseteq Version

\* There is a label, and a chart takes up space on the grid.
ASSUME DesignAssumption ==
    /\ MaxUpdates \in Nat /\ MaxCharts \in Nat /\ MaxChanges \in Nat
    /\ Labels # {} /\ "no table" \notin Labels
    /\ Sizes \subseteq [w : Nat \ {0}, h : Nat \ {0}]

VARIABLES tree, disk, bak, loaded, service, socat, archive, minute, at, runs, lost, unsaved, hurt, synced, shared, clean
P == INSTANCE Provision WITH file <- disk, MaxRuns <- MaxInstalls
pvars == <<tree, disk, bak, loaded, service, socat, archive, minute, at, runs, lost, unsaved, hurt,
           synced, shared, clean>>

VARIABLES client, call, known, polls, job, stored, result, outcome
J == INSTANCE LongJobs WITH kind <- client, pc <- call, file <- result
jvars == <<client, call, known, polls, job, stored, result, outcome>>

VARIABLES doc, change, designed
D == INSTANCE DesignUpdate WITH run <- change, MaxRuns <- MaxUpdates, MaxItems <- MaxCharts
dvars == <<doc, change, designed>>

---------------------------------------------------------------------------
(* Their properties; those of BatchWrites have their own names here.       *)

\* Between two updates nothing that ran before is lost: a local version is
\* saved before it is replaced, and an update of nothing changes nothing.
ProvisionSafe == P!ProvisionSafe

\* A job that is reported done is done, and its file is what was asked for.
ReportedIsDone == J!ReportedIsDone

\* An update of a design leaves what the changes do not name as it was, and
\* gives every chart a place of its own.
DesignKept == D!DesignKept
=============================================================================
