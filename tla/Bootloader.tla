----------------------------- MODULE Bootloader -----------------------------
(***************************************************************************)
(* boot/boot.sh: a tick of the timer or POST /admin/update compares the    *)
(* remote head with the release the link names, and deploys (clone, gate,  *)
(* install, switch, restart, health check, roll back, prune) or guards the *)
(* service.  The two entries are different systemd units and may overlap.  *)
(* A run may be killed and the machine may go down between any two         *)
(* commands, and in the middle of an rm -rf: half a release is then left,  *)
(* which the next round takes for a whole one.  The operator may roll back.*)
(***************************************************************************)
EXTENDS Naturals, FiniteSets

CONSTANTS
    Sha,            \* commits
    Sound,          \* those whose service passes its tests and gets healthy
    Proc,           \* the entries: the timer's unit, the manual unit
    Timer,
    Keep,           \* KEEP of boot.env
    MaxMoves,       \* bound: moves of the head
    MaxTrouble,     \* bound: kills, reboots, stops, rollbacks, manual runs
    MaxOverlaps     \* bound: runs that begin while another is active

None == "none"
OldDir == "directory"       \* the link is still a real directory
PreGit == "pre-git"         \* the release made of it
Dot == "."                  \* what `readlink -f' makes of a dangling link
Name == Sha \cup {PreGit}

ASSUME BootAssumption ==
    /\ Sha \cap {None, OldDir, PreGit, Dot} = {}
    /\ Sound \subseteq Sha /\ Timer \in Proc /\ Keep \in Nat \ {0}
    /\ MaxMoves \in Nat /\ MaxTrouble \in Nat /\ MaxOverlaps \in Nat

VARIABLES
    remote,     \* the head of the branch
    rel,        \* RELEASE_ROOT: whether a release is there, and all of it
    older,      \* their times: the pairs <<m, n>> with m older than n
    tmp,        \* .tmp-<sha>: "none", "part" while cloning or testing, "ready"
    link,       \* what CURRENT_LINK names
    unit,       \* the release the running service was started from
    pc, sha, prev,      \* of each run
    doomed,     \* of each run: the releases it still has to remove
    left,       \* of the bounds
    start,      \* history: the link when the run began
    overlap,    \* history: two runs were active at once
    served,     \* history: a deployment has succeeded
    misled,     \* history: the link was switched to half a release
    stale       \* history: a run ended between its switch and its restart,
                \* and the service was not started from the link since

run == <<pc, sha, prev, doomed, start>>
vars == <<remote, rel, older, tmp, link, unit, run, left, overlap, served,
          misled, stale>>

Has(n) == n \in Name /\ rel[n] # "none"
Whole(n) == n \in Name /\ rel[n] = "whole"
Releases == {n \in Name : Has(n)}
Newer(n, S) == {m \in S : <<n, m>> \in older}

Add(n, state) ==
    /\ rel' = [rel EXCEPT ![n] = state]
    /\ older' = older \cup (Releases \X {n})

\* What rm -rf does to a release on its way, and in the end: removing a file
\* at its top makes it the newest.
Halve(n, touched) ==
    /\ rel' = [rel EXCEPT ![n] = "part"]
    /\ older' = IF touched
                THEN (older \ ({n} \X Releases)) \cup ((Releases \ {n}) \X {n})
                ELSE older
Drop(n) ==
    /\ rel' = [rel EXCEPT ![n] = "none"]
    /\ older' = older \cap ((Name \ {n}) \X (Name \ {n}))

CurrentByName == IF link \in Name THEN link ELSE None

\* current_sha: empty when there is no link; a link to a removed release
\* reads as "." (readlink -f fails), which is no commit either.
Current == IF link \in Name THEN (IF Has(link) THEN link ELSE Dot) ELSE None

\* systemctl start and restart: the service starts if the link leads to its
\* program, which half a release may have lost.
Started(n) ==
    IF n = OldDir \/ Whole(n) THEN {n} ELSE IF Has(n) THEN {n, None} ELSE {None}

\* A service that is up answers /health; one of an unsound release does not,
\* and any may be too slow for wait_healthy.
Answers(n) == n \in Sound \cup {PreGit, OldDir}

Init ==
    /\ remote \in Sha
    /\ rel = [n \in Name |-> "none"] /\ older = {} /\ tmp = [s \in Sha |-> "none"]
    /\ link \in {None, OldDir}
    /\ unit = IF link = OldDir THEN OldDir ELSE None
    /\ pc = [p \in Proc |-> "idle"] /\ sha = [p \in Proc |-> None] /\ prev = [p \in Proc |-> None]
    /\ doomed = [p \in Proc |-> {}] /\ start = [p \in Proc |-> None]
    /\ left = [moves |-> MaxMoves, trouble |-> MaxTrouble, overlaps |-> MaxOverlaps]
    /\ overlap = FALSE /\ served = FALSE /\ misled = FALSE /\ stale = FALSE

Goto(p, l) == pc' = [pc EXCEPT ![p] = l] /\ UNCHANGED <<sha, prev, doomed, start>>
End(p) ==
    /\ pc' = [pc EXCEPT ![p] = "idle"]
    /\ sha' = [sha EXCEPT ![p] = None]
    /\ prev' = [prev EXCEPT ![p] = None]
    /\ doomed' = [doomed EXCEPT ![p] = {}]
    /\ start' = [start EXCEPT ![p] = None]
releases == <<rel, older>>
files == <<releases, tmp, link>>
seen == <<overlap, served, misled, stale>>
history == <<left, seen>>

\* Between the rename of the link and `systemctl restart'.
Restarts == {"restart", "restart back", "restart by hand"}

---------------------------------------------------------------------------
(* The world                                                               *)

Push ==
    /\ left.moves > 0
    /\ \E s \in Sha : s # remote /\ remote' = s
    /\ left' = [left EXCEPT !.moves = @ - 1]
    /\ UNCHANGED files /\ UNCHANGED run /\ UNCHANGED <<unit, seen>>

\* A run is killed (TimeoutStartSec, an operator).
Kill(p) ==
    /\ pc[p] # "idle" /\ left.trouble > 0
    /\ left' = [left EXCEPT !.trouble = @ - 1]
    /\ End(p)
    /\ stale' = (stale \/ pc[p] \in Restarts)
    /\ UNCHANGED files /\ UNCHANGED <<remote, unit, overlap, served, misled>>

StartFrom(n) == unit' \in Started(n) /\ stale' = FALSE

\* The machine goes down; systemd starts the service from the link again.
Reboot ==
    /\ left.trouble > 0
    /\ left' = [left EXCEPT !.trouble = @ - 1]
    /\ pc' = [p \in Proc |-> "idle"]
    /\ sha' = [p \in Proc |-> None] /\ prev' = [p \in Proc |-> None]
    /\ doomed' = [p \in Proc |-> {}] /\ start' = [p \in Proc |-> None]
    /\ StartFrom(link)
    /\ UNCHANGED files /\ UNCHANGED <<remote, overlap, served, misled>>

\* The service is stopped or dies for good.
ServiceStops ==
    /\ unit # None /\ left.trouble > 0
    /\ left' = [left EXCEPT !.trouble = @ - 1]
    /\ unit' = None
    /\ UNCHANGED files /\ UNCHANGED run /\ UNCHANGED <<remote, seen>>

---------------------------------------------------------------------------
(* cmd_boot                                                                *)

\* A run begins, perhaps while another is active.
Spends(p, n) ==
    LET others == \E q \in Proc \ {p} : pc[q] # "idle"
        m == IF others THEN 1 ELSE 0 IN
    /\ n <= left.trouble /\ m <= left.overlaps
    /\ left' = [left EXCEPT !.trouble = @ - n, !.overlaps = @ - m]
    /\ overlap' = (overlap \/ others)

\* remote_sha answers with the head or not at all.
Begin(p, answer) ==
    /\ pc[p] = "idle"
    /\ answer \in {remote, None}
    /\ Spends(p, IF p = Timer THEN 0 ELSE 1)
    /\ IF answer \in {None, Current}
       THEN Goto(p, "guard")
       ELSE /\ pc' = [pc EXCEPT ![p] = "migrate"]
            /\ sha' = [sha EXCEPT ![p] = answer]
            /\ start' = [start EXCEPT ![p] = link]
            /\ UNCHANGED <<prev, doomed>>
    /\ UNCHANGED files /\ UNCHANGED <<remote, unit, served, misled, stale>>

\* migrate_if_needed: the directory becomes a release (its service runs on);
\* between `mv' and `ln' there is neither directory nor link.
Migrate(p) ==
    /\ pc[p] = "migrate"
    /\ IF link = OldDir
       THEN /\ Add(PreGit, "whole")
            /\ link' = None
            /\ Goto(p, "relink")
       ELSE UNCHANGED <<releases, link>> /\ Goto(p, "fetch")
    /\ unit' = IF unit = OldDir /\ link = OldDir THEN PreGit ELSE unit
    /\ UNCHANGED <<remote, tmp>> /\ UNCHANGED history

Relink(p) ==
    /\ pc[p] = "relink"
    /\ link' = PreGit
    /\ Goto(p, "fetch")
    /\ UNCHANGED <<remote, releases, tmp, unit>> /\ UNCHANGED history

\* deploy: an existing release is used as it is, else the clone begins anew.
Fetch(p) ==
    /\ pc[p] = "fetch"
    /\ IF Has(sha[p])
       THEN UNCHANGED tmp /\ Goto(p, "switch")
       ELSE tmp' = [tmp EXCEPT ![sha[p]] = "part"] /\ Goto(p, "gate")
    /\ UNCHANGED <<remote, releases, link, unit>> /\ UNCHANGED history

\* The clone has to be the commit asked for and pass pip and the tests;
\* otherwise the attempt ends with an alert and nothing has changed.
GatePasses(p) ==
    /\ pc[p] = "gate" /\ sha[p] = remote
    /\ tmp[sha[p]] # "none"
    /\ tmp' = [tmp EXCEPT ![sha[p]] = "ready"]
    /\ Goto(p, "install")
    /\ UNCHANGED <<remote, releases, link, unit>> /\ UNCHANGED history

GateFails(p) ==
    /\ pc[p] = "gate"
    /\ tmp' = [tmp EXCEPT ![sha[p]] = "none"]
    /\ End(p)
    /\ UNCHANGED <<remote, releases, link, unit>> /\ UNCHANGED history

\* mv .tmp-<sha> <sha>: what is there, an overlapping run's half clone too;
\* nothing if that run took or removed it.
Install(p) ==
    /\ pc[p] = "install"
    /\ IF tmp[sha[p]] = "none" \/ Has(sha[p])
       THEN UNCHANGED releases
       ELSE Add(sha[p], IF tmp[sha[p]] = "ready" THEN "whole" ELSE "part")
    /\ tmp' = [tmp EXCEPT ![sha[p]] = "none"]
    /\ Goto(p, "switch")
    /\ UNCHANGED <<remote, link, unit>> /\ UNCHANGED history

\* switch_to: the link is replaced by one rename.
Switch(n) == link' = n /\ misled' = (misled \/ (Has(n) /\ ~Whole(n)))

RenameThenRead(p) ==
    /\ pc[p] = "switch"
    /\ prev' = [prev EXCEPT ![p] = sha[p]]
    /\ Switch(sha[p])
    /\ pc' = [pc EXCEPT ![p] = "restart"]
    /\ UNCHANGED <<remote, releases, tmp, unit, sha, doomed, start>>
    /\ UNCHANGED <<left, overlap, served, stale>>

\* prev is read and the link renamed.
Rename(p) ==
    /\ pc[p] = "switch"
    /\ prev' = [prev EXCEPT ![p] = Current]
    /\ Switch(sha[p])
    /\ pc' = [pc EXCEPT ![p] = "restart"]
    /\ UNCHANGED <<remote, releases, tmp, unit, sha, doomed, start>>
    /\ UNCHANGED <<left, overlap, served, stale>>

\* systemctl restart, after each of the three renames.
Restart(p) ==
    /\ pc[p] \in Restarts
    /\ StartFrom(link)
    /\ CASE pc[p] = "restart" -> Goto(p, "health")
         [] pc[p] = "restart back" -> Goto(p, "discard")
         [] OTHER -> End(p)
    /\ UNCHANGED files /\ UNCHANGED <<remote, left, overlap, served, misled>>

PrunedByAge(cur) == {n \in Releases : Cardinality(Newer(n, Releases)) < Keep}

\* prune: the current release and the newest Keep - 1 others stay.
Pruned(cur) ==
    {n \in Releases : n = cur \/ Cardinality(Newer(n, Releases \ {cur})) < Keep - 1}

\* The version answers: boot.sh is taken from the release, and prune lists
\* the old ones.
HealthPasses(p) ==
    /\ pc[p] = "health" /\ unit = sha[p] /\ Answers(unit)
    /\ doomed' = [doomed EXCEPT ![p] = Releases \ Pruned(Current)]
    /\ pc' = [pc EXCEPT ![p] = "prune"]
    /\ sha' = [sha EXCEPT ![p] = None]
    /\ prev' = [prev EXCEPT ![p] = None]
    /\ start' = [start EXCEPT ![p] = None]
    /\ served' = TRUE
    /\ UNCHANGED files /\ UNCHANGED <<remote, unit, left, overlap, misled, stale>>

HealthFails(p) ==
    /\ pc[p] = "health"
    /\ Goto(p, "rollback")
    /\ UNCHANGED files /\ UNCHANGED <<remote, unit>> /\ UNCHANGED history

\* Back to prev if its service's directory is there, which half a release may
\* have lost; without it the link stays.  Then sha is removed.
RollBack(p, there) ==
    /\ pc[p] = "rollback"
    /\ there => Has(prev[p])
    /\ Whole(prev[p]) => there
    /\ doomed' = [doomed EXCEPT ![p] = Releases \cap {sha[p]}]
    /\ IF there
       THEN Switch(prev[p]) /\ pc' = [pc EXCEPT ![p] = "restart back"]
       ELSE UNCHANGED <<link, misled>> /\ pc' = [pc EXCEPT ![p] = "discard"]
    /\ prev' = [prev EXCEPT ![p] = None]
    /\ UNCHANGED <<remote, releases, tmp, unit, sha, start, left, overlap, served, stale>>

\* rm -rf of deploy and of prune, one release after the other.
RemoveSome(p) ==
    /\ pc[p] \in {"prune", "discard"}
    /\ \E n \in doomed[p], touched \in BOOLEAN : Whole(n) /\ Halve(n, touched)
    /\ UNCHANGED <<remote, tmp, link, unit>> /\ UNCHANGED run /\ UNCHANGED history

Remove(p) ==
    /\ pc[p] \in {"prune", "discard"}
    /\ \E n \in doomed[p] :
          /\ ~Whole(n)
          /\ Drop(n)
          /\ doomed' = [doomed EXCEPT ![p] = @ \ {n}]
    /\ UNCHANGED <<remote, tmp, link, unit, pc, sha, prev, start>> /\ UNCHANGED history

Pruning(p) ==
    /\ pc[p] = "prune" /\ doomed[p] = {}
    /\ Goto(p, "provision")
    /\ UNCHANGED files /\ UNCHANGED <<remote, unit>> /\ UNCHANGED history

\* deploy returns 1: an alert, and the script ends.
Discard(p) ==
    /\ pc[p] = "discard" /\ doomed[p] = {}
    /\ End(p)
    /\ UNCHANGED files /\ UNCHANGED <<remote, unit>> /\ UNCHANGED history

\* No update: boot.sh is compared with the release, a stopped service started,
\* one that does not answer restarted.  A failing restart ends the script
\* (set -e) before provisioning.
Guard(p, healthy) ==
    /\ pc[p] = "guard"
    /\ IF healthy
       THEN /\ IF unit = None THEN StartFrom(link) ELSE UNCHANGED <<unit, stale>>
            /\ Answers(unit')
            /\ Goto(p, "provision")
       ELSE /\ StartFrom(link)
            /\ IF unit' = None THEN End(p) ELSE Goto(p, "provision")
    /\ UNCHANGED files /\ UNCHANGED <<remote, left, overlap, served, misled>>

\* run_provision, whose result only decides about an alert.
Provision(p) ==
    /\ pc[p] = "provision"
    /\ End(p)
    /\ UNCHANGED files /\ UNCHANGED <<remote, unit>> /\ UNCHANGED history

\* cmd_rollback of an operator: the newest other release.
OperatorRollsBack(p) ==
    /\ pc[p] = "idle" /\ p # Timer
    /\ Spends(p, 1)
    /\ LET others == Releases \ {Current} IN
       \E n \in others : Newer(n, others) = {} /\ Switch(n)
    /\ pc' = [pc EXCEPT ![p] = "restart by hand"]
    /\ UNCHANGED <<remote, releases, tmp, unit, sha, prev, doomed, start, served, stale>>

Step(p) ==
    \/ Migrate(p) \/ Relink(p) \/ Fetch(p) \/ GatePasses(p) \/ GateFails(p) \/ Install(p)
    \/ Rename(p) \/ Restart(p) \/ HealthPasses(p) \/ HealthFails(p)
    \/ RemoveSome(p) \/ Remove(p) \/ Pruning(p) \/ Discard(p) \/ Provision(p)
    \/ \E b \in BOOLEAN : Guard(p, b) \/ RollBack(p, b)

Next ==
    \/ Push \/ Reboot \/ ServiceStops
    \/ \E p \in Proc :
          \/ Kill(p) \/ Step(p) \/ OperatorRollsBack(p)
          \/ Begin(p, remote) \/ Begin(p, None)

Spec == Init /\ [][Next]_vars

\* Scripts run on, the timer ticks, and what can work does so in the end:
\* the remote answers, a clone of a sound head passes, its service is up in
\* time.  Nobody has to press /admin/update.
Fairness ==
    /\ \A p \in Proc : WF_vars(Step(p)) /\ SF_vars(GatePasses(p)) /\ SF_vars(HealthPasses(p))
    /\ SF_vars(Begin(Timer, remote))

FairSpec == Spec /\ Fairness

---------------------------------------------------------------------------
(* Properties                                                              *)

TypeOK ==
    /\ remote \in Sha /\ tmp \in [Sha -> {"none", "part", "ready"}]
    /\ rel \in [Name -> {"none", "part", "whole"}]
    /\ older \subseteq Releases \X Releases
    /\ \A m, n \in Releases : m # n => (<<m, n>> \in older <=> <<n, m>> \notin older)
    /\ link \in Name \cup {None, OldDir} /\ unit \in Name \cup {None, OldDir}
    /\ sha \in [Proc -> Sha \cup {None}] /\ prev \in [Proc -> Name \cup {None, Dot}]

\* Once a deployment has succeeded, the link names a release that is there
\* and whole, through failed deployments, prunes, rollbacks, kills and
\* reboots at any command and within any removal: the service can always be
\* started.  The code breaks it in two ways, which are excepted: runs that
\* overlap (one may remove the release the other has switched to), and half a
\* release, left by a removal that was cut, that `-d' took for a whole one
\* (deploy, cmd_rollback) and the link was switched to.
LinkAlive == served /\ ~overlap /\ ~misled => Whole(link)

\* A deployment that failed, at the gate or at the health check, leaves the
\* link where it was when the run began (unless runs overlapped), provided
\* that was a whole release or still the directory.  What was deployed may
\* have been half a release.
FailedDeployRestores ==
    [][\A p \in Proc :
         (/\ GateFails(p) \/ Discard(p)
          /\ ~overlap
          /\ start[p] = OldDir \/ Whole(start[p]))
         => link' = IF start[p] = OldDir THEN PreGit ELSE start[p]]_vars

\* Whatever failed, was killed or rolled back: when the head stays at a sound
\* commit, the link ends up naming it, and the machine serving it.  Excepted
\* are a run that was cut between its switch and its restart (the old service
\* is healthy, the link names the head, and later rounds only guard), as long
\* as nothing starts the service anew, and half a release of that commit, left
\* by a removal that was cut, which no round replaces once the link names it.
Converges ==
    \A s \in Sound :
       <>[](remote = s) => <>[](link = s /\ Has(s) /\ (Whole(s) => unit = s \/ stale))
=============================================================================
