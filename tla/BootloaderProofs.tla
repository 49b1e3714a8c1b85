-------------------------- MODULE BootloaderProofs --------------------------
(***************************************************************************)
(* A machine that has been deployed to once keeps a link to a whole        *)
(* release until the code takes half a release for a whole one, and a      *)
(* deployment that failed leaves the link where it was, for any commits,   *)
(* entries and number of kept releases, with runs cut at any command and   *)
(* within any removal, as long as no two runs overlap.                     *)
(***************************************************************************)
EXTENDS Bootloader, TLAPS

Early == {"fetch", "gate", "install", "switch"}
Late == {"restart", "health", "rollback"}
Ending == {"restart back", "discard"}
Deploys == {"migrate", "relink"} \cup Early \cup Late \cup Ending

\* The types the proofs need.
Typed ==
    /\ remote \in Sha /\ rel \in [Name -> {"none", "part", "whole"}] /\ DOMAIN tmp = Sha
    /\ DOMAIN pc = Proc /\ DOMAIN sha = Proc /\ DOMAIN prev = Proc /\ DOMAIN start = Proc
    /\ DOMAIN doomed = Proc
    /\ overlap \in BOOLEAN /\ served \in BOOLEAN /\ misled \in BOOLEAN

\* Runs that never overlapped: there is at most one.
Solo == ~overlap => \A p, q \in Proc : pc[p] # "idle" /\ pc[q] # "idle" => p = q

\* What the link was, once it is a link.
Before(p) == IF start[p] = OldDir THEN PreGit ELSE start[p]

\* A machine that has been deployed to and was not misled by half a release.
Sure == served /\ ~misled

\* What a deployment knows at each of its places: where it can go back to,
\* and that neither it nor prune removes what the link of such a machine names.
Deploying(p) ==
    /\ pc[p] \in Deploys => sha[p] \in Sha
    /\ pc[p] = "migrate" => link = start[p] /\ (Sure => link # sha[p])
    /\ pc[p] = "relink" => start[p] = OldDir /\ Whole(PreGit) /\ ~Sure
    /\ pc[p] \in Early =>
          /\ link = Before(p) /\ (start[p] = OldDir => Whole(PreGit))
          /\ Sure => link # sha[p]
    /\ pc[p] = "install" => tmp[sha[p]] = "ready"
    /\ pc[p] = "switch" => Has(sha[p])
    /\ pc[p] \in Late =>
          /\ start[p] = OldDir => prev[p] = PreGit /\ Whole(PreGit)
          /\ start[p] # OldDir /\ Whole(start[p]) => prev[p] = start[p]
          /\ link = sha[p] /\ (~misled => Whole(link))
          /\ Sure => Whole(prev[p]) /\ prev[p] # sha[p]
    /\ pc[p] \in Ending =>
          /\ start[p] = OldDir \/ Whole(start[p]) => link = Before(p)
          /\ doomed[p] \subseteq {sha[p]}
          /\ Sure => link # sha[p]
    /\ pc[p] = "prune" => (~misled => link \notin doomed[p])

DeployInv == ~overlap => \A p \in Proc : Deploying(p)

IInv == Typed /\ Solo /\ DeployInv /\ LinkAlive

USE BootAssumption DEF run, releases, files, history, seen

\* A machine before its first round satisfies the invariant.
LEMMA InitIInv == Init => IInv
BY DEF Init, IInv, Typed, Solo, DeployInv, Deploying, Deploys, Early, Late, Ending, LinkAlive,
       Name, PreGit

\* Every action keeps the types.
LEMMA TypedStep == ASSUME Typed, [Next]_vars PROVE Typed'
<1> USE DEF Typed
<1>1. CASE Push \/ Reboot \/ ServiceStops
  BY <1>1 DEF Push, Reboot, ServiceStops
<1>2. ASSUME NEW p \in Proc, Kill(p) \/ Begin(p, remote) \/ Begin(p, None) \/ OperatorRollsBack(p)
      PROVE  Typed'
  BY <1>2 DEF Kill, Begin, End, Goto, Spends, OperatorRollsBack, Switch
<1>3. ASSUME NEW p \in Proc, Step(p) PROVE Typed'
  <2>1. CASE Migrate(p) \/ Relink(p) \/ Fetch(p) \/ GatePasses(p) \/ GateFails(p) \/ Install(p)
    BY <2>1 DEF Migrate, Relink, Fetch, GatePasses, GateFails, Install, Goto, End, Add
  <2>2. CASE Rename(p) \/ Restart(p) \/ HealthPasses(p) \/ HealthFails(p)
    BY <2>2 DEF Rename, Restart, HealthPasses, HealthFails, Switch, Goto, End
  <2>3. CASE RemoveSome(p) \/ Remove(p)
    BY <2>3 DEF RemoveSome, Remove, Halve, Drop
  <2>4. CASE Pruning(p) \/ Discard(p) \/ Provision(p)
    BY <2>4 DEF Pruning, Discard, Provision, Goto, End
  <2>5. ASSUME NEW b \in BOOLEAN, Guard(p, b) \/ RollBack(p, b) PROVE Typed'
    BY <2>5 DEF Guard, RollBack, Goto, End, Switch
  <2> QED
    BY <1>3, <2>1, <2>2, <2>3, <2>4, <2>5 DEF Step
<1>4. CASE UNCHANGED vars
  BY <1>4 DEF vars
<1> HIDE DEF Typed
<1> QED
  BY <1>1, <1>2, <1>3, <1>4 DEF Next

\* A step is taken by a run that has begun, and moves that run only.
LEMMA StepMoves ==
    ASSUME Typed, NEW q \in Proc, Step(q)
    PROVE  /\ pc[q] # "idle" /\ overlap' = overlap
           /\ \A p \in Proc \ {q} : pc'[p] = pc[p] /\ start'[p] = start[p]
                                    /\ sha'[p] = sha[p] /\ prev'[p] = prev[p]
<1>1. CASE Migrate(q) \/ Relink(q) \/ Fetch(q) \/ GatePasses(q) \/ GateFails(q) \/ Install(q)
  BY <1>1 DEF Migrate, Relink, Fetch, GatePasses, GateFails, Install, Goto, End, Typed
<1>2. CASE Rename(q) \/ Restart(q) \/ HealthPasses(q) \/ HealthFails(q)
  BY <1>2 DEF Rename, Restart, Restarts, HealthPasses, HealthFails, Goto, End, Typed
<1>3. CASE RemoveSome(q) \/ Remove(q) \/ Pruning(q) \/ Discard(q) \/ Provision(q)
  BY <1>3 DEF RemoveSome, Remove, Pruning, Discard, Provision, Goto, End, Typed
<1>4. ASSUME NEW b \in BOOLEAN, Guard(q, b) \/ RollBack(q, b)
      PROVE  /\ pc[q] # "idle" /\ overlap' = overlap
             /\ \A p \in Proc \ {q} : pc'[p] = pc[p] /\ start'[p] = start[p]
                                      /\ sha'[p] = sha[p] /\ prev'[p] = prev[p]
  BY <1>4 DEF Guard, RollBack, Goto, End, Typed
<1> QED
  BY <1>1, <1>2, <1>3, <1>4 DEF Step

\* At most one run.
LEMMA SoloStep == ASSUME Typed, Solo, [Next]_vars PROVE Solo'
<1> SUFFICES ASSUME ~overlap'
             PROVE  \A p, q \in Proc : pc'[p] # "idle" /\ pc'[q] # "idle" => p = q
  BY DEF Solo
<1>1. CASE UNCHANGED overlap /\ \A p \in Proc : pc'[p] # "idle" => pc[p] # "idle"
  BY <1>1 DEF Solo
<1>2. CASE Push \/ Reboot \/ ServiceStops
  BY <1>1, <1>2 DEF Push, Reboot, ServiceStops
<1>3. ASSUME NEW p \in Proc, Kill(p)
      PROVE  UNCHANGED overlap /\ \A q \in Proc : pc'[q] # "idle" => pc[q] # "idle"
  BY <1>3 DEF Kill, End, Typed
<1>4. ASSUME NEW p \in Proc, Begin(p, remote) \/ Begin(p, None) \/ OperatorRollsBack(p)
      PROVE  \A q, r \in Proc : pc'[q] # "idle" /\ pc'[r] # "idle" => q = r
  <2>1. ~overlap /\ \A q \in Proc \ {p} : pc[q] = "idle" /\ pc'[q] = "idle"
    BY <1>4 DEF Begin, OperatorRollsBack, Spends, Goto, Typed
  <2> QED
    BY <2>1
<1>5. ASSUME NEW p \in Proc, Step(p)
      PROVE  \A q, r \in Proc : pc'[q] # "idle" /\ pc'[r] # "idle" => q = r
  <2>1. ~overlap /\ \A q \in Proc : pc'[q] # "idle" => pc[q] # "idle"
    BY <1>5, StepMoves
  <2> QED
    BY <2>1 DEF Solo
<1>6. CASE UNCHANGED vars
  BY <1>1, <1>6 DEF vars
<1> QED
  BY <1>1, <1>2, <1>3, <1>4, <1>5, <1>6 DEF Next

\* A deployment knows what it needs at every place.
LEMMA DeployStep ==
    ASSUME Typed, Solo, DeployInv, LinkAlive, [Next]_vars
    PROVE  DeployInv'
<1> SUFFICES ASSUME ~overlap', NEW p \in Proc PROVE Deploying(p)'
  BY DEF DeployInv
<1> USE DEF Deploys, Early, Late, Ending
<1>1. CASE pc'[p] \in {"idle", "guard", "provision", "restart by hand"}
  BY <1>1 DEF Deploying
<1>2. CASE /\ ~overlap /\ UNCHANGED <<rel, tmp, link, served, misled>> /\ pc'[p] = pc[p]
           /\ sha'[p] = sha[p] /\ prev'[p] = prev[p] /\ start'[p] = start[p]
           /\ doomed'[p] = doomed[p]
  BY <1>2 DEF DeployInv, Deploying, Before, Has, Whole, Sure
<1>3. CASE Push \/ Reboot \/ ServiceStops
  BY <1>1, <1>2, <1>3 DEF Push, Reboot, ServiceStops
<1>4. ASSUME NEW q \in Proc, Kill(q) PROVE Deploying(p)'
  BY <1>1, <1>2, <1>4 DEF Kill, End, Typed
<1>5. ASSUME NEW q \in Proc, OperatorRollsBack(q) PROVE Deploying(p)'
  BY <1>1, <1>5 DEF OperatorRollsBack, Spends, Typed
<1>6. ASSUME NEW q \in Proc, NEW a \in {remote, None}, Begin(q, a) PROVE Deploying(p)'
  <2>1. CASE p # q
    <3>1. pc[p] = "idle"
      BY <1>6, <2>1 DEF Begin, Spends, Typed
    <3>2. pc'[p] = pc[p]
      BY <1>6, <2>1 DEF Begin, Goto, Typed
    <3> QED
      BY <1>1, <3>1, <3>2
  <2>2. CASE p = q /\ a \notin {None, Current}
    <3>1. /\ pc'[p] = "migrate" /\ sha'[p] = a /\ start'[p] = link
          /\ UNCHANGED <<link, served, misled, rel>> /\ a = remote /\ ~overlap
      BY <1>6, <2>2 DEF Begin, Spends, Typed
    <3>2. Sure => link # a
      BY <2>2, <3>1 DEF LinkAlive, Whole, Has, Current, Sure
    <3> QED
      BY <3>1, <3>2 DEF Deploying, Typed, Sure
  <2>3. CASE p = q /\ a \in {None, Current}
    BY <1>1, <1>6, <2>3 DEF Begin, Goto, Typed
  <2> QED
    BY <2>1, <2>2, <2>3
<1>7. ASSUME NEW q \in Proc, Step(q) PROVE Deploying(p)'
  <2>1. ~overlap /\ pc[q] # "idle"
    BY <1>7, StepMoves
  <2>2. CASE p # q
    BY <1>1, <1>7, <2>1, <2>2, StepMoves DEF Solo
  <2>3. ASSUME p = q, Migrate(p) PROVE Deploying(p)'
    <3>1. /\ link = start[p] /\ sha[p] \in Sha /\ (Sure => link # sha[p])
          /\ UNCHANGED <<sha, prev, doomed, start, served, misled>>
      BY <2>1, <2>3 DEF Migrate, Goto, DeployInv, Deploying
    <3>2. CASE link = OldDir
      <4>1. pc'[p] = "relink" /\ rel'[PreGit] = "whole"
        BY <2>3, <3>2 DEF Migrate, Goto, Add, Typed, Name
      <4>2. ~Sure
        BY <2>1, <3>2 DEF LinkAlive, Whole, Name, OldDir, PreGit, Sure
      <4> QED
        BY <3>1, <3>2, <4>1, <4>2 DEF Deploying, Whole, Name, PreGit, Sure
    <3>3. CASE link # OldDir
      BY <2>3, <3>1, <3>3 DEF Migrate, Goto, Deploying, Before, Typed, Sure
    <3> QED
      BY <3>2, <3>3
  <2>4. ASSUME p = q, Relink(p) PROVE Deploying(p)'
    BY <2>1, <2>4 DEF Relink, Goto, DeployInv, Deploying, Before, Whole, Typed, Sure
  <2>5. ASSUME p = q, Fetch(p) PROVE Deploying(p)'
    <3>1. /\ sha[p] \in Sha /\ link = Before(p) /\ (start[p] = OldDir => Whole(PreGit))
          /\ (Sure => link # sha[p])
      BY <2>1, <2>5 DEF Fetch, DeployInv, Deploying
    <3>2. /\ UNCHANGED <<rel, link, served, misled, sha, start>>
          /\ pc'[p] = IF Has(sha[p]) THEN "switch" ELSE "gate"
      BY <2>5 DEF Fetch, Goto, Typed
    <3> QED
      BY <3>1, <3>2 DEF Deploying, Before, Has, Whole, Sure
  <2>6. ASSUME p = q, GatePasses(p) PROVE Deploying(p)'
    BY <2>1, <2>6 DEF GatePasses, Goto, DeployInv, Deploying, Before, Whole, Typed, Sure
  <2>7. ASSUME p = q, GateFails(p) \/ Discard(p) \/ Provision(p) \/ Pruning(p)
                      \/ \E b \in BOOLEAN : Guard(p, b)
        PROVE  Deploying(p)'
    BY <1>1, <2>7 DEF GateFails, Discard, Provision, Pruning, Guard, End, Goto, Typed
  <2>8. ASSUME p = q, Install(p) PROVE Deploying(p)'
    <3>1. /\ sha[p] \in Sha /\ link = Before(p) /\ (start[p] = OldDir => Whole(PreGit))
          /\ (Sure => link # sha[p]) /\ tmp[sha[p]] = "ready"
      BY <2>1, <2>8 DEF Install, DeployInv, Deploying
    <3>2. UNCHANGED <<link, served, misled, sha, start>> /\ pc'[p] = "switch"
      BY <2>8 DEF Install, Goto, Typed
    <3>3. Has(sha[p])'
      BY <2>8, <3>1, <3>2 DEF Install, Add, Has, Typed, Name
    <3>4. Whole(PreGit) => Whole(PreGit)'
      BY <2>8, <3>1 DEF Install, Add, Has, Whole, Typed, Name
    <3> QED
      BY <3>1, <3>2, <3>3, <3>4 DEF Deploying, Before, Sure
  <2>9. ASSUME p = q, Rename(p) PROVE Deploying(p)'
    <3>1. /\ sha[p] \in Sha /\ link = Before(p) /\ (start[p] = OldDir => Whole(PreGit))
          /\ (Sure => link # sha[p]) /\ Has(sha[p])
      BY <2>1, <2>9 DEF Rename, DeployInv, Deploying
    <3>2. /\ pc'[p] = "restart" /\ prev'[p] = Current /\ link' = sha[p]
          /\ misled' = (misled \/ ~Whole(sha[p]))
          /\ UNCHANGED <<rel, served, sha, start>>
      BY <2>9, <3>1 DEF Rename, Switch, Typed
    <3>3. start[p] = OldDir => Current = PreGit
      BY <3>1 DEF Before, Current, Has, Whole
    <3>4. start[p] # OldDir /\ Whole(start[p]) => Current = start[p]
      BY <3>1 DEF Before, Current, Has, Whole
    <3>5. Sure => Current = link /\ Whole(link)
      BY <2>1 DEF LinkAlive, Current, Has, Whole, Sure
    <3> QED
      BY <3>1, <3>2, <3>3, <3>4, <3>5 DEF Deploying, Has, Whole, Sure
  <2>10. ASSUME p = q, Restart(p) PROVE Deploying(p)'
    <3>1. CASE pc[p] = "restart by hand"
      BY <1>1, <2>10, <3>1 DEF Restart, End, Typed
    <3>2. CASE pc[p] # "restart by hand"
      <4>1. /\ UNCHANGED <<rel, link, served, misled, sha, prev, doomed, start>>
            /\ \/ pc[p] = "restart" /\ pc'[p] = "health"
               \/ pc[p] = "restart back" /\ pc'[p] = "discard"
        BY <2>10, <3>2 DEF Restart, Restarts, Goto, Typed
      <4> QED
        BY <2>1, <4>1 DEF DeployInv, Deploying, Before, Whole, Sure
    <3> QED
      BY <3>1, <3>2
  <2>11. ASSUME p = q, HealthPasses(p) PROVE Deploying(p)'
    <3>1. /\ ~misled => Whole(link)
          /\ pc'[p] = "prune" /\ doomed'[p] = Releases \ Pruned(Current)
          /\ UNCHANGED <<link, misled>>
      BY <2>1, <2>11 DEF HealthPasses, DeployInv, Deploying, Typed
    <3>2. Whole(link) => Current = link /\ link \in Pruned(link)
      BY DEF Current, Pruned, Releases, Whole, Has
    <3> QED
      BY <3>1, <3>2 DEF Deploying
  <2>12. ASSUME p = q, HealthFails(p) PROVE Deploying(p)'
    BY <2>1, <2>12 DEF HealthFails, Goto, DeployInv, Deploying, Whole, Typed, Sure
  <2>13. ASSUME p = q, NEW b \in BOOLEAN, RollBack(p, b) PROVE Deploying(p)'
    <3>1. /\ sha[p] \in Sha
          /\ start[p] = OldDir => prev[p] = PreGit /\ Whole(PreGit)
          /\ start[p] # OldDir /\ Whole(start[p]) => prev[p] = start[p]
          /\ Sure => Whole(prev[p]) /\ prev[p] # sha[p]
      BY <2>1, <2>13 DEF RollBack, DeployInv, Deploying
    <3>2. /\ UNCHANGED <<rel, served, sha, start>> /\ doomed'[p] \subseteq {sha[p]}
          /\ misled => misled'
          /\ Whole(prev[p]) => link' = prev[p]
          /\ pc'[p] \in Ending
      BY <2>13 DEF RollBack, Switch, Typed
    <3> QED
      BY <3>1, <3>2 DEF Deploying, Before, Whole, Sure
  <2>14. ASSUME p = q, RemoveSome(p) \/ Remove(p) PROVE Deploying(p)'
    <3>1. /\ pc[p] \in {"prune", "discard"}
          /\ UNCHANGED <<link, served, misled, pc, sha, start>>
          /\ doomed'[p] \subseteq doomed[p]
      BY <2>14 DEF RemoveSome, Remove, Typed
    <3>2. \A n : Whole(n)' => Whole(n)
      BY <2>14 DEF RemoveSome, Remove, Halve, Drop, Whole, Typed
    <3>3. Deploying(p)
      BY <2>1 DEF DeployInv
    <3>4. CASE pc[p] = "prune"
      BY <3>1, <3>3, <3>4 DEF Deploying
    <3>5. CASE pc[p] = "discard"
      <4>1. /\ sha[p] \in Sha
            /\ start[p] = OldDir \/ Whole(start[p]) => link = Before(p)
            /\ doomed[p] \subseteq {sha[p]} /\ (Sure => link # sha[p])
        BY <3>3, <3>5 DEF Deploying
      <4>2. Whole(start[p])' => Whole(start[p])
        BY <3>1, <3>2 DEF Whole
      <4> QED
        BY <3>1, <3>5, <4>1, <4>2 DEF Deploying, Before, Sure
    <3> QED
      BY <3>1, <3>4, <3>5
  <2> QED
    BY <1>7, <2>2, <2>3, <2>4, <2>5, <2>6, <2>7, <2>8, <2>9, <2>10, <2>11, <2>12, <2>13, <2>14
       DEF Step
<1>8. CASE UNCHANGED vars
  BY <1>2, <1>8 DEF vars
<1> QED
  BY <1>3, <1>4, <1>5, <1>6, <1>7, <1>8 DEF Next

\* The link stays alive.
LEMMA LinkStep ==
    ASSUME Typed, Solo, DeployInv, LinkAlive, [Next]_vars
    PROVE  LinkAlive'
<1> SUFFICES ASSUME served', ~overlap', ~misled' PROVE Whole(link)'
  BY DEF LinkAlive
<1>1. CASE UNCHANGED <<rel, link, served, overlap, misled>>
  BY <1>1 DEF LinkAlive, Whole
<1>2. CASE Push \/ Reboot \/ ServiceStops
  BY <1>1, <1>2 DEF Push, Reboot, ServiceStops
<1>3. ASSUME NEW p \in Proc, OperatorRollsBack(p) PROVE Whole(link)'
  <2>1. rel' = rel /\ link' \in Releases /\ misled' = (misled \/ (Has(link') /\ ~Whole(link')))
    BY <1>3 DEF OperatorRollsBack, Switch
  <2> QED
    BY <2>1 DEF Releases, Whole
<1>4. ASSUME NEW p \in Proc, Kill(p) \/ Begin(p, remote) \/ Begin(p, None) PROVE Whole(link)'
  BY <1>4 DEF Kill, Begin, Spends, LinkAlive, Whole, Typed
<1>5. ASSUME NEW p \in Proc, Step(p) PROVE Whole(link)'
  <2>1. ~overlap /\ Deploying(p)
    BY <1>5, StepMoves DEF DeployInv
  <2>2. CASE Migrate(p)
    <3>1. link # OldDir
      BY <1>5, <2>1, <2>2 DEF Migrate, LinkAlive, Whole, Name, OldDir, PreGit
    <3> QED
      BY <2>1, <2>2, <3>1 DEF Migrate, LinkAlive, Whole
  <2>3. CASE Relink(p)
    BY <2>1, <2>3 DEF Relink, Deploying, Sure
  <2>4. CASE Install(p)
    <3>1. Whole(link) /\ link' = link
      BY <2>1, <2>4 DEF Install, LinkAlive
    <3>2. rel'[link] = rel[link]
      BY <2>4, <3>1 DEF Install, Add, Has, Whole, Typed
    <3> QED
      BY <3>1, <3>2 DEF Whole
  <2>5. CASE Rename(p)
    BY <2>1, <2>5 DEF Rename, Switch, Deploying, Whole, Has
  <2>6. CASE HealthPasses(p)
    BY <2>1, <2>6 DEF HealthPasses, Deploying, Late, Whole
  <2>7. ASSUME NEW b \in BOOLEAN, RollBack(p, b) PROVE Whole(link)'
    <3>1. served /\ ~misled /\ Whole(prev[p]) /\ UNCHANGED rel
      BY <2>1, <2>7 DEF RollBack, Switch, Deploying, Late, Sure, Typed
    <3> QED
      BY <2>7, <3>1 DEF RollBack, Switch, Whole
  <2>8. CASE RemoveSome(p) \/ Remove(p)
    <3>1. Whole(link) /\ served /\ ~misled /\ link' = link /\ pc[p] \in {"prune", "discard"}
      <4>1. /\ pc[p] \in {"prune", "discard"} /\ link' = link
            /\ served' = served /\ misled' = misled
        BY <2>8 DEF RemoveSome, Remove
      <4> QED
        BY <2>1, <4>1 DEF LinkAlive
    <3>2. link \notin doomed[p]
      BY <2>1, <3>1 DEF Deploying, Ending, Sure
    <3> QED
      BY <2>8, <3>1, <3>2 DEF RemoveSome, Remove, Halve, Drop, Whole, Typed
  <2>9. CASE Fetch(p) \/ GatePasses(p) \/ GateFails(p) \/ Restart(p) \/ HealthFails(p)
             \/ Provision(p) \/ Pruning(p) \/ Discard(p) \/ \E b \in BOOLEAN : Guard(p, b)
    BY <1>1, <2>9 DEF Fetch, GatePasses, GateFails, Restart, HealthFails, Provision, Pruning,
                      Discard, Guard
  <2> QED
    BY <1>5, <2>2, <2>3, <2>4, <2>5, <2>6, <2>7, <2>8, <2>9 DEF Step
<1>6. CASE UNCHANGED vars
  BY <1>1, <1>6 DEF vars
<1> QED
  BY <1>2, <1>3, <1>4, <1>5, <1>6 DEF Next

-----------------------------------------------------------------------------
\* The inductive invariant holds through rounds, kills, reboots and rollbacks
\* of boot.sh.
THEOREM BootInvariance == Spec => []IInv
<1>1. IInv /\ [Next]_vars => IInv'
  BY TypedStep, SoloStep, DeployStep, LinkStep DEF IInv
<1> QED
  BY InitIInv, <1>1, PTL DEF Spec

\* Once deployed to, a machine can always start its service (deploy, prune,
\* cmd_rollback), until half a release is switched to.
THEOREM LinkStaysAlive == Spec => []LinkAlive
<1>1. IInv => LinkAlive
  BY DEF IInv
<1> QED
  BY BootInvariance, <1>1, PTL

\* A deployment that fails leaves the link where it was (deploy's two ways out).
THEOREM FailureRestores == Spec => FailedDeployRestores
<1>1. ASSUME IInv, NEW p \in Proc, GateFails(p) \/ Discard(p), ~overlap,
             start[p] = OldDir \/ Whole(start[p])
      PROVE  link' = IF start[p] = OldDir THEN PreGit ELSE start[p]
  <2>1. Deploying(p) /\ link' = link
    BY <1>1 DEF IInv, DeployInv, GateFails, Discard
  <2> QED
    BY <1>1, <2>1 DEF GateFails, Discard, Deploying, Before, Early, Ending
<1>2. IInv => [\A p \in Proc :
                 (/\ GateFails(p) \/ Discard(p)
                  /\ ~overlap
                  /\ start[p] = OldDir \/ Whole(start[p]))
                 => link' = IF start[p] = OldDir THEN PreGit ELSE start[p]]_vars
  BY <1>1
<1> QED
  BY BootInvariance, <1>2, PTL DEF FailedDeployRestores
=============================================================================
