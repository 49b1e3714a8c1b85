----------------------------- MODULE Provision -----------------------------
(***************************************************************************)
(* boot/provision.sh: an ordered list of checks, run by the daily boot     *)
(* round or by hand, in "install" mode (what is missing is installed and   *)
(* checked again, what differs from the resource tree is replaced) or in   *)
(* "check" mode (report only).  One item of each kind stands for the items *)
(* that share its code: a hard prerequisite (02-11), a file kept once it   *)
(* exists (12, 20-21a), the relay's systemd unit (14-16), the secrets (17),*)
(* mirrored files with backups (21b-21d), the service (26), the timers     *)
(* (27).  A run may be killed between any two of its commands.             *)
(***************************************************************************)
EXTENDS Naturals, Sequences

CONSTANTS
    Version,        \* of the resource tree, and of the unit's template
    Healthy,        \* the versions of the unit with which the relay gets healthy
    Edit,           \* local versions of a mirrored file
    MaxMinute,      \* bound: the clock
    MaxRuns         \* bound: runs

Order == <<"tools", "template", "tls", "unit", "secret", "mirror", "service", "timers">>
Missing == "missing"
Part == "part"          \* cut off by a kill or a full disk

VARIABLES
    tree,       \* the version of the resource tree
    file,       \* the machine's files and prerequisites
    bak,        \* backups: of the unit, of the mirrored file by minute
    loaded,     \* the unit as systemd has read it
    service,    \* the unit's version the running relay was started with
    socat,      \* the old proxy still holds the TLS port
    archive,    \* there is a backup archive of an older machine
    minute,
    at,         \* the run: the item, the place in it, the mode, its verdict
    runs,
    lost,       \* history: local versions a run replaced
    unsaved,    \* history: those whose own backup copy failed
    hurt,       \* history: a run ended, or its daemon-reload failed, between
                \* the unit's text and the restart; until a reload and restart
    synced,     \* history: the minute of the last replacement
    shared,     \* history: two replacements fell into one minute
    clean       \* history: the last run was install, all PASS, nothing since

machine == <<file, bak, loaded, service, socat>>
history == <<lost, unsaved, hurt, synced, shared, clean>>
vars == <<tree, machine, archive, minute, at, runs, history>>

Idle == [item |-> 0, place |-> "check", heal |-> FALSE, verdict |-> "PASS", begun |-> FALSE]
Item(i) == at.item # 0 /\ Order[at.item] = i

Init ==
    /\ tree \in Version
    /\ file = [tools |-> Missing, template |-> Missing, unit |-> Missing,
               secret |-> Missing, mirror |-> Missing, timers |-> Missing]
    /\ bak = [unit |-> Missing, mirror |-> [m \in 0..MaxMinute |-> Missing]]
    /\ loaded = Missing /\ service = Missing /\ socat \in BOOLEAN /\ archive \in BOOLEAN
    /\ minute = 0 /\ at = Idle /\ runs = MaxRuns
    /\ lost = {} /\ unsaved = {} /\ hurt = FALSE /\ shared = FALSE /\ synced = MaxMinute + 1 /\ clean = FALSE

---------------------------------------------------------------------------
(* The world: none of it leaves the machine as the last run left it.       *)

NewTree ==
    /\ at = Idle /\ tree' \in Version \ {tree}
    /\ clean' = FALSE
    /\ UNCHANGED <<machine, archive, minute, at, runs, lost, unsaved, hurt, synced, shared>>

LocalEdit(e) ==
    /\ at = Idle /\ file.mirror # Missing
    /\ e \notin lost /\ file' = [file EXCEPT !.mirror = e]
    /\ clean' = FALSE
    /\ UNCHANGED <<tree, bak, loaded, service, socat, archive, minute, at, runs>>
    /\ UNCHANGED <<lost, unsaved, hurt, synced, shared>>

Minute ==
    /\ minute < MaxMinute /\ minute' = minute + 1
    /\ UNCHANGED <<tree, machine, archive, at, runs, history>>

\* Between the writing of the unit's text and the end of its restart.
UnitUnderWay == {"reload", "restart", "swap", "back", "restart back"}

Kill ==
    /\ at # Idle /\ at' = Idle
    /\ hurt' = (hurt \/ at.place \in UnitUnderWay) /\ clean' = FALSE
    /\ UNCHANGED <<tree, machine, archive, minute, runs, lost, unsaved, synced, shared>>

---------------------------------------------------------------------------
(* The list                                                                *)

Begin(install) ==
    /\ at = Idle /\ runs > 0 /\ runs' = runs - 1
    /\ at' = [Idle EXCEPT !.item = 1, !.heal = install, !.begun = clean]
    /\ clean' = FALSE
    /\ UNCHANGED <<tree, machine, archive, minute, lost, unsaved, hurt, synced, shared>>

Worst(v) ==
    IF "FAIL" \in {v, at.verdict} THEN "FAIL"
    ELSE IF "WARN" \in {v, at.verdict} THEN "WARN" ELSE "PASS"

\* ok, warn, bad; after the last item summary_exit.
Report(v) ==
    /\ at' = IF at.item = Len(Order) THEN Idle
             ELSE [at EXCEPT !.item = @ + 1, !.place = "check", !.verdict = Worst(v)]
    /\ clean' = (at.item = Len(Order) /\ at.heal /\ Worst(v) = "PASS")
Abort == at' = Idle /\ clean' = FALSE
Within(p) == at' = [at EXCEPT !.place = p] /\ clean' = FALSE
Rest == UNCHANGED <<tree, archive, minute, runs>>

\* try, and the items that look the same: installed and checked again, or
\* the whole run ends.
Prerequisites(installs) ==
    /\ Item("tools")
    /\ IF file.tools # Missing THEN Report("PASS") /\ UNCHANGED machine
       ELSE IF ~at.heal THEN Report("FAIL") /\ UNCHANGED machine
       ELSE IF installs
            THEN /\ file' = [file EXCEPT !.tools = tree] /\ Report("PASS")
                 /\ UNCHANGED <<bak, loaded, service, socat>>
            ELSE Abort /\ UNCHANGED machine
    /\ Rest /\ UNCHANGED <<lost, unsaved, hurt, synced, shared>>

\* boot.env, opencode.jsonc, AGENTS.md, CEO_PROMPT.md: only when missing.
Template ==
    /\ Item("template")
    /\ IF file.template = Missing /\ at.heal
       THEN file' = [file EXCEPT !.template = tree] ELSE UNCHANGED file
    /\ Report(IF file.template # Missing \/ at.heal THEN "PASS" ELSE "WARN")
    /\ Rest /\ UNCHANGED <<bak, loaded, service, socat, lost, unsaved, hurt, synced, shared>>

\* 13b: the only change that does not ask for the mode.
Tls ==
    /\ Item("tls")
    /\ socat' = FALSE
    /\ Report("PASS")
    /\ Rest /\ UNCHANGED <<file, bak, loaded, service, lost, unsaved, hurt, synced, shared>>

\* sync_unit: the old text saved, which nobody checks, the new one written.
UnitWrite(written) ==
    /\ Item("unit") /\ at.place = "check"
    /\ IF file.unit = tree THEN Report("PASS") /\ UNCHANGED <<file, bak, hurt>>
       ELSE IF ~at.heal
            THEN Report(IF file.unit = Missing THEN "FAIL" ELSE "WARN") /\ UNCHANGED <<file, bak, hurt>>
       ELSE /\ \E old \in IF file.unit = Missing THEN {Missing} ELSE {file.unit, Part} :
                  bak' = [bak EXCEPT !.unit = old]
            /\ file' = [file EXCEPT !.unit = IF written THEN tree ELSE Part]
            /\ hurt' = (hurt \/ ~written)
            /\ IF written THEN Within("reload") ELSE Abort
    /\ Rest /\ UNCHANGED <<loaded, service, socat, lost, unsaved, synced, shared>>

\* systemctl daemon-reload; the relay is restarted if it runs.
UnitReload(reloads) ==
    /\ Item("unit") /\ at.place = "reload"
    /\ loaded' = IF reloads THEN file.unit ELSE loaded
    /\ hurt' = IF reloads THEN hurt /\ service # Missing ELSE TRUE
    /\ IF ~reloads THEN Abort
       ELSE IF service = Missing THEN Report("PASS")
       ELSE Within(IF bak.unit = Missing THEN "restart" ELSE "swap")
    /\ Rest /\ UNCHANGED <<file, bak, service, socat, lost, unsaved, synced, shared>>

UnitRestart ==
    /\ Item("unit") /\ at.place \in {"restart", "swap"}
    /\ service' = loaded
    /\ hurt' = FALSE
    /\ Within(IF at.place = "swap" THEN "judge" ELSE "judge first")
    /\ Rest /\ UNCHANGED <<file, bak, loaded, socat, lost, unsaved, synced, shared>>

\* Not healthy in 30 s: the saved text is put back.
UnitJudge(slow) ==
    /\ Item("unit") /\ at.place \in {"judge", "judge first"}
    /\ IF service \in Healthy /\ ~slow
       THEN Report("PASS") /\ UNCHANGED file
       ELSE IF at.place = "judge"
       THEN file' = [file EXCEPT !.unit = bak.unit] /\ Within("back")
       ELSE UNCHANGED file /\ Report("WARN")
    /\ Rest /\ UNCHANGED <<bak, loaded, service, socat, lost, unsaved, hurt, synced, shared>>

\* It is reloaded, which nobody checks here, and the relay restarted.
UnitReloadBack(reloads) ==
    /\ Item("unit") /\ at.place = "back"
    /\ loaded' = IF reloads THEN file.unit ELSE loaded
    /\ hurt' = (hurt \/ ~reloads)
    /\ Within("restart back")
    /\ Rest /\ UNCHANGED <<file, bak, service, socat, lost, unsaved, synced, shared>>

UnitRestartBack ==
    /\ Item("unit") /\ at.place = "restart back"
    /\ service' = loaded
    /\ Report("WARN")
    /\ Rest /\ UNCHANGED <<file, bak, loaded, socat, lost, unsaved, hurt, synced, shared>>

\* relay.env: from the archive, which never replaces a file, or at random.
Secret ==
    /\ Item("secret")
    /\ file' = IF file.secret # Missing \/ ~at.heal THEN file
               ELSE [file EXCEPT !.secret = IF archive THEN "archive" ELSE "random"]
    /\ Report(IF file.secret # Missing \/ (at.heal /\ archive) THEN "PASS" ELSE "WARN")
    /\ Rest /\ UNCHANGED <<bak, loaded, service, socat, lost, unsaved, hurt, synced, shared>>

MirrorCopyFirst(saved) ==
    /\ Item("mirror") /\ at.place = "check"
    /\ IF file.mirror = tree \/ ~at.heal
       THEN /\ Report(IF file.mirror = tree THEN "PASS" ELSE "WARN")
            /\ UNCHANGED <<file, bak, lost, unsaved, synced, shared>>
       ELSE /\ file' = [file EXCEPT !.mirror = Part]
            /\ bak' = IF file.mirror = Missing THEN bak ELSE [bak EXCEPT !.mirror[minute] = Part]
            /\ lost' = lost \cup ({file.mirror} \cap Edit)
            /\ unsaved' = IF saved THEN unsaved ELSE unsaved \cup ({file.mirror} \cap Edit)
            /\ shared' = (shared \/ synced = minute) /\ synced' = minute
            /\ Within("copy")
    /\ Rest /\ UNCHANGED <<loaded, service, socat, hurt>>

\* A file that differs is saved under the minute's name, then replaced,
\* whether or not the copy succeeded.
MirrorSave(saved) ==
    /\ Item("mirror") /\ at.place = "check"
    /\ IF file.mirror = tree \/ ~at.heal
       THEN /\ Report(IF file.mirror = tree THEN "PASS" ELSE "WARN")
            /\ UNCHANGED <<bak, lost, unsaved, synced, shared>>
       ELSE /\ bak' = IF file.mirror = Missing THEN bak
                      ELSE [bak EXCEPT !.mirror[minute] = IF saved THEN file.mirror ELSE Part]
            /\ lost' = lost \cup ({file.mirror} \cap Edit)
            /\ unsaved' = IF saved THEN unsaved ELSE unsaved \cup ({file.mirror} \cap Edit)
            /\ shared' = (shared \/ synced = minute) /\ synced' = minute
            /\ Within("replace")
    /\ Rest /\ UNCHANGED <<file, loaded, service, socat, hurt>>

MirrorReplace(copied) ==
    /\ Item("mirror") /\ at.place \in {"replace", "copy"}
    /\ file' = [file EXCEPT !.mirror = IF at.place = "copy" /\ copied THEN tree ELSE Part]
    /\ IF at.place = "replace" THEN Within("copy") ELSE IF copied THEN Report("PASS") ELSE Abort
    /\ Rest /\ UNCHANGED <<bak, loaded, service, socat, lost, unsaved, hurt, synced, shared>>

\* 26: started if it is down; restarted once if it does not answer.
Service(slow) ==
    /\ Item("service")
    /\ LET up == IF service = Missing /\ at.heal THEN loaded ELSE service IN
       IF up \in Healthy /\ ~slow THEN service' = up /\ Report("PASS")
       ELSE IF ~at.heal THEN UNCHANGED service /\ Report("FAIL")
       ELSE /\ service' = loaded
            /\ (loaded \in Healthy /\ Report("PASS")) \/ Abort
    /\ Rest /\ UNCHANGED <<file, bak, loaded, socat, lost, unsaved, hurt, synced, shared>>

\* 27: enabled and started, or the run ends.
Timers(starts) ==
    /\ Item("timers")
    /\ IF file.timers # Missing THEN Report("PASS") /\ UNCHANGED file
       ELSE IF ~at.heal THEN Report("FAIL") /\ UNCHANGED file
       ELSE IF starts THEN Report("PASS") /\ file' = [file EXCEPT !.timers = "on"]
       ELSE Abort /\ UNCHANGED file
    /\ Rest /\ UNCHANGED <<bak, loaded, service, socat, lost, unsaved, hurt, synced, shared>>

Next ==
    \/ NewTree \/ Minute \/ Kill
    \/ \E e \in Edit : LocalEdit(e)
    \/ \E b \in BOOLEAN :
         \/ Begin(b) \/ Prerequisites(b)
         \/ UnitWrite(b) \/ UnitReload(b) \/ UnitJudge(b) \/ UnitReloadBack(b)
         \/ MirrorSave(b) \/ MirrorReplace(b) \/ Service(b) \/ Timers(b)
    \/ Template \/ Tls \/ UnitRestart \/ UnitRestartBack \/ Secret

Spec == Init /\ [][Next]_vars

---------------------------------------------------------------------------
(* Properties                                                              *)

\* A local version that a run replaced is in a backup, with runs killed at any
\* command and copies cut short: unless its own backup copy failed, which the
\* code ignores, or two replacements shared a minute, hence a name.
LocalVersionsSaved ==
    ~shared => \A e \in lost \ unsaved : \E m \in DOMAIN bak.mirror : bak.mirror[m] = e

\* Between runs, what systemd has read is the installed unit, and the relay
\* that runs was started with it, after a replaced unit was found unhealthy
\* too: neither a restart nor a reboot will change what runs.  Excepted is the
\* time after a run that ended between the unit's text and the restart, or
\* could not reload: a later run finds the text as it should be and does
\* nothing, until the next change of the unit.
RunsWhatIsInstalled ==
    at = Idle /\ ~hurt => /\ loaded = file.unit
                         /\ service \in {Missing, loaded}

\* A second run after one that reported only PASS changes nothing; only after
\* a run that ended within the unit's change may it find the relay slow and
\* restart it, then with the unit systemd has read.
SecondRunChangesNothing ==
    [][at.begun /\ at # Idle =>
          /\ UNCHANGED <<file, bak, loaded, socat>>
          /\ service' # service => hurt /\ service' = loaded]_vars

\* What a rerun of provision.sh leaves: local versions saved, the installed unit
\* running, and nothing for another run to change.
ProvisionSafe ==
    /\ [](LocalVersionsSaved /\ RunsWhatIsInstalled)
    /\ SecondRunChangesNothing
=============================================================================
