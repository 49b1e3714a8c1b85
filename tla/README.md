# Verification of the team-agent relay

TLA+ models of the relay service (`src/relay-service/app`), of the deployment
scripts around it (`src/boot`), of its clients and proxy and of the skill scripts
that write to, read from and report about the enterprise platform; the TLC runs
that check them on small instances; and the proofs, checked by TLAPS, that hold
for every instance. Paths below are relative to `src/`; `app/` is
`relay-service/app/`, `misc/` is `skills/dingtalk-misc/scripts/`.

## 1. Inventory

The relay takes tasks over HTTP, runs an agent (opencode or claude) for each of
them on the server, watches the commands the agent issues, and records what it
changed in a shared area. It is one asyncio process with synchronous database
calls, so **a handler or coroutine is atomic between two awaits that yield**.
systemd restarts it when it dies, and a boot script redeploys it. The agents use
skills: prompts with scripts that call the enterprise platform through the `dws`
command.

| component | state | operations | hard part |
| --- | --- | --- | --- |
| task handlers (`app/main.py`, `app/db.py`) | rows of `tasks`: status, priority, blocked_cmd, resume_hint, workdir, changed_files, conflicts | submit, cancel, confirm, approve/deny, sweep, run_task, error, startup recovery | requests race with runs; two commits per run; restarts |
| scheduler (`app/scheduler.py`) | heap, sequence, active count, in-flight coroutines, condition variable | submit, worker loop, run_one, stop | lost wakeups, leaked slots, entries of cancelled rows, stop with entries waiting |
| executor (`app/executor.py`) | the agent process, deadline, cancel event; the cache of looked-up conversations | read loop, command gate and exemption, kill of the tree | timeout and cancel against exit; processes that leave the tree; failed lookups |
| workspace (`app/workspace.py`, `_check_conflicts`) | shared files, `.baseline.json`, `.result/`, `.bak` files, home/ and data/ | prepare, scan, conflict check, backup, cleanup | concurrent agents on one file; reruns; shared directories; restart inside the check |
| event bus and SSE (`app/events.py`, `stream_task`) | history, subscriber queues | publish, subscribe, stream | full queue, history lost on restart, end of stream |
| device authentication (`app/main.py`, `skills/team-agent-relay/relay.py`) | users, devices, nonce cache; the client's configuration | activate, reissue, revoke, signed request | one-time token against crash and lost answers; replay window; revocation during a request |
| targets (`app/targets.py`) | none | overlap, find_conflicts | prefix rule over the life of tasks |
| database access (`app/db.py`) | connection, open transaction | `_run` | a connection that breaks at the commit |
| dashboard (`app/main.py`) | sessions, failed logins | login, logout, views | the sliding lock |
| shared knowledge (`app/shared_knowledge.py`) | skills, servers, memory; what is in a work directory | upload, delete, prepare_run | reused directories, change of engine |
| bootloader (`boot/boot.sh`) | releases, the current link, the unit | boot round, deploy, rollback, prune | kill or crash in a deploy, two at once, no release to go back to |
| provisioning (`boot/provision.sh`) | host files, units, backups | install, check | kill between replacement and restart or backup |
| proxy (`claude-code-openai-proxy/proxy.mjs`) | none between requests | translation of conversations, answers, streams | order of blocks in the stream |
| batch writes (todo, AI table, approvals, schedules) | a ledger or ranges per run | validate, confirm, write, verify | calls that time out and act all the same; files edited between confirmation and run |
| attendance reports (`misc/attendance_*.py`) | rows, failures | resolve, slice, batch, page, write | a failed part that looks empty; overlap of slices |
| long jobs, command line of the relay | a job and a local file | start, poll, fetch, upload | lost answers, timeouts |
| calendar scripts | none | merge, find slots, book | nested and touching intervals; a room taken meanwhile |
| summaries | none | list, count, page | overlapping pages, failed or odd answers |
| Yida workflow and design updates | versions or schema of one document | read, change, write, publish | people in the designer; three calls that may each fail |
| configuration, audit log, entry points; maintenance scripts; administrator's command line; Yida page compiler; prompts | none of a protocol | | see "Not modelled" |

How they interact: a handler writes the row, then pushes into the scheduler's
heap; the worker pops an entry and creates a coroutine of `run_task`; that reads
the row again, prepares the workspace (and what is shared), runs the executor
(which polls the cancel event and the gate), commits the result, scans, checks
for conflicts by reading and writing other rows, commits the status. Everything
publishes to the event bus. On startup the rows are the only truth: `running`
becomes `queued` and all queued rows are pushed. The bootloader kills and starts
the whole process.

What makes each correct: every row that is not at rest is being advanced by
exactly one thing; a row follows its lifecycle; no more than
`RELAY_MAX_CONCURRENT` run; a high-risk command runs only after a human approved
it for that task; a cancel reaches the run it was meant for and no other;
whatever an agent changed is reviewed by a human and never silently overwritten;
streams and stop() end; a code and a signed request work once and only as long as
their device is good; there is always a release to run; a script that reports
success, completeness or failure says what is so.

The hazards, each at its line and with the properties that would catch it, are
in `PROJECT.json`.

## 2. Modules

| module | what it is | checked by |
| --- | --- | --- |
| `TaskLifecycle` | abstract: how one task may move, and when the gate may pass a command | `relay_gate` (as `ImplementsLifecycle`) |
| `Relay` | the core: rows, handlers, heap and slots, coroutines, cancel events, sweeper, restarts | `relay_*` |
| `Scheduler` | `app/scheduler.py` in detail: the worker, its condition variable, stop() | `runtime` |
| `EventBus` | the events of a task and the streams that show them | `runtime`, `eventbus_end` |
| `Executor` | the agent's process tree, the kill, what the end of a run waits for | `runtime`, `executor_timeout` |
| `Workspace` | the files: baselines, scans, conflict check, backups, cleanup, restarts inside them | `workspace_*` |
| `CommandGate` | which commands stop a run, what an approval exempts | `service` |
| `Targets` | directories named by tasks in flight | `service` |
| `RequestAuth` | signed requests: window, device row, body, nonce cache | `service` |
| `Activation` | one-time codes, devices, the client's configuration | `service` |
| `Store` | `DB._run` over a connection that breaks or a file that is locked | `service` |
| `Knowledge` | shared skills, servers and memory in a run's directory | `service` |
| `Dashboard` | the login's lock and the sessions | `service` |
| `Bootloader` | deployments | `boot` |
| `Provision` | the installer's ordered checks | `scripts` |
| `Proxy` | the translation between two message protocols | `scripts` |
| `BatchWrites` | five scripts that write batches | `scripts` |
| `Reports` | the attendance reports | `scripts` |
| `ProcessUpdate`, `DesignUpdate` | Yida workflows; forms, reports and pages | `scripts` |
| `LongJobs`, `Calendar`, `Summaries` | jobs, free times, lists | `scripts` |
| `MCRelay`, `MCWorkspace`, `MCEventBus` | constants for TLC | |
| `MCRuntime`, `MCService`, `MCScripts` | several components side by side, see section 3 | |
| `MCTools` | the parts of `MCScripts` that write: batches, installer, jobs, designs | `scripts` |
| `MCClients` | the parts of `MCScripts` that show: lists, calendar, reports, proxy, workflows | `scripts` |
| `RelayProofs`, `WorkspaceProofs`, `RequestAuthProofs`, `BootloaderProofs` | TLAPS, one component each | |
| `RuntimeProofs` | TLAPS: `Scheduler` and the parts of `MCRuntime` | |
| `ServiceProofs` | TLAPS: the parts of `MCService` | |
| `ScriptsProofs` | TLAPS: the parts of `MCTools` | |
| `ClientsProofs` | TLAPS: the parts of `MCClients` | |

### Relay

State: the columns `status`, `prio`, `blockedCmd`, `hint` (resume_hint is not
empty) and, for the sweeper, how many rows are `old`; the process's memory
`heap`, `nextSeq`, `active`, `inflight`, `cancelEv`, lost when `up` becomes
false; and two history variables, the commands `granted` by a human and those
that `passed` the gate.

A coroutine has the phases at which `run_task` yields: `created` (the body has
not begun), `executing` (read loop), `ending` (the outcome is decided, the
finally block awaits the process). One action stands for one stretch between two
such points: `SkipRun`/`StartRun` for the head of `run_task`, `AgentExits`,
`Timeout`, `SeesCancel`, `Blocks`, `Passes` for the read loop, `ParkBlocked` and
`Finish` for its tail, `RunError` for `_on_run_error`. `Submit`, `CancelQueued`,
`CancelRunning`, `Confirm`, `Approve`, `Deny` are the handlers, `Sweep` a round
of the sweeper, `Crash` the death of the process anywhere and
`CrashBetweenCommits` between the two transactions of a run's tail (the only
place without an await where it matters to these columns), `Recover` the startup
part of `lifespan`. A graceful shutdown leaves the rows as a crash does.

Abstractions: what the scan of a clean run decides is a choice of done, review,
conflict (`Workspace` decides it); a command is a model value and `Covers` says
which commands the exemption built from an approved one lets through
(`CommandGate` has the judgement itself); targets overlap only decides whether a
submit happens (`Targets`); the wording of errors, events and audit lines is left
out. An audit write that fails is not modelled, and the database answers
(`Store` is about the case that it does not).

### Scheduler

`Relay` lets the worker pop whenever an entry and a slot are there. In the code
it sleeps on a condition; `Scheduler` models the worker's states and shows that
it is awake when it matters (`NoLostWakeup`). The lock is never held across an
await that yields, so it is not a variable. `stop()` notifies and cancels the
worker in the same turn of the loop, so the cancellation wins and the worker does
not run its loop again; coroutines that never began are cancelled before their
`finally` exists.

### Workspace

The tasks are those of `Relay` without queue, slots and cancel events. The
shared area maps a file to a version number (0: no file); an agent of a running
task writes fresh versions or deletes at any time. `Start` is `prepare` with the
choice of directory (own, or the one of `resume_from`, or its own again after an
approval), `Finish` the tail of `run_task` with the scan, the copies into
`.result`, the conflict check on other rows, backups and cleanup.
`RestartInFinish` restarts the service after each of its commits.
Abstractions: the conflict window contains all tasks; `File` holds no volatile
files (the code drops them from every comparison); backup names never collide;
a sweep may come at any time (the age is in `Relay`).

### EventBus

`publish` and `subscribe` await nothing, so a change of the row and its event are
one action (`ChangeStatus`, `AgentSpeaks`) and so are the copy of the history and
the registration of the queue (`Subscribe`). A stream then replays its copy and
follows its queue, one event per action; the client may leave at any time, before
the generator has begun too (then nothing unregisters the queue). Events that
find the queue full are dropped. `Restart` forgets history and streams. The row's
life is the one of `TaskLifecycle`, as the status events it publishes. A client
that does not read is one whose stream takes no step for a while; only the
liveness properties take it to read on.

### Executor and CommandGate

In `Executor` the processes fork, redirect or close their pipes, ignore SIGTERM
and exit at any time; a process whose parent died belongs to init and `Tree` does
not find it. `Leave` is the way out of the read loop with the first walk through
/proc, `Signal` the SIGTERMs (and the walk of the second `_kill`, that of the
finally block), `Escalate` the SIGKILLs, `Waited` and `Drained` the two awaits of
the finally block. One walk is atomic, but processes run between walk and signals.
Process ids are not reused. A process the relay may not signal does not occur
(the agents run as the relay's user).

`CommandGate` judges one reported command after another. A command is what
the executor makes of its text: segments, cut at every `;`, `&`, `|` and end of line,
also within the quotes of a message. A segment has its words and what
`_dws_send_target` reads from it, the path with its lists of persons and groups.
The blocked patterns run over the words of the whole command, next to each other or
with gaps, and the search for a recursive `rm` over those of each segment: a message
whose text says `kill` or `rm -rf /` is stopped as the code stops it. `Judge` looks
conversations up (the lookup may fail) and keeps what it heard in the cache of the
process, `Resume` takes over the exemption of the command a person approved,
`NewRun` begins without. What is left out is how characters make words.

### RequestAuth and Activation

`RequestAuth` splits `_device_auth` where it awaits the body: `BeginRequest` has
looked at the time and the row, `EndRequest` compares the signature with the
secret read before and the nonce with the pruned cache. Between them the device
may be revoked or activated anew, the clock advance and another handler take the
same request. A signature is the secret it was made with and cannot be made
without it. A body may be awaited for any time, as the code sets no limit. That is
why `AcceptedOnce` has its exception: a handler that waited longer than the window
less the clocks' difference may accept a request again, because its nonce is
forgotten by then and its timestamp was judged before the wait.

`Activation` has the administrator (issue, reissue, revoke, delete a user), the
client's `ensure_device` and `cmd_config` with their fallback, the network (a
request may be lost, or arrive after the client gave up) and the two commits of
`/auth/activate` with a death of the service between them.

### Store, Knowledge, Dashboard, Targets

`Store` runs one statement at a time, as the lock of `DB` does: `Execute`,
`Commit`, and each of them breaking, with the repetition in `Return`; at a commit
that breaks, the statement may have been applied. SQLite's locked commit is
`CommitLocked`, which leaves the transaction open to the next call. `Knowledge`
has the uploads and deletions of the dashboard and `Run`, which is `prepare_run`
for the engine in use, over directories that a resumed task reuses.
`Dashboard` has the clock, the failures in the window and the sessions.
`Targets` submits tasks with directories and moves them through the statuses of
`Relay`. A target is the text the client wrote, a sequence of slashes, blanks and
words; `normalize` trims it at both ends (`Strip`) and `overlap` compares texts by
prefix, as the code does. The property is about the directories the texts name
(`Names`): words with one slash between any two. The root, `.`, `..` and two slashes
in a row within a text name none there: the code compares them as texts, or not at
all, and two such texts may lead to one directory.

### Bootloader and Provision

A run of `boot.sh` is a process with a place (`pc`); the timer's run and the one
that `POST /admin/update` starts are different systemd units and may overlap. One
action is one command or a group of commands between which nothing can come that
matters: `Migrate`/`Relink` (the directory becomes a release, then the link),
`Fetch`, `GatePasses`/`GateFails` (clone, pip, tests), `Install` (`mv`), `Rename`
(reading prev, the rename of the link) and `Restart` (`systemctl restart`, after each
of the three renames: deployment, rollback, operator), `HealthPasses`, `HealthFails`,
`RollBack`, and for the `rm -rf` of prune and of a failed deployment `RemoveSome` (a
release is half gone) and `Remove`, until `Pruning` or `Discard` goes on. `Kill` ends a
run anywhere, `Reboot` all of them. `older` orders the releases by their time, which is
what `ls -1t` in prune and in the operator's rollback reads; a removal may make what it
removes the newest.

A release is whole, half removed or not there. The code tells only whether its
directory is there, so half a release, left by a removal that was cut, can be switched
to; `misled` records that, `stale` that a run was cut between a rename and its restart,
`overlap` that two runs were active at once. Where the code does not keep a promise, the
properties say so with these: `LinkAlive` excepts overlaps and a switch to half a release, `Converges` ends with the link at
the head, and with its service running unless a run was cut before the restart or the
release is half of one, which no later round repairs.

`Provision` takes one item of each kind of check in the list's order: each is
looked at, in install mode changed, looked at again and reported; a run may be
killed between any two commands of an item; people edit mirrored files; the minute in
a backup's name is a clock of its own. The unit's replacement is one action per
command: `UnitWrite`, `UnitReload`, `UnitRestart`, `UnitJudge`, and for an unhealthy
relay `UnitReloadBack` and `UnitRestartBack`; a mirrored file's is `MirrorSave`, whose
copy may fail without anybody noticing, and `MirrorReplace`, whose copy may be cut. `hurt` says that a run
ended, or a reload failed, between the unit's text and its restart: the next run finds
the text in place and does nothing, and what systemd has read, or what runs, stays the
old unit. So `RunsWhatIsInstalled` excepts it, and so does `SecondRunChangesNothing`: a
run after one that only passed changes no file and loads no unit, and restarts the relay
only then, when it finds it slow, with the unit systemd has read. `LocalVersionsSaved`
excepts a version whose own backup copy failed (`unsaved`) and two replacements in one
minute, which share a name.

### The scripts of the skills and the proxy

`BatchWrites`: a call has an effect on the platform (now, later, never) and a
reply that does not determine it; each of the five scripts draws its own
conclusion. The approval script lists what is pending (`ApproveList`), takes the ids
it is given without looking (`ApproveGiven`, `--instance-ids`), or only shows what it
would decide (`ApproveDryRun`). `LongJobs`: for each client its calls, which may be lost on the way
there or back. `DesignUpdate`: a document of items (with a grid for reports), a
sequence of changes made one after the other (`MakeChange` is one turn of the
scripts' loop), one read and one write. The read may find the document's container, or
a page's data sources, or not (`found`): where it does not, the scripts build the form
or the report anew, and the page without its sources, and report success; what is kept
is then nothing, and `KeepsTheRest` excepts it. A script that fails between two calls
leaves what the calls before it did.

`Reports`: the ids given are resolved one by one (a department is asked for its
members; a user named twice is taken once, except by the two scripts that take the
ids as given), the range is cut slice by slice, and the three loops over sources,
batches and slices make one call per step, page by page; a batch that is refused is
asked user by user. A list that names users beside a department may be taken for
departments altogether, and then drops the users (`EveryoneAsked` says which ids are
covered). Of a leave type whose rules another system has, the vacation report says that
the balance is not to be had. `Summaries` and `Calendar`
have items and intervals instead of texts. The free slot finder takes one
engagement per step, the next in the order its sort would give, to merge it, and then
one merged interval per step, to find the gap before it. The meeting script tries
scopes and rooms one call at a time.

`Proxy`: `toOpenAI` reads the request message by message and block by block, and
what it sends upstream is built as it reads; the upstream's deltas become the
client's blocks. Texts are left out and a fragment is the number of its chunk.

`ProcessUpdate`: the flow is a tree of nodes of four classes, the designer's view
another tree, and what is compared is which nodes the saved view shows and with
whose settings. What the code does to a list of nodes and to the children of each
is a recursive function; the top level of `merge_process_view_schema` is done a
turn of its loops at a time (`KeepStart`, `PlaceNode`, `Merged`). The view may also be
given by the caller (`--view-file`, `--view-json`), who is not checked; a save or a
publication may be declined in an answer that the script takes for a success. The
properties except both by name, and a flow without a step.

## 3. Runs

| run | instance | question |
| --- | --- | --- |
| `relay_gate` | 2 tasks, 1 slot, 2 commands, one approval covering both, 1 crash | the gate, approvals used once, the refinement of `TaskLifecycle` |
| `relay_live` | 2 tasks, 1 slot, 1 command, 4 insertions, 1 crash, fair | is every row scheduled exactly once, does a cancel find its event, is the slot exact, does every task settle |
| `relay_stalecancel` | 1 task, 1 command | finding: a stale cancel event |
| `runtime` | scheduler: 3 submits, 2 slots, stop at any time; events: 1 stream, history 2, queue 2, 6 events, 1 restart; executor: 3 processes; fair | wakeups, slots, stop; does a stream show every event once, in order, and end when it should; does the tree die and the run return |
| `workspace_files` | 2 tasks, 1 file, 3 versions, 2 runs each, 1 restart, resume_from | conflicts, backups, sessions |
| `workspace_rebaseline` | 1 task, 1 file | finding: a change nobody reviews |
| `workspace_resume` | 2 tasks, 1 file, resume_from | finding: a backup of the wrong version |
| `eventbus_end` | 1 stream, queue as long as the events, 1 restart, fair | finding: a stream that never ends |
| `executor_timeout` | 2 processes, fair | finding: a timeout that does not bound the run |
| `service` | see below | authentication, knowledge, database, targets, gate, dashboard |
| `scripts` | see below | batch writes, installer, reports, proxy, Yida updates, jobs, calendar, lists |
| `boot` | 2 sound commits, 2 entries, KEEP 1, 2 pushes, 1 trouble, 1 overlap, fair | what the link names, what a failed deployment leaves, convergence |

**Composed runs.** `MCRuntime`, `MCService` and `MCScripts` put several components
side by side that share no variable in the models: what couples them in the code
(that the scheduler's coroutines run the executor and publish events) is in
`Relay`. Interleaving them would only multiply states, so a variable `part`,
chosen at the start and then fixed, says which one moves while the others stay in
an initial state; every property is then checked over each component's whole
state space. Fairness of an action that is possible where its component begins is
stated for `part` only (`FairPart` in `MCRuntime`).

`service`: one device with 2 secrets, 2 requests, 2 handlers, a window of 2, a skew
of 1, a clock to 6 and one restart (a request can be signed, delayed,
replayed on both edges of the window and after its nonce has expired, while a body is
awaited too); 2 clients of
one user, 2 codes, 2 devices, 3 activation calls; one skill, one server, two
memories in one directory; 3 database calls; 2 tasks with every subset of four written
targets: a directory, one inside it with slashes and blanks at its ends, the root, and
one that leads back through `..`; commands of 2 segments out of eight, with messages
that speak of `kill` and `rm -rf`; 2 failures in 3 seconds and
a clock to 7.

`scripts`: input files that are accepted, that are refused for each of the
scripts' reasons, and that need three calls; two approvals, listed or named, in any
order and twice; three installer runs with two
versions, two edits and two minutes (three are what the restart just described takes: one that is cut,
one that only passes, one that finds the relay slow); ids with a person twice, a department, and a department between
two persons of whom one is not in it, over
three days cut into slices of two and batches of two, with two failing calls;
conversations with system messages and texts between calls and results, streams of
five chunks over two tools; flows with and without a start, an end, a branch, a
node of an unknown component, over three views; two runs of every design update
with one or two changes each and up to two charts, beside a designer; three polls and two reconnections; a day of four hours with two
engagements, one room and one group of rooms; three items on three pages. Nodes of
flows and views nest three deep (`MCFlowNodes`, `MCViewNodes`), as deep as a branch
with a condition and a step in it.

Bounds: `MaxTasks`, `MaxSeq` (heap insertions between two restarts), `MaxCrash`,
`MaxSubmit`, `MaxVersion`, `MaxRuns`, `MaxEvents`, `MaxRestarts`, `MaxProcs`,
`MaxMoves`, `MaxTrouble`, `MaxOverlaps` and the like, each named where it guards. Two tasks are
enough for every pairwise race (same slot, same file, one cancelled while the other
runs). The bound on running tasks and the accounting of slots are checked with one
slot, and proved for every number of them. One crash hits every state, and recovery has no memory of
earlier crashes; four insertions for two tasks allow two approvals of one of them,
that is a run blocked, approved, blocked on another command and approved again. Six
events overflow a history and a queue of two before, at and after the seam, with a
block, an approval and a second run among them. Three processes are an agent, its
tool and what the tool leaves behind or forks while it is being killed. In `boot`
every release can be the previous one, the current one and the next, and KEEP 1
makes every prune remove something; one trouble (a kill, a reboot, a stopped
service, an operator's rollback or a manual update) comes at every place of a run,
and is what an overlap needs. The proofs cover every number of troubles. Both commits
are sound: any of them may still be too slow for its health check, and the gate may
fail, which is all that an unsound one adds before its deployment is undone.

**Deadlock.** All runs but `boot` switch deadlock checking off: a relay whose tasks
have all ended and whose bounds are used up really stops, so does a run or a
script that is over. The timer of `boot` never stops, so there it is checked.

**Fairness.** The loop runs every ready coroutine, hence weak fairness of
`Dispatch`, of a coroutine's first step (`Begins`) and of its tail (`RunEnds`);
the read loop wakes at least once a second and has a deadline, hence `LoopEnds`.
The sweeper runs every `RELAY_SWEEP_INTERVAL_SEC`, clocks advance, systemd has
`Restart=on-failure` and a timer that starts the unit again. Weak fairness of
`RunEnds` assumes that the finally block of `Executor.run` ends: it awaits the
pipe of the agent's stderr, and a process that escaped the tree could hold that
open. `Executor` shows exactly this: the run returns unless such a process is
there (`ReturnsUnlessHeld`), and does not when it is (`TimeoutBounds`). In
`EventBus` the loop runs a response that can go on and its client reads; in
`Executor` timers fire, signals arrive, and no process has to exit. In
`Bootloader` a run's commands go on (weak fairness of `Step`), and three things are
taken to succeed in the end if they are tried again and again, hence strong
fairness: the timer's round reaches the remote (`Begin(Timer, remote)`), a clone of
an unmoved head passes the gate (`GatePasses`), a sound release becomes healthy in
time (`HealthPasses`). No fairness is given to users: nobody has to confirm,
approve, deny, cancel or press the update button.

## 4. Findings

* `CancelledOnRequest` (`relay_stalecancel`): `run_task` leaves its blocked
  branch (`app/main.py:598`) without popping `cancel_events`. A cancel accepted
  while a blocked run is ending stays set, `setdefault` takes it over, and the
  run that the approval resumes is cancelled in its first turn, against
  `relay-service/README.md:70`.
* `AutoDoneIsIdle` (`workspace_rebaseline`): `prepare` takes a new baseline on
  every run and a blocked run is not scanned. What the agent wrote before the
  approval is in the new baseline, and the task ends done as one that changed
  nothing, against `relay-service/README.md:147`. A restart in the middle of a
  run has the same effect.
* `BackupIsEarlierVersion` (`workspace_resume`): a task submitted with
  `resume_from` works in the directory of the other task. Its scan copies the
  new version over `.result/<file>` and `backup_version` then reads it from
  there as the other's version, against `relay-service/README.md:154-155`.
* `StreamsEnd` (`eventbus_end`): a stream ends on a status event only, and
  events are lost in a restart (or to a full queue). The stream of a task that
  ended before the restart stays open for ever, against the comment at
  `app/main.py:26`.
* `TimeoutBounds` (`executor_timeout`): the finally block of `Executor.run` awaits
  the agent's stderr without a limit (`app/executor.py:296`), and the walk along
  parent links misses a background process whose parent has exited. A run that
  timed out then never ends and its slot is lost, against
  `docs/蜂群设计方案.md:58`. Such a process also survives a cancel, which
  `relay-service/README.md:137` says kills the whole tree.

Seen while modelling, not turned into runs:

* `misc/attendance_report_common.py:447`: the next slice begins at the midnight of
  the day one second after the last slice ended. For a range that ends at any other
  time than 23:59:59 of a day this is the same day again and the loop never ends;
  `Reports` is checked for the scripts' default, which ends at 23:59:59.
* denied tasks and tasks cancelled in the queue are never cleaned, although
  `app/workspace.py:77` speaks of every terminal state.
* the stale timeout counts from `created_at` (`app/main.py:517`), while
  `relay-service/README.md:148` says how long a task stayed in the state.
* after a statement that PostgreSQL refuses, nothing rolls the transaction back, and
  every later statement on it is refused too until the connection breaks or the service restarts
  (`app/db.py`, `Refused` of `Store`); after a locked SQLite commit the transaction
  stays open and the next call commits it with its own.
* overlapping runs of `boot.sh` (the timer's and a manual one) can remove the
  release the other has switched to; `Converges` shows that a later round repairs
  it, `LinkAlive` excepts them.
* a removal that was cut (`boot/boot.sh:176`, `:185`) leaves half a release, which the
  test at `boot/boot.sh:132` takes for a whole one: it is switched to without clone,
  gate or install, and if its health check passes nothing replaces it.
* a run cut between the rename of the link and the restart (`boot/boot.sh:153-154`)
  leaves the old service running, healthy; later rounds find the link at the head and
  only guard.
* a run of the installer cut between the unit's text and its reload or restart
  (`boot/provision.sh:257`) leaves the old unit loaded or running; a rerun finds the
  text in place and repairs nothing. The backup copies at lines 415 and 435 are not
  checked: the local version is replaced when its copy failed, too.
* a body is awaited without a limit (`app/main.py:744`) after the timestamp was judged
  and before the nonce is looked for: a replay whose body takes longer than the window
  less the clocks' difference is accepted a second time.
* of a list of users and departments `misc/attendance_report_common.py:566-581` may
  keep the departments' members only and drop the users, which its docstring
  (lines 553-555) says are kept.
* `yida_process_update.py:557` and `:571` take an answer with exit code 0 for done,
  one that says `success: false` too; a view given with `--view-file` is saved unchecked.
* a form or report whose container is not found in the answer is rebuilt without its
  items (`yida_form_builder.py:520`, `yida_report_update.py:193`), and a page whose data
  sources are not found loses them (`yida_custom_page_update.py:220`, `:287`), against
  the promise of its docstring at line 221.
* a confirmed or swept task cleans its directory, also one that another task, submitted
  with `resume_from`, shares (`app/workspace.py:87`); `SessionKept` is about directories
  nobody shares.
* what a designer saves between the read and the write of a Yida update is
  overwritten; a busy search that fails makes a whole day look free; a lost answer
  to the start of a long job can leave a second job behind.

## 5. Proofs

Each from the constants' named assumptions only, which TLC evaluates in the runs.

* `RelayProofs`, for any numbers of tasks, slots, insertions and crashes and any
  commands and coverage. `Invariance`: `IInv` is inductive. The properties are not
  inductive alone: that every queued row is waiting (`NoOrphan`) survives an
  approval only because a parked task has no occurrence left, which needs
  `OccurrenceInv` (a heap entry or coroutine outlives `queued` only by a cancel) and
  `ScheduledOnce`; the slots need `IsFiniteSet(inflight)`; at most `MaxConcurrent`
  running rows follows by an injection of running rows into coroutines, and at a
  restart from the rows alone; the gate needs that a pending hint and the exemption
  of a run were granted (`ApprovalInv`), which a crash between the commits preserves
  because the hint is spent in the first one, before `blocked_cmd` is replaced.
  `TypeCorrect`, `SlotsBounded`, `RunningBounded`, `ScheduledExactlyOnce`,
  `EachScheduledOnce`, `CancelAlwaysReaches`, `GateSafe`, `ApprovalsSpent` are
  conjuncts of it. `Refinement`: `Spec => ImplementsLifecycle`; each action maps to
  moves, approvals, passages or rests of the tasks it touches. The step lemma is
  split by concern (`TypeStep`, `PlaceStep`, `SlotStep`, `RunningStep`,
  `OutcomeStep`, `CancelStep`, `ChainStep`), each with one case per action.
* `WorkspaceProofs`, for any tasks, files, versions, runs and restarts:
  `ClashesOnRecord`, `EarlierSaved`, `SessionsKept` from `FilesInvariance`. The
  backup of an earlier version is right because `.result` still holds what the
  earlier task's scan put there (`KeptInv`), which holds only of a directory nobody
  shares (`DirsInv` says how a task gets into another's); the clash is on both
  records because whoever settled before is seen by whoever settles later
  (`SettledInv`); the session is there because only tasks that are over are cleaned
  (`SessionInv`, `RunningInv`).
* `RequestAuthProofs`, for any devices, handlers, requests, window and skew, and bodies
  that are awaited for any time (`WindowAssumption` only says that window and skew are
  numbers). `RequestsAcceptedOnce`: a nonce that was accepted is remembered until its
  timestamp has left the window for every handler that begins (`RememberedInv`), and a
  request in work was in it when its handler began (`WorkInv`); so a handler that
  accepts it again began long before, and has waited longer than the window less the
  skew, which is the exception of the property.
  `OldSecretsRefused`: a handler's secret was its device's when it read the row, so
  a secret that has died since died while the body was awaited (`SecretInv`).
* `BootloaderProofs`, for any commits, entries, KEEP and numbers of pushes and
  troubles, with runs cut at any command and within any removal. `LinkStaysAlive` (as
  long as no two runs overlapped and half a release was not taken for a whole one) and
  `FailureRestores` (as long as no two runs overlapped, from a whole release) follow from
  `BootInvariance`: at every place of a deployment it is
  known what the link names, that `prev` is a release other than the one being
  deployed, and what is still to be removed, which is never what the link names
  (`Deploying`). What the code itself can tell, that a directory is there, is not
  enough for any of it: that it is a whole release has to be carried through each place.
* `RuntimeProofs`. For any submits and slots: `IInv` adds to the scheduler's
  properties finiteness of the sets and which states of the worker go with which stage
  of stop(); `WakeupsKept`, `SlotsExact`, `StopIsFinal`, `TypeCorrect` follow. For any
  sizes of history and queue, any streams and numbers of
  processes (`RuntimeAssumption`). `StreamsSeamExact`: what a stream has shown, has
  still to replay and has in its queue is one run of consecutive events, which ends
  at the last one published unless the queue was full; this is inductive only with
  the history being the last events too (`BusInv`). `StreamsEndWithExecution`: an
  event that ends a stream is in the history, or on its way to a stream, only when the
  execution is over (`EndInv`); what a run published before it was blocked and
  approved is no such event, and from over there is no way back. `KillsRemembered`:
  `KillsGoOn`, the safety half of `TreeDies`; that the signals arrive is fairness.
  `RuntimeParts` and `RuntimeHolds` carry these over to the specification of the run.
* `ServiceProofs`, for any users, clients, devices, names, directories, paths,
  commands and limits (`ServiceAssumption`, `LockAssumption`; a shared name is never
  the text "no file", `NameAssumption`; the name of a directory has no slash or blank and
  is neither "." nor "..", `PathAssumption`; a send has two lists of recipients,
  `SegmentAssumption`):
  - `TokensActivateOnce` and `StoredSecretsWork` (`ActInv`): a code belongs to the
    user it was issued to wherever it has got to, each request on the network has its
    own number, and while a client's file has a secret that works, the requests it gave
    up carry codes that are spent, so that none of them can replace that secret;
  - `RunsLoadWhatIsShared` (`KnowledgeInv`): what a run finds in its directory is of either
    engine and any age, or nothing in a new one, and what the engine that starts reads
    is overwritten from any of these;
  - `AnswersAreKept` (`StoreInv`): the statement of a call is in the database at most
    once for each of its attempts, an open transaction has only statements that were
    answered with an error, and a token consumed is consumed once;
  - `TargetsDisjoint` (`TargetsInv`): a submit compares with every task in flight, and a
    task that has left flight never comes back, so that no pair escapes the comparison.
    For targets as texts: if one directory lies in another, the text of the one begins
    with the other's and a slash, whatever was trimmed at their ends (`NestedTexts`);
  - `AskedOnceForReason` (`GateInv`): the cache has of a conversation only what it is,
    and commands with the same sends are told to match whatever else their texts say.
    A person is asked for a reason: several or sensitive recipients, a conversation not
    known to be between two, or the words of a pattern or of a recursive `rm` in the
    text, which may be a message's own;
  - `LocksLastAsFailuresDo` (`DashInv`): at every moment from now on the pruned list
    counts as many failures as the whole one. That a look at the list loses nothing is
    a bijection between what is kept and what would have counted (`PrunedCounts`).

  `PartsImplemented` and `ServiceHolds` carry all of these over to the specification
  of the run.
* `ScriptsProofs`, for any input files (`FileAssumption`: finite
  lists of rows that can be told apart), limits,
  versions, jobs and items (`ToolsAssumption`; a content of a file says what it is,
  `VersionAssumption`):
  - `OnlyConfirmedIsSent`: a working run's plan is one whose digest was confirmed, and
    it is never replaced while the run works;
  - `BatchesAreHonest` (`ScriptsInv`): for each script, what its place says of the
    ledger, the calls that may still act and what is there. A failed entry is one whose
    call cannot act any more; a record is in one batch, because the batches of a list
    follow each other; what was looked up is a state the world was in during the run, and
    what is decided was in it, except approvals the caller has named himself;
  - `ReportsAreDone` (`JobInv`): what a client believes of a job is so, at every place
    of its program;
  - `RerunsAreSafe` (`ProvInv`): a mirrored file, the installed unit and the running one
    are what the place of the run allows, after a kill between any two commands and with
    copies that fail or are cut; the exceptions are those of `Provision` in section 2
    (`hurt`, `unsaved`, a shared minute);
  - `DesignsAreKept` (`DesignInv`): a document that was read, is being changed or is
    held by the service has items with ids of their own and, in a report, charts in
    rows, each row below all of the rows above it (`Rows`). That is more than the
    property asks for, and what it needs: a chart is put beside or below the last row
    only, so without the rows nothing keeps it off the others (`NextIsFree`). Of the
    items read, those no change has named so far are still there with the label they
    had, or a later change that does not name them could hit them (`MadeSound`, for one
    change of each kind). What is kept is kept of a document that was found in the
    answer (`found`); one that was not is rebuilt. There are labels and charts take up space
    (`DesignAssumption`).

* `ClientsProofs`, for any lists, days, departments, ranges, conversations, flows and
  views. What it needed was that no step of these models computes with a fold or a
  recursion what the code does in a loop: each loop is unfolded into its turns, and the
  invariant says what has been done after some of them.
  - `CompleteListsAreWhole` (`ListInv`, `PagesAssumption`): what was read of a list is
    of the list and counted once, and what lies up to the inbox scan's cursor has been
    read;
  - `ShownExactly` (`CalInv`, `DayAssumption`): with the above, the free slots. The
    merged intervals are apart and in order, no engagement left begins before them, and
    they cover with those left exactly the hours that are taken (`MergedInv`); the
    slots are free and long enough, and a free window that begins before the cursor lies
    within one of them (`SlotsUpTo`, `PassedInv`), which at the end of the day is the
    property;
  - `ProxyTranslates` (`TranslationInv`, `AnswerInv`, `ConversationAssumption`: the
    conversation is one the protocol allows): of the messages sent upstream, each that
    makes calls has a result of every call right behind it, or makes those of the last
    message read but for system messages, and has behind it the results of the message
    being read up to the block being read (`Pending`). Of the answer, as long as the
    upstream has not come back to a part, the client's blocks are the parts in their
    turn with the chunks of each, and the last one is open (`Assembling`);
  - `ReportsAreWhole` (`ReportInv`, `ReportAssumption`: a batch holds a user, a slice
    has a day): no user is in the list twice, unless the script takes the ids as given
    (`UsersInv`); the slices follow each other without a gap or a day in two of them
    (`SliceInv`), unless the range ends within a day, in which case the cutting goes
    round for ever (`Endless`, section 4); which calls were made follows from the place
    in the three loops (`PlaceInv`, `Made`), for a refused batch from the users not yet
    asked one by one; what was answered is of calls that were made, once each, and of
    all of them if none failed (`GotInv`). Everyone asked for is covered, but for users
    listed beside a department, whom the script may drop. The order of the loops differs from script
    to script, and so does `Before`;
  - `FlowsPublished` (`FlowInv`, `FlowAssumption`: flows and views are lists, and the
    items of a view have its four fields): of a flow that has a step and a view that was
    not given by the caller, what the merge has placed so far has the
    same steps in the same places as the beginning of the view that would be built
    anew (`OrderedInv`), because an item of the old view under an id of the flow looks
    as the flow has it (`Synced`), which rests on the ids being different in the whole
    tree (`Accepted`). The old view is followed through versions that runs and the
    designer write (`VersionsInv`), and from the save to the report the draft has the
    run's flow, or has been edited, or the save was declined in an answer taken for a
    success (`SavedInv`). What lies below the top level is the
    value of the recursive functions, the same for both views: no theorem says what
    these compute.

Assumed are only the types of bounds and constants and the few facts named above; each
names what the code has (limits that are numbers, input that was read to its end).

Every safety property of a passing run is stated by a theorem. Only model-checked is
what needs fairness, for which the prover has no rules and no ENABLED:
`EveryTaskSettles`, `Serves`, `StreamsEndIfKept`, `TreeDies` as a whole,
`ReturnsUnlessHeld`, `Converges`. Outside the prover's reach is also what a recursive
function computes for every input: the walks through a flow and a view are used in the
proofs as functions of which nothing is known but that they are the same on both sides.
The parts of `MCTools` and `MCClients` share no state, and the theorems are stated of
each part's own specification.

## 6. Mutants

Each property of a passing run is checked to fail when a definition is replaced by
a faulty form of it. The faulty forms stand next to the definitions
(`SlotFreeOffByOne` before `SlotFree`, `PoppedOne` before `Popped`, ...); no action
uses them. They are the bugs one would make here: a status not read again, a hint
not cleared, a notify forgotten, a backup taken from the wrong place, the previous
release read after the switch, a nonce forgotten too soon, a token's mark not
looked at, a failure not counted, a block not closed, a full page taken for the
last. `PROJECT.json` lists them.

## 7. Plan

Done: all of section 2. What is left, in the order of its worth:

1. what the nested walks of `ProcessUpdate` show of a branch, level by level: the theorem
   takes the branches of both views as the same values, TLC compares them three deep;
2. `Workspace` with the time window of the conflict check and colliding backup
   names;
3. the transfer of task files and the links to credentials;
4. the deployment together with the service it restarts: `Bootloader` composed with
   `Relay`, so that a restart of the one is the crash of the other.

## 8. Not modelled

* configuration, audit log and entry points (`app/config.py`, `app/audit.py`,
  `app/serve.py`, `app/entry.py`): settings read once, an append-only file, process
  start.
* maintenance scripts (`boot/dws-refresh.sh`, `relay-service/scripts/`): one-shot
  scripts over files and certificates without a state of their own.
* the administrator's command line (`relay-service/team_agent.py`): one request per
  command, whose effect is an action of the service.
* the Yida page compiler, its generator and self-check, the chart and field schemas
  (`misc/yida_jsx_pipeline.py`, `misc/yida_page_compiler.py`,
  `misc/yida_page_generate.py`, `misc/yida_report_charts.py`,
  `misc/yida_form_fields.py`): text in, text or a schema out; there is no state and
  no order for a model to get right, and a model of a parser would be a copy of it.
* the layout of the reports' sheets, names of shifts and leaves, texts of pages and
  messages; the dashboard's views; zip checks of uploads.
* prompts and reference texts of the skills: instructions, not a program.
