# A verification project for the DEM conductor

The conductor (`src/conductor/src/conductor/`) drives Claude agents from a Plane
board to merged GitHub pull requests: webhooks or a poller put jobs into a
SQLite table, one serial scheduler worker runs them, each ticket is built in
Docker containers on its own volumes, and an operator can stop and delete jobs
from a console. These modules model that core in TLA+, with the parts around it
that feed it (webhooks, the poller), run its containers and keep its
configuration. TLC checks them on small instances, and TLAPS proves the safety
properties of every component for all instances.

Paths below are relative to `src/conductor/src/conductor/` unless they start
with `src/`.

## 1. Inventory

| Component | State it keeps | Operations | Hard part | What makes it correct |
|---|---|---|---|---|
| Job queue (`jobs.py`, `models.Job`) | table `jobs` | enqueue (read, fold, insert), claim, complete, requeue, stop, delete | coroutines interleave between a read and a write; restarts; id reuse | at most one active job per key; no orphaned RUNNING row; terminal is final |
| Ticket pipeline (`scheduler.py`, `tickets.py`, `agents/volumes.py`) | `tickets`, `ticket_prs`, two Docker volumes, the branch and pull requests on GitHub, the Plane card | build, park, resume, open PRs, review loop, fail, cleanup | the console, humans, GitHub and a dying process act between any two awaits; each step may fail | done means merged; approved is what is pushed; a park can be resumed and shows on the board; every dispatch ends |
| Selection and blocking graph (`scheduler.py:122-159`) | reads `jobs`, `tickets` | order by in-flight, gate on `blocked_by` | stale reads, cycles, deleted blockers | nothing is built before its blockers are done; nothing starves |
| Planner (`scheduler.py:254-331`) | Plane issues, planned tickets | create issues, then record the graph | failure between the two phases | every issue in `ready_for_dev` has its graph before it is selected |
| Dispatcher, run log (`agents/dispatcher.py`, `agent_runs.py`) | semaphores, `agent_run_logs`, the dialog that shows them | run, re-prompt once, stream, finish, refresh | timeout against late output and exit; crash during a run; a dialog that skips rebuilds | a terminal row is final and of a stopped container; done means exit 0; the log is the tail of the output |
| Container control (`agents/dockerctl.py`) | containers | run, follow, kill, remove | the output pump's thread, the deadline, name conflicts | output is complete or the run failed; every dispatch ends |
| Webhook intake (`api/webhooks.py`) | none | verify, parse, decide, enqueue | one drag is several deliveries; late, repeated, lost ones; the conductor's own moves come back | one build per entry into a column; every entry finds or makes a job |
| Poller (`poller.py`) | `_seen`, in memory | sweep, diff, enqueue | restarts lose the baseline; half a sweep fails; what is closed, or off the first page, leaves the list | each change on the page is told once, none older than the baseline |
| Process lifecycle (`main.py`) | tasks | seed, recover, start, cancel | what is half done when the process dies | no job is lost over a restart |
| Project mappings (`mappings.py`, `targets.py`, `ui/wizard.py`, `ui/pages.py`) | project, repo and state mapping rows | seed, import, edit, delete, wizard save | pages loaded earlier, saves of several transactions, crashes in between | the database wins; a rename never unmaps a repo |
| Configuration (`store.py`, `catalog.py`, `config.py`) | settings and secrets rows over defaults | seed, save a section, export, import | stale pages, partial saves, seeding again | what was entered is kept; an export restores it |
| Prompts (`prompts.py`) | one row per role | seed once, edit | - | the database wins |
| Router, contracts, clients, verify, notify, login, pages, image | none or cosmetic | calls and text | - | - |

How they interact: intake and the poller only *enqueue*; the scheduler worker
is the only one that *claims* and *completes*; the console *stops* and
*deletes* and kills containers, which reaches the worker as an exception of the
`run_container` it awaits; the merge of a pull request comes back through intake
as a job of its own that the same serial worker runs. All share the SQLite
file: one statement (with its commit) is atomic, nothing spans an `await`.

## 2. Modules

| Module | What it is |
|---|---|
| `JobLedger` | abstract: each job id moves through one lifecycle in atomic steps; two jobs of one key are never active together |
| `JobQueue` | the table with the coroutines that read first and write later, the worker, the console, crash and recovery |
| `JobQueueProofs` | TLAPS: the queue's invariants and its refinement of `JobLedger` |
| `MCJobQueue` | model values and request sets for TLC |
| `TicketPipeline` | one ticket through build, park, resume, review, merge and cleanup |
| `MCTicketPipeline` | repos as model values for TLC |
| `BuildOrder` | the planner, the blocking graph and the worker's choice among many tickets |
| `MCBuildOrder` | a plan for TLC |
| `AgentRuns` | the containers of one role for one ticket: dispatcher, log pump, deadline, run rows, the timeline dialog |
| `BoardIntake` | the board and Plane's deliveries, up to the job they make |
| `PullPoller` | the poll loop over the pull requests of GitHub |
| `Mappings` | one project's mapping, edited from several browser tabs, seeded and imported |
| `ConfigStore` | settings and secrets: seeding, section saves, exports, rebuilt instances |
| `MCAgentRuns`, `MCBoardIntake`, `MCPullPoller`, `MCMappings`, `MCConfigStore` | model values, symmetry sets and data for TLC |
| `TicketPipelineProofs`, `BuildOrderProofs`, `AgentRunsProofs`, `BoardIntakeProofs`, `PullPollerProofs`, `MappingsProofs`, `ConfigStoreProofs` | TLAPS: the safety properties of each component (section 4) |

`BuildOrder` sees `TicketPipeline`'s runs from outside, `TicketPipeline` and
`BoardIntake` take `JobQueue` as its abstraction `JobLedger` (at most one active
job of a key), and `TicketPipeline` takes a run of `AgentRuns` as one step that
returns or raises.

### JobQueue

`jobs` is the table (`NoRow` where there is no row; the row keeps what the
properties tell apart: status, delivery id, key, and the payload list as a set). A
caller `c` is a coroutine inside `enqueue_job`: `cpc`, `req`, `seenId` and
`seenRaws` are its program counter and the locals it holds across awaits. The
worker has `wpc` and `wid`.

| Action | Code |
|---|---|
| `Call`, `LookupHit`, `LookupMiss`, `Fold`, `Insert`, `InsertRejected` | `enqueue_job`: entry, the SELECT of line 63, the UPDATE of line 74, the INSERT of line 88 and its IntegrityError |
| `Select`, `Claim`, `Complete`, `CompleteRaises` | `Scheduler.tick`, `claim_job`, `complete_job` and its failure caught in `Scheduler.run` |
| `Stop`, `Delete` | `stop_job`, `delete_job` (the row; ticket rows are in `TicketPipeline`) |
| `Crash`, `Recover` | shutdown or death; `requeue_running` before the worker starts |

`IsNextId` is SQLite's rowid rule: a deleted last id is used again. `source` is merged into the key, since only Plane jobs carry
one. `lost` remembers rows whose completing write raised. Poller and GitHub
calls carry no key and skip the read.

### TicketPipeline

One ticket, one operator, one worker program counter `pc` whose values are the
awaits of the handlers. `ctx` holds the handler's locals (`_Pipeline` and
friends), `rows` the `TicketPR` table, `gh` and `pushed` GitHub, `vol`,
`volumes`, `orphan` Docker, `board` the Plane card. A commit count stands for
the content of a clone: each engineer commit makes a new version, so equal
versions are equal diffs. A container is named after its role and ticket and is
never started with `--rm`, so an engineer's container that outlives its process
keeps the name of the next one, running or exited (`orphan`, `NameTaken`), until
somebody removes it: meanwhile every launch of the engineer fails, and what the
leftover still commits meets no checker. Left out, `ApprovedIsPushed` would be
wrong with two repos and a crash. The job table is taken at `JobLedger`'s word: at most
one active job of the ticket (`job`).

| Actions | Code |
|---|---|
| `Claim` .. `Begin` | `tick`, `_run_engineer` up to `_build`, `_resume_context` |
| `Wipe`, `CloneOne`, `Cloned` | `VolumeManager.prepare` and the clone script |
| `AgentDone`, `AgentAsks`, `Count`, `Park` | `_build`, `_park` |
| `Push`, `OpenPr`, `RecordPr`, `InReview` | `_open_prs` |
| `Hash`, `ReviewPasses`, `ReviewFails`, `Unscored`, `Approve`, `BumpRound`, `Reworked`, `Repush`, `Rehash` | `_review_loop` and the `MalformedAgentOutput` park around it |
| `Complete`, `Raise`, `Fail`, `FailRaises`, `SetError` | the end of `_run_engineer`: `complete_job`, then (another await) `set_status_unless` |
| `ClaimCleanup`, `MarkMerged`, `SetDone`, `Destroy`, `CleanupRaises` | `_run_cleanup` for a merged pull request |
| `StopJob`, `DeleteActive`, `MarkStopped`, `Kill`, `DeleteKilled`, `DeleteFinished` | `_stop_job`, `_delete_job`, `_kill_job_containers`, `kill_containers`, `delete_job` |
| `CardReady`, `MergePr`, `ClosePr`, `EngineerCommits`, `OrphanExits` | humans, GitHub, the agent, leftover containers |
| `Crash`, `Recover` | the process dies, its container may live on; startup |

`SetState` writes the local status and moves the card in one step although the
code awaits between them. No other actor's step depends on both, the card may
stay where it is in that step (an unmapped state, a `PlaneError`), and a crash
in between is that outcome followed by a crash; the board properties ask only
about tickets whose job is done. `Raise` may strike at every await.

### BuildOrder

Many tickets of one epic. A job is a token (`PlanJob`, `Build(i)`,
`Merge(i, n)`); `queue` holds the active ones by age, `running` those claimed.
`row` is the tickets table with the statuses the worker tells apart and
`blockedBy`; `announced` the creation webhooks Plane has not delivered. Inside a
ticket only what other tickets can see remains. An issue is the n-th ticket of a
plan; a plan gives each ticket a key and the keys it waits for. Nothing in
`contracts.Plan` makes keys unique, so `KeyToId` is the code's dictionary: of the
tickets of one key whose issue came back with an id (`created`), the last.

| Actions | Code |
|---|---|
| `Take` | `tick`: `_select_job` (in-flight first, then oldest, behind `_is_blocked`) and `claim_job` |
| `PlanAnswered`, `CreateIssue`, `RecordRow`, `PlanEnds` | `_run_planner`, the two passes of `_materialize_plan` |
| `Begin`, `OpenPr`, `BuildEnds` | `_run_engineer`, as the others see it |
| `CleanUp`, `CleanupRaises` | `_run_cleanup` |
| `EpicEvent`, `Announce`, `CardReady`, `MergePr` | webhooks, through `enqueue_job` |
| `Stop`, `Delete`, `Crash`, `Recover` | console and process |

Selection and claim are one step: between them only a stop or a delete of the
chosen job matters, and then the claim fails and nothing has happened. Failing
final writes (`complete_job` raising), the split between creating and recording
a pull request and pull requests closed unmerged are `TicketPipeline`'s. The two
modules share no variables; `BuildOrder`'s `Begin`, `OpenPr`, `BuildEnds` and
`CleanUp` are `TicketPipeline`'s runs seen from outside.

### AgentRuns

`pc` is where `Dispatcher.run` is, through `run_container` and
`_follow_stdout`; `stream` counts the chunks printed, read by the pump thread,
taken off the queue and flushed to the row (all first in, first out, so counters
say which chunks they are); `box` is the container of this name and outlives
the process; `rows` are the `agent_run_logs`, `shown` what the dialog last drew.

| Actions | Code |
|---|---|
| `Begin`, `StartRow`, `StartUnlogged`, `Launch`, `LaunchFails` | `run`, `_start`, `start_run`, `containers.run`; a recorder that fails leaves the run unlogged and unfollowed |
| `TakeChunk`, `Flush`, `Expire`, `SeeEnd`, `Drained`, `KillLate`, `Join` | `_follow_stdout`: the loop, its flush, the deadline, the sentinel, the kill, `await pump` |
| `PumpReads`, `PumpEnds`, `PumpBreaks` | the pump thread; a `container.logs` that raises at the call sends no sentinel (`mute`) |
| `WaitTimesOut`, `ReadExitCode`, `DockerFails`, `Remove` | the rest of `run_container` |
| `Finish`, `Parse` | `_finish` and `finish_run`, `run_parsed` with its one re-prompt |
| `AgentPrints`, `AgentExits`, `Deadline` | the agent and the clock |
| `StopJob`, `DeleteJob`, `DeleteRows`, `Refresh` | console |
| `Shutdown`, `Crash`, `Restart` | cancellation in the lifespan, death, a new process |

The scheduler is serial and one dispatch of a role follows another, so the
semaphores are never waited for and are left out.

### BoardIntake

`card` is the board, `wire` what Plane still has to deliver, each delivery with
the snapshot it was sent with; `handling` holds the requests between their
trigger decision and their `enqueue_job`. Humans create, drag, edit and label
cards, the planner creates them (`PlanCard`) and the engineer moves them
(`EngineerMoves`); `LabelCard` stands for every edit that leaves the column. `Receive` is
`plane_webhook` down to the trigger (`_is_epic`, `_entered_state`), `Enqueue`
its `enqueue_job` in one step. `jobs` is the table: `EndJob` leaves the row and
with it the delivery id, the console's `DeleteJob` takes both. `Receive` may leave the delivery on the wire (Plane sends
it again), `Lose` drops one, `Crash` loses the requests under way.
`SwitchProject` and `SwitchMapping` are the console's.

### PullPoller

`pr` is GitHub, a pull request's `ver` its `updated_at`. `sweep` is the state of
`poll_once`: the repos left, the list of the one at hand, what is left to
report. `StartSweep`, `List`, `ListFails`, `Report`, `EndRepo`, `EndSweep` and
`Abort` are the awaits of `poll_once`, `Interval` and `IntervalFails` the read of the
interval between two sweeps; `SwitchProject`, `SwitchMode` the console; `Restart`
a new process, which reads the mode and has no memory. A list is one page: the
`PageSize` newest of the open pull requests (100 in `github.py:75`), `LeftOut` the open
ones it lacks. `told`, `start`, `aborts` and `hidden` are history; `hidden` counts
how often a full page made `EndRepo` forget an open pull request.

### Mappings

`project` and `repos` are the rows of one project. A tab's `job` holds what its
page loaded (`project`, `was`), what the wizard is to save (`want`) and what is
left of the save or import it is in. Single writes (`ToggleProject`,
`PickProjectIcon`, `PickRepoIcon`, `EditRepo`, `RemoveRepo`, `DeleteProject`)
use what the page loaded; a wizard save (`SaveWizard`, `NextStage`, `SaveRow`,
`DropKey`, `SaveSecret`) and an import (`Upload` or `Boot`, `ImportRepo`,
`EndImport`) are a transaction each row. `LowerKeys` are the keys without capitals:
the wizard and the repo form lower what is typed, a file and an older row may
have others. `human` remembers what a human last
decided for a key, `disturbed` that somebody else wrote meanwhile.

### ConfigStore

`rows` are both tables (`"unset"`: no row, `"empty"`: saved empty), `Resolved`
overlays them on the defaults. `Boot` is `seed_from_env`; `OpenPage`,
`SaveSection` and `SaveField` are a page and `Section.save`, one transaction a
field; `DownloadBundle`, `DownloadEnv` and `UploadBundle` the migration tab;
`Restart` keeps the database, perhaps under the exported environment, and
`Rebuild` starts with an empty one. Encryption is the identity on what the right
key or passphrase decrypts; a wrong passphrase changes nothing.

## 3. Runs

| Run | Bounds | Shows |
|---|---|---|
| `queue` | 2 rows, 2 callers, 2 deliveries of one key, 1 call without key | `AtMostOneActive`, `RunningIsHeld`, `TerminalIsFinal`, `JobQueue` implements `JobLedger` |
| `pipeline` | 1 repo, 2 versions, 2 pull requests, 2 card moves, 1 click, 1 crash | `DoneMeansMerged`, `ParkedKeepsSession`, `ParkedOnBoard`, `ApprovedIsPushed` |
| `pipeline_multi_repo` | 2 repos, 1 pull request each, 2 card moves, 1 crash | `DoneMeansMerged` over several repos and re-routing |
| `pipeline_liveness` | 1 repo, 1 version, 1 card move, 1 click, 1 crash | `DispatchEnds`, `QueuedIsServed` |
| `build_order` | a chain and a join of 3 tickets, or 2 tickets of one key, 1 planner run, 1 pull request each, any 2 of an id missing on the second issue, card moves, clicks and crashes | `BuildsAfterBlockers`, `GateReleases` |
| `agent_runs` | 2 containers, 2 chunks each, a log of 1 chunk, any 2 of faults, clicks and crashes | `LogFollowsStream`, `TerminalAfterContainer`, `DoneMeansClean`, `FinalRow`, `ViewNotStale`, `DispatchEnds` |
| `board_intake` | 2 cards, 4 deliveries, 1 switch or delete, 1 repeat, loss or crash, epics by label | `OneBuildPerEntry`, `EnteredHadJob`, `PlannedIsBuilt` |
| `pull_poller` | 2 repos of 2 pull requests, pages of 1, 3 changes, 1 switch, 1 error or restart | `NoRepeat`, `NoStartupStorm`, `OpenChangeTold` |
| `mappings` | 2 keys and a seeded one with a capital, 2 repos, 2 tabs, 3 pages opened, 1 crash, no reseed | `RenameKeepsRepo`, `SaveReconciles`, `HumanWins` |
| `config_store` | 1 secret, a setting with a default and one without, 2 values, 2 tabs, 3 saves, 1 export, 2 boots, no reseed | `EnteredIsKept`, `BundleRestores` |

Why these bounds are enough: a race in `enqueue_job` needs two callers and a
conflict needs two rows; two rows also make id reuse possible. A late merge
event of an older pull request needs a second one (two card moves); a re-push
needs a second version; one crash and one click may fall between any two awaits
and so meet every window. In `build_order` one ticket waits for a blocker declared
after it, another joins two and names a key the plan lacks; in the other plan a key
stands for the second of two tickets; three tickets are what
tells *any* blocker from *all* and lets a released ticket starve behind two others. Two chunks against a log of
one make the cap cut; two containers let a re-prompt, or the next
dispatch after a failure or a restart, meet the row and the leftover container of the first. A drag is two deliveries, so four are two drags, or a drag
with two edits of either card, around one repeat. Two repos tell the baseline of one from that
of all, two changes a repeat from a new version; with a page of one the second
pull request of a repo hides the first, and the third change shows or closes it
again. Two keys and two repos are a rename or a swap, the third key a rename that the wizard makes by itself;
three page loads are two stale tabs and a later one. A secret, a setting with a default and one without are one field of each
behaviour; two settings let a section save carry a stale one along; two values tell an edit from the
seed, and two boots are a rebuild and what follows it.

Events are bounded by `MaxReady`, `MaxClicks`, `MaxCrashes` (`MaxEvents`
together in `BuildOrder` and `AgentRuns`), `MaxFaults`, `MaxSent`, `MaxToggles`, `MaxChanges`,
`MaxSwitches`, `MaxOpens`, `MaxSaves`, `MaxExports` and `MaxBoots`; the state
spaces are otherwise complete. `CHECK_DEADLOCK FALSE` is set in every run but
`queue`: a system whose bounded events are used up has nothing left to do.

Symmetry is used for callers, deliveries (`queue`), repos
(`pipeline_multi_repo`), cards (`board_intake`), keys without capitals (`mappings`) and tabs (`mappings`,
`config_store`), where the specification treats the values alike, and never in
a run with a liveness property.

Fairness (`pipeline_liveness`): the worker, taken as one process, keeps taking
steps (`WF_vars(Engineer \/ Cleanup)`): `Scheduler.run` loops for ever and every
await returns or raises, agents within `agent_timeout_minutes`. Helper
containers (clone, push, count, diff) have no timeout in the code; for them this
is an assumption about git and Docker. `WF_vars(Recover)`: a dead process is
started again. Nothing is assumed of humans, GitHub or the agent. The review
loop has no round limit: `DispatchEnds` rests on `MaxWork`, that is, on an
engineer who at some point has nothing new to commit; what it checks is that the
stall detector then ends the loop. `build_order` assumes the same of its
worker (`WF_vars(Worker)`), and nothing of webhooks: a creation webhook that is
never delivered leaves its ticket unbuilt, and `GateReleases` speaks only of
jobs that are queued.

`agent_runs` assumes of the conductor that its event loop runs what is ready
(`Dispatch`), that its pump thread reads what there is (`Thread`) and that time
passes (`Deadline`), each `WF`; nothing makes an agent print or exit, so
`DispatchEnds` rests on the deadline, the kill and the removal alone. It is
checked with a timeout set; an `agent_timeout_minutes` that is not a number
means none (`TimeoutSet = FALSE`), and then a hanging agent, or a pump that
never sent its sentinel, never sent its sentinel, hangs the worker. `pull_poller` assumes `WF_vars(Poll)`:
while the task lives, each of its awaits returns or raises. What `poll_once` raises
is caught and the next interval follows (`Abort`); the read of that interval stands
outside the `try` (`poller.py:102`), so an error there ends the task, and nothing polls
until a restart (`IntervalFails`, which clears `polling`). `OpenChangeTold` asks
only about a task that lives.

### Divergences

These runs check a sentence of the code's own comments or docs and TLC finds a
behaviour of the code that breaks it.

| Run | Sentence | Behaviour |
|---|---|---|
| `answer_lost` | a parked ticket moved back resumes (`src/docs/HANDOFF.md:17-19`) | the park has moved the card to blocked (`boardOk`); the human moves it back before `complete_job`, the delivery is folded into the job that is about to be done, and the card rests in `ready_for_dev` |
| `poll_merge_lost` | a job whenever a PR's state changes (`poller.py:1-3`), the poll delivers `merged` (`src/docs/HANDOFF.md:301`) | the list holds open pull requests only (`github.py:69`): one that is merged leaves it and is never reported, so in poll mode no ticket becomes done |

More are visible in the models and have no run.

Job table and pipeline:

- A folded delivery's id is stored nowhere, so its literal redelivery after the
  job's end makes a second job (`jobs.py:48`, `jobs.py:76`; `Fold`); two
  concurrent folds lose one payload (`jobs.py:57-59`).
- A stop whose kill finds no live container leaves the dispatch running: it
  still opens a pull request for the stopped job (`jobs.py:133-135`; `Kill`).
- A stop's `stopped` on the ticket is kept by the failure handler
  (`set_status_unless`, `SetError`) only if it is still there: `Begin`, `InReview` and
  `BumpRound` write over a mark that came before them, and the kill's failure
  then says `error`. The job stays cancelled (`TerminalIsFinal`).
- A pull request created but not recorded (a failure between `OpenPr` and
  `RecordPr`) does not hold back `done` (`scheduler.py:162-163`).
- A planner that fails between creating the issues and recording them leaves
  issues whose jobs run ungated and without a target (`tickets.py:27-29`;
  `CreateIssue`, then `PlanEnds`).
- A planned issue that comes back without an id gets no row and holds nothing back,
  and of two tickets with one key only the last does: a ticket that names the key is built
  before the first is merged, or, if it has the key itself, waits for itself
  (`scheduler.py:323-328`; `CreateIssue`, `KeyToId`).
- The stall hash covers the repos that already had commits, so a first commit in
  another target counts as no work (`agents/volumes.py:132-134`; `Rehash`).
- A resume routes again and may get a repo its volume never cloned
  (`scheduler.py:73`; `Fetch`); a container that outlived its process keeps the
  volume, so `prepare` does not start clean (`agents/volumes.py:52-54`; `Wipe`
  with an `orphan`, then no `CloneOne`).
- A stall moves no card although `WorkflowState.BLOCKED` names stalled tickets
  (`models.py:45-46`; `Rehash`); a console delete removes the row that
  `bump_loop_round` asserts (`tickets.py:162`; the guard of `BumpRound`).

Agent runs:

- A run row stays `running` although no container is live (`models.py:240`)
  after a crash, a shutdown, a launch that fails, or a kill that meets a
  container that has just exited (`KillLate`: the `APIError` is not a
  `ContainerTimeout`).
- A leftover container keeps its name, and every later dispatch of that role and
  ticket fails at launch (`LaunchFails`).
- A failure without stderr appends the whole stdout to a row that was streamed
  it already (`dockerctl.py:150`; `FailureTexts`).
- The timeline stands still while a running row is at its cap (`Signature`).
- A job id used again (`IsNextId`) shows no old rows only because `delete_job`
  deletes them in the same transaction; rows a running worker opens after the
  delete belong to the new job.

Intake:

- With `plane_epic_signal = parentless` the planner's own issues are epics too
  and are planned again (`PlannedIsBuilt` fails with `EpicSignal = "parentless"`;
  `scheduler.py:300-301`).
- Any edit of an epic-labelled issue plans it again once the first job is done
  (`webhooks.py:190`: the epic test looks at the label, not at what changed).
- An entering delivery that comes late builds a card that has left the column.
- A Delete of a finished job takes its delivery id along (`jobs.py:205`), so that a repeat
  of the delivery builds the card again (`OneBuildPerEntry` counts the deletes).
- Of more than 100 open pull requests the poller sees one page. One that drops
  off is forgotten (`poller.py:91`) and is reported again, or for the first time
  though older than the baseline, when others close (`NoRepeat` and
  `NoStartupStorm` say by how much); while it is off, its changes are not told.
- A database error while the interval is read ends the poll task for good
  (`poller.py:102`, against "a poll error must not kill the loop" at
  `poller.py:100`; `IntervalFails`).
- The poll mode is read at boot only (`poller.py:121`), though the set-up guide
  says "You can switch modes any time" (`src/docs/SETUP_GITHUB.md:88`): `SwitchMode`
  leaves `polling` as it is.

Mappings and configuration:

- The icon picker writes `enabled` as its page loaded it (`pages.py:379`), so it
  can switch a project on that a human has switched off (`models.py:137`, the
  "human opt-in gate"); a section save writes every setting as its page loaded
  it, over another page's edits.
- A crash between `set_project` and `set_repo` at boot leaves the file's repos out
  for good, since the next boot skips the project (`Skipped`); a project deleted in the
  console is back after the next boot with the same file.
- A page loaded before its project was deleted can still add repos to it, which
  then belong to no project.
- The wizard lowers keys (`wizard.py:525`): re-saving an unchanged key with a capital sets
  the lower key anew and deletes the old row with its icon, although
  `mappings.py:180-181` says that a re-save never wipes one (`SaveWizard`, `LowerKeys`).
- A wizard save that swaps two repos' keys maps both to one repo for a moment.
- A setting saved empty is left out of the exported `.env` and comes back as its
  default (`store.py:169`; `src/README.md:106` calls the file a "plaintext seed of
  every value"); the bundle keeps it (`BundleRestores`).
- Nothing removes a secret, so an API key saved beside a stored token leaves both
  (`SaveField`); validation reports it, although `agents/dispatcher.py:176` says it
  guarantees there is only one, and the token is used.

## 4. Proofs

Every invariant and action property of section 3 that is not a liveness property
is proved for all values of the constants that satisfy the modules' assumptions.
Each theorem is of the specification a run checks, and of the same definition. The
inductive invariants below were model-checked on the run's constants before they
were proved.

What is assumed: `QueueAssumption`, `PipelineAssumption`, `BuildOrderAssumption`,
`RunsAssumption`, `BoardAssumption`, `PullAssumption`, `MappingsAssumption` and
`ConfigAssumption`, each evaluated by TLC in its run. They say that null values are
not values, that bounds are natural numbers, that there is a repo, a pull-request
number and a plan, and that data such as plans, defaults and `targets.yml` have
their shape. One theorem has a hypothesis of its own, `PlannedStaysTicket`:
`EpicSignal = "label"`, the default of the code; with the other value its property
is false (section 3).

| Theorem | Property | Inductive invariant, and why it is needed |
|---|---|---|
| every module's `TypeCorrect` | `TypeOK` | types, with the locals of the program counters where a later step relies on them (`CtxInv`, `PlaceInv`, `OrderInv`, `JobInv` of `Mappings`, `SecretInv`, `CountInv`) |
| `KeysApart` | `AtMostOneActive` | itself: only `Insert` could clash, and its guard is the table's constraint (`InsertKeepsKeysApart`); `Claim` and `Recover` keep what is active (`NoNewActive`) |
| `NoOrphan` | `RunningIsHeld` | itself: `Claim` records who holds the row, who lets go by writing or by joining `lost` |
| `StopWins` | `TerminalIsFinal` | types |
| `QueueImplementsLedger` | `ImplementsLedger` | the two above; `Insert` needs the guard of `Conflict`, `Fold` that payloads change neither status nor key (`FoldKeepsStatus`) |
| `DoneIsMerged` | `DoneMeansMerged` | `MergeInv`: a row marked merged, a queued cleanup and a running one are each of a pull request merged on GitHub; no build works on a done ticket, else `RecordPr` could reopen it |
| `ApprovalIsPushed` | `ApprovedIsPushed` | `ReviewInv`: a build clears the verdicts, what it has not left to push is at the branch head what the volume holds, and no leftover engineer runs beside a review, because a second container of its name cannot start |
| `ParkKeepsSession` | `ParkedKeepsSession` | `SessionInv`: a build past its agent has saved the session and made the volumes; only a merge destroys them |
| `ParkShowsOnBoard` | `ParkedOnBoard` | `BoardInv`: the property without its conditions on worker and job: every step that leaves the ticket parked leaves the card or is the park or a human |
| `BlockersFirst` | `BuildsAfterBlockers` | `GateInv`: the rows' graph is the plan's with its keys resolved, which no later issue changes because all of a run's are created before its first row; done is merged, a cleanup is of a merged pull request, and what the gate read when it took the job is still so: `done` is not taken back |
| `RowAfterContainer`, `DoneIsClean` | `TerminalAfterContainer`, `DoneMeansClean` | `BoxInv`: the container at hand is the row's, and the exit code that was read is its own; `PumpInv`: a follow that ended in time took all there was |
| `LogIsStream` | `LogFollowsStream` | `PumpInv` and `TailGrows`: to append a batch to the capped tail and cap the result is the capped tail of the longer stream |
| `HistoryIsFinal` | `FinalRow` | `RowInv`: the row at hand is open, rows of later runs are blank |
| `ViewIsFresh` | `ViewNotStale` | `ViewInv`: what was shown was once the row, and a row that is not at its cap only grows, so that equal lengths are equal texts |
| `BuiltOncePerEntry` | `OneBuildPerEntry` | `BuildInv`: builds of a card plus its pending entering deliveries whose id is not stored are at most its entries and deletes (a cardinality, by `FiniteSetTheorems`); a move that enters adds one of each side, a build spends one delivery, a delete frees at most one |
| `EntryGetsJob` | `EnteredHadJob` | `JobInv` with `IdInv`: the delivery of the last entering move of a card that has held no job since is pending, for what refuses it, a live job or a stored id, is a job of the same card |
| `PlannedStaysTicket` | `PlannedIsBuilt` | `LabelInv`: a delivery or a request that plans has seen a label that history remembers |
| `ReportedOnce` | `NoRepeat` | `CoverInv`: what was reported more often than aborted sweeps and full pages explain, or is older than the baseline, is in the poller's memory, in the list of the sweep and not in what is left of it; `VersionInv` orders the versions |
| `QuietStart` | `NoStartupStorm` | the same |
| `HumanStays` | `HumanWins` | `BootInv`: no tab is open while the process boots, and a boot that imports without reseeding found no project, so nothing of a human |
| `SaveMakesItSo`, `RenameKeeps` | `SaveReconciles`, `RenameKeepsRepo` | `SaveInv`: which repo each key has at each stage of an undisturbed save |
| `EnteredStays` | `EnteredIsKept` | itself, with `SecretInv`: the box of a secret is never blank in the sense of a setting |
| `BundleIsEnough` | `BundleRestores` | `RestoreInv`: the data of a bundle determine what it was worth |

`DoneIsMerged` speaks of any number of repos, and of commits, of which the runs have two and one; `BlockersFirst` of any plan, cyclic ones and repeated keys included, and any number of tickets.

Only model-checked, because the prover handles neither fairness nor `ENABLED`:
`DispatchEnds` (both), `QueuedIsServed`, `GateReleases` and `OpenChangeTold`.
Proofs are about the modules and inherit what section 5 leaves out.

## 5. Not modelled, and the plan

Done: the queue, the pipeline, the build order, the agent runs, both intakes, the
mappings and the configuration, with their runs and the proofs of section 4.

Not modelled, and why:

- Text: command lines, prompts and their rendering, contract and envelope
  parsing, the router's model call, notifications, telemetry, local time, log
  wording, `job_events`. A verdict, plan or envelope is one of the outcomes its
  parser can have.
- Libraries: HTTP clients, signatures, password hashing and sessions,
  encryption, the migrations. Their effects are environment actions.
- Layout: most of `ui/` draws pages. `ui/icons_catalog.py` is 6339 lines of icon
  names, and `ui/kit.py` and `ui/shell.py` are widgets and style; they keep no state and have no
  order to get wrong. Together with `pages.py` and `wizard.py` they are more than
  half of the implementation's lines, which is why the modules, although they cover
  nearly every handler that changes state, stand for a small share of them.
- Rows of one upsert: state mappings, prompts, users. `prompts` has the shape
  of `ConfigStore` with one field a role.
- `github_webhook` (`api/webhooks.py`): a verified delivery becomes one enqueue
  without a key; the merge event is `MergePr` in `TicketPipeline` and
  `BuildOrder`. `get_project_for_repo` takes the first project that maps a repo,
  so `Mappings` keeps to one project.

What is left to prove: that `BuildOrder`'s and `TicketPipeline`'s use of the job
table is `JobLedger`'s (each keeps the part it needs in its own variables), and
`TicketPipeline` as a refinement of the part of `BuildOrder` it details.

Simplifications a reader should know: in `TicketPipeline` a ticket starts
without a row (planner tickets, which have one, are in `BuildOrder`); a
cleanup whose own completing write raises is taken as finished; the two
checkers' verdicts are one outcome; concurrent clicks of two operators and a
second conductor process are outside the model.
