# Verification of the bmad orchestrator

TLA+ models of the orchestrator in `src/src/bmad_orchestrator/` and of
`src/tools/overlay_sync.py`, TLC configurations that check them on small
instances, and TLAPS proofs of their most important properties for every
instance. Paths below are relative to `src/src/bmad_orchestrator/` unless they
begin with `src/`.

## 1. The system

The orchestrator runs a wave of *stories* of a target project. Each story is
implemented by a worker process (`claude -p` in a sandbox) in a git worktree of
its own; the result is built, reviewed twice, and merged to an integration
branch. Everything that coordinates runs on **one asyncio loop in one
process**; several such processes (orchestrator, Telegram bot, other projects)
share an SQLite file and a few JSON/YAML files. Workers, reviewers, build
commands and git are processes of their own. A separate tool, `overlay_sync`,
copies an overlay of files from one project to others.

| Component | Source | State it keeps | Operations | Talks to |
|---|---|---|---|---|
| Event bus | `runtime/event_loop.py` | queue, subscribers, lock, correlation futures | emit, next, dispatch_one, drain, subscribe/unsubscribe_correlation | everything |
| Lifecycle | `agent/run.py` `run_orchestrator`, `_shutdown_orchestrator`; `runtime/event_loop.py` backstop | tasks of the loop, the bus's `_stopped` | start, stop, sweep | all |
| Pilot rounds | `agent/run.py` `_run_real_pilot(_body)`, `agent/file_conflict.py` | spawned/succeeded/failed, daily spend, handles, sprint status | choose, gate, spawn, gather, mark done, kill orphans | planner, budget, spawn, bus |
| Sprint status | `runtime/bmad_format.py`, `runtime/dag_planner.py`, `agent/tools/{escalate,splitter,_common}.py`, `agent/run.py` merge | `sprint-status.yaml`: in the checkout, committed, and in each worker's worktree | read, mark done, update, split a story, merge a version | pilot rounds, planner, git, agent |
| Mock pilot | `agent/run.py` `_run_mock_pilot` | the day's spend, sprint status | round, charge, mark done, boundary | planner, budget |
| DAG | `runtime/dag_planner.py` | the graph of a wave | build, break cycles, ready stories | pilot rounds |
| Merge pipeline | `agent/run.py` subscribers, `runtime/{stage5_completeness,build_check,deletion_safety,security_review,commit_recovery,pilot_outcomes,worktree}.py` | the event's payload, git refs, worktrees, the drained lists | gates, two-stage review, security review, merge, reconcile, partition | bus, reviewers, git |
| Review in detail | `agent/run.py` 4379-4760, `runtime/{diff_size_gate,file_list_parser,verdict_fallback,security_review}.py` | what a reviewer's stream said | hear, merge verdicts, retry, comply, measure the diff | workers |
| Supervisor | `runtime/supervisor_subscriber.py`, `supervisor/*` | window of decisions, consecutive escalations | watch, decide (rule, judge, breaker), execute | bus, LLM judge |
| Elicitation, intent router | `elicitation/*`, `runtime/elicitation_routing.py`, `agent/run.py` | counts of automatic answers, the audit, attributed spend | decide who answers, run tools, respond | bus, budget, tools |
| Budget ledger | `state/db.py`, `agent/safety/budget_guard.py` | `budget_tracker` rows | enforce_and_reserve | SQLite, pilot rounds |
| Bot bridge | `bot/handlers.py`, `bot/main.py`, `state/db.py`, `agent/run.py` `_resolve_session`, `agent/tools/operational.py` | pending answers, poll tasks, `event_queue`, `agent_session` | ask, poll, claim, put back, deliver, resolve session, start and stop sessions | bus, SQLite |
| Worker | `runtime/worker_spawn.py`, `stuck_watchdog.py`, `worker_cancellation.py`, `liveness.py` | process, JSONL file, worktree, cancellation token | spawn gates, copy, tail, cancel, time out, declare stuck | pilot rounds |
| Sandbox | `runtime/sandbox.py` | homes of workers, snapshots of a batch | detect, check, wrap, mount, prepare, sweep | worker |
| Auto-split | `runtime/auto_split.py`, `story_splitter.py`, `sub_story_executor.py` | branch of the parent story | decompose, execute, squash, reset | pilot rounds |
| Orchestrators of one host | `agent/run.py` sweep, `runtime/multi_run.py`, `cli/main.py` | processes, report files, shared spend | sweep, run in parallel, time out, collect | lifecycle |
| Merge token | `agent/safety/main_merge_token.py`, `agent/tools/merge.py` | one JSON file | generate, validate, consume, revoke | CLI, agent |
| Workflows beside the stories | `agent/tools/{retro,correct_course,investigate,sprint_planning}.py`, `runtime/phase4_subscribers.py`, `agent/memory/*` | one artifact each | seed, spawn a child, watch it, append, detect the wave's end | bus, agent |
| Self-learning, live tuning | `self_learning/*`, `runtime/{lesson_parser,live_tuning}.py` | policy files, their backups | apply a batch, roll back, tune | CLI, bus |
| Skill update | `runtime/skill_update.py` | skill tree, its backup, version file | move aside, copy, patch, restore | CLI |
| Overlay sync | `src/tools/overlay_sync.py` | vault, manifest, backups, locks, target files | propagate, roll back, capture, install, upgrade | git |
| Hooks, registry, replay, prose of stories, prompts, CLI, evaluation, bot commands | see `PROJECT.json` | little or none shared | decisions about one input, parsing, UI | |

What is hard in it: subscribers of one event run in registration order and
communicate by *mutating the event's payload*; subscribers emit events onto
the queue they are dispatched from; the bus's lock is not reentrant; drains
have a cap; the pilot decides from the *list of events a drain returned*, not
from state; a worker declared stuck keeps running and shares its file with the
next attempt; a task that is cancelled may go on; budget rows, policy files,
tokens, snapshots and target projects are shared by processes that may die at
any statement, few of them under a lock from reading to writing.
`PROJECT.json` lists each hazard at its line with the properties that cover it.

What makes each part correct, in a line: events are delivered once and in
order, and whoever waits for one is woken (bus); shutdown returns (lifecycle);
caps hold, files do not race, nothing is lost sight of (pilot); what is marked
done is read as done, and stays so (sprint status); nothing is
merged unreviewed, halts and decisions stand, the count is honest (pipeline);
an approve is earned (review); the breaker counts what it says (supervisor);
humans decide what they must, and get one reply (questions); a reservation is
atomic (ledger); a call gets its own answer once (bridge); the tail reads all
and ends (worker); a worker is isolated as promised, in a home that stays
(sandbox); a split story is whole (auto-split); one orchestrator per project;
a burnt token stays burnt; a seed is no retrospective; rewritten files can be
put back and nobody's work is lost (policy, skills, overlay).

## 2. Modules

| Module | What it is | Model checked by | Proved in |
|---|---|---|---|
| `Broadcast` | abstract: numbered events, each given to the subscribers one after the other before the next is | (refined by `EventBus`) | |
| `EventBus` | the bus with concurrent drains | `MCEventBus` | `EventBusProof` |
| `Lifecycle` | the run's tasks and their shutdown | `MCEventBus` | |
| `MergePipeline` | end of workers .. `real_pilot_done` | `MCMergePipeline` (and `MCMergeCompliance.cfg`, `MCMergeDefaultRoot.cfg`), `MCEventBus` | `MergePipelineProof` |
| `Review` | one review, stream by stream | `MCParts` | `PartsProof` |
| `Supervisor` | subscriber, engine, executor | `MCPilotRounds`, itself for `abort_drain` | `AroundPilotProof` |
| `SprintStatus` | the file the planner reads and the pilot marks | `MCPilotRounds`, `MCSprint` | `AroundPilotProof` |
| `Questions` | elicitation engine, intent router | `MCParts` | `PartsProof` |
| `Ledger` | abstract: a reservation is one atomic step | (refined by `BudgetLedger`) | |
| `BudgetLedger` | the statements of `enforce_and_reserve` | `MCParts` | `PartsProof` |
| `PilotRounds` | the spawn loop and its `finally` | `MCPilotRounds` | `PilotRoundsProof` |
| `Mock` | the mock pilot | `MCParts` | `PartsProof` |
| `Dag` | edges and the breaking of cycles | `MCParts` | `PartsProof` |
| `Worker` | processes of one worktree, their tail and watchdog | `MCWorker` | `WorkerProof` |
| `Sandbox` | how a worker is started | `MCParts` | `PartsProof` |
| `Homes` | homes of workers; snapshots of a batch | `MCParts` | `PartsProof` |
| `SubStories` | auto-split | `MCParts`, `MCSubStories` | `PartsProof` |
| `Fleet` | orchestrators of one host, children of `multi` | `MCParts` | `PartsProof` |
| `MergeToken` | the one-shot token for `main` | `MCParts` | `PartsProof` |
| `Flows` | retrospective, correct-course, investigate, sprint-planning | `MCParts` | `PartsProof` |
| `AskOnce` | abstract: a call returns once, with its own answer | (refined by `BotBridge`) | |
| `BotBridge` | sessions, and the state-db bridge of `forward_to_agent` | `MCBotBridge` | `BotBridgeProof` |
| `Propagate` | `overlay_sync propagate --apply` and its rollback | `MCFiles` | `FilesProof` |
| `Vault` | `overlay_sync capture`, `init-project`, `post-upgrade` | `MCFiles` | `FilesProof` |
| `Policy` | who rewrites the policy files | `MCFiles` | `FilesProof` |
| `Skills` | `skill-update --apply` | `MCFiles` | `FilesProof` |

`MCEventBus`, `MCPilotRounds`, `MCFiles` and `MCParts` explore, in one run each,
specifications that share no state: a variable `part` says which of them moves, and the others
rest in an initial state. The sum of the parts, not their product, is explored.

A definition introduced by a comment `Mutant:` is not part of a model: it is a
variant of the definition after it with a plausible mistake, kept to show that
the property it is listed with would notice.

### EventBus
A *task* is an asyncio task that drains. An action is everything between two
awaits. `queue`, `lockq` (who asked for the asyncio.Lock, holder first: asyncio
hands a lock over in that order) and `corr` are the code's; `cur`, `nextSub`,
`draining`, `taken` are the local variables of `dispatch_one` and `drain`;
`emitted`, `retired`, `abandoned` (retired with a subscriber raising) and
`lastSeen` are history. They are the variables of `Broadcast`, by name, so it
says which event each subscriber has, not how many there were. `Pull` pulls *outside*
the lock as the code does, so what keeps two drains from reordering events is
only that the pull and the request for the lock are not separated by an await.

### Lifecycle
`task` are those of the loop besides the pilot's and the backstop, `before` the
snapshot taken at the start. `Stop` is `EventBus.stop`, during which others may
still `Begin`; `Sweep` cancels what the run has started, `Waited` is the bounded
wait for it. A cancelled task is `told` until the loop resumes it, and then may
`End` or `Swallow` the cancellation, as the backstop does inside its loop
(`BackstopWakes`) unless the bus was stopped. `Raises` is a pilot that raises.

### PilotRounds
One iteration of the `while` is `StartRound`, then for each story of the batch
one of `HaltForTheDay`, `RefuseStory`, `Spawn`, `AutoSplit`, `HaltPrespawn`,
`SpawnRaises` (the ledger, git or the spawn raised; the spawn maybe with its
process already there, which then lives without a handle), then `Gather`, a
`WorkerEnds` per handle (or `TailRaises`), and `EndRound`. `KillOrphanWorkers`
is the `finally`. Which files a story touches, the dependencies and the order
of the nodes are constants; cycles of the graph are taken as already broken
(`Dag`). Money is in whole units. A subscription (`BudgetOff`) still adds to
the day's total, as in the code. The respawn queue is not a variable: nothing
dispatches the bus during the loop that empties the queue, so it is empty
wherever it is read. Story ids given with `--story` are assumed to be distinct.

### SprintStatus
The file is a sequence of rows, a key and a status; a key is a story's number
and a form, one of the spellings the code tells apart (two prose tails, dotted,
and a number without quotes, which YAML reads as a float). `layout` is one of
the two layouts. `sheet` is the file in the checkout, `tip` the committed one
of the branch that is checked out (one branch: the integration branch of the
wave, taken as it stands when the pilot starts), and `fork` what each story's
branch started from and holds now. `StatusOf`, `InWave` and `Ready` are what
the planner reads, by number; `Resolve` and `Mark` what the pilot writes, by
key. A `Round` is a round of the pilot as far as the file is concerned: workers
end, the pilot marks, the planner reloads; `KillWhileWriting` is the process
killed while it rewrites the file in place. `MergeStory` is the rebase, the
discarding of what is not committed, and the merge, row by row; `MergeFailed`
any other end of it. `UpdateSprintStatus` and `SplitStory` are the two tools.
In the layout of epics the code looks a number up in its own epic, which is the
same as in the file when epics are named for their numbers, as taken here. What
a worker writes in its worktree is the workflow's it runs, code outside the
orchestrator: any of `Said`. `retold` and `merged` are history.

### Mock
`StartRound`, `HaltDay` or `MockStory` per story, `EndRound` (which marks what
was done), `Boundary`. What is left of a round is a set of places in the wave's
order, of which the first is next. `Misspelt` are stories whose id is not the key of
sprint-status: they are never marked and starve their dependents.

### Dag
The initial states are all graphs `build_graph` may return: what stories say
they depend on (`declared`), and the vaguer `blocks`. `Break` takes any cycle,
as networkx finds them in an order of its own, and drops one edge of it, one of
the second kind if there is any.

### MergePipeline
Starts where the workers of the last round end. One event is in hand at a time
(`cur`, `pc`); each gate is one action whose nondeterminism is what git, the
build command or the reviewer answers. `HaltStory` mutates the tag of the event
in hand, as the code mutates `payload["status"]`. The queue holds events some
modelled code reads; all others are one `Other`. `seen` is what `drain`'s
returned lists contain, which is all `reconcile` and `partition_pilot_outcomes`
look at. `head`, `unsafe`, `dirty`, `gone` abstract the worktree to what the
gates can see of it. A merge is `Recovers` (uncommitted work), then the merge
itself, then `Announce` and `CleanupWorktree`: the tree is removed; or the
removal fails with an `OSError`, which is caught and leaves it whole or torn; or
the tree is not below `<target>/.worktrees` (`rooted`, chosen at the start, is
false for the default root) and a `ValueError` ends drain and pilot
(`phase = "crashed"`).

### Review
What `MergePipeline` leaves to a choice. `Hear` adds a line to the stream of the
reviewer that runs; `EndSpec`, `RetryGate`, `EndQuality`, `EmitSpecVerdict`,
`Compliance`, `EmitVerdict` are the two stages of the merge gate with their
retry and the gates behind them, `ScreenSecurity`, `HearSecurity`,
`EndSecurity` the security review of an approve. A line is a record of what the
parsers look at: a verdict by key, a verdict in the text, a summary, counts.
`metrics` is what the loop over the tail has gathered of a reviewer's counts, as
in the code, and `specMetrics` that of the stage before.

### Supervisor
`Take` is the subscriber called by `dispatch_one`; `RateLimited`, `ByRule`,
`AskJudge`, `JudgeError`, `JudgeVerdict`, `DecideRaises` are the returns of
`decide`; `Execute`, `AbortDrained`, `AbortDrainLocks` those of
`execute_decision`. Events arrive while the judge is awaited. `RulesFor` is the
policy file's hard rules. Time is `Expire`: stamps may leave the window whenever
they like, which includes every clock.

### Questions
`WorkerAsks` and `Write` emit, `Elicit` is the elicitation subscriber with the
engine's decision, `Route` the router up to its call of the model, `Respond`
what it does with the answer (tool by tool), `CallFails` the call's failure.
`WorkerSpends` is the spend the budget's total gains while the call is awaited.
Which subscribers are wired in production is section 6.

### BudgetLedger
One action per SQL statement. SQLite's rule is that `BEGIN IMMEDIATE` takes the
write lock or fails (`Busy`); a transaction's writes (`tx`) become visible at
`Commit`; a process that dies is rolled back (`Crash`). `granted` is history.

### BotBridge
Two processes and the tables between them. A call of `forward_to_agent` is
`Refuse`, or `Ask` and `EnqueueQuery` (or `EnqueueFails`), then a race of
`TimeOut` and `Deliver` that `Return` ends; `pending` is `_HUMAN_RESPONSES`,
`future` the call's future, named by the call whose response it got. Each
waiting call has a poll task: `Claim`, then one of `Deliver`, `Reenqueue`,
`DropOrphan`, or `PollDies`; `hand` is the row between the claim and what is
done with it, `tries` the task's `re_enqueue_attempts`. A process gets its
session by `AttachFromEnv`, or by `Begin` (the lock and the SELECT) and
`Attach` (the INSERT and the commit). `StartWave` and `StopAll` are tools the
agent's model may call at any time. `ClaimQuery` and `Answer` are written as
the tests write them: nothing in `src/` claims a `human_query`.
A claim whose task is cancelled in the middle of the statement is rolled back
and is no step; cancelled after the commit it is `Claim` and then `Return`.
Texts, and payloads that are malformed, are left out.

### Worker
Attempts in one worktree that share one `events.jsonl`. Per attempt: the gates
before the spawn, the process (`proc`), the task that copies its output
(`copier`), the one that waits for its end, stages its work after a hard
timeout and writes its completion (`waiter`), and for the latest the tail
(`NextEvent`, `Poll`, `Yield`) with the watchdog's tick in three steps (`Tick`,
the commits; the dirty files; then `StillAlive` or `GiveUp`), as lines and
commits arrive between them. The tail's place is a number of yields, a
snapshot's lines are those of `str.splitlines`; a line that is no JSON is not
counted, so that a new snapshot starts earlier than the old one ended.

### Sandbox and Homes
`Sandbox` has one step for each of the two ways in; the refusals are a list of
checks in the code's order, and the mounts a sequence of which the last one for
a path decides what a worker finds there. What a mount covers depends on where
things lie on the host, which is a choice: below `/tmp`, below a blacked-out
directory (`dark`), on a `--readonly-path` (`readonly`, which the orchestrator
never passes). The phases and the flags lie below `.claude`, as their paths say;
a worktree below `.claude` is left out. Its promises are the module's
`StartedAsPromised`, which say for each promise what a later mount may take of
it. `Host` is every host and set of wishes the code tells
apart; a run looks at some, the theorem at all. `Homes` is two small
specifications: homes made, renewed, removed and swept by age (an action
`HourPasses`; hours are the unit), and the batch, whose master copy is made
under a lock by whoever comes first.

### SubStories
A commit is the set of sub-stories whose work it holds, the branch a sequence
of them. `Evaluate`, `Decompose` (with `validate_decomposition`), for each
sub-story `SpawnSub`, `SubWorks`, `SubExits`, `NextSub`, then `Squash` (`git
reset --soft`), `Recommit`, or `Reset` and `Legacy`: one worker for all.

### Fleet
`Launch`, `List` (pgrep), `KillStale`, `BeginPilot` are the start of a run; what
pgrep looks for is in no child's command line. A run may leave its project to
the configuration (`named` are those that do not), in which case no sweep
matches it; pgrep may be missing or too slow, and a listed process may be
unreadable or not to be signalled: `missed` is history, who did not look at
whom. `EndPilot` writes the
report, `Collect` reads it; `TimeOutChild` kills.

### MergeToken
`Generate`, `Revoke`, `Expire`; a merge is `Present`, `Validate`, `ReadAgain`
(consume_token reads the file a second time), `Burn` (it writes what it read,
with `used`), `Merged`.

### Flows
One artifact per workflow, its text counted in seeds (a seed is shorter than
`RETRO_MIN_BODY_CHARS`, so `Enough` is above 1), a seed (`Seed`, which finds none, and `Seeded`, which
writes), a real run (`Spawn`, `ChildWrites`, `ChildEnds`, `Overtime`), the
agent's `WriteMemory`, and `DetectBoundary`. `LoopEnds` ends the watchers.

### Propagate and Vault
`Propagate` is a process that plans from digests, asks git, takes a project's
lock and copies file by file (backup, replacement, comparison), then puts back
what differs, outside any lock; meanwhile owners edit and commit and others run.
`Stamp` names each run's backup directory; runs may share one, as they do by
default, and a backup may then take the place of another's (`KeepAs`;
`replaced` is history).
`Vault` is one capture (file by file; a fork is kept as a patch or a snapshot)
and one installation at a time, either of which may end at any step.

### Policy and Skills
`Policy`: batches of the self-learning service, the two commands and live
tuning, each a read and later an atomic write under a lock, and backups named
by the second. A proposal is applied in two steps, `Snapshot` and `Store`, and
may end as `CopyFails`, `WriteFails` or `AuditFails`: these end the batch, whose
proposals so far stay applied and belong to no batch. A batch's `before` is
history: its files as they were, until something other than this batch backs
one of them up or writes to it. `Skills`: the tree moved aside, copied, patched, restored or
tidied up, killed anywhere and run again.

## 3. Runs

| Run | Bounds | Shows |
|---|---|---|
| `bus` | 2 tasks, 2 subscribers, 4 events, 1 correlation; 3 other tasks of the loop, 2 wake-ups; a pilot's end with 1 story, 1 retry of each kind, cap 12, 1 foreign event | order, once-only delivery, refinement of `Broadcast`; under fairness a waiter whose answer is queued is woken, shutdown returns with nobody untold, and the end of a pilot ends |
| `pipeline` | 2 stories (one critical, one critical only by its diff), worktrees where the cleanup looks and elsewhere, at most one of them deletes a protected file, 1 foreign event beside clean workers, no retries, cap 12 | security before merge, decisions stand, halts stop the review, nothing is stranded, the final count is honest |
| `rounds` | 4 stories, 1 dependency, 2 file conflicts, 2 slots, cap 3, 3 rounds, left-over reservations; window of 2 actions, breaker at 2, 3 events; 3 stories and 4 files in both layouts and every spelling, 2 pilots | caps, file races, accounting, no orphan but one of a spawn that raised; the breaker counts the streak it says, and each event is decided about at most once, none of its own; what the pilot marks the planner reads, and no later merge undoes it |
| `bridge` | 3 calls of one chat, 2 at a time, 1 attempt, the bot started twice, the agent once | once-only return with the call's own answer (refinement of `AskOnce`), sessions joined when they run |
| `worker` | 2 attempts, 2 lines of a developer and 1 of a reviewer, 1 commit and dirty file | the tail reads all, gives up only when it has, completes by its own attempt's line when none other writes, and ends |
| `files` | 2 processes, 2 projects, 1 file, contents up to 3; 1 overlay and 1 fork, 2 edits, 2 upstream versions; 2 policies of 2 values, 1 backup each, 2 batches, of 2 proposals and of 1, 2 seconds; 1 tree | nobody's work is lost, failed runs put back, commits of the vault sound, forks arrive, rollbacks restore, a whole tree is kept |
| `parts` | see the constants of `MCParts.cfg` | one property per part, and that the ledger implements an atomic reservation |
| `compliance`, `default_root`, `abort_drain`, `frankencommit`, `discarded_marks` | 1 story; 2 stories; 3 events; 2 sub-stories; 3 stories, one flat file | a comment in the code and the code disagree (section 6) |

Why the bounds suffice. Two tasks and four events allow a pull between another
task's pull and its release, with an event before and behind; a third task adds
no new relation between two holders of places in the lock's queue (and the
proofs cover any number). Three tasks of the loop are one from before the run,
one that swallows, and one begun while the bus is stopped. In the pipeline
stories interact only through the queue and the lists, so two let every pair of
events be in either order (what a worker has deleted is looked at in its own
story's gates only, so that one that deletes is enough, and an event nobody reads
meets the others in the queue only), and the cap of 12 is above the number of events two
stories can queue in one drain; `ReviewStands` and `NothingStranded` are claims
about drains that do not hit their cap (section 6, drain cap). In the rounds
model four stories allow a round with a free and a deferred story and a later
round with a retried one and a dependent one; three is the smallest cap that
differs from the slots of one round. In the bridge a third call is refused or
meets what the first two, or the bot before the restart, have left in the
table; chats matter to the caps only, which the proofs cover for any number of
chats, so that one chat makes all calls alike. One attempt is the smallest
number that differs from none and from for ever. Of the file the planner reads
two stories forked from one commit are what a merge needs that knows nothing of
an earlier one; a third depends on the first; a second pilot is the one that
reads what the first has left.

In `worker` a second attempt meets a first that still writes and a third would
meet the same; two lines are a torn one and a good one in either order; what
the proofs cover is any number. In `files` two processes that use the
default backup directory and one file per project reach every order of a step of one
between two steps of the other, and a second project is what a run has already
written when it fails; three contents are the canonical one, the owner's and an
earlier one. Two policies and one second per backup name are what it takes for
names to collide. In `parts`: three callers of the ledger are one more than is
needed for a lost update; three sub-stories allow a failure with one before and
one after it; two tokens and two mergers an old token in a merger's hand when a
new one is there; two started processes, each naming its project or not, and a
child of the same project a sweep from either side; three stories every cycle of two kinds of edges that
differ; a stream of two lines a later word that overrides an earlier one or is
silent; the hosts are all combinations of the operator's wishes, of what
concerns scopes, of what is mounted, and of where the paths lie, each over a host
plain otherwise, as the checks of one group do not look at the others'.

Deadlock is checked in `pipeline` and `rounds`, in the last for
the rounds only: the supervisor may rest, as the self-wait of `abort_drain` is a
state without a successor by design of the code, and so may the file, when
`MaxRuns` pilots have run. It is not checked in `abort_drain` and
`discarded_marks` for the same reasons; in the bridge's run, where the system
stops when both processes have been started as often as `MaxStarts` lets them;
and in `bus`, `worker`, `files`, `parts` and `frankencommit`, where a run that
has returned, a worker that has ended or a command that is over does nothing
more.

### Fairness
- `EventBus`: weak fairness of `Dispatch(t)` for each task: asyncio resumes a
  task whose await can complete, and `asyncio.Lock` is first come, first
  served. No fairness of `Emit`, `StartDrain`, `Raise`, `Subscribe`.
- `Lifecycle`: weak fairness of `BackstopWakes`, `Sweep`, `Waited`: timers fire,
  and the wait for cancelled tasks is bounded. Nothing obliges a cancelled task
  to end.
- `MergePipeline`: weak fairness of the pilot as a whole (one task). The tail
  of a worker ends because the stuck watchdog ends it. None of `Noise`.
- `Worker`: weak fairness of the tail's, the watchdog's and the waiting task's
  steps, of time passing and of the hard timeout; a process that was cancelled
  stops. None of a worker printing, committing or ending by itself, and
  none of a next attempt.
- The other modules check safety only.

## 4. Proofs

All theorems are of the form `Spec => []P`, `Spec => [][A]_vars` or
`Spec => Abstract!Spec`, for every value of the constants that satisfies the
module's assumption.

- **`EventBusProof`**: `TypeCorrect`, `SubscribersInOrder`,
  `DeliveredInOrderOnce`, `ImplementsBroadcast`. The queue alone says nothing
  about the events already pulled. The inductive invariant lines up, in one
  sequence, what is retired, what the tasks in `lockq` hold, and what is
  queued: ids are consecutive along it, each task is in `lockq` at most once
  and exactly when it holds an event, and a subscriber's `lastSeen` is the
  head's event up to `nextSub` and older after it.
- **`MergePipelineProof`**: `TypeCorrect`, `CriticalReviewed`
  (`SecurityBeforeMerge`), `HaltsStand` (`HaltStopsReview`). The former needs
  that an approve in hand *at the merge gate* of a critical story was reviewed;
  the latter that a story has one completion in its life, so that a story with
  a queued or unreviewed completion is still undecided. Three more are about
  how a run ends. `MetricIsHonest` and `NothingIsStranded`: `HonestMetric` and
  `NothingStranded` hold, for a pilot that is done if its last drain emptied the
  bus, for one a cleanup has killed without condition, its bus being where the
  rest is found; a story is on the
  integration branch exactly when the announcement of its merge was read, is in
  hand or waits on the queue (`MergedTrail`), and from reconcile on a story that
  succeeded is settled or its verdict is under way (`AllReconciled`).
  `DecisionsStand` (`ReviewStands`): if no drain stops at its cap, reconcile does
  not overrule a reviewer. At most one verdict of a story is under way, none that
  approves it after a decision against it, and what was decided against has a
  verdict for reconcile to find (`Stands`). Both conditions are about the cap of
  a drain: what is left on the bus then is read as if it had not happened.
- **`PilotRoundsProof`**: one theorem per property of the `rounds` run, and
  `DependenciesHold`, each from an invariant of its own. `RoomLeft`: the batch
  and what was spawned fit under `--max-stories` *together*, which is what
  makes the per-story gates keep a cap that is only compared between rounds; it
  rests on the lemma that `split_batch` returns at most as many stories as it
  is asked for (their numbers of predecessors are different and below n).
  `Apart`: the stories of a round share no file, whether spawned or still in
  the batch. `Accounts`: a spawned story has succeeded, has failed, or is in a
  handle of this round. `Watched`: of the live workers at most one is not in
  `spawned_handles`, and none while the pilot may still spawn, as a spawn that
  raises ends the rounds (`OneLeftAtMost`).
  `FailedUndone`: what is spawned was still to do and only a success marks it,
  so that a failed dependency is not done. `SpendBounded` is inductive by
  itself once the reservation is known to be an amount (the maximum of at most
  three costs). `CapsStay` and `AccountedFor` put them together.
- **`BotBridgeProof`**: `TypeCorrect`, `Joins` (`JoinsRunning`), `SlotsHold`
  (`NoLeak`), `ImplementsAskOnce`. Type correctness needs that whoever writes
  a row is attached (`BotThere`, `AgentThere`). `LookInv`: while a process
  looks, no other does, and what it found is all that matches; this is what
  BEGIN IMMEDIATE is for. `PollWaits`: a poll task runs only while its call
  waits, so that a failed insert leaves none behind. `AskInv`: every copy of a
  response, in the table, a poll task's hand or a future, is of a call the
  agent has answered, and a future holds its own call's.
- **`WorkerProof`**: `TypeCorrect`, `TailIsComplete` (`TailReadsAll`),
  `GivenUpAfterReading` (`NothingUnreadWhenGivenUp`), `CompletionIsOwn`
  (`OwnCompletionWhenQuiet`), from one invariant. `TailInv`: `seen` is at most
  `pos`, `pos` at most the end of the snapshot, and every good line up to `pos`
  is handed on or in hand; so a new snapshot, which begins at `seen`, can only
  begin too early. `OldIsRead`: a file whose last event is old is one the tail
  has read to its end, which is why the age of the file is the sign of life
  that protects the tail. `QuietInv`: if no earlier attempt could write when
  the file was truncated, every line in it is of the latest attempt. Steps of
  processes are shown once to touch nothing of the tail's (`ProcessAside`), so
  that the invariant is proved per action of the tail and once for all others.
- **`PartsProof`**: the small components. `OneIsLeft` (`OneOfAProject`), by
  `Listed`: of two processes that name one project and have both looked, one is
  still on the other's list or could not be looked at. `DependenciesStay` (`DependsKept`), with `Kinds`: the two
  kinds of edges stay apart, and what is in the graph of the first was declared.
  `TokenIsSpent` (`BurntStaysBurnt`): whoever writes back an old state writes
  it as used, and only `generate_token` writes an unused one, with a token that
  was never given out. `StateIsThere` (`WorkersHaveState`): a running worker is
  younger than the age at which a home is stale (`HomesInv`); and a master copy
  that is whole is `Frozen`, since whoever copies finds everything there, while
  one that is not whole is copied by the one who holds the lock, with nobody
  beyond it and no hash on record. So the lock need not cover the hash, nor the
  overlays. Of the ledger `NeverPastHalt`, `ReservationsAddUp`, `FlagsAreTotals`
  and `ImplementsLedger`: a caller inside a transaction holds the lock (hence at
  most one), what it selected is what the row still says, and its pending write
  is that value plus a reservation that fits.
  `SeedNeverCounts` (`SeedIsNoRetro`), by `FlowsInv`: of an artifact's text at
  most one seed is not a child's or the agent's, and one seed is not enough.
  `MockWaveIsTold` (`MockWave`), by `MockInv`: between rounds sprint-status is
  what was done at first and what was done since, and a story left in a round has
  not been done while all it needs is marked. `SubStoriesAreWhole`
  (`SplitIsWhole`), by `SubInv`: the work of a credited sub-story is in some
  commit, as the branch has moved since it was spawned, and all are squashed.
  `WorkersStartAsPromised` (`StartedAsPromised`): the check that ends a start is
  the first that holds, so that what comes after it was looked at by nobody and
  what comes before it does not hold; and what a
  worker sees at a path is the last mount that covers it, so that a mount is
  seen wherever no later one covers the path (`SeenIsTop`, `MountsKeep`).
  `HumansAreAsked` (`HumansDecide`), by `DecideInv`: the rows of automatic
  answers to a story are as many as its count, and those that escalate as many
  as the questions to a human. `RepliesAreOne` (`OneReply`), by `ReplyInv`:
  answers, losses and tools run belong to events below `next`, so that the event
  in hand has none. `ApprovesAreEarned` (`ApproveIsEarned`), by `ReviewInv`:
  what has been gathered of a stream bounds every line of it, so that a gate
  that looks at sums and unions has looked at each line; a stream without a
  verdict is one all of whose lines are silent (`SilentIsError`), and a log's
  approve is that of the newest with a word (`LogApproves`).
- **`FilesProof`**: those who rewrite files. `NothingIsLost` (`NeverLost`) and
  `RollbackIsClean` (`FailureLeavesNothing`), by `CopyInv`: a process backs a
  place up once, before it writes there; what the owner wrote before that is in
  the history or in the backup, and what a run writes is never the owner's.
  Nothing is assumed of the names of backup directories; what two runs with one
  name do to each other is in the properties (`replaced`, `alone`). `SkillsStay` (`TreeKept`), by `SkillsInv`: where a
  version file stands is a whole tree, and from the moment the tree is moved
  aside until the new one is complete the old one is whole. Its hypothesis is
  that the source brings no version file, without which it is false (section 6).
  `CaptureIsSound` (`CommitIsSound`) and `InstallArrives` (`ForkArrives`), by
  `VaultInv`: each entry that a capture has put on its list was written whole by
  this capture, and nobody writes to the vault until the commit (`Captured`);
  while nothing disturbs it, an installation holds what the target still is
  (`Planned`). They rest on no edit having the
  name of one of the words for a missing or torn file (`VaultAssumption`). `RollbackIsWhole` (`RollbackRestores`), by
  `PolicyInv`: each file of a batch, of an earlier one too, either is as it was before or has that
  content in a backup under one of the names still to be undone, and each such
  name is that of such a backup (`Undoable`). As a name with two backups, or with
  none left by the pruning, ends the rollback as failed, one that does not fail
  has used each of them.
- **`AroundPilotProof`**: what stands around the pilot. `BreakerCounts`
  (`CountIsStreak`) and `NoneAnsweredTwice` (`AnsweredOnce`), by
  `SupervisorInv`: the streak at the end of the history is a set of positions
  that a decision either extends by its own or empties; and what is queued, in
  hand and answered, the supervisor's own events left out, is no more than what
  was published. `KeptStatus` (`StatusKept`). For the half about the pilot,
  `Read`: only a number a tool has written reads differently in the file than in
  what the planner holds; with the lemma that a key is resolved to rows of the
  story's own number, and to all of them if there is one that can be marked
  (`ResolveRows`), the marks of a round reach those stories and no other. For
  the half about merges, `Good`: a worker's branch differs from what it was
  forked from in rows of its own story only, and these still stand at the head
  as they did when it was forked. So a rebase takes the story's rows as the
  branch has them and leaves the rows of every other story (`RebasedRows`),
  although the pilot throws away what is not committed. It rests on no two story
  files having one number (`SprintAssumption`): with two, the worker and the marks
  of one write the rows of the other.

Proved and in no run of their own: type correctness, `RegistrationOrder`,
`UnderHalt`, `NothingLost`, `FlagsAgree`, `NoLeak`, `DependenciesDone`. They
follow from what the runs check or are weaker, and were checked by TLC before
they were proved.

Assumptions on constants are the named ASSUMEs of the modules and no more; TLC
evaluates them in the runs.

Only model-checked: the liveness properties (`Answered`, `ShutdownReturns`,
`PilotEnds`, `Ends`), which are out of the prover's reach as it has no rule for
fairness over `ENABLED`. Every other property of a run that passes is also a
theorem. Nothing is proved by induction over data, which the provers cannot do:
where the code folds over a list (a stream's metrics, the story's counts, the
first check, the last mount), the model keeps the result as state that a step
extends, as the code's loops do, or names it as the least or greatest of a set.

## 5. What could come next

1. The refinement of `PilotRounds`' `WorkerEnds` by `Worker`.
2. The registry file (`runtime/project_registry.py`), a read-modify-write
   without a lock.
3. Slash commands of the bot (`bot/telegram_bot.py`) beside `forward_to_agent`.

## 6. Divergences observed

Runs that find them (each is a finding in `PROJECT.json`):
- `compliance`: `reconcile` approves, and the pipeline merges, a story whose
  reviewer approved and which the compliance gate stopped, without a verdict.
- `default_root`: worktrees live under `/var/tmp/virgil-worktrees/<target>`
  unless the operator says otherwise (`agent/tools/_common.py:128`), and the
  merge cleans up below `<target>/.worktrees` (`agent/run.py:5145`):
  `cleanup_worktree` raises a `ValueError`, of which "cleanup failure must not
  block the merge" knows nothing, the pilot ends after its first merge, and what
  was approved behind it stays on the bus.
- `abort_drain`: the supervisor's abort drains the bus it is called from and
  waits for its own lock.
- `frankencommit`: a sub-story that fails after another has committed is no
  exception, so nothing is reset, and the worker of the whole story commits on
  top of half a decomposition (`agent/run.py:1742`).
- `discarded_marks`: the merge throws away what the pilot has marked and not
  committed, because "the incoming feature branch carries the authoritative
  version" (`agent/run.py:4861`); it does when the worker said `done` in its
  worktree. When the worker said nothing the next run spawns the merged story
  again; when it said `review` what depends on the story never starts.

The rest was met while modelling. Most of it is reachable in the models (an
invariant that holds is stated so as to say what is left), none has a run.

Pilot and pipeline
- A cleanup that fails with an `OSError` may leave a torn worktree, which a
  later event of the same story looks at.
- A spawn that raises after its process was created (`worker_spawn.py:1198`,
  the registration and the first line of its file) leaves a worker that no
  handle names and the `finally` does not kill.
- A worker given up by the watchdog keeps running (nobody kills it), and the
  story deferred because of its files is spawned beside it: "conflicting peer
  has finished" means the tail has.
- `reconcile` rescues stories `build_check` or `deletion_safety` halted, as they
  have no verdict either (`agent/run.py:2345`).
- When the first drain hits `max_events`, a verdict still queued is read as
  absent and a reject may be overridden (`agent/run.py:1883`).
- `deletion_safety` and the keyword scan of the security gate look at `HEAD`
  (`HEAD~1..HEAD`), which stage 5's recovery commit has moved; when that commit
  fails, the reviewer's spawn resets the dirty worktree.
- Respawn requests (`agent/run.py:1519`) are produced only by drains that come
  after the loop that honours them.
- `find_ready` cuts to `2 * max_parallel` before spawned stories are taken out:
  failed stories, which stay ready, can fill the window. The mock pilot's
  planner does the same.
- A story halted before its spawn is tried again each round and may end both
  failed and succeeded; a refused story is charged to the day, in the mock
  pilot at each round. There, ids spelt differently from sprint-status keys are
  never marked done and starve their dependents.
- Dependents start when a worker succeeded, before its story is merged.
- `BMAD_CURRENT_WAVE` is changed across an await of `spawn_worker`.

Sprint status
- Legacy keys without quotes (`3.1: done`, as in the docstring of
  `bmad_format.py`) are floats: the planner reads them, but
  `resolve_sprint_status_key` looks at strings only, so that the story is never
  marked; and 3.10 is 3.1.
- Of two keys with one number the planner takes the last of the file and the
  pilot marks the first of the alphabet.
- With `epics: {}` beside a flat layout the marks go to the flat rows, and the
  planner reads nothing and takes every story for ready.
- `superseded` and `blocked`, which the tools write, are unknown statuses to the
  parser and read as backlog: a story that was split is ready again. The two
  tools find no story in a flat layout.
- `escalate.py` speaks of "flock serialization"; nobody takes that lock for the
  file, which is rewritten where it stands: two writers lose an update, a kill
  leaves it cut short.
- `agent/tools/dag.py` compares ids as they are written, the planner by number.
- A new wave's integration branch starts from main, without the marks of waves
  that have not been merged to main.

Review
- "Compliance gate — fires regardless of verdict" (`agent/run.py:4549`), but a
  spec stage that does not approve returns before it; the escalation of a
  double reject (4710) is for the same reason not reached on a spec reject.
- Metrics (tags) of the spec stage are dropped when the quality stage has any.
- The diff gate measures `HEAD~1..HEAD` only; when git fails or the policy
  cannot be loaded the diff is unmeasured; renamed or quoted paths of numstat
  never match the File List.
- `payload.get("wave")` is set by nobody, so that security waves share one name;
  an unreadable first story file hides the second; with the security policy
  missing or off an approve goes on without `SECURITY_REVIEW_PASSED`.

Supervisor, questions
- A technical review error can be the event at which the breaker aborts: it
  does not count, but it is compared. `REVIEW_STUCK_TIMEOUT` has a hard rule and
  is not in `WATCHED_EVENT_TYPES`.
- "dispatch the first whitelisted tool_use": all are dispatched. A failure of
  skill loading or of the client's factory, or an unexpected exception of a
  tool, ends the subscriber without a `HUMAN_RESPONSE`.
- The "daily" attributed total is never reset by day.
- The intent router, `human_query_subscriber`, the stop-hook and decomposer
  subscribers are wired by nothing in production. Elicitation's `HUMAN_QUERY`
  has no chat, correlation id or text, and automatic answers are not delivered.

Bridge
- The orchestrator names its session's project by the slug of the command line
  and the bot by a path, so that without a session id in the environment the
  bot never finds the orchestrator's session. With equal names they still part
  for a wave other than `default` when the bot starts first
  (`state/db.py:190`). Two sessions of one second tie in `ORDER BY started_at`.
- A session id in the environment is accepted when its session was stopped or
  is another wave's (`agent/run.py:455`); `stop_orchestrator` tells no process
  that is attached; `start_wave` inserts a session nobody is attached to.
- A poll task cancelled while it holds another call's response takes it along,
  and one whose transaction raises leaves its call to wait for the timeout.

Worker
- A U+2028 or U+0085 in a JSON string breaks its line in two for the tail; the
  lines after it are yielded again, and their usage is charged again.
- `last_dirty_count` is a high-water mark that commits do not reset, where the
  documentation says "NOT grown since last tick".
- "A tail completes by a line of its own process" (`worker_spawn.py:1286`) and
  "the overlay is cleaned up after the worker exits" (769) do not hold, the
  former when an earlier attempt still writes, the latter when the pilot ends
  first.
- The copying task dies at a line of more than 64 KiB; `process.kill()` is
  unguarded; `start_time` resets are dead code for real workers; what is
  written after a completion is not read.

Sandbox
- The comment at `sandbox.py:389` puts blackouts before the writable bind of the
  worktree, so that they "never shadow legitimate work"; the bind comes first
  (361), and a worktree or a git store below a blacked-out directory is an empty
  one. Read-only paths come last and shadow the worktree, Claude's own state and
  the phases where they contain them. A state path missing from the overlay is said
  to be made by the worker; it falls on the read-only root.
- The `pids.events` poller starts before the scope exists and returns at once.
- `BMAD_SANDBOX=none` with the permission given still runs in bubblewrap when
  that is installed; the version floor and the docker check are on the `wrap`
  path only; a worker without a sandbox ignores `BMAD_REQUIRE_CGROUP`; children
  of retro, course, investigate and planning have no limits.
- A batch copy that died half done is skipped and certified by the next
  preparation, and without a lock file, or when `~/.claude.json` appears between
  two preparations, workers of a batch may differ. The overlay functions are
  called by no other source.

Auto-split
- Sub-stories run in the order of the answer, not of their dependencies; a
  reused worktree credits the first with earlier commits, which a later reset
  drops; their workers are not tailed; the story counts as succeeded before
  the gates.

Lifecycle and processes
- A real pilot that raises (or a Ctrl-C) leaves out `_shutdown_orchestrator`,
  which no `finally` calls. `asyncio.run` then cancels the backstop, which
  swallows that with the bus not stopped, and the process hangs without a
  traceback; `docs/production-launcher.md:55` says "The first pilot must
  surface failures loudly".
- Tasks a caller starts during the run are cancelled by the shutdown, where
  `agent/run.py:245` says they never are. `--watch` runs one blocking iteration
  of the TUI and then cancels the run's task before it has started
  (`cli/main.py:577`). A bus that is used again stays stopped.
- `multi` and `--daemon` start `python -m bmad_orchestrator.cli`, which has no
  `__main__.py`. A SIGTERM has no handler: workers stay, no report is written,
  though `docs/production-launcher.md:75` calls `stop` graceful. `multi` ignores
  the tracker's halt. A sweep misses a run that takes its project from the
  configuration, one whose `/proc` entry it cannot read, one of another user,
  and all of them without pgrep or when pgrep takes its 5 seconds.

Files
- `consume_token`: "Validate + flip `used=true` atomically", but two that present
  one token at once may both be admitted, and it is burnt before the merge.
  `git_merge` merges the target into the worktree's branch.
- Propagate: the default backup directory `manual` is overwritten by a second
  run; a rollback, outside lock and guard, overwrites an edit of the owner's;
  an abort leaves part of the writes without a `ROLLBACK.json`; the guard asks
  before the lock is taken.
- Vault: an overlay that fails its canary stays in the vault and is installed;
  `plan_install` is "Idempotent" but a second post-upgrade conflicts; an artifact
  skipped as dirty drops out of the manifest.
- Policy: an `OSError` in the middle of a batch ends it with nothing recorded:
  what it had applied is not the service's to roll back, and the backup it had
  just taken may have replaced one of the same second. A rollback replays a batch's backups oldest first, so that a file with
  two proposals keeps the first; names of one second are ambiguous; live tuning
  writes what it loaded before, and is never on in production
  (`agent/run.py:1042` passes no budget). `AutoApplyService` is made nowhere.
- Skills: a Ctrl-C is not caught; with a versioned source, or two updates at
  once, both trees may be lost; after a crash the version file is missing and
  every command refuses; a dry run checks each patch alone.
- Workflows: a killed child's text of more than 200 characters passes as a
  retrospective; a seed may overwrite a child's text written since it was
  looked for; pipes of children are never read; watchers end with the loop and
  their children do not; `detect_wave_boundary` looks at the stories of all
  epics; the monthly scheduler is started by nothing.

## 7. Not modelled, and why

`PROJECT.json` lists every component and what is left out of the modelled ones.
Left out for good: the shell-command classifier of `agent/safety/hooks.py`,
branch isolation and the secret scanner (decisions about the text of one
command), prompts, CLI and menus, evaluation, voice and PII filters, the prose of story files:
functions of one input with no state others see, where a model would be a
transliteration. The rate limiter is a sleep, the cost tracker a table of
prices; locks are one `flock` each around what other modules model. Replay
validates a worktree and gives the merge pipeline one completion, which is a
queue of one event. `can_promote_wave`, the monthly scheduler and the overlay
functions of the sandbox have no caller in the source. Most agent tools are
called by a language model in no fixed order, each of them one file write or
one git command; those that start workflows are in `Flows`.
