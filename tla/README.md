# Symphony: verification project

TLA+ models, TLC model checks and TLAPS proofs for Symphony, the Python service
that polls a Linear tracker and works its issues with headless `claude`
subprocesses (`src/packages/symphony` in the repository). Paths below are
relative to that directory unless they start with `SPEC.md`, the
specification the code names in its comments (`src/SPEC.md`).

- [1 The system](#1-the-system): components, state, interactions, hazards
- [2 The modules](#2-the-modules): what models what, and what is abstracted
- [3 The runs](#3-the-runs): what TLC checks, with which bounds and fairness
- [4 The proofs](#4-the-proofs): what holds for every value of the constants
- [5 Findings](#5-findings): where the code and its documents disagree
- [6 What is not modelled, and the plan](#6-what-is-not-modelled-and-the-plan)

`PROJECT.json` is the machine-readable side: every run with its properties, a
plausible bug (mutant) that breaks each property, the source lines each
definition models, the hazards with the properties that cover them, and the
theorems.

## 1 The system

One process. The **event loop** thread (`service.py`) owns all scheduling state
and is the only one to change it. Everything else reaches it through one FIFO
queue: tick and retry **timers**, **worker** threads that run an attempt on one
issue each, and whoever stops the service or asks for a snapshot. A worker
drives an **agent** subprocess turn by turn, with two reader threads per turn.
Outside are the tracker, which people and agents change at any moment, the
file `WORKFLOW.md`, which editors change, and the workspace directories.

```
 editors ──> WORKFLOW.md ──poll──> event loop ──reads──> Linear tracker <── people
                                    ^     │                    ^
   tick / retry timers ──events─────┤     ├─spawn──> worker ───┘ refresh
   workers ──agent updates, exits───┤     │            ├─hooks──> workspace
   stop, snapshot requests ─────────┘     └─remove─────│────────────> ^
                                                       └─turn──> agent ┘
```

| Component | State | Operations | What makes it correct |
|---|---|---|---|
| **Orchestrator claims** `orchestrator.py` | `running`, `claimed`, `retry_attempts` | dispatch, retry timer, worker exit, stall detection, reconciliation, terminate | claims match runs and retries exactly; limits are respected; attempt numbers escalate and reset where they should; slots are neither lost nor granted twice |
| **Service event loop** `service.py` | the queue, timers, the adopted config, whether it serves | serve, handle an event, apply a reload, spawn, stop, shutdown | one tick chain that never breaks; every retry wakes exactly once; a stop is honoured; no exception ends the loop |
| **Agent runner** `agent_runner.py` | the locals of one attempt: turn number, session, issue | set up the workspace, run turns, refresh, finish | hooks bracket the turns on every path; no turn on an issue known to be inactive; every attempt ends and reports |
| **Turn runner** `turn_runner.py`, `agent_launcher.py`, `stream_parser.py` | subprocess, pipes, reader threads, deadlines | launch, write the prompt, read, kill, judge | a success is real; events arrive complete and in order; no turn outlives its deadline; nothing is left behind |
| **Workspaces and hooks** `workspace.py`, `hooks.py` | directories on disk | ensure, reuse, remove, four hooks | set up exactly once, by one attempt; nothing runs in a directory that was not set up; removal never ends a tick |
| **Workflow reload** `reload.py`, `workflow_loader.py` | signature, last known good config | poll, reload | no edit is missed, a broken file is tried once, a bad file never raises |
| **Configuration** `config.py`, `config_resolver.py`, `preflight.py` | none (values) | resolve, validate | defaults and coercions as documented |
| **State model** `models.py` | dataclasses | none | (the types of the others) |
| **Tracker client** `linear_client.py`, `linear_transport.py`, `linear_normalize.py` | none | candidate fetch, states by id, pagination | a page boundary loses no issue |
| **Accounting** `orchestrator.py` 857-1060 | sessions, totals, stall clocks, rate limits | agent update, totals at exit | each turn counted once; rows show their own run, unless one was let go |
| **Snapshots** `snapshot.py` | none (a projection) | take, serve a request | consistent, answered or refused |
| **CLI host** `cli.py` | signal handlers, exit code | main | a signal stops the service |
| **Prompt rendering, logging, exceptions** | none | render, format | (data) |

### What is hard here

- **Interleaving.** The loop is sequential, but events of the past arrive late:
  exits of workers it has given up, retry timers of entries it has replaced,
  ticks behind a backlog. Exits name the issue and not the run.
- **Threads that cannot be killed.** `_stop_worker` only logs. A stalled or
  terminated attempt lives on, beside its successor, in the same directory.
- **Signals.** The handler runs on the main thread between any two steps of it, the queue's
  own code included.
- **Checked, then used.** The tracker is read twice in a tick and changes in
  between; a signature is taken before the file is read; a workspace path is
  computed at dispatch and validated against the root of a later config.
- **Deadlines against answers.** Result, exit code, end of stream, two deadlines,
  a grace period and a kill race within one turn.
- **Pipes.** Whoever writes into a full pipe waits; nobody reads before the whole
  prompt is written.
- **Partial failure.** A hook fails after the directory exists; a removal fails half
  way; an exception between two assignments of a handler.
- **Restart.** Claims are in memory, workspaces are on disk.

The complete list, each at its line, is `hazards` in `PROJECT.json`.

## 2 The modules

| Module | Models | Extends |
|---|---|---|
| `Orchestrator` | orchestrator.py's scheduling under service.py's loop, its timers and workers | |
| `ClaimLifecycle` | abstract: what an observer of one issue's claim may see, and what a worker's exit does to it | |
| `IssueRuns` | abstract: which threads may work on an issue; the contract between event loop and workers | |
| `MCOrchestrator` | the finite instances of `Orchestrator` | `Orchestrator` |
| `TurnRunner` | one turn: driver, two reader threads, pipes, agent, time | |
| `AgentRunner` | the attempts of one issue sharing one directory; a turn is one step | |
| `WorkflowReload` | the configuration store and its file | |
| `Accounting` | the runs of one issue as sessions, rows and totals see them, over the event queue | |
| `ServiceHost` | the process: main thread, queue mutex, tick timer, signals, snapshot clients, with the store | `WorkflowReload` |
| `OrchestratorProofs` | types, exact claims | `Orchestrator` |
| `OrchestratorEventProofs` | tick chain, slots, wake-ups, a loop that goes on, stops, threads per issue, roots and exceptions, closed issues, the contract `IssueRuns` | `OrchestratorProofs` |
| `OrchestratorRefinementProofs` | the refinement, the limits | `OrchestratorProofs` |
| `AgentRunnerProofs` | types, hooks, activity, set-up, length of an attempt, the contract `IssueRuns` | `AgentRunner` |
| `WorkflowReloadProofs` | types, re-reads, edits, reloads that do not raise | `WorkflowReload` |
| `TurnRunnerProofs` | types, order of events, success, tame verdicts, nobody left behind, no stand-still, length of a turn | `TurnRunner` |
| `AccountingProofs` | every invariant of `Accounting` | `Accounting` |
| `ServiceHostProofs` | types, the store in the process, the stop, what the service works by, requests, signals | `ServiceHost`, `WorkflowReloadProofs` |

`ServiceHost` contains `WorkflowReload`: the main thread drives the store's actions, so that edits race
the whole process, and adopts what the store applies. The others compose by
contract rather than in one state space:

- Which attempts may meet in one directory is `IssueRuns`. `Orchestrator` implements it
  (`RunsProvided`), and `AgentRunner`, which reduces the orchestrator to what a directory sees of it
  (`Dispatch`, `Terminate`, `RemoveWorkspace`, `Restart`), starts no attempts but such (`RunsAssumed`).
- What `Orchestrator` calls `WorkerEnds` is a whole behaviour of `AgentRunner`: that action's
  fairness is `AttemptEnds`, of which `AttemptsReport` proves the bound.
- A `TurnEnds` step of `AgentRunner` is a whole behaviour of `TurnRunner`: the fairness of
  `RunAttempt` is the property `TurnEnds`, of which `TurnNeverStuck` and `TurnFinite` prove what is not fairness.
- What `Orchestrator` adopts in `TickStarts` is what `ServiceHost` has in `adopted` after a poll.
- `Accounting` reduces the orchestrator to one issue, its entry and its retry, and adds what
  `Orchestrator` leaves out: agent updates and the time. Its tick lets a run go and dispatches the
  next in one step, so it is not an instance of `IssueRuns` step by step.

### Orchestrator

`loop` is where the event-loop thread stands: starting, idle in `events.get`, in a phase
of a tick, or ended (`stopped`, `refused` by the preflight, `crashed` by an
uncaught exception). `events` is the queue; `running`, `retry`, `claimed` are the fields of
`OrchestratorState`; `armed` and `tickTimer` are the live `threading.Timer`s;
`workers` are the live worker threads, tracked or not; `tracker` is what Linear
would answer now. One action per handler: `OnWorkerExit`, `OnRetryTimer`, `OnStop`, and the
tick, which is cut at its reads of the tracker because other threads run meanwhile
(`TickStarts`, `StalledRunRetried`, `StatesRefreshed` or
`StatesRefreshFailed`, `ReconcileIssue`, `CandidatesFetched` or
`DispatchSkipped`, `CandidateDispatched`, `TickEnds`). Operators such as
`DispatchIssue`, `ScheduleRetry` and `TerminateRunningIssue` are the functions
those handlers call and take the entries they leave as a parameter.

An exception that no handler catches leaves the handler where it is raised, ends the loop
(`crashed`) and shuts the service down. Two are raised by the state of the scheduling itself and are always modelled: a removal
under another root (`TerminationRefused`) and a dispatch of an identifier that yields no path, whose worker then already
runs (`DispatchRefused`). Those that come from outside are chosen by the constant `Faults`, one action for each place, with what the
handler had already done: a workflow file that is not UTF-8 (`ReloadRaises`), a tracker's answer that raises
what is no `TrackerError` or cannot be sorted (`FetchRaises`, `RetryRaises`), a `before_remove` hook that does not write text
(`RemovalRaises`), and `Timer.start` without a thread to be had (`StallRetryRaises`, `DispatchRaises`, `NextTickRaises`,
`RetryRaises`, `ExitRaises`). `stalls` and `live` have them all; the runs of findings have none, so that each shows
its own cause.

Abstractions: time (a timer may fire, a worker may look stalled at any moment;
delays are not compared); attempt numbers saturate at `AttemptCap`, and `None`
is 0; an exit event carries the identity of its worker as history, which no action reads
(`_WorkerExit` has none); a view of an issue is its state, labels, blockers and
whether its identifier yields a path; roots are disjoint; the order of
candidates is a fixed rank; at most one stop is queued. Agent updates (`Accounting`) and
snapshot requests (`ServiceHost`) are excluded: they do not touch the claim state.

### ClaimLifecycle

The promise: an issue's claim is unclaimed, running with an attempt number, or
queued for a retry with one, and changes by six transitions, one issue at a time, until the process is over. `report` is the
worker exit handled next, if an exit is: then nothing else may happen, a clean one must queue attempt 1 and a failed
one the following number (`Exit`), and one whose issue does not run changes nothing (`ExitIgnored`). `Orchestrator` implements
it under `claim <- ClaimOf`, `report <- NextReport`, `over <- Ended`, `limit <- config.max`.

### IssueRuns

The promise between event loop and workers, in two variables: `held`, for each issue the threads
whose report was not yet handled, and `tracked`, the issues with an entry. A thread that holds nothing is
started on an issue that is not tracked (`Dispatch`); a tracked thread is let go and lives on
(`LetGo`); a report is handled once and ends what is tracked of its issue, whoever sent it (`Report`); or the process
is over. That several threads may hold one issue is part of the promise: it is what the code gives
(`stale_exit`), and what `AgentRunner` has to cope with. In `Orchestrator` a thread holds its issue
while it works or its exit waits in the queue; in `AgentRunner`, which has no queue, until it reports.

### TurnRunner

The driver is the thread in `run_turn`; its phases follow the function from
`launch` over `prompt` (`_write_prompt`), `check` and `get` (the loop of
`_drive_turn`), `wait` and `kill` (`_finish`), `join`, to `done` with a verdict
(`_classify`). `pump` and `drain` are the reader threads, `stdin`, `stdout`,
`stderr` the kernel's pipes with their room, `agent` whoever holds their other
end. The agent commits to a write (`saying`) before there is room for it, which is
what blocks. A setting says whether the launch command keeps a
shell between (`forks`), and whether the agent is `tame`: ends in time and writes
text. Lines are told apart as far as `parse_event` and the driver do: init, a result
that reports success or failure, garbled (not decodable), anything else. All
failed results share one verdict, `turn_failed`.

### AgentRunner

Each worker thread runs `run_agent_attempt` phase by phase over one directory,
`place`, which may be absent, a directory or a file. `prepared` is
history: whether `after_create` completed in the directory that is there. `home` is
`created_now` as long as it speaks of the directory now at the path. A hook may
succeed, fail, or write what is no text, which raises past the failure policy and is
caught only in `_spawn_worker`; before_run and after_run are one step each,
after_create two, because the question whether it completed is what the set-up properties are about. A hook that
is not configured succeeds and looks at nothing, so an attempt without hooks finds out at `launch_turn` that its directory is gone.

### WorkflowReload

The store looks at the file up to three times per poll: `Poll` (stat),
`TakeSignature` (stat again), `Read`. Edits and removals fall anywhere between.
A version's number stands for what it says and for its mtime and size: every
edit changes the signature. (An edit that preserves size and mtime, or a file moved away and
back between two looks, is outside the model; the code cannot see it either.) Contents are
valid, broken (rejected with a typed error) or garbled (not UTF-8).

### Accounting

One issue. `events` is the queue as far as it is about it, `entry` is
`state.running[issue]` with its start and live session, `retry` its retry with its
timer; `totals` and `runtime` are `agent_totals`. A run is a dispatch of the issue, numbered; an
event carries the number as history, which no action reads, as in the code it carries the issue only.
So `OnWorkerExit` books on whatever entry there is, and `OnAgentUpdate` (with `SessionFor` and
`Heard`) adds to whatever session there is. `ShownUsage` and `SecondsRunning` are what
`build_snapshot` would show.

Abstractions: tokens and cost are not numbers but the results they come from, so that
"counted twice" is visible whatever the numbers are; a counter is a bag of results. (The two places compute one number from a
result: a session's total is input plus output, `orchestrator.py:1055`, an attempt's the agent's own total where it
reports one, `turn_runner.py:336`. Both stand for the result here.) A line of the agent
is noise (names no session), named, or a turn's result. A handler reads the clock once.
The wall clock is never set back (the code clamps negative spans to 0; a clock set back distorts sums
and no document promises otherwise). The tick timer is folded into `TickTimerFires`: one tick at most is
queued, which is `SingleTickChain` of `Orchestrator`. Reads of the tracker are choices. Not every
field of a session is kept: its last message and its turn counter follow the same path as its tokens.

### ServiceHost

`main` is where the main thread stands, from the file check of `main()` over the initial load,
`serve`, the loop and `_shutdown` to the exit code; `store` and the other variables of
`WorkflowReload` are the store it drives. `QueueLocked` is the point of this module: `put` and `get` of
`queue.Queue` hold a mutex (`MutexHeld`), `get` gives it back while it waits, and other threads wait for it. `Signal`
may happen between any two steps of the main thread; its handler, `service.stop()`, puts a `Stop` on the same
thread. Clients of `take_snapshot` check `_serving`, ask, and wait.

Abstractions: the scheduling is one step of the tick (`TickEnds`, which may start a worker; or `TickRaises`) and
there is one issue, whose worker is a flag, as `Orchestrator` has them in full; an exit may raise out of the loop as well
(`ExitRaises`); agent updates and retry timers are events like exits and are left out; handlers are installed and restored in one step for both signals; a shutdown's join returns at the
latest after its grace period.

## 3 The runs

Passing runs check with deadlock detection on: no module stops except where it
stutters explicitly because the thing it models is over. Times are for two TLC
workers.

| Run | Module | Properties | Distinct states | Time |
|---|---|---|---|---|
| `stalls` | `MCOrchestrator` | `TypeOK`, `ClaimedExactly`, `RetryWakesOnce`, `NoLeakedSlot`, `SingleTickChain`, `LimitRespected`, `ImplementsLifecycle` | 1 450 000 | 125 s |
| `live` | `MCOrchestrator` | `TicksRecur`, `StopHonoured`, `ClosedIssueLetGo`, `SlotReclaimed`, `ImplementsIssueRuns` | 157 000 | 185 s |
| `turn` | `TurnRunner` | `TypeOK`, `SuccessIsReal`, `EventsForwardedInOrder`, `TameTurnJudgedByResult`, `NoAgentLeftBehind`, `TurnEnds` | 587 000 | 106 s |
| `attempts` | `AgentRunner` | `TypeOK`, `SetUpOnce`, `HooksBracketTurns`, `TurnsOnlyWhileActive`, `AttemptEnds`, `ImplementsIssueRuns` | 49 000 | 16 s |
| `accounting` | `Accounting` | `TypeOK`, `OneWorkerPerIssue`, `NoTokenShownTwice`, `UsageCounted`, `ShownBeforeCounted`, `RowsMixOnlyAfterLetGo`, `NoTimeAddedTwice`, `StallJudgedFairly` | 2 060 000 | 46 s |
| `host` | `ServiceHost` | `HostTypeOK`, `RereadOnlyAfterEdit`, `NothingMissed`, `StopWaitsForOneTick`, `ServiceUpToDate`, `SnapshotAnswered`, `SignalEndsHost`, `ServiceFollowsFile` | 584 000 | 97 s |
| `retry_state_limit` | `MCOrchestrator` | violates `StateLimitRespected` | | |
| `stale_exit` | `MCOrchestrator` | violates `StoppedWorkersExitIsNoOp` | | |
| `root_moved` | `MCOrchestrator` | violates `TickNeverFails` | | |
| `prompt_blocks` | `TurnRunner` | violates `TurnEnds` | | |
| `unprepared` | `AgentRunner` | violates `LaunchedOnlyInPrepared` | | |
| `runtime_lost` | `Accounting` | violates `EveryEndedRunCounted` | | |

Every property of a passing run has a mutant in `PROJECT.json`: a variant of
one definition, next to it in the module, that is the bug the property is there
to catch (a retry that forgets its claim, a tick that skips its reschedule, a
pump that ends at the exit instead of the end of the stream).

### Orchestrator

**`stalls`** is the hard instance: two issues that close and reopen at will,
workers that may look stalled whenever the loop looks, and a limit that a reload
moves between 2 and 1. A stopped worker lives on beside its successor, its exit
arrives late and hits the successor's entry (`stale_exit`), and still the claims are exact, every retry
has exactly one wake-up, no slot is lost and the tick chain holds. `AttemptCap` is 2, so that
0 (no attempt), 1 (continuation or first retry) and 2 (escalated) differ; above it attempts
saturate. Two issues suffice for one to hold the slot that the other's
retry wants; two workers for a stopped one and its successor. Every exception of `Faults` may leave a handler
half way; then the loop has ended, and the service with it. The same run
checks that all this implements `ClaimLifecycle`.

**`live`** has one issue which may do anything, close in two ways and open again, a worker to spare and one
retry timer, and reloads that move the root, take away every slot or break the preflight; a
stop may come at any moment. `ImplementsIssueRuns` is checked here, as two workers and one issue are what a
stale exit takes; with the two issues of `stalls` it would take TLC too long, and there is the theorem for any number
of both. Fairness (`FairSpec`):

| Assumption | Because |
|---|---|
| the event loop's thread goes on (WF) | it is the process's main thread and each of its steps returns |
| an armed timer fires (WF) | `threading.Timer` |
| a worker's attempt ends (WF) | `AttemptEnds` of `AgentRunner`, itself from `TurnEnds` of `TurnRunner`; bounded by `AttemptsReport`, `TurnFinite` |
| the tracker is read successfully again and again (SF) | the read is retried every tick; without it nothing could be promised about closed issues |
| a retry's poll sees a closed issue closed again and again (SF) | the same, for the candidate read of a retry |

The third is what `prompt_blocks` refutes for an oversized prompt. (A hook is no such case: on POSIX
`subprocess.run` kills it at its timeout and does not wait for children that still hold its pipes.)
`Ended` is an alternative in each liveness property because the loop may
crash (`root_moved`, and everything in `Faults`). So these properties say nothing of what an exception leaves behind; which
exceptions there are is `TickNeverFails` (`root_moved`) and `FixedRootNeverRefuses`.

`retry_state_limit`, `stale_exit` and `root_moved` each check one sentence of a
document, section 5.

### TurnRunner

**`turn`**: a prompt of two units that fits the stdin pipe, output pipes with
room for one line, an agent that writes at most `MaxLines` = 2 lines and
`MaxComplaints` = 2 complaints on stderr. Two lines are enough for a result before
or after another event, two results, and a result behind a garbled line; two complaints against room for
one make the agent block on stderr, which only the drain thread resolves. The
init and turn deadlines, the grace period, the kill, a shell between and a child that holds
the pipes after the exit fall anywhere. Fairness: the driver and the reader threads run;
the turn deadline passes; the agent goes on only when it is tame, so
`TurnEnds` holds for an agent that hangs.

**`prompt_blocks`** is the same with a prompt of three units for a pipe of two.
Both violations of `TurnRunner` and `AgentRunner` name `CHECK_DEADLOCK FALSE`, as in the
first of them the turn does stop and that is the finding; the second needs one worker
only, which may be used up.

### AgentRunner

**`attempts`**: two attempts that overlap or follow each other in the directory of one issue,
each with up to two turns (`MaxTurns` = 2: continue, and stop at the limit); the orchestrator
removes the workspace at any moment, completely, or failing half way; the process restarts. An
attempt slot that has reported is free again, so sequences are longer than two attempts.
Fairness: each attempt's thread goes on, because turns, hooks and HTTP calls have their timeouts.

**`unprepared`**: one worker and one turn suffice.

### WorkflowReload

What the store promises is checked in the process, below, where it has garbled files too. That no reload raises
(`ReloadNeverRaises`) is false of the code, section 5, and proved for files that are text (`TextNeverRaises`).

### Accounting

**`accounting`**: two runs of up to two turns, a queue of three events, a clock that reaches 2 and a stall
timeout of 1. Two runs suffice for one that was let go to speak into its successor, and to end it; two turns for
a later result to meet an earlier one; a queue of three holds a result, the exit behind it and a tick. Runs stall, are
terminated and dispatched again within one tick, crash, and live on. The theorems of section 4 are for any bounds.

**`runtime_lost`** is the same instance with the sentence of `SPEC.md:1448`, section 5. What does hold is `NoTimeAddedTwice`:
a run that is let go takes its time with it, and nothing else is lost or doubled.

### ServiceHost

**`host`**: two signals (the second while the first is being answered, or after the handlers are
gone), one client, two edits or removals, failing reads, contents of all three kinds. With two edits there is
one before and one after any look the store takes at the file; the proof of `NothingMissed` is for any
number. Fairness (`FairHostSpec`):

| Assumption | Because |
|---|---|
| the main thread goes on (WF), unless it is `stuck` | each of its calls returns; a join has its grace period |
| an armed tick timer fires (WF) | `threading.Timer` |

Nothing is assumed of workers, clients, signals and editors. Each liveness property names what releases it:
a failure that ends the loop (`failure`), a signal without handlers (`killed`), a signal that finds the main
thread inside the queue (`stuck`, section 5).

## 4 The proofs

TLAPS checks these theorems for every value of the constants that the named
assumptions admit (`FiniteAssumption`, `TimerAssumption`, `SizeAssumption`, ...:
sets are finite, limits natural, `None` is none of the values it stands beside). Nothing else is assumed,
except by the five theorems that say so: each states, in its `ASSUME`, a condition under which a sentence of section 5
does hold.

| Theorem | Property | Module |
|---|---|---|
| `TypeCorrect` | `TypeOK` | `OrchestratorProofs`, `AgentRunnerProofs`, `TurnRunnerProofs`, `WorkflowReloadProofs`, `AccountingProofs` |
| `ClaimsExact` | `ClaimedExactly` | `OrchestratorProofs` |
| `TicksChained` | `SingleTickChain` | `OrchestratorEventProofs` |
| `SlotsNeverLeak` | `NoLeakedSlot` | `OrchestratorEventProofs` |
| `RetriesWoken` | `RetryWakesOnce` | `OrchestratorEventProofs` |
| `LifecycleImplemented` | `ImplementsLifecycle` | `OrchestratorRefinementProofs` |
| `LimitNeverExceeded` | `LimitRespected` | `OrchestratorRefinementProofs` |
| `HooksBracket` | `HooksBracketTurns` | `AgentRunnerProofs` |
| `TurnsStopWithIssue` | `TurnsOnlyWhileActive` | `AgentRunnerProofs` |
| `CreatedOnce` | `SetUpOnce` | `AgentRunnerProofs` |
| `RereadsBounded` | `RereadOnlyAfterEdit` | `WorkflowReloadProofs` |
| `NoEditLost` | `NothingMissed` | `WorkflowReloadProofs` |
| `EventsInOrder` | `EventsForwardedInOrder` | `TurnRunnerProofs` |
| `SuccessReal` | `SuccessIsReal` | `TurnRunnerProofs` |
| `TameTurnJudged` | `TameTurnJudgedByResult` | `TurnRunnerProofs` |
| `NobodyLeftBehind` | `NoAgentLeftBehind` | `TurnRunnerProofs` |
| `RuntimeBooked` | `NoTimeAddedTwice` | `AccountingProofs` |
| `SecondWorkerOnlyAfterLetGo` | `OneWorkerPerIssue` | `AccountingProofs` |
| `ShownOnce` | `NoTokenShownTwice` | `AccountingProofs` |
| `ReportsCounted` | `UsageCounted` | `AccountingProofs` |
| `RowsComplete` | `ShownBeforeCounted` | `AccountingProofs` |
| `RowsOfOwnRun` | `RowsMixOnlyAfterLetGo` | `AccountingProofs` |
| `StallsFair` | `StallJudgedFairly` | `AccountingProofs` |
| `HostTypeCorrect` | `HostTypeOK` | `ServiceHostProofs` |
| `ServiceWorksByFile` | `ServiceUpToDate` | `ServiceHostProofs` |
| `HostRereadsBounded`, `HostNoEditLost` | `RereadOnlyAfterEdit`, `NothingMissed` in the process | `ServiceHostProofs` |
| `StopPrompt` | `StopWaitsForOneTick` | `ServiceHostProofs` |

Theorems about properties that are not run by TLC as they stand, because they are the safety half of a liveness
property, or delimit a finding:

| Theorem | What it says | Beside |
|---|---|---|
| `RunsProvided` (`OrchestratorEventProofs`), `RunsAssumed` (`AgentRunnerProofs`) | both sides of the contract between event loop and workers, also checked by `live` and `attempts` | `ImplementsIssueRuns` |
| `LoopGoesOn` (`OrchestratorEventProofs`) | the loop can take a step, or is idle while the tick timer is armed, or has ended | `TicksRecur`, `StopHonoured` |
| `StopNearer` (`OrchestratorEventProofs`) | a stop that is the k-th event is honoured within (k + 1)(3N + 5) steps of the loop, N issues | `StopHonoured` |
| `ClosedNotReclaimed` (`OrchestratorEventProofs`) | a closed issue, once let go, is not claimed while it stays closed | `ClosedIssueLetGo` |
| `TurnNeverStuck` (`TurnRunnerProofs`) | if `PromptSize <= StdinRoom`, somebody can always go on or a deadline pass | `TurnEnds`; `prompt_blocks` |
| `TurnFinite` (`TurnRunnerProofs`) | every step of a turn lowers a natural number | `TurnEnds` |
| `DeadlineEnds` (`TurnRunnerProofs`) | after its deadline the driver always can go on, and reaches the verdict within five steps | `TurnEnds` |
| `AttemptsReport` (`AgentRunnerProofs`) | an attempt reports within `4 * MaxTurns + 6` steps of its own | `AttemptEnds` |
| `HostGoesOn` (`ServiceHostProofs`) | the main thread has a step, or sleeps with the tick timer armed, or is gone or stuck | all of `host` |
| `RequestsKept` (`ServiceHostProofs`) | a request ahead of every stop comes nearer to its answer and is never put back | `SnapshotAnswered` |
| `SignalsKept` (`ServiceHostProofs`) | a signal that was handled leaves the process a bounded number of its steps from its exit | `SignalEndsHost` |
| `OneThreadPerIssue` (`OrchestratorEventProofs`) | without stall detection and without issues that become eligible again, one thread per issue, and stale exits are no-ops | `stale_exit` |
| `FixedRootNeverRefuses` (`OrchestratorEventProofs`) | if no reload moves the root and every identifier yields a path, every run works under the root configured and the loop fails by an exception of `Faults` only; if there are none of these, no tick fails | `TickNeverFails`; `root_moved` |
| `PollKeepsStateLimits`, `LooseLimitsKept` (`OrchestratorRefinementProofs`) | every start but the retry timer's respects the limit of its state; all do, if no such limit is below the global one | `retry_state_limit` |
| `TextNeverRaises` (`WorkflowReloadProofs`) | if no file is garbled, no reload raises | `reload.py:96`, section 5 |

### The arguments

**Types** (`OrchestratorProofs`). `TypeOK` is not inductive: reconciliation updates the
view of `running[i]`, which would be a type error if `i` no longer ran.
`RefreshedAreRunning` says that what is left of a refresh still runs; it holds because the only
operation between the refresh and its use, terminating an issue, removes it from both.

**Exact claims.** Each handler is an operation on one issue's entries; lemmas say what each of
`DispatchIssue`, `ScheduleRetry`, `TerminateRunningIssue` and the release does to the three sets,
and each action is one of them or touches none.

**The tick chain.** `Chain` adds that there is no tick before the service serves. Events that are
enqueued or handled are counted by kind.

**Slots.** `Slots`: a running entry's worker is alive, for that very issue, or its exit is in the
queue. The delicate step is a stale exit: it removes the entry of its issue whatever worker is in it, so
nothing remains to be held. A worker identity is reused only when it is neither alive nor in the queue.

**Wake-ups.** A retry entry names its timer, and a timer or due event names its issue and entry:
`RetryWakesOnce` is inductive with `ClaimedExactly`, since it must be known that
an issue dispatched from a poll had no retry queued.

**The refinement.** Initial states map to unclaimed issues. Each step changes the claim of at
most one issue, by a lemma for each handler, and every such change is a transition of
`ClaimLifecycle` under the limit in force, and for an exit the one that its outcome calls for; an exception is the end. `LimitNeverExceeded` is then a fact of the abstract
specification: the number of running claims rises only below the limit.

**Hooks, activity, set-up** (`AgentRunnerProofs`). `InStep` relates an attempt's
phase to what it has run and seen; attempts do not touch one another's locals, so it is proved for one and lifted
(`AllInStep`). `OneCreator` says that at most one live attempt was told that it created what is at the path, and
that the directory is unprepared while it holds that answer: `mkdir` itself decides.

**Edits** (`WorkflowReloadProofs`). `EditsOwed`: a poll under way has an edit not yet answered, so
re-reads never exceed edits. `LooksAgree`: the signature the store
holds was taken before the read, so an edit after it differs from it and the next poll sees that; a read under a
signature that still stands has seen the file as it is, or has failed.

**A turn** (`TurnRunnerProofs`). `Fate`: which phases of the driver go with which states of the process.
`Stream`: what `on_event` saw, the queue, what the pump holds and the pipe are, in this order, what the agent
wrote. `Judged`: nothing is read past the first result. `Tame` and `Verdicts`: with a tame agent no deadline
decides, the readers see the whole stream before they end, and the verdict is the one the first result and the
exit call for.

**Accounting** (`AccountingProofs`). `EntryIsLast`: the entry is that of the last run dispatched, and every
earlier run was let go or has exited, which is `OneWorkerPerIssue`. `Queue`: a run's exit is the last of its
events, each result is queued at most once and only after its turn, and runs not yet dispatched have said nothing. From
there, counting: a result is in the queue, in the session of the entry, or nowhere (`Kept`), and in the totals only once its
run's exit is handled (`Booked`, `Tokens`); since a row that shows a turn of the run that has the entry goes with that
entry, nothing is shown twice. `RowComplete`: what the entry's own run has finished is in its row or in the queue
before its exit. `ClockFollows`: the stall reference is not behind what was handled of the run.
`NoTimeAddedTwice` needs only that no entry starts in the future: then what a run takes with it when it is let go is not negative.

**The process** (`ServiceHostProofs`). Each action either is an action of the store or leaves its variables, by the way the
module is written, so the theorems of `WorkflowReloadProofs` hold in the process (`HostRunsStore`). `OneTick`: before the first tick and during one, none is queued or
armed; between ticks at most one. `StopAhead`: while the loop may still begin a tick, a signal has left a stop in the
queue, and once a tick has begun since, no tick is before that stop; so no second one begins.

**Who works on an issue** (`RunsProvided`). `ThreadsOnce` is the invariant: a thread works, or has one exit
in the queue, or neither, never two of them, and so is with one issue at most. Each handler is then a step of `IssueRuns`
or none: a dispatch adds the thread it starts to an issue without entry, an exit takes
away the one thread it names in history and the entry of its issue, and what only reads or requeues moves nobody.
A crash or stop of the loop is `Over`. `RunsAssumed` is the same for the attempts of one directory.

**Nothing stands still** (`LoopGoesOn`, `TurnNeverStuck`, `HostGoesOn`). `ENABLED` is out of the prover's reach,
so what each thread needs for its next step is written out as a formula, case by case (`LoopCanGoOn`,
`DriverCanGoOn`, ...); TLC was used to compare each formula with `ENABLED` of the action before it was proved about.
In the loop, the delicate needs are a free retry timer, which a pigeonhole argument over the entries gives, and a
first candidate in rank order, which exists because the rank is well-founded on a finite set.
In a turn, `Threads` and `PromptHeld` say which pipe each party may wait for: the readers empty what the agent
fills, and the prompt, which fits its pipe, waits for nobody. In the process, the only sleep is in an empty queue, and then the
timer of the next tick is armed (`TickComes`).

**Bounded progress** (`StopNearer`, `TurnFinite`, `DeadlineEnds`, `AttemptsReport`, `RequestsKept`, `SignalsKept`). A number
is attached to each state, `TickSteps`, `Work`, `StepsLeft`, `LoopSteps`; it is proved to be natural and bounded, to fall with each step
of the thread it is about, and not to rise with anybody else's. Together with the previous paragraph and the fairness
of that thread this is why the liveness property holds; the last inference, from fairness, is TLC's. In a queue, an event counts a whole tick,
so what is enqueued behind a stop or a request cannot delay it.

**What delimits the findings.** `Settled`, for `OneThreadPerIssue`: an issue with a thread that was let go has
neither run nor retry, and is eligible neither in the tracker nor in the batch at hand, so nothing dispatches it
again. `RunsUnderRoot`: every run works under the root now configured, so a removal is never refused, and what remains to end the loop is
an action of `RaisesInHandler`. `PassKeepsStateLimit`: the pass over the
candidates counts the runs of a state before each dispatch. `LooseLimitsKept` follows from the global limit, as the runs of a state are among all
runs. Each `ASSUME` is met by configurations a user can write: stall detection is off with a
timeout of 0, a root that is not edited stays, a state without an entry in the map has no limit of its own; that no issue
becomes eligible again once it is not, and that every identifier yields a path, is up to the people who edit the
tracker.

**Requests, signals, the file** (`ServiceHostProofs`). `StoreAtRest` and `AdoptedInForce`: between polls the
store is idle and the service works by what the store has in force, so `NothingMissed` of the store becomes `ServiceUpToDate`, a fact about the
service. `HandlersInLoop`: handlers are installed only from the composition of the service to the end of its shutdown, so a signal
they catch finds a queue that is still read, or a loop that was left.

### Only model-checked

- Liveness: `TicksRecur`, `StopHonoured`, `ClosedIssueLetGo`, `SlotReclaimed`, `TurnEnds`,
  `AttemptEnds`, `SnapshotAnswered`, `SignalEndsHost`, `ServiceFollowsFile`. The prover does not
  reason about fairness and `ENABLED`. What each says besides fairness is proved, in the table above;
  of `TicksRecur` by `TicksChained` and `LoopGoesOn`, of `SlotReclaimed` by `SlotsNeverLeak`.
- That the violations exist. For `unprepared` no condition is proved under which its sentence holds: whether `after_create` fails
  is no constant but the hook's choice on each run, so there is nothing to assume of the model's parameters.

## 5 Findings

| Run | What the code does | What is said of it |
|---|---|---|
| `stale_exit` | An exit event names only its issue. After a stall the stopped worker's exit pops its successor's entry, queues another retry, and leaves the successor running untracked: two agents may then work in one directory beyond the limit. | `service.py:473`: "the thread's eventual exit event is a no-op" |
| `retry_state_limit` | `on_retry_timer` looks at global slots only and dispatches beyond `max_concurrent_agents_by_state`. | `SPEC.md:786`, `SPEC.md:827`: candidate-eligible, with per-state slots |
| `root_moved` | After a reload has moved `workspace.root`, closing an issue that runs raises `InvalidWorkspacePathError` out of the tick: the loop ends. | `workspace.py:160`: removal "is best-effort" and does not fail the tick; `SPEC.md:1724` |
| `prompt_blocks` | The prompt is written before the readers start and before the deadlines are set: a prompt larger than the pipe, and an agent that writes first, block each other for ever. | `turn_runner.py:13`: "total wall-clock for the turn; on expiry the subprocess is killed" |
| `unprepared` | A failed `after_create` leaves the directory; the retry reuses it, skips the hook and runs its turn. | `SPEC.md:941`: failure "is fatal to workspace creation"; `hooks.py:13`: "aborting workspace creation" |
| `runtime_lost` | `terminate_running_issue` pops the entry and adds its time to no counter: whenever a run is stalled, closed or made inactive, `seconds_running` falls back by it. | `SPEC.md:1448`: run duration is added "when a session ends (normal exit or cancellation/termination)" |

The first, and the terminated worker that survives its removed workspace, are why `OneWorkerPerIssue` speaks of
runs that were let go, and why `LimitRespected` counts the entries of `running` and not the live threads.

The models also show behaviour that is an allowed outcome of a property and not a run of its own:

- A signal that arrives while the main thread is inside `put` or `get` of the queue makes its handler wait for
  a mutex its own thread holds (`cli.py:116`); the process then ends by no signal it handles. `main = "stuck"` in `ServiceHost`.
- A snapshot request that gets behind a stop is answered by nobody and ends with its timeout
  (`service.py:289`), although the service knows that it has stopped.
- A `WORKFLOW.md` that is not UTF-8 raises `UnicodeDecodeError` (`workflow_loader.py:123`), neither an `OSError` nor a
  `WorkflowConfigError`, out of `poll` and through the tick: the loop ends. `reload.py:96` says "subsequent reloads never
  raise for a bad on-disk config", `SPEC.md:590` "Invalid reloads MUST NOT crash the service". `ReloadNeverRaises` in `WorkflowReload` is that
  sentence; `ReloadRaises` in `Orchestrator` and `TickRaises` in `ServiceHost` are the step.
- The tokens of a terminated run are not added to `agent_totals` either, and its exit is a no-op or is booked on its
  successor (`orchestrator.py:885`). `letGo` in `Accounting` keeps those runs apart.
- A worker is started before its workspace path is computed (`orchestrator.py:397`, `419`); if that raises, the loop ends and no
  entry tracks the worker. `DispatchRefused` in `Orchestrator`.

## 6 What is not modelled, and the plan

Left out by intent:

- HTTP transport and field normalization (I/O and data; their outcome, an answer or an error, is an
  input), prompt text, logging, the exception classes, argument parsing.
- Pagination of a tracker read: a read is one answer or one error.
- The backoff formula, the sort key of candidates and the values of configuration fields: arithmetic and comparisons
  on data that unit tests reach; delays and ranks are choices or constants here.
- Rate limits, the `completed` set and the descriptive fields of sessions and rows: written, shown, and read
  by nothing.
- `SnapshotProvider`, which the service does not use.
- Edits that preserve mtime and size, two identifiers with one workspace key, an `OSError` in the middle of
  an operation other than a removal, exceptions out of the event loop that no line raises (memory, an interrupt without a handler), and the `before_remove` hook's content (the startup cleanup runs none,
  `SPEC.md:426`).

Next, in this order:

1. **Two issues in `Accounting`**: rows of several issues in one snapshot, and the totals across them.
2. **The retry of a shared queue**: `Orchestrator` with agent updates, so that stall detection is decided by the clock
   of `Accounting` instead of a choice, as a refinement of today's `Orchestrator`.
3. **Proofs**: `ClaimLifecycle` and `IssueRuns` in one abstract specification, so that an attempt number belongs to a
   thread; and `Accounting` as an instance of it, once its tick is cut where that of `Orchestrator` is.
