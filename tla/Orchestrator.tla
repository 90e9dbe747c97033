---------------------------- MODULE Orchestrator ----------------------------
(***************************************************************************)
(* The scheduling core of Symphony: the claim state of orchestrator.py     *)
(* driven by the event loop of service.py.                                 *)
(*                                                                         *)
(* Only the event-loop thread touches the claim state.  Worker threads,    *)
(* timer threads and operators talk to it through one FIFO queue, so what  *)
(* interleaves is the arrival of events, the tracker's changes between two *)
(* reads of it, and the lifetimes of worker threads the loop cannot kill.  *)
(* A tick is several actions because the tracker is read more than once    *)
(* during one, and other threads run meanwhile.                            *)
(*                                                                         *)
(* Time is abstracted: a timer may fire, and a worker may look stalled, at *)
(* any moment.  Agent updates and snapshots do not touch the claim state   *)
(* and are not events of this module.                                      *)
(***************************************************************************)
EXTENDS Integers, Sequences, FiniteSets

CONSTANTS
    Issues,          \* the tracker issues that may ever be active
    Workers,         \* identities of live worker threads: the OS's thread limit
    Timers,          \* identities of retry timers
    States,          \* normalized tracker state names
    ActiveStates,    \* tracker.active_states
    TerminalStates,  \* tracker.terminal_states
    Todo,            \* the state the blocker rule applies to
    Views,           \* what the tracker may say of an issue
    Moves,           \* the changes of an issue's view the tracker may make
    Roots,           \* workspace roots, none inside another
    Configs,         \* the effective configurations a reload may bring
    Rank,            \* the issues' positions in the order of sort_for_dispatch
    MayStop,         \* whether an operator may stop the service
    Faults,          \* what may raise an exception that no handler catches
    AttemptCap,      \* the bound on attempt numbers, which saturate here
    None             \* absence: no entry, no thread, no view

\* What one fetched Issue says, as far as scheduling tells issues apart: its
\* state, whether it carries the required labels, whether a blocker is open, and
\* whether its identifier yields a workspace path below the root.
View == [state : States, labelled : BOOLEAN, blocked : BOOLEAN, keyed : BOOLEAN]

\* max and perState are max_concurrent_agents(_by_state), dispatchable is the
\* outcome of the preflight, stall whether stall_timeout_ms > 0.
Config == [max : Int, perState : [States -> Int \cup {None}], root : Roots,
           dispatchable : BOOLEAN, stall : BOOLEAN]

Attempts == 0 .. AttemptCap     \* 0 stands for attempt = None

RunningEntry == [worker : Workers, attempt : Attempts, state : States, root : Roots]
RetryEntry   == [attempt : Attempts, timer : Timers]

ASSUME FiniteAssumption == IsFiniteSet(Issues) /\ IsFiniteSet(Workers)
ASSUME StateAssumption ==
    /\ ActiveStates \subseteq States
    /\ TerminalStates \subseteq States
    /\ Todo \in States
ASSUME ViewAssumption == Views \subseteq View /\ Moves \subseteq (Views \cup {None}) \X (Views \cup {None})
ASSUME ConfigAssumption == Configs \subseteq Config /\ Configs # {}
ASSUME RankAssumption ==
    /\ Rank \in [Issues -> Nat]
    /\ \A i, j \in Issues : Rank[i] = Rank[j] => i = j
ASSUME StopAssumption == MayStop \in BOOLEAN
ASSUME FaultAssumption == Faults \subseteq {"reload", "fetch", "removal", "timer"}
ASSUME AttemptAssumption == AttemptCap \in Nat \ {0}
ASSUME TimerAssumption == IsFiniteSet(Timers) /\ Cardinality(Timers) >= Cardinality(Issues)
ASSUME NoneAssumption ==
    /\ None \notin Issues
    /\ None \notin View
    /\ None \notin RunningEntry
    /\ None \notin RetryEntry

VARIABLES
    loop,       \* what the event-loop thread is doing
    events,     \* service._events, the FIFO of events not yet received
    config,     \* service._config and all that _apply_config derives from it
    running,    \* state.running
    claimed,    \* state.claimed
    retry,      \* state.retry_attempts
    armed,      \* for each retry timer, the issue it will wake, if armed
    tickTimer,  \* whether the timer of the next tick is armed
    batch,      \* the issues a tick fetched and has not yet looked at
    workers,    \* for each live worker thread, the issue it works on
    tracker     \* the issues as the tracker has them

claimVars == <<running, claimed, retry, armed>>
vars == <<loop, events, config, running, claimed, retry, armed, tickTimer,
          batch, workers, tracker>>

TickPhases == {"stalls", "refresh", "fetch", "dispatch"}
Serving == loop \in TickPhases \cup {"idle"}
Ended   == loop \in {"stopped", "crashed", "refused"}

-----------------------------------------------------------------------------
(* Events.  The worker of an exit is recorded for the properties only: the *)
(* code's _WorkerExit names the issue and nothing else.                     *)

Tick           == [kind |-> "tick"]
RetryDue(i)    == [kind |-> "due", issue |-> i]
WorkerExit(w, i, ok) == [kind |-> "exit", issue |-> i, worker |-> w, ok |-> ok]
Stop           == [kind |-> "stop"]

Event == {Tick, Stop} \cup {RetryDue(i) : i \in Issues}
           \cup {WorkerExit(w, i, ok) : w \in Workers, i \in Issues, ok \in BOOLEAN}

Queued(e) == \E k \in 1 .. Len(events) : events[k] = e
ExitQueued(w) == \E i \in Issues, ok \in BOOLEAN : Queued(WorkerExit(w, i, ok))

Receive(e) ==
    /\ loop = "idle"
    /\ events # << >>
    /\ Head(events) = e
    /\ events' = Tail(events)

-----------------------------------------------------------------------------
(* Reading the claim state.                                                *)

RunningIssues == {i \in Issues : running[i] # None}
RetryIssues   == {i \in Issues : retry[i] # None}

NextAttempt(attempt) == IF attempt < AttemptCap THEN attempt + 1 ELSE AttemptCap

AvailableWorkerSlots == config.max - Cardinality(RunningIssues)

RunningCountForState(s) == Cardinality({i \in RunningIssues : running[i].state = s})

PerStateLimit(s) == IF config.perState[s] = None THEN config.max ELSE config.perState[s]

\* The issues fetch_candidate_issues returns.
Candidates == {i \in Issues : tracker[i] # None /\ tracker[i].state \in ActiveStates}

\* Mutant: the claim is not looked at.
MutantShouldDispatchClaimed(i, view) ==
    /\ view.state \in ActiveStates \ TerminalStates
    /\ view.labelled
    /\ AvailableWorkerSlots > 0
    /\ RunningCountForState(view.state) < PerStateLimit(view.state)
    /\ view.state = Todo => ~view.blocked

\* should_dispatch, for an issue as it was fetched.
ShouldDispatch(i, view) ==
    /\ view.state \in ActiveStates \ TerminalStates
    /\ view.labelled
    /\ running[i] = None
    /\ i \notin claimed
    /\ AvailableWorkerSlots > 0
    /\ RunningCountForState(view.state) < PerStateLimit(view.state)
    /\ view.state = Todo => ~view.blocked

-----------------------------------------------------------------------------
(* Changing the claim state.                                               *)

\* Identities differ in nothing but themselves, so a fresh one is a fixed one of
\* the unused: a set of one element, or of none when all are in use.
Representative(S) == {x \in S : x = CHOOSE y \in S : TRUE}

\* Mutant: the retry is queued and the issue not claimed for it.
MutantScheduleRetryUnclaimed(i, attempt, entries) ==
    /\ \E timer \in {t \in Timers : armed[t] = None /\ \A j \in Issues :
                                       entries[j] # None => entries[j].timer # t} :
         /\ armed' = [armed EXCEPT ![timer] = i]
         /\ retry' = [entries EXCEPT ![i] = [attempt |-> attempt, timer |-> timer]]
    /\ UNCHANGED claimed

\* RetryScheduler.__call__, where `entries` is retry_attempts as it then is:
\* cancel the issue's timer if it has one, arm a fresh one, record the entry.
ScheduleRetry(i, attempt, entries) ==
    LET live == [t \in Timers |-> IF entries[i] # None /\ entries[i].timer = t
                                  THEN None ELSE armed[t]]
        free == {t \in Timers : /\ live[t] = None
                                /\ \A j \in Issues \ {i} :
                                       entries[j] # None => entries[j].timer # t}
    IN  /\ \E timer \in Representative(free) :
             /\ armed' = [live EXCEPT ![timer] = i]
             /\ retry' = [entries EXCEPT ![i] = [attempt |-> attempt, timer |-> timer]]
        /\ claimed' = claimed \cup {i}

\* The thread identities no live thread and no exit still queued uses.
FreeWorkers == {w \in Workers : workers[w] = None /\ ~ExitQueued(w)}

StartThread(w, i) == workers' = [workers EXCEPT ![w] = i]

\* service._shutdown, where `entries` is retry_attempts as it then is.
Shutdown(entries) ==
    /\ tickTimer' = FALSE
    /\ armed' = [t \in Timers |->
                    IF \E i \in Issues : entries[i] # None /\ entries[i].timer = t
                    THEN None ELSE armed[t]]

\* dispatch_issue, once the thread has started: the issue's path is computed,
\* then the entry and the claim are recorded and a pending retry dropped.
DispatchStarted(i, view, attempt, entries) ==
    /\ view.keyed
    /\ \E w \in Representative(FreeWorkers) :
         /\ StartThread(w, i)
         /\ running' = [running EXCEPT ![i] = [worker |-> w, attempt |-> attempt,
                                               state |-> view.state, root |-> config.root]]
    /\ claimed' = claimed \cup {i}
    /\ retry' = [entries EXCEPT ![i] = None]
    /\ UNCHANGED <<loop, armed, tickTimer>>

\* dispatch_issue when the thread cannot be started.
DispatchUnstarted(i, attempt, entries) ==
    /\ ScheduleRetry(i, NextAttempt(attempt), entries)
    /\ UNCHANGED <<loop, running, workers, tickTimer>>

\* dispatch_issue when workspace_path_for refuses the identifier: the thread
\* already runs, and the exception leaves the handler and ends the loop.
DispatchRefused(i, view, entries) ==
    /\ ~view.keyed
    /\ \E w \in Representative(FreeWorkers) : StartThread(w, i)
    /\ retry' = entries
    /\ loop' = "crashed"
    /\ Shutdown(entries)
    /\ UNCHANGED <<running, claimed>>

DispatchIssue(i, view, attempt, entries) ==
    \/ DispatchStarted(i, view, attempt, entries)
    \/ DispatchUnstarted(i, attempt, entries)
    \/ DispatchRefused(i, view, entries)

-----------------------------------------------------------------------------
(* The event loop: startup and the poll tick.                              *)

Init ==
    /\ loop = "starting"
    /\ events = << >>
    /\ config \in Configs
    /\ running = [i \in Issues |-> None]
    /\ claimed = {}
    /\ retry = [i \in Issues |-> None]
    /\ armed = [t \in Timers |-> None]
    /\ tickTimer = FALSE
    /\ batch = [i \in Issues |-> None]
    /\ workers = [w \in Workers |-> None]
    /\ tracker \in [Issues -> Views]

Serve ==
    /\ loop = "starting"
    /\ config.dispatchable
    /\ loop' = "idle"
    /\ events' = Append(events, Tick)
    /\ UNCHANGED <<config, claimVars, tickTimer, batch, workers, tracker>>

ServeRefused ==
    /\ loop = "starting"
    /\ ~config.dispatchable
    /\ loop' = "refused"
    /\ UNCHANGED <<events, config, claimVars, tickTimer, batch, workers, tracker>>

\* _poll_reload: either nothing is adopted or a new configuration is.
TickStarts ==
    /\ Receive(Tick)
    /\ loop' = "stalls"
    /\ config' \in Configs
    /\ UNCHANGED <<claimVars, tickTimer, batch, workers, tracker>>

\* One iteration of reconcile_stalled_runs that finds a stalled worker.  The
\* claim is discarded by terminate_running_issue and added by the scheduler.
StalledRunRetried(i) ==
    /\ loop = "stalls"
    /\ config.stall
    /\ running[i] # None
    /\ running' = [running EXCEPT ![i] = None]
    /\ ScheduleRetry(i, NextAttempt(running[i].attempt), retry)
    /\ UNCHANGED <<loop, events, config, tickTimer, batch, workers, tracker>>

\* fetch_issue_states_by_ids for the running issues; nothing to ask when none.
StatesRefreshed ==
    /\ loop = "stalls"
    /\ loop' = "refresh"
    /\ batch' = [i \in Issues |-> IF running[i] # None THEN tracker[i] ELSE None]
    /\ UNCHANGED <<events, config, claimVars, tickTimer, workers, tracker>>

StatesRefreshFailed ==
    /\ loop = "stalls"
    /\ RunningIssues # {}
    /\ loop' = "fetch"
    /\ UNCHANGED <<events, config, claimVars, tickTimer, batch, workers, tracker>>

\* Mutant: the claim of the terminated run is kept.
MutantTerminateStillClaimed(i) ==
    /\ running' = [running EXCEPT ![i] = None]
    /\ UNCHANGED <<loop, claimed, retry, armed, tickTimer>>

\* terminate_running_issue: the worker is not stopped (_stop_worker only logs).
TerminateRunningIssue(i) ==
    /\ running' = [running EXCEPT ![i] = None]
    /\ claimed' = claimed \ {i}
    /\ UNCHANGED <<loop, retry, armed, tickTimer>>

\* remove_workspace refuses a path outside the root now configured: the error
\* leaves the tick after the entry was popped and before the claim is dropped.
TerminationRefused(i) ==
    /\ running' = [running EXCEPT ![i] = None]
    /\ loop' = "crashed"
    /\ Shutdown(retry)
    /\ UNCHANGED <<claimed, retry>>

\* One iteration over the refreshed issues.
ReconcileIssue(i) ==
    /\ loop = "refresh"
    /\ batch[i] # None
    /\ batch' = [batch EXCEPT ![i] = None]
    /\ \/ /\ batch[i].state \in TerminalStates
          /\ running[i].root = config.root
          /\ TerminateRunningIssue(i)
       \/ /\ batch[i].state \in TerminalStates
          /\ running[i].root # config.root
          /\ TerminationRefused(i)
       \/ /\ batch[i].state \in ActiveStates \ TerminalStates
          /\ running' = [running EXCEPT ![i].state = batch[i].state]
          /\ UNCHANGED <<loop, claimed, retry, armed, tickTimer>>
       \/ /\ batch[i].state \notin ActiveStates \cup TerminalStates
          /\ TerminateRunningIssue(i)
    /\ UNCHANGED <<events, config, workers, tracker>>

ReconcileDone ==
    /\ loop = "refresh"
    /\ \A i \in Issues : batch[i] = None
    /\ loop' = "fetch"
    /\ UNCHANGED <<events, config, claimVars, tickTimer, batch, workers, tracker>>

CandidatesFetched ==
    /\ loop = "fetch"
    /\ config.dispatchable
    /\ loop' = "dispatch"
    /\ batch' = [i \in Issues |-> IF i \in Candidates THEN tracker[i] ELSE None]
    /\ UNCHANGED <<events, config, claimVars, tickTimer, workers, tracker>>

\* Mutant: the early return skips the next tick's timer too.
MutantSkipsNextTick ==
    /\ loop = "fetch"
    /\ loop' = "idle"
    /\ UNCHANGED <<events, config, claimVars, tickTimer, batch, workers, tracker>>

\* The preflight fails, or the candidate fetch does: no dispatch in this tick.
DispatchSkipped ==
    /\ loop = "fetch"
    /\ loop' = "idle"
    /\ tickTimer' = TRUE
    /\ UNCHANGED <<events, config, claimVars, batch, workers, tracker>>

\* The first issue of the sorted candidates not yet looked at.
FirstCandidate(i) ==
    /\ batch[i] # None
    /\ \A j \in Issues : batch[j] # None => Rank[i] <= Rank[j]

CandidateDispatched(i) ==
    /\ loop = "dispatch"
    /\ FirstCandidate(i)
    /\ ShouldDispatch(i, batch[i])
    /\ batch' = [batch EXCEPT ![i] = None]
    /\ DispatchIssue(i, batch[i], 0, retry)
    /\ UNCHANGED <<events, config, tracker>>

CandidatePassedOver(i) ==
    /\ loop = "dispatch"
    /\ FirstCandidate(i)
    /\ AvailableWorkerSlots > 0
    /\ ~ShouldDispatch(i, batch[i])
    /\ batch' = [batch EXCEPT ![i] = None]
    /\ UNCHANGED <<loop, events, config, claimVars, tickTimer, workers, tracker>>

\* The pass ends when the list or the slots run out; _on_tick arms the next tick.
TickEnds ==
    /\ loop = "dispatch"
    /\ AvailableWorkerSlots <= 0 \/ \A i \in Issues : batch[i] = None
    /\ loop' = "idle"
    /\ batch' = [i \in Issues |-> None]
    /\ tickTimer' = TRUE
    /\ UNCHANGED <<events, config, claimVars, workers, tracker>>

-----------------------------------------------------------------------------
(* The event loop: the other events.                                       *)

\* Mutant: the slots are not counted before a retry is dispatched.
MutantRetryUnlimited(i, attempt, entries) ==
    \/ /\ i \notin Candidates
       /\ claimed' = claimed \ {i}
       /\ retry' = entries
       /\ UNCHANGED <<loop, running, armed, workers, tickTimer>>
    \/ i \in Candidates /\ DispatchIssue(i, tracker[i], attempt, entries)

\* on_retry_timer with an entry of the given attempt, popped to leave `entries`:
\* the poll fails; or the issue is no candidate any more; or it is and no slot
\* is free; or it is dispatched again.
RetryChecked(i, attempt, entries) ==
    \/ /\ ScheduleRetry(i, NextAttempt(attempt), entries)
       /\ UNCHANGED <<loop, running, workers, tickTimer>>
    \/ /\ i \notin Candidates
       /\ claimed' = claimed \ {i}
       /\ retry' = entries
       /\ UNCHANGED <<loop, running, armed, workers, tickTimer>>
    \/ /\ i \in Candidates
       /\ AvailableWorkerSlots <= 0
       /\ ScheduleRetry(i, NextAttempt(attempt), entries)
       /\ UNCHANGED <<loop, running, workers, tickTimer>>
    \/ /\ i \in Candidates
       /\ AvailableWorkerSlots > 0
       /\ DispatchIssue(i, tracker[i], attempt, entries)

OnRetryTimer(i) ==
    /\ Receive(RetryDue(i))
    /\ IF retry[i] = None
       THEN UNCHANGED <<loop, claimVars, workers, tickTimer>>
       ELSE RetryChecked(i, retry[i].attempt, [retry EXCEPT ![i] = None])
    /\ UNCHANGED <<config, batch, tracker>>

\* Mutant: the entry is looked up and not popped.
MutantExitLeavesEntry(w, i, ok) ==
    /\ Receive(WorkerExit(w, i, ok))
    /\ IF running[i] = None
       THEN UNCHANGED <<claimed, retry, armed>>
       ELSE ScheduleRetry(i, IF ok THEN 1 ELSE NextAttempt(running[i].attempt), retry)
    /\ UNCHANGED <<loop, config, running, tickTimer, batch, workers, tracker>>

\* Mutant: a clean exit escalates the attempt, and a failed one resets it.
MutantExitAttemptsSwapped(w, i, ok) ==
    /\ Receive(WorkerExit(w, i, ok))
    /\ IF running[i] = None
       THEN UNCHANGED claimVars
       ELSE /\ running' = [running EXCEPT ![i] = None]
            /\ ScheduleRetry(i, IF ok THEN NextAttempt(running[i].attempt) ELSE 1, retry)
    /\ UNCHANGED <<loop, config, tickTimer, batch, workers, tracker>>

\* on_worker_exit: whichever run of the issue is in `running` is the one popped.
OnWorkerExit(w, i, ok) ==
    /\ Receive(WorkerExit(w, i, ok))
    /\ IF running[i] = None
       THEN UNCHANGED claimVars
       ELSE /\ running' = [running EXCEPT ![i] = None]
            /\ ScheduleRetry(i, IF ok THEN 1 ELSE NextAttempt(running[i].attempt), retry)
    /\ UNCHANGED <<loop, config, tickTimer, batch, workers, tracker>>

\* Mutant: the stop event is received and the loop goes on.
MutantStopIgnored ==
    /\ Receive(Stop)
    /\ UNCHANGED <<loop, config, claimVars, tickTimer, batch, workers, tracker>>

OnStop ==
    /\ Receive(Stop)
    /\ loop' = "stopped"
    /\ Shutdown(retry)
    /\ UNCHANGED <<config, running, claimed, retry, batch, workers, tracker>>

-----------------------------------------------------------------------------
(* The event loop: exceptions that leave a handler, beside the two above.    *)
(* serve catches none, and its finally shuts the service down.               *)

Raises(fault, entries) == fault \in Faults /\ loop' = "crashed" /\ Shutdown(entries)

\* _poll_reload: the workflow file is not UTF-8.
ReloadRaises ==
    /\ Receive(Tick)
    /\ Raises("reload", retry)
    /\ UNCHANGED <<config, running, claimed, retry, batch, workers, tracker>>

\* The stalled run is terminated, and the timer of its retry does not start.
StallRetryRaises(i) ==
    /\ loop = "stalls"
    /\ config.stall
    /\ running[i] # None
    /\ running' = [running EXCEPT ![i] = None]
    /\ claimed' = claimed \ {i}
    /\ Raises("timer", retry)
    /\ UNCHANGED <<events, config, retry, batch, workers, tracker>>

\* A read of the tracker raises what is no TrackerError, or its answer cannot be
\* sorted.
FetchRaises ==
    /\ \/ loop = "stalls" /\ RunningIssues # {}
       \/ loop = "fetch" /\ config.dispatchable
    /\ Raises("fetch", retry)
    /\ UNCHANGED <<events, config, running, claimed, retry, batch, workers, tracker>>

\* The before_remove hook's output is not UTF-8, or the path cannot be looked at:
\* the entry is popped and the claim kept.
RemovalRaises(i) ==
    /\ loop = "refresh"
    /\ batch[i] # None
    /\ batch[i].state \in TerminalStates
    /\ batch' = [batch EXCEPT ![i] = None]
    /\ running' = [running EXCEPT ![i] = None]
    /\ Raises("removal", retry)
    /\ UNCHANGED <<events, config, claimed, retry, workers, tracker>>

\* Neither the worker's thread starts nor the timer of the retry.
DispatchRaises(i) ==
    /\ loop = "dispatch"
    /\ FirstCandidate(i)
    /\ ShouldDispatch(i, batch[i])
    /\ batch' = [batch EXCEPT ![i] = None]
    /\ Raises("timer", retry)
    /\ UNCHANGED <<events, config, running, claimed, retry, workers, tracker>>

\* _schedule_tick at the end of a tick, with or without a dispatch pass.
NextTickRaises ==
    /\ \/ loop = "fetch"
       \/ loop = "dispatch" /\ (AvailableWorkerSlots <= 0 \/ \A i \in Issues : batch[i] = None)
    /\ batch' = [i \in Issues |-> None]
    /\ Raises("timer", retry)
    /\ UNCHANGED <<events, config, running, claimed, retry, workers, tracker>>

\* The retry was popped, and its poll raises, or the timer that would queue it again.
RetryRaises(i) ==
    /\ Receive(RetryDue(i))
    /\ retry[i] # None
    /\ retry' = [retry EXCEPT ![i] = None]
    /\ \E fault \in {"fetch", "timer"} : Raises(fault, retry')
    /\ UNCHANGED <<config, running, claimed, batch, workers, tracker>>

\* The run was popped, and the timer of its retry does not start.
ExitRaises(w, i, ok) ==
    /\ Receive(WorkerExit(w, i, ok))
    /\ running[i] # None
    /\ running' = [running EXCEPT ![i] = None]
    /\ Raises("timer", retry)
    /\ UNCHANGED <<config, claimed, retry, batch, workers, tracker>>

-----------------------------------------------------------------------------
(* The other threads and the world.  The process exits once the loop ended. *)

\* Mutant: an attempt that fails takes its thread down without an exit event.
MutantFailsSilently(w, ok) ==
    /\ ~Ended
    /\ workers[w] # None
    /\ events' = IF ok THEN Append(events, WorkerExit(w, workers[w], ok)) ELSE events
    /\ workers' = [workers EXCEPT ![w] = None]
    /\ UNCHANGED <<loop, config, claimVars, tickTimer, batch, tracker>>

\* A worker's attempt ends, well or not, and its thread reports and dies.
WorkerEnds(w, ok) ==
    /\ ~Ended
    /\ workers[w] # None
    /\ events' = Append(events, WorkerExit(w, workers[w], ok))
    /\ workers' = [workers EXCEPT ![w] = None]
    /\ UNCHANGED <<loop, config, claimVars, tickTimer, batch, tracker>>

\* Mutant: the due event carries the timer's handle instead of the issue.
MutantDueNamesTimer(t) ==
    /\ ~Ended
    /\ armed[t] # None
    /\ events' = Append(events, RetryDue(t))
    /\ armed' = [armed EXCEPT ![t] = None]
    /\ UNCHANGED <<loop, config, running, claimed, retry, tickTimer, batch, workers, tracker>>

RetryTimerFires(t) ==
    /\ ~Ended
    /\ armed[t] # None
    /\ events' = Append(events, RetryDue(armed[t]))
    /\ armed' = [armed EXCEPT ![t] = None]
    /\ UNCHANGED <<loop, config, running, claimed, retry, tickTimer, batch, workers, tracker>>

TickTimerFires ==
    /\ ~Ended
    /\ tickTimer
    /\ tickTimer' = FALSE
    /\ events' = Append(events, Tick)
    /\ UNCHANGED <<loop, config, claimVars, batch, workers, tracker>>

\* service.stop.  A second Stop behind the first is never received, so one is enough.
StopRequested ==
    /\ MayStop
    /\ ~Ended
    /\ ~Queued(Stop)
    /\ events' = Append(events, Stop)
    /\ UNCHANGED <<loop, config, claimVars, tickTimer, batch, workers, tracker>>

TrackerChanges(i) ==
    /\ ~Ended
    /\ \E v \in Views \cup {None} :
         /\ <<tracker[i], v>> \in Moves
         /\ tracker' = [tracker EXCEPT ![i] = v]
    /\ UNCHANGED <<loop, events, config, claimVars, tickTimer, batch, workers>>

ServiceOver == Ended /\ UNCHANGED vars

-----------------------------------------------------------------------------

RunTick ==
    \/ TickStarts
    \/ \E i \in Issues : StalledRunRetried(i)
    \/ StatesRefreshed
    \/ StatesRefreshFailed
    \/ \E i \in Issues : ReconcileIssue(i)
    \/ ReconcileDone
    \/ CandidatesFetched
    \/ DispatchSkipped
    \/ \E i \in Issues : CandidateDispatched(i)
    \/ \E i \in Issues : CandidatePassedOver(i)
    \/ TickEnds

RaisesInHandler ==
    \/ ReloadRaises \/ FetchRaises \/ NextTickRaises
    \/ \E i \in Issues : StallRetryRaises(i) \/ RemovalRaises(i) \/ DispatchRaises(i) \/ RetryRaises(i)
    \/ \E w \in Workers, i \in Issues, ok \in BOOLEAN : ExitRaises(w, i, ok)

EventLoop ==
    \/ Serve
    \/ ServeRefused
    \/ RunTick
    \/ \E i \in Issues : OnRetryTimer(i)
    \/ \E w \in Workers, i \in Issues, ok \in BOOLEAN : OnWorkerExit(w, i, ok)
    \/ OnStop
    \/ RaisesInHandler

Environment ==
    \/ \E w \in Workers, ok \in BOOLEAN : WorkerEnds(w, ok)
    \/ \E t \in Timers : RetryTimerFires(t)
    \/ TickTimerFires
    \/ StopRequested
    \/ \E i \in Issues : TrackerChanges(i)

Next == EventLoop \/ Environment \/ ServiceOver

Spec == Init /\ [][Next]_vars

-----------------------------------------------------------------------------
(* Safety.                                                                 *)

\* The types of the variables.
TypeOK ==
    /\ loop \in TickPhases \cup {"starting", "idle", "stopped", "crashed", "refused"}
    /\ events \in Seq(Event)
    /\ config \in Configs
    /\ running \in [Issues -> RunningEntry \cup {None}]
    /\ claimed \in SUBSET Issues
    /\ retry \in [Issues -> RetryEntry \cup {None}]
    /\ armed \in [Timers -> Issues \cup {None}]
    /\ tickTimer \in BOOLEAN
    /\ batch \in [Issues -> Views \cup {None}]
    /\ workers \in [Workers -> Issues \cup {None}]
    /\ tracker \in [Issues -> Views \cup {None}]

\* An issue is claimed exactly when it is running or waits for a retry, and never
\* both (SPEC 7.1).  A claim without an entry would keep the issue from ever
\* being dispatched again; an entry without a claim would dispatch it twice.  A
\* crash may leave a stale claim behind, which nothing reads any more.
ClaimedExactly ==
    /\ RunningIssues \cap RetryIssues = {}
    /\ loop # "crashed" => claimed = RunningIssues \cup RetryIssues

\* At most one event equal to e is in the queue.
QueuedOnce(e) ==
    \A j, k \in 1 .. Len(events) : events[j] = e /\ events[k] = e => j = k

\* While the loop may still act, every queued retry has exactly one wake-up on its
\* way, either its own timer or one due event, and there is no other wake-up: no
\* retry is forgotten, none is handled twice, no timer outlives its entry.
RetryWakesOnce ==
    ~Ended =>
      /\ \A i \in RetryIssues : armed[retry[i].timer] = i <=> ~Queued(RetryDue(i))
      /\ \A i \in Issues : Queued(RetryDue(i)) => retry[i] # None /\ QueuedOnce(RetryDue(i))
      /\ \A t \in Timers : armed[t] # None =>
            retry[armed[t]] # None /\ retry[armed[t]].timer = t

\* A running entry always has its own worker alive or that worker's exit queued:
\* no slot is held by a run that nothing will ever end, although exits name no
\* worker and stopped workers live on.
NoLeakedSlot ==
    \A i \in RunningIssues :
      LET w == running[i].worker
      IN  workers[w] = i \/ \E ok \in BOOLEAN : Queued(WorkerExit(w, i, ok))

\* While the service serves there is one tick chain: the tick is being handled, or
\* is queued once, or its timer is armed, and only one of the three.
SingleTickChain ==
    Serving =>
      /\ QueuedOnce(Tick)
      /\ Queued(Tick) => ~tickTimer /\ loop = "idle"
      /\ tickTimer => loop = "idle"
      /\ loop = "idle" => tickTimer \/ Queued(Tick)

\* A step that starts a run leaves no more runs than max_concurrent_agents then
\* allows, by either dispatch path and whatever reload lowered the limit.
LimitRespected ==
    [][Cardinality(RunningIssues') > Cardinality(RunningIssues)
         => Cardinality(RunningIssues') <= config'.max]_vars

-----------------------------------------------------------------------------
(* The claims implement their abstract lifecycle.                          *)

ClaimOf(i) ==
    IF Ended THEN [phase |-> "unclaimed", attempt |-> 0]
    ELSE IF running[i] # None THEN [phase |-> "running", attempt |-> running[i].attempt]
    ELSE IF retry[i] # None THEN [phase |-> "retry", attempt |-> retry[i].attempt]
    ELSE [phase |-> "unclaimed", attempt |-> 0]

\* The exit the loop receives next, when an exit is what it receives next.
NextReport ==
    IF loop = "idle" /\ events # << >> /\ Head(events).kind = "exit"
    THEN [issue |-> Head(events).issue, ok |-> Head(events).ok]
    ELSE None

Lifecycle == INSTANCE ClaimLifecycle
    WITH claim <- [i \in Issues |-> ClaimOf(i)], report <- NextReport, over <- Ended,
         limit <- config.max, Limits <- {c.max : c \in Configs}

\* Whatever interleaves, each step changes the claim of one issue at most, by a
\* transition of the lifecycle: a clean exit resets the attempt, a failed one, a
\* stall and a retry that cannot run escalate it, a retry runs with the number it
\* was queued for, and an exit whose issue is not running changes nothing.
ImplementsLifecycle == Lifecycle!Spec

\* Thread w works on issue i, or its exit waits in the queue.
HeldBy(w, i) == workers[w] = i \/ \E ok \in BOOLEAN : Queued(WorkerExit(w, i, ok))

Runs == INSTANCE IssueRuns
    WITH Threads <- Workers,
         held <- [i \in Issues |-> IF Ended THEN {} ELSE {w \in Workers : HeldBy(w, i)}],
         tracked <- IF Ended THEN {} ELSE RunningIssues

\* A thread is started only on an issue that has no entry, however many threads it let
\* go still work on that issue, and reports one exit, which removes that issue's entry
\* and no other.
ImplementsIssueRuns == Runs!Spec

-----------------------------------------------------------------------------
(* What the documents claim and the code does not keep.                    *)

\* service.py, _stop_worker: a stopped worker's eventual exit event is a no-op.
StoppedWorkersExitIsNoOp ==
    [][\A i \in Issues :
         (\E w \in Workers, ok \in BOOLEAN :
             OnWorkerExit(w, i, ok) /\ running[i] # None /\ running[i].worker # w)
           => running'[i] = running[i]]_vars

\* workspace.py, remove_workspace: removal is best-effort rather than failing the
\* tick; here, with identifiers that always yield a path below the root.
TickNeverFails == loop # "crashed"

\* SPEC 8.2-8.4: a run is started only while a slot of its state is free.
StateLimitRespected ==
    [][\A i \in Issues : running[i] = None /\ running'[i] # None =>
         Cardinality({j \in RunningIssues' : running'[j].state = running'[i].state})
           <= PerStateLimit(running'[i].state)]_vars

-----------------------------------------------------------------------------
(* Liveness.  Fairness: the loop's thread keeps being scheduled and handles *)
(* what it receives; armed timers fire; a worker's attempt ends (turns, hooks*)
(* and HTTP calls have timeouts and turns a maximum); the tracker answers    *)
(* again and again, so a call repeated for ever sometimes succeeds.          *)

\* A retry's poll is answered, and finds the issue no candidate.
PollFindsClosed(i) == i \notin Candidates /\ OnRetryTimer(i) /\ retry'[i] = None

FairSpec ==
    /\ Spec
    /\ WF_vars(EventLoop)
    /\ WF_vars(TickTimerFires)
    /\ \A t \in Timers : WF_vars(RetryTimerFires(t))
    /\ \A w \in Workers : WF_vars(\E ok \in BOOLEAN : WorkerEnds(w, ok))
    /\ SF_vars(StatesRefreshed)
    /\ \A i \in Issues : SF_vars(PollFindsClosed(i))

\* Ticks keep coming as long as the loop lives.
TicksRecur == []<>(loop \in TickPhases \/ Ended)

\* A stop request ends the service, behind whatever backlog it waits.
StopHonoured == Queued(Stop) ~> Ended

\* Once the tracker shows an issue closed for good, its claim is let go for good,
\* whether it was running, waiting for a retry, or between the two.
ClosedIssueLetGo ==
    \A i \in Issues :
      <>[](tracker[i] # None /\ tracker[i].state \in TerminalStates)
        => <>[](i \notin claimed \/ Ended)

\* Every run leaves `running` in the end.
SlotReclaimed ==
    \A i \in Issues, w \in Workers :
      running[i] # None /\ running[i].worker = w
        ~> running[i] = None \/ running[i].worker # w \/ Ended
=============================================================================
