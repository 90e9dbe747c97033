----------------------------- MODULE Accounting -----------------------------
(***************************************************************************)
(* What the orchestrator knows of the runs of one issue, and what it adds  *)
(* up: live sessions, stall clocks and agent_totals of orchestrator.py,    *)
(* fed by the events workers put into the queue of service.py, and shown   *)
(* by snapshot.py.                                                         *)
(*                                                                         *)
(* An event names the issue and not the run it comes from.  A run that was *)
(* let go lives on, and what it says is booked on whatever run the issue   *)
(* has when it is heard.  The run of an event is history here: no handler  *)
(* reads it.                                                               *)
(*                                                                         *)
(* Tokens and cost are not numbers but the results they come from: a       *)
(* counter is how often each turn's result is in it.                       *)
(***************************************************************************)
EXTENDS Integers, Sequences

CONSTANTS
    MaxRuns,       \* bound: how often the issue is dispatched
    MaxTurns,      \* agent.max_turns
    MaxQueue,      \* bound: the length of the queue
    MaxTime,       \* bound on the wall clock, which is never set back
    StallTimeout,  \* claude.stall_timeout_ms, positive
    None           \* absence: no entry, no session, no report

Runs    == 1 .. MaxRuns
Time    == 0 .. MaxTime
Results == Runs \X (1 .. MaxTurns)   \* a run's turns, by their terminal results
Counter == [Results -> Nat]

ASSUME BoundAssumption ==
    /\ MaxRuns \in Nat /\ MaxTurns \in Nat /\ MaxQueue \in Nat
    /\ MaxTime \in Nat /\ StallTimeout \in Nat \ {0}

LiveSession  == [of : Runs, lastEvent : Time, usage : Counter]
RunningEntry == [run : Runs, startedAt : Time, session : LiveSession \cup {None}]

ASSUME NoneAssumption ==
    /\ None \notin LiveSession /\ None \notin RunningEntry
    /\ \A S \in SUBSET Results : S # None

VARIABLES
    clock,     \* the wall clock all timestamps are read from
    events,    \* service._events, as far as it is about this issue
    started,   \* how often the issue was dispatched; run n is the n-th
    used,      \* per run: the turns whose result it forwarded (_Accounting)
    report,    \* per run: the results its AttemptResult sums up, None before its exit
    entry,     \* state.running[issue]
    retry,     \* state.retry_attempts[issue]: "none", its timer "armed", or it is "due"
    runtime,   \* agent_totals.runtime_seconds
    totals,    \* agent_totals' tokens and cost
    spoke,     \* history, per run: when it last said something with its session's name
    letGo,     \* history: the runs whose entry went before their exit was handled
    occupied   \* history: for how long the issue has had an entry

workerVars  == <<started, used, report, spoke>>
countVars   == <<runtime, totals>>
historyVars == <<letGo, occupied>>
vars == <<clock, events, workerVars, entry, retry, countVars, historyVars>>

-----------------------------------------------------------------------------
(* Events.                                                                 *)

\* A line of the agent without a session name, one with it, and the result that
\* ends its n-th turn, which names the session as well.
Noise(r)      == [kind |-> "update", what |-> "noise",  run |-> r, turn |-> 0]
Named(r)      == [kind |-> "update", what |-> "named",  run |-> r, turn |-> 0]
Result(r, n)  == [kind |-> "update", what |-> "result", run |-> r, turn |-> n]
WorkerExit(r) == [kind |-> "exit", what |-> "exit", run |-> r, turn |-> 0]
Tick          == [kind |-> "tick", what |-> "tick", run |-> 0, turn |-> 0]
RetryDue      == [kind |-> "due", what |-> "due", run |-> 0, turn |-> 0]

Updates == {Noise(r) : r \in Runs} \cup {Named(r) : r \in Runs}
             \cup {Result(r, n) : r \in Runs, n \in 1 .. MaxTurns}
Event   == Updates \cup {WorkerExit(r) : r \in Runs} \cup {Tick, RetryDue}

Queued(e) == \E k \in 1 .. Len(events) : events[k] = e

\* Another thread puts an event into the queue.
Enqueue(e) == Len(events) < MaxQueue /\ events' = Append(events, e)

\* The loop handles the event e.
Receive(e) == events # << >> /\ Head(events) = e /\ events' = Tail(events)

\* Mutant: an attempt reports while its reader threads still forward lines.
MutantStillForwards(r) == r <= started

\* The run's worker thread lives.
Live(r) == r <= started /\ report[r] = None

\* Its exit was handled.
Closed(r) == r <= started /\ report[r] # None /\ ~Queued(WorkerExit(r))

Zero == [x \in Results |-> 0]

-----------------------------------------------------------------------------
(* Snapshots.                                                              *)

\* Mutant: the subtraction is the wrong way round.
MutantElapsedSwapped(e) == e.startedAt - clock

\* The time a run has been in `running`; the maximum with 0 is for a clock set back.
Elapsed(e) == clock - e.startedAt

\* build_snapshot: the running row's tokens, and seconds_running.
ShownUsage     == IF entry = None \/ entry.session = None THEN Zero ELSE entry.session.usage
SecondsRunning == runtime + (IF entry = None THEN 0 ELSE Elapsed(entry))

-----------------------------------------------------------------------------
(* Changing the state.                                                     *)

Init ==
    /\ clock = 0
    /\ events = <<Tick>>
    /\ started = 0
    /\ used = [r \in Runs |-> 0]
    /\ report = [r \in Runs |-> None]
    /\ entry = None
    /\ retry = "none"
    /\ runtime = 0 /\ totals = Zero
    /\ spoke = [r \in Runs |-> 0]
    /\ letGo = {} /\ occupied = 0

\* dispatch_issue: a worker thread starts, and its run takes the entry.
Dispatch ==
    /\ started < MaxRuns
    /\ started' = started + 1
    /\ spoke' = [spoke EXCEPT ![started + 1] = clock]
    /\ entry' = [run |-> started + 1, startedAt |-> clock, session |-> None]
    /\ retry' = "none"
    /\ UNCHANGED <<used, report>>

\* The issue stays as it is, is put back into the retry queue, or is released.
NotDispatched(next) ==
    /\ retry' = next
    /\ UNCHANGED <<workerVars, entry>>

\* Mutant: the terminated run is written to the totals as if it had reported.
MutantLetGoCountsUsage ==
    /\ letGo' = letGo \cup {entry.run}
    /\ totals' = [x \in Results |-> totals[x] + ShownUsage[x]]
    /\ UNCHANGED <<runtime, occupied>>

\* terminate_running_issue pops the entry and adds nothing to the totals, neither
\* tokens nor time; the worker is not stopped.
LetGo ==
    /\ letGo' = letGo \cup {entry.run}
    /\ UNCHANGED <<countVars, occupied>>

\* Mutant: the clock of a run is its start only.
MutantReferenceIsStart == entry.startedAt

\* _stall_reference
StallReference ==
    IF entry.session = None THEN entry.startedAt ELSE entry.session.lastEvent

Stalled == entry # None /\ clock - StallReference > StallTimeout

\* reconcile_stalled_runs: the run is let go and retried.
StalledRunRetried ==
    /\ Stalled
    /\ LetGo
    /\ entry' = None
    /\ retry' = "armed"
    /\ UNCHANGED workerVars

\* reconcile_running_issues finds the issue closed.  The candidates are fetched
\* afterwards and may show it open again; starting its worker may fail.
ClosedIssueTerminated ==
    /\ entry # None /\ ~Stalled
    /\ LetGo
    /\ \/ Dispatch
       \/ entry' = None /\ retry' \in {"none", "armed"} /\ UNCHANGED workerVars

\* The run goes on.
RunGoesOn ==
    /\ entry # None /\ ~Stalled
    /\ NotDispatched(retry)
    /\ UNCHANGED <<countVars, historyVars>>

\* Mutant: an issue in the retry queue is dispatched all the same.
MutantDispatchesAnyway ==
    /\ Dispatch \/ NotDispatched(retry)
    /\ UNCHANGED <<countVars, historyVars>>

\* The dispatch pass: an issue that is neither running nor waits for a retry may
\* be dispatched, or fail to and be retried.
CandidateConsidered ==
    /\ entry = None
    /\ \/ retry = "none" /\ (Dispatch \/ NotDispatched("armed"))
       \/ NotDispatched(retry)
    /\ UNCHANGED <<countVars, historyVars>>

\* One tick.
OnTick ==
    /\ Receive(Tick)
    /\ StalledRunRetried \/ ClosedIssueTerminated \/ RunGoesOn \/ CandidateConsidered
    /\ UNCHANGED clock

\* on_retry_timer: dispatched, retried again, or released.
OnRetryTimer ==
    /\ Receive(RetryDue)
    /\ IF retry = "none"
       THEN NotDispatched(retry)
       ELSE Dispatch \/ NotDispatched("armed") \/ NotDispatched("none")
    /\ UNCHANGED <<clock, countVars, historyVars>>

\* Mutant: the time since the last event is added, as the stall clock has it.
MutantAccumulateSinceLastEvent(r) ==
    /\ runtime' = runtime + (clock - StallReference)
    /\ totals' = [x \in Results |-> totals[x] + (IF x \in report[r] THEN 1 ELSE 0)]

\* Mutant: the live session's counters are added, not the attempt's own.
MutantAccumulateSession(r) ==
    /\ runtime' = runtime + Elapsed(entry)
    /\ totals' = [x \in Results |-> totals[x] + ShownUsage[x]]

\* _accumulate_totals: the entry's time, and the usage the exit reports.
AccumulateTotals(r) ==
    /\ runtime' = runtime + Elapsed(entry)
    /\ totals' = [x \in Results |-> totals[x] + (IF x \in report[r] THEN 1 ELSE 0)]

\* on_worker_exit: whichever run has the entry is the one popped.
OnWorkerExit(r) ==
    /\ Receive(WorkerExit(r))
    /\ IF entry = None
       THEN UNCHANGED <<entry, retry, countVars, letGo>>
       ELSE /\ AccumulateTotals(r)
            /\ letGo' = letGo \cup ({entry.run} \ {r})
            /\ entry' = None
            /\ retry' = "armed"
    /\ UNCHANGED <<clock, workerVars, occupied>>

\* The session an update goes to: the entry's own, or one it begins if it names one.
SessionFor(e) ==
    IF entry.session # None THEN entry.session
    ELSE [of |-> e.run, lastEvent |-> clock, usage |-> Zero]

\* Mutant: a later result replaces the earlier ones of the session.
MutantHeardLast(e) ==
    LET s == SessionFor(e)
    IN  /\ entry' = [entry EXCEPT !.session =
              [s EXCEPT !.lastEvent = clock,
                        !.usage = IF e.what = "result" THEN [Zero EXCEPT ![<<e.run, e.turn>>] = 1]
                                  ELSE s.usage]]
        /\ UNCHANGED countVars

\* on_agent_update, with an entry whose session the event belongs to or begins.
Heard(e) ==
    LET s == SessionFor(e)
    IN  /\ entry' = [entry EXCEPT !.session =
              [s EXCEPT !.lastEvent = clock,
                        !.usage = [x \in Results |->
                           s.usage[x] + (IF e.what = "result" /\ x = <<e.run, e.turn>>
                                         THEN 1 ELSE 0)]]]
        /\ UNCHANGED countVars

OnAgentUpdate(e) ==
    /\ Receive(e)
    /\ IF entry # None /\ (entry.session # None \/ e.what # "noise")
       THEN Heard(e)
       ELSE UNCHANGED <<entry, countVars>>
    /\ UNCHANGED <<clock, workerVars, retry, historyVars>>

-----------------------------------------------------------------------------
(* The worker threads, the timers and time.                                *)

\* A run forwards a line of its agent, or the result that ends its turn.
Speaks(r) ==
    /\ Live(r)
    /\ \/ /\ Enqueue(Noise(r))
          /\ UNCHANGED <<used, spoke>>
       \/ /\ Enqueue(Named(r))
          /\ spoke' = [spoke EXCEPT ![r] = clock]
          /\ UNCHANGED used
       \/ /\ used[r] < MaxTurns
          /\ used' = [used EXCEPT ![r] = @ + 1]
          /\ Enqueue(Result(r, used[r] + 1))
          /\ spoke' = [spoke EXCEPT ![r] = clock]
    /\ UNCHANGED <<clock, started, report, entry, retry, countVars, historyVars>>

\* _Accounting: the turns of the attempt.
Turns(r) == {<<r, n>> : n \in 1 .. used[r]}

\* An attempt ends and reports its turns, or crashes and reports none.
WorkerEnds(r) ==
    /\ Live(r)
    /\ \E turns \in {Turns(r), {}} : report' = [report EXCEPT ![r] = turns]
    /\ Enqueue(WorkerExit(r))
    /\ UNCHANGED <<clock, started, used, spoke, entry, retry, countVars, historyVars>>

\* The timer a tick has armed.
TickTimerFires ==
    /\ ~Queued(Tick)
    /\ Enqueue(Tick)
    /\ UNCHANGED <<clock, workerVars, entry, retry, countVars, historyVars>>

RetryTimerFires ==
    /\ retry = "armed"
    /\ retry' = "due"
    /\ Enqueue(RetryDue)
    /\ UNCHANGED <<clock, workerVars, entry, countVars, historyVars>>

TimePasses ==
    /\ clock < MaxTime
    /\ clock' = clock + 1
    /\ occupied' = occupied + (IF entry = None THEN 0 ELSE 1)
    /\ UNCHANGED <<events, workerVars, entry, retry, countVars, letGo>>

EventLoop ==
    \/ OnTick
    \/ OnRetryTimer
    \/ \E r \in Runs : OnWorkerExit(r)
    \/ \E e \in Updates : OnAgentUpdate(e)

Environment ==
    \/ \E r \in Runs : Speaks(r) \/ WorkerEnds(r)
    \/ TickTimerFires
    \/ RetryTimerFires
    \/ TimePasses

Next == EventLoop \/ Environment

Spec == Init /\ [][Next]_vars

-----------------------------------------------------------------------------
(* Properties.                                                             *)

\* The types of the variables.
TypeOK ==
    /\ clock \in Time
    /\ events \in Seq(Event)
    /\ started \in 0 .. MaxRuns
    /\ used \in [Runs -> 0 .. MaxTurns]
    /\ report \in [Runs -> {None} \cup SUBSET Results]
    /\ entry \in RunningEntry \cup {None}
    /\ retry \in {"none", "armed", "due"}
    /\ runtime \in Nat /\ totals \in Counter
    /\ spoke \in [Runs -> Time]
    /\ letGo \in SUBSET Runs
    /\ occupied \in Nat

\* An issue gets a second live worker only after the orchestrator let its
\* earlier run go, by a stall, a termination or another run's exit: attempts of
\* one issue share its workspace.
OneWorkerPerIssue ==
    \A q, r \in Runs : Live(q) /\ Live(r) /\ q < r => q \in letGo

\* Whoever reads a snapshot never sees a turn's tokens twice, in a running row
\* and in agent_totals or twice in either, although stale exits are booked on
\* other runs' entries and stale results on other runs' sessions.
NoTokenShownTwice ==
    \A x \in Results : totals[x] + ShownUsage[x] <= 1

\* Once the exit of a run that kept its entry is handled, agent_totals holds
\* exactly the turns it reported.
UsageCounted ==
    \A r \in Runs : Closed(r) /\ r \notin letGo =>
        \A x \in Results : x[1] = r => totals[x] = IF x \in report[r] THEN 1 ELSE 0

\* When a run's own exit is the next event, its row shows every turn it has
\* finished, beside turns of an earlier run if those were heard on the row: the
\* row loses no turn that the exit is about to add to the totals.
ShownBeforeCounted ==
    events # << >> /\ entry # None /\ Head(events) = WorkerExit(entry.run) =>
        \A x \in Turns(entry.run) : ShownUsage[x] = 1

\* A running row shows another run's session or tokens only if that run was let
\* go before.
RowsMixOnlyAfterLetGo ==
    entry # None /\ entry.session # None =>
        /\ entry.session.of \in letGo \cup {entry.run}
        /\ \A x \in Results : entry.session.usage[x] > 0 => x[1] \in letGo \cup {entry.run}

\* seconds_running of a snapshot never exceeds the time the issue has had an
\* entry, and is that time as long as no run was let go: whichever runs' exits
\* pop which entries, no time is added twice and none that ran to its exit is
\* lost.
NoTimeAddedTwice ==
    /\ SecondsRunning <= occupied
    /\ letGo = {} => SecondsRunning = occupied

\* SPEC.md, 13.5: run duration is added to the cumulative runtime when a session
\* ends, by a normal exit or by cancellation or termination.  The code adds it
\* in on_worker_exit and not in terminate_running_issue.
EveryEndedRunCounted == SecondsRunning = occupied

\* A run is declared stalled only if it has not named its session for longer than
\* the timeout, or if what it said still waits in the queue behind the tick: no
\* event that was handled is forgotten by the stall clock.
StallJudgedFairly ==
    events # << >> /\ Head(events) = Tick /\ Stalled =>
        \/ clock - spoke[entry.run] > StallTimeout
        \/ \E e \in Updates : Queued(e) /\ e.run = entry.run /\ e.what # "noise"
=============================================================================
