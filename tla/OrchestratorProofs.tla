-------------------------- MODULE OrchestratorProofs --------------------------
(***************************************************************************)
(* Proofs about Orchestrator, for every value of its constants.            *)
(***************************************************************************)
EXTENDS Orchestrator, TLAPS, SequenceTheorems

-----------------------------------------------------------------------------
(* The type invariant.  It is not inductive by itself: reconciling a       *)
(* refreshed issue updates its running entry, so the entry must be there.  *)

\* The refresh asks for running issues only, and nothing else ends their runs
\* until the answer is worked off.
RefreshedAreRunning ==
    loop = "refresh" => \A i \in Issues : batch[i] # None => running[i] # None

Typed == TypeOK /\ RefreshedAreRunning

\* A representative is an element of its set.
LEMMA RepresentativeIsElement ==
    ASSUME NEW S, NEW x \in Representative(S)
    PROVE  x \in S
  BY DEF Representative

\* Receiving an event leaves a queue of events.
LEMMA ReceiveTyped ==
    ASSUME TypeOK, NEW e, Receive(e)
    PROVE  events' \in Seq(Event)
  BY HeadTailProperties DEF TypeOK, Receive

\* Sending an event leaves a queue of events.
LEMMA SendTyped ==
    ASSUME TypeOK, NEW e \in Event, events' = Append(events, e)
    PROVE  events' \in Seq(Event)
  BY AppendProperties DEF TypeOK

\* Attempt numbers stay within their bound.
LEMMA NextAttemptTyped ==
    ASSUME NEW a \in Attempts
    PROVE  NextAttempt(a) \in Attempts /\ 1 \in Attempts /\ 0 \in Attempts
  BY AttemptAssumption DEF NextAttempt, Attempts

\* Scheduling a retry keeps the types of what it changes.
LEMMA ScheduleRetryTyped ==
    ASSUME TypeOK, NEW i \in Issues, NEW a \in Attempts,
           NEW entries \in [Issues -> RetryEntry \cup {None}],
           ScheduleRetry(i, a, entries)
    PROVE  /\ retry' \in [Issues -> RetryEntry \cup {None}]
           /\ claimed' \in SUBSET Issues
           /\ armed' \in [Timers -> Issues \cup {None}]
  <1> DEFINE live == [t \in Timers |-> IF entries[i] # None /\ entries[i].timer = t
                                      THEN None ELSE armed[t]]
             free == {t \in Timers : /\ live[t] = None
                                    /\ \A j \in Issues \ {i} :
                                          entries[j] # None => entries[j].timer # t}
  <1>1. PICK timer \in Representative(free) :
            /\ armed' = [live EXCEPT ![timer] = i]
            /\ retry' = [entries EXCEPT ![i] = [attempt |-> a, timer |-> timer]]
    BY DEF ScheduleRetry
  <1>2. timer \in Timers
    BY RepresentativeIsElement
  <1>3. live \in [Timers -> Issues \cup {None}]
    BY DEF TypeOK
  <1>4. [attempt |-> a, timer |-> timer] \in RetryEntry
    BY <1>2 DEF RetryEntry
  <1> QED BY <1>1, <1>2, <1>3, <1>4 DEF ScheduleRetry, TypeOK

Loops == TickPhases \cup {"starting", "idle", "stopped", "crashed", "refused"}

\* Shutting down keeps the types of what it changes.
LEMMA ShutdownTyped ==
    ASSUME TypeOK, NEW entries, Shutdown(entries)
    PROVE  armed' \in [Timers -> Issues \cup {None}] /\ tickTimer' \in BOOLEAN
  BY DEF Shutdown, TypeOK

\* Dispatching an issue keeps the types, however it ends.
LEMMA DispatchIssueTyped ==
    ASSUME TypeOK, NEW i \in Issues, NEW view \in View, NEW a \in Attempts,
           NEW entries \in [Issues -> RetryEntry \cup {None}],
           DispatchIssue(i, view, a, entries)
    PROVE  /\ loop' \in Loops
           /\ running' \in [Issues -> RunningEntry \cup {None}]
           /\ claimed' \in SUBSET Issues
           /\ retry' \in [Issues -> RetryEntry \cup {None}]
           /\ armed' \in [Timers -> Issues \cup {None}]
           /\ tickTimer' \in BOOLEAN
           /\ workers' \in [Workers -> Issues \cup {None}]
  <1>1. CASE DispatchStarted(i, view, a, entries)
    <2>1. PICK w \in Representative(FreeWorkers) :
              /\ StartThread(w, i)
              /\ running' = [running EXCEPT ![i] = [worker |-> w, attempt |-> a,
                                state |-> view.state, root |-> config.root]]
      BY <1>1 DEF DispatchStarted
    <2>2. w \in Workers
      BY RepresentativeIsElement DEF FreeWorkers
    <2>3. view.state \in States /\ config.root \in Roots
      BY ConfigAssumption DEF View, Config, TypeOK
    <2>4. [worker |-> w, attempt |-> a, state |-> view.state, root |-> config.root]
              \in RunningEntry
      BY <2>2, <2>3 DEF RunningEntry
    <2> QED BY <1>1, <2>1, <2>2, <2>4 DEF DispatchStarted, StartThread, TypeOK, Loops
  <1>2. CASE DispatchUnstarted(i, a, entries)
    BY <1>2, NextAttemptTyped, ScheduleRetryTyped DEF DispatchUnstarted, TypeOK, Loops
  <1>3. CASE DispatchRefused(i, view, entries)
    <2>1. workers' \in [Workers -> Issues \cup {None}]
      BY <1>3, RepresentativeIsElement DEF DispatchRefused, FreeWorkers, StartThread, TypeOK
    <2> QED BY <1>3, <2>1, ShutdownTyped DEF DispatchRefused, TypeOK, Loops
  <1> QED BY <1>1, <1>2, <1>3 DEF DispatchIssue

\* The attempt of a run is an attempt number.
LEMMA RunningAttemptTyped ==
    ASSUME TypeOK, NEW i \in Issues, running[i] # None
    PROVE  running[i] \in RunningEntry /\ running[i].attempt \in Attempts
  BY DEF TypeOK, RunningEntry

\* So is that of a queued retry.
LEMMA RetryAttemptTyped ==
    ASSUME TypeOK, NEW i \in Issues, retry[i] # None
    PROVE  /\ retry[i].attempt \in Attempts /\ retry[i].timer \in Timers
           /\ [retry EXCEPT ![i] = None] \in [Issues -> RetryEntry \cup {None}]
  BY DEF TypeOK, RetryEntry

\* Entries from which one is taken are still entries.
LEMMA RemovedTyped ==
    ASSUME TypeOK, NEW i \in Issues
    PROVE  [running EXCEPT ![i] = None] \in [Issues -> RunningEntry \cup {None}]
  BY DEF TypeOK

\* An exception that leaves a handler ends the loop; until then the handler has at most
\* dropped entries and claims.
LEMMA RaisesEffect ==
    ASSUME TypeOK, RaisesInHandler
    PROVE  /\ loop \in TickPhases \cup {"idle"} /\ loop' = "crashed" /\ Faults # {}
           /\ UNCHANGED <<config, workers, tracker>>
           /\ events' \in Seq(Event)
           /\ running' \in [Issues -> RunningEntry \cup {None}]
           /\ retry' \in [Issues -> RetryEntry \cup {None}]
           /\ \A j \in Issues : running'[j] \in {running[j], None} /\ retry'[j] \in {retry[j], None}
           /\ claimed' \subseteq claimed
           /\ armed' \in [Timers -> Issues \cup {None}]
           /\ tickTimer' = FALSE
           /\ batch' \in [Issues -> Views \cup {None}]
  <1> DEFINE Effect ==
           /\ loop \in TickPhases \cup {"idle"}
           /\ UNCHANGED <<config, workers, tracker>>
           /\ events' \in Seq(Event)
           /\ running' \in [Issues -> RunningEntry \cup {None}]
           /\ retry' \in [Issues -> RetryEntry \cup {None}]
           /\ \A j \in Issues : running'[j] \in {running[j], None} /\ retry'[j] \in {retry[j], None}
           /\ claimed' \subseteq claimed
           /\ batch' \in [Issues -> Views \cup {None}]
  <1> USE DEF TickPhases
  <1>1. /\ ReloadRaises => Effect
        /\ FetchRaises => Effect
        /\ NextTickRaises => Effect
    BY ReceiveTyped DEF ReloadRaises, FetchRaises, NextTickRaises, Receive, TypeOK
  <1>2. ASSUME NEW i \in Issues, StallRetryRaises(i) PROVE Effect
    BY <1>2, RemovedTyped DEF StallRetryRaises, TypeOK
  <1>3. ASSUME NEW i \in Issues, RemovalRaises(i) PROVE Effect
    BY <1>3, RemovedTyped DEF RemovalRaises, TypeOK
  <1>4. ASSUME NEW i \in Issues, DispatchRaises(i) PROVE Effect
    BY <1>4 DEF DispatchRaises, TypeOK
  <1>5. ASSUME NEW i \in Issues, RetryRaises(i) PROVE Effect
    BY <1>5, ReceiveTyped, RetryAttemptTyped DEF RetryRaises, Receive, TypeOK
  <1>6. ASSUME NEW w \in Workers, NEW i \in Issues, NEW ok \in BOOLEAN, ExitRaises(w, i, ok)
        PROVE  Effect
    BY <1>6, ReceiveTyped, RemovedTyped DEF ExitRaises, Receive, TypeOK
  <1>7. /\ loop' = "crashed" /\ Faults # {}
        /\ \E entries : Shutdown(entries)
    BY DEF RaisesInHandler, ReloadRaises, FetchRaises, NextTickRaises, StallRetryRaises,
           RemovalRaises, DispatchRaises, RetryRaises, ExitRaises, Raises
  <1>8. armed' \in [Timers -> Issues \cup {None}] /\ tickTimer' = FALSE
    <2> PICK entries : Shutdown(entries)
      BY <1>7
    <2> QED BY ShutdownTyped DEF Shutdown
  <1>9. Effect
    <2> HIDE DEF Effect
    <2> QED BY <1>1, <1>2, <1>3, <1>4, <1>5, <1>6 DEF RaisesInHandler
  <1> QED BY <1>7, <1>8, <1>9

\* The strengthened type invariant holds initially.
LEMMA TypedInit == Init => Typed
  BY EmptySeq DEF Init, Typed, TypeOK, RefreshedAreRunning, TickPhases

\* A step of the tick keeps the types.
LEMMA TypedTick == TypeOK /\ RefreshedAreRunning /\ RunTick => TypeOK'
  <1> SUFFICES ASSUME TypeOK, RefreshedAreRunning, RunTick PROVE TypeOK'
    OBVIOUS
  <1> USE DEF TickPhases
  <1>1. CASE TickStarts
    BY <1>1, ReceiveTyped DEF TickStarts, claimVars, TypeOK
  <1>2. ASSUME NEW i \in Issues, StalledRunRetried(i) PROVE TypeOK'
    <2>1. NextAttempt(running[i].attempt) \in Attempts
      BY <1>2, RunningAttemptTyped, NextAttemptTyped DEF StalledRunRetried
    <2>2. retry \in [Issues -> RetryEntry \cup {None}]
      BY DEF TypeOK
    <2> QED BY <1>2, <2>1, <2>2, ScheduleRetryTyped, RemovedTyped DEF StalledRunRetried, TypeOK
  <1>3. CASE StatesRefreshed
    BY <1>3 DEF StatesRefreshed, claimVars, TypeOK
  <1>4. CASE StatesRefreshFailed
    BY <1>4 DEF StatesRefreshFailed, claimVars, TypeOK
  <1>5. ASSUME NEW i \in Issues, ReconcileIssue(i) PROVE TypeOK'
    <2>1. batch' \in [Issues -> Views \cup {None}]
      BY <1>5 DEF ReconcileIssue, TypeOK
    <2>2. CASE TerminateRunningIssue(i)
      BY <1>5, <2>1, <2>2, RemovedTyped DEF ReconcileIssue, TerminateRunningIssue, TypeOK
    <2>3. CASE TerminationRefused(i)
      BY <1>5, <2>1, <2>3, RemovedTyped, ShutdownTyped
         DEF ReconcileIssue, TerminationRefused, TypeOK
    <2>4. CASE /\ running' = [running EXCEPT ![i].state = batch[i].state]
               /\ UNCHANGED <<loop, claimed, retry, armed, tickTimer>>
      <3>1. running[i] \in RunningEntry
        BY <1>5 DEF ReconcileIssue, RefreshedAreRunning, TypeOK
      <3>2. batch[i].state \in States
        BY <1>5, ViewAssumption DEF ReconcileIssue, TypeOK, View
      <3>3. [running[i] EXCEPT !.state = batch[i].state] \in RunningEntry
        BY <3>1, <3>2 DEF RunningEntry
      <3>4. running' \in [Issues -> RunningEntry \cup {None}]
        BY <2>4, <3>3 DEF TypeOK
      <3> QED BY <1>5, <2>1, <2>4, <3>4 DEF ReconcileIssue, TypeOK
    <2> QED BY <1>5, <2>2, <2>3, <2>4 DEF ReconcileIssue
  <1>6. CASE ReconcileDone
    BY <1>6 DEF ReconcileDone, claimVars, TypeOK
  <1>7. CASE CandidatesFetched
    BY <1>7 DEF CandidatesFetched, claimVars, TypeOK
  <1>8. CASE DispatchSkipped
    BY <1>8 DEF DispatchSkipped, claimVars, TypeOK
  <1>9. ASSUME NEW i \in Issues, CandidateDispatched(i) PROVE TypeOK'
    <2>1. batch[i] \in View
      BY <1>9, ViewAssumption DEF CandidateDispatched, FirstCandidate, TypeOK
    <2>2. 0 \in Attempts /\ retry \in [Issues -> RetryEntry \cup {None}]
      BY AttemptAssumption DEF Attempts, TypeOK
    <2>3. DispatchIssue(i, batch[i], 0, retry)
      BY <1>9 DEF CandidateDispatched
    <2>4. /\ loop' \in Loops
          /\ running' \in [Issues -> RunningEntry \cup {None}]
          /\ claimed' \in SUBSET Issues
          /\ retry' \in [Issues -> RetryEntry \cup {None}]
          /\ armed' \in [Timers -> Issues \cup {None}]
          /\ tickTimer' \in BOOLEAN
          /\ workers' \in [Workers -> Issues \cup {None}]
      BY <2>1, <2>2, <2>3, DispatchIssueTyped
    <2>5. batch' \in [Issues -> Views \cup {None}]
      BY <1>9 DEF CandidateDispatched, TypeOK
    <2> QED BY <1>9, <2>4, <2>5 DEF CandidateDispatched, TypeOK, Loops
  <1>10. ASSUME NEW i \in Issues, CandidatePassedOver(i) PROVE TypeOK'
    BY <1>10 DEF CandidatePassedOver, claimVars, TypeOK
  <1>11. CASE TickEnds
    BY <1>11 DEF TickEnds, claimVars, TypeOK
  <1> QED BY <1>1, <1>2, <1>3, <1>4, <1>5, <1>6, <1>7, <1>8, <1>9, <1>10, <1>11 DEF RunTick

\* A retry that is checked keeps the types, whatever the poll says.
LEMMA RetryCheckedTyped ==
    ASSUME TypeOK, NEW i \in Issues, NEW a \in Attempts,
           NEW entries \in [Issues -> RetryEntry \cup {None}],
           RetryChecked(i, a, entries)
    PROVE  /\ loop' \in Loops
           /\ running' \in [Issues -> RunningEntry \cup {None}]
           /\ claimed' \in SUBSET Issues
           /\ retry' \in [Issues -> RetryEntry \cup {None}]
           /\ armed' \in [Timers -> Issues \cup {None}]
           /\ tickTimer' \in BOOLEAN
           /\ workers' \in [Workers -> Issues \cup {None}]
  <1>1. CASE /\ ScheduleRetry(i, NextAttempt(a), entries)
             /\ UNCHANGED <<loop, running, workers, tickTimer>>
    BY <1>1, NextAttemptTyped, ScheduleRetryTyped DEF TypeOK, Loops
  <1>2. CASE /\ claimed' = claimed \ {i}
             /\ retry' = entries
             /\ UNCHANGED <<loop, running, armed, workers, tickTimer>>
    BY <1>2 DEF TypeOK, Loops
  <1>3. CASE i \in Candidates /\ DispatchIssue(i, tracker[i], a, entries)
    <2>1. tracker[i] \in View
      BY <1>3, ViewAssumption DEF Candidates, TypeOK
    <2> QED BY <1>3, <2>1, DispatchIssueTyped
  <1> QED BY <1>1, <1>2, <1>3 DEF RetryChecked

\* The other handlers of the event loop keep the types.
LEMMA TypedHandlers == TypeOK /\ EventLoop /\ ~RunTick => TypeOK'
  <1> SUFFICES ASSUME TypeOK, EventLoop, ~RunTick PROVE TypeOK'
    OBVIOUS
  <1>1. CASE Serve
    BY <1>1, SendTyped DEF Serve, Event, claimVars, TypeOK
  <1>2. CASE ServeRefused
    BY <1>2 DEF ServeRefused, claimVars, TypeOK
  <1>3. ASSUME NEW i \in Issues, OnRetryTimer(i) PROVE TypeOK'
    <2>1. events' \in Seq(Event)
      BY <1>3, ReceiveTyped DEF OnRetryTimer
    <2>2. CASE retry[i] = None
      BY <1>3, <2>1, <2>2 DEF OnRetryTimer, claimVars, TypeOK
    <2>3. CASE retry[i] # None
      <3>1. RetryChecked(i, retry[i].attempt, [retry EXCEPT ![i] = None])
        BY <1>3, <2>3 DEF OnRetryTimer
      <3>2. /\ loop' \in Loops
            /\ running' \in [Issues -> RunningEntry \cup {None}]
            /\ claimed' \in SUBSET Issues
            /\ retry' \in [Issues -> RetryEntry \cup {None}]
            /\ armed' \in [Timers -> Issues \cup {None}]
            /\ tickTimer' \in BOOLEAN
            /\ workers' \in [Workers -> Issues \cup {None}]
        BY <2>3, <3>1, RetryAttemptTyped, RetryCheckedTyped
      <3> QED BY <1>3, <2>1, <3>2 DEF OnRetryTimer, TypeOK, Loops
    <2> QED BY <2>2, <2>3
  <1>4. ASSUME NEW w \in Workers, NEW i \in Issues, NEW ok \in BOOLEAN,
               OnWorkerExit(w, i, ok)
        PROVE  TypeOK'
    <2>1. events' \in Seq(Event)
      BY <1>4, ReceiveTyped DEF OnWorkerExit
    <2>2. CASE running[i] = None
      BY <1>4, <2>1, <2>2 DEF OnWorkerExit, claimVars, TypeOK
    <2>3. CASE running[i] # None
      <3> DEFINE a == IF ok THEN 1 ELSE NextAttempt(running[i].attempt)
      <3>1. a \in Attempts
        BY <2>3, RunningAttemptTyped, NextAttemptTyped
      <3>2. retry \in [Issues -> RetryEntry \cup {None}]
        BY DEF TypeOK
      <3>3. ScheduleRetry(i, a, retry) /\ running' = [running EXCEPT ![i] = None]
        BY <1>4, <2>3 DEF OnWorkerExit
      <3> HIDE DEF a
      <3> QED BY <1>4, <2>1, <3>1, <3>2, <3>3, ScheduleRetryTyped, RemovedTyped
              DEF OnWorkerExit, TypeOK
    <2> QED BY <2>2, <2>3
  <1>5. CASE OnStop
    BY <1>5, ReceiveTyped, ShutdownTyped DEF OnStop, TypeOK
  <1>6. CASE RaisesInHandler
    BY <1>6, RaisesEffect DEF TypeOK
  <1> QED BY <1>1, <1>2, <1>3, <1>4, <1>5, <1>6 DEF EventLoop

\* What other threads and the tracker do keeps the types.
LEMMA TypedEnvironment == TypeOK /\ Environment => TypeOK'
  <1> SUFFICES ASSUME TypeOK, Environment PROVE TypeOK'
    OBVIOUS
  <1>1. ASSUME NEW w \in Workers, NEW ok \in BOOLEAN, WorkerEnds(w, ok) PROVE TypeOK'
    <2>1. workers[w] \in Issues
      BY <1>1 DEF WorkerEnds, TypeOK
    <2>2. events' \in Seq(Event)
      BY <1>1, <2>1, SendTyped DEF WorkerEnds, Event
    <2> QED BY <1>1, <2>2 DEF WorkerEnds, claimVars, TypeOK
  <1>2. ASSUME NEW t \in Timers, RetryTimerFires(t) PROVE TypeOK'
    <2>1. armed[t] \in Issues
      BY <1>2 DEF RetryTimerFires, TypeOK
    <2>2. events' \in Seq(Event)
      BY <1>2, <2>1, SendTyped DEF RetryTimerFires, Event
    <2> QED BY <1>2, <2>2 DEF RetryTimerFires, TypeOK
  <1>3. CASE TickTimerFires
    <2>1. events' \in Seq(Event)
      BY <1>3, SendTyped DEF TickTimerFires, Event
    <2> QED BY <1>3, <2>1 DEF TickTimerFires, claimVars, TypeOK
  <1>4. CASE StopRequested
    <2>1. events' \in Seq(Event)
      BY <1>4, SendTyped DEF StopRequested, Event
    <2> QED BY <1>4, <2>1 DEF StopRequested, claimVars, TypeOK
  <1>5. ASSUME NEW i \in Issues, TrackerChanges(i) PROVE TypeOK'
    BY <1>5 DEF TrackerChanges, claimVars, TypeOK
  <1> QED BY <1>1, <1>2, <1>3, <1>4, <1>5 DEF Environment

\* Only the loop's thread moves the loop, its batch and the running entries.
LEMMA OthersLeaveTheLoop ==
    ASSUME Environment \/ ServiceOver \/ UNCHANGED vars
    PROVE  UNCHANGED <<loop, config, running, claimed, retry, batch>>
  BY DEF Environment, WorkerEnds, RetryTimerFires, TickTimerFires, StopRequested,
         TrackerChanges, ServiceOver, claimVars, vars

\* Between the refresh and the last of its issues, no run but those looked at ends.
LEMMA RefreshedStaysRunning == Typed /\ [Next]_vars => RefreshedAreRunning'
  <1> SUFFICES ASSUME TypeOK, RefreshedAreRunning, [Next]_vars, loop' = "refresh",
                      NEW j \in Issues, batch'[j] # None
               PROVE  running'[j] # None
    BY DEF Typed, RefreshedAreRunning
  <1>1. CASE StatesRefreshed
    BY <1>1 DEF StatesRefreshed, claimVars
  <1>2. ASSUME NEW i \in Issues, ReconcileIssue(i) PROVE running'[j] # None
    <2>1. loop = "refresh" /\ j # i /\ batch[j] # None
      BY <1>2 DEF ReconcileIssue, TypeOK
    <2>2. running'[j] = running[j]
      BY <1>2, <2>1 DEF ReconcileIssue, TerminateRunningIssue, TerminationRefused, TypeOK
    <2> QED BY <2>1, <2>2 DEF RefreshedAreRunning
  <1>3. CASE Environment \/ ServiceOver \/ UNCHANGED vars
    BY <1>3, OthersLeaveTheLoop DEF RefreshedAreRunning
  <1>4. CASE EventLoop /\ ~StatesRefreshed /\ ~\E i \in Issues : ReconcileIssue(i)
    <2>1. ASSUME NEW i, NEW view, NEW a, NEW entries, loop # "refresh",
                 DispatchIssue(i, view, a, entries)
          PROVE  loop' # "refresh"
      BY <2>1 DEF DispatchIssue, DispatchStarted, DispatchUnstarted, DispatchRefused
    <2>2. ASSUME NEW i \in Issues, OnRetryTimer(i) PROVE FALSE
      BY <2>1, <2>2 DEF OnRetryTimer, Receive, RetryChecked
    <2>3. ASSUME NEW i \in Issues, CandidateDispatched(i) PROVE FALSE
      BY <2>1, <2>3 DEF CandidateDispatched
    <2>4. CASE RaisesInHandler
      BY <2>4, RaisesEffect
    <2> QED BY <1>4, <2>2, <2>3, <2>4
            DEF EventLoop, Serve, ServeRefused, RunTick, TickStarts, StalledRunRetried,
                StatesRefreshFailed, ReconcileDone, CandidatesFetched, DispatchSkipped,
                CandidatePassedOver, TickEnds, OnWorkerExit, OnStop, Receive
  <1> QED BY <1>1, <1>2, <1>3, <1>4 DEF Next

\* Every step keeps it.
LEMMA TypedStep == Typed /\ [Next]_vars => Typed'
  <1> SUFFICES ASSUME Typed, [Next]_vars PROVE TypeOK'
    BY RefreshedStaysRunning DEF Typed
  <1>1. CASE EventLoop
    BY <1>1, TypedTick, TypedHandlers DEF Typed
  <1>2. CASE Environment
    BY <1>2, TypedEnvironment DEF Typed
  <1>3. CASE ServiceOver \/ UNCHANGED vars
    BY <1>3 DEF ServiceOver, vars, Typed, TypeOK
  <1> QED BY <1>1, <1>2, <1>3 DEF Next

\* The strengthened type invariant holds in every reachable state.
THEOREM TypedAlways == Spec => []Typed
  BY TypedInit, TypedStep, PTL DEF Spec

\* Every variable keeps its type, for any number of issues, workers and timers and
\* any configurations: in particular the reconciliation never updates the entry of
\* a run that is gone.
THEOREM TypeCorrect == Spec => []TypeOK
  <1>1. Typed => TypeOK
    BY DEF Typed
  <1> QED BY TypedAlways, <1>1, PTL

-----------------------------------------------------------------------------
(* Claims.  ClaimedExactly is inductive given Typed: a run's entry and an   *)
(* issue's retry entry replace each other, and the claim follows both.     *)

\* What ScheduleRetry does to the issue's claim, and that it leaves the others alone.
LEMMA ScheduleRetryEffect ==
    ASSUME TypeOK, NEW i \in Issues, NEW a \in Attempts,
           NEW entries \in [Issues -> RetryEntry \cup {None}],
           ScheduleRetry(i, a, entries)
    PROVE  /\ retry'[i] # None
           /\ \A j \in Issues \ {i} : retry'[j] = entries[j]
           /\ claimed' = claimed \cup {i}
  <1>1. PICK timer \in Timers :
            retry' = [entries EXCEPT ![i] = [attempt |-> a, timer |-> timer]]
    BY RepresentativeIsElement DEF ScheduleRetry
  <1>2. [attempt |-> a, timer |-> timer] # None
    BY NoneAssumption DEF RetryEntry
  <1> QED BY <1>1, <1>2 DEF ScheduleRetry

\* An issue not running that is dispatched ends up running, waiting for a retry, or
\* the loop has ended; nothing changes for the others.
LEMMA DispatchIssueEffect ==
    ASSUME TypeOK, NEW i \in Issues, NEW view \in View, NEW a \in Attempts,
           NEW entries \in [Issues -> RetryEntry \cup {None}],
           running[i] = None, entries[i] = None,
           DispatchIssue(i, view, a, entries)
    PROVE  /\ \A j \in Issues \ {i} : running'[j] = running[j] /\ retry'[j] = entries[j]
           /\ running'[i] = None \/ retry'[i] = None
           /\ loop' # "crashed" => /\ claimed' = claimed \cup {i}
                                   /\ running'[i] # None \/ retry'[i] # None
  <1>1. CASE DispatchStarted(i, view, a, entries)
    <2>1. PICK w \in Workers :
              running' = [running EXCEPT ![i] = [worker |-> w, attempt |-> a,
                             state |-> view.state, root |-> config.root]]
      BY <1>1, RepresentativeIsElement DEF DispatchStarted, FreeWorkers
    <2>2. view.state \in States /\ config.root \in Roots
      BY ConfigAssumption DEF View, Config, TypeOK
    <2>3. [worker |-> w, attempt |-> a, state |-> view.state, root |-> config.root] # None
      BY <2>2, NoneAssumption DEF RunningEntry
    <2> QED BY <1>1, <2>1, <2>3 DEF DispatchStarted, TypeOK
  <1>2. CASE DispatchUnstarted(i, a, entries)
    BY <1>2, NextAttemptTyped, ScheduleRetryEffect DEF DispatchUnstarted, TypeOK
  <1>3. CASE DispatchRefused(i, view, entries)
    BY <1>3 DEF DispatchRefused
  <1> QED BY <1>1, <1>2, <1>3 DEF DispatchIssue

\* If one issue's entries change, and its claim with them, claims stay exact.
LEMMA ClaimFollowsEntries ==
    ASSUME Typed, ClaimedExactly, loop # "crashed", NEW i \in Issues,
           \A j \in Issues \ {i} : /\ running'[j] = None <=> running[j] = None
                                   /\ retry'[j] = None <=> retry[j] = None
                                   /\ j \in claimed' <=> j \in claimed,
           running'[i] = None \/ retry'[i] = None,
           claimed' \in SUBSET Issues,
           i \in claimed' <=> running'[i] # None \/ retry'[i] # None
    PROVE  ClaimedExactly'
  BY DEF ClaimedExactly, RunningIssues, RetryIssues, Typed, TypeOK

\* Nothing is claimed initially.
LEMMA ClaimedInit == Init => ClaimedExactly
  BY DEF Init, ClaimedExactly, RunningIssues, RetryIssues

\* Every step that touches the claim state keeps it exact; after its end nothing does.
LEMMA ClaimedStep == Typed /\ ClaimedExactly /\ [Next]_vars => ClaimedExactly'
  <1> SUFFICES ASSUME Typed, ClaimedExactly, [Next]_vars PROVE ClaimedExactly'
    OBVIOUS
  <1>typed. TypeOK /\ Typed'
    BY TypedStep DEF Typed
  <1>same. ASSUME UNCHANGED <<running, claimed, retry>>, loop = "crashed" => loop' = "crashed"
           PROVE  ClaimedExactly'
    BY <1>same DEF ClaimedExactly, RunningIssues, RetryIssues
  <1>entries. retry \in [Issues -> RetryEntry \cup {None}]
    BY <1>typed DEF TypeOK
  <1>1. ASSUME NEW i \in Issues, StalledRunRetried(i) PROVE ClaimedExactly'
    <2>1. NextAttempt(running[i].attempt) \in Attempts
      BY <1>1, <1>typed, RunningAttemptTyped, NextAttemptTyped DEF StalledRunRetried
    <2>2. /\ retry'[i] # None
          /\ \A j \in Issues \ {i} : retry'[j] = retry[j]
          /\ claimed' = claimed \cup {i}
      BY <1>1, <1>typed, <1>entries, <2>1, ScheduleRetryEffect DEF StalledRunRetried
    <2>3. /\ running'[i] = None
          /\ \A j \in Issues \ {i} : running'[j] = running[j]
      BY <1>1, <1>typed DEF StalledRunRetried, TypeOK
    <2> QED BY <1>1, <1>typed, <2>2, <2>3, ClaimFollowsEntries
            DEF StalledRunRetried, TypeOK
  <1>2. ASSUME NEW i \in Issues, ReconcileIssue(i) PROVE ClaimedExactly'
    <2>1. loop = "refresh" /\ running[i] \in RunningEntry /\ running[i] # None
      BY <1>2 DEF ReconcileIssue, Typed, RefreshedAreRunning, TypeOK
    <2>2. retry[i] = None /\ i \in claimed
      BY <2>1 DEF ClaimedExactly, RunningIssues, RetryIssues
    <2>3. CASE TerminateRunningIssue(i)
      <3>1. /\ running'[i] = None /\ retry' = retry /\ claimed' = claimed \ {i}
            /\ \A j \in Issues \ {i} : running'[j] = running[j]
        BY <2>3, <1>typed DEF TerminateRunningIssue, TypeOK
      <3> QED BY <2>1, <2>2, <3>1, <1>typed, ClaimFollowsEntries DEF TypeOK
    <2>4. CASE TerminationRefused(i)
      BY <2>4, <1>typed DEF TerminationRefused, ClaimedExactly, RunningIssues, RetryIssues, TypeOK
    <2>5. CASE /\ running' = [running EXCEPT ![i].state = batch[i].state]
               /\ UNCHANGED <<loop, claimed, retry, armed, tickTimer>>
      <3>1. batch[i].state \in States
        BY <1>2, <1>typed, ViewAssumption DEF ReconcileIssue, TypeOK, View
      <3>2. [running[i] EXCEPT !.state = batch[i].state] # None
        BY <2>1, <3>1, NoneAssumption DEF RunningEntry
      <3>3. \A j \in Issues : running'[j] = None <=> running[j] = None
        BY <2>1, <2>5, <3>2, <1>typed DEF TypeOK
      <3> QED BY <2>1, <2>5, <3>3 DEF ClaimedExactly, RunningIssues, RetryIssues
    <2> QED BY <1>2, <2>3, <2>4, <2>5 DEF ReconcileIssue
  <1>3. ASSUME NEW i \in Issues, CandidateDispatched(i) PROVE ClaimedExactly'
    <2>1. loop = "dispatch" /\ running[i] = None /\ i \notin claimed
      BY <1>3 DEF CandidateDispatched, ShouldDispatch
    <2>2. retry[i] = None
      BY <2>1 DEF ClaimedExactly, RunningIssues, RetryIssues
    <2>3. batch[i] \in View /\ 0 \in Attempts
      BY <1>3, <1>typed, ViewAssumption, AttemptAssumption
         DEF CandidateDispatched, FirstCandidate, TypeOK, Attempts
    <2>4. DispatchIssue(i, batch[i], 0, retry)
      BY <1>3 DEF CandidateDispatched
    <2>5. /\ \A j \in Issues \ {i} : running'[j] = running[j] /\ retry'[j] = retry[j]
          /\ running'[i] = None \/ retry'[i] = None
          /\ loop' # "crashed" => /\ claimed' = claimed \cup {i}
                                  /\ running'[i] # None \/ retry'[i] # None
      BY <1>typed, <1>entries, <2>1, <2>2, <2>3, <2>4, DispatchIssueEffect
    <2>6. CASE loop' = "crashed"
      BY <2>5, <2>6 DEF ClaimedExactly, RunningIssues, RetryIssues
    <2>7. CASE loop' # "crashed"
      BY <2>1, <2>5, <2>7, <1>typed, ClaimFollowsEntries DEF TypeOK
    <2> QED BY <2>6, <2>7
  <1>4. ASSUME NEW i \in Issues, OnRetryTimer(i) PROVE ClaimedExactly'
    <2>1. loop = "idle"
      BY <1>4 DEF OnRetryTimer, Receive
    <2>2. CASE retry[i] = None
      BY <1>4, <2>1, <2>2, <1>same DEF OnRetryTimer, claimVars
    <2>3. CASE retry[i] # None
      <3> DEFINE a == retry[i].attempt
                 entries == [retry EXCEPT ![i] = None]
      <3>1. RetryChecked(i, a, entries)
        BY <1>4, <2>3 DEF OnRetryTimer
      <3>2. running[i] = None /\ i \in claimed
        BY <2>1, <2>3 DEF ClaimedExactly, RunningIssues, RetryIssues
      <3>3. /\ a \in Attempts /\ entries \in [Issues -> RetryEntry \cup {None}]
            /\ entries[i] = None /\ \A j \in Issues \ {i} : entries[j] = retry[j]
        BY <2>3, <1>typed, RetryAttemptTyped DEF TypeOK
      <3>4. NextAttempt(a) \in Attempts
        BY <3>3, NextAttemptTyped
      <3> HIDE DEF a, entries
      <3>5. CASE /\ ScheduleRetry(i, NextAttempt(a), entries)
                 /\ UNCHANGED <<loop, running, workers, tickTimer>>
        BY <1>typed, <2>1, <3>2, <3>3, <3>4, <3>5, ScheduleRetryEffect, ClaimFollowsEntries
           DEF TypeOK
      <3>6. CASE /\ claimed' = claimed \ {i}
                 /\ retry' = entries
                 /\ UNCHANGED <<loop, running, armed, workers, tickTimer>>
        BY <1>typed, <2>1, <3>2, <3>3, <3>6, ClaimFollowsEntries DEF TypeOK
      <3>7. CASE i \in Candidates /\ DispatchIssue(i, tracker[i], a, entries)
        <4>1. tracker[i] \in View
          BY <3>7, <1>typed, ViewAssumption DEF Candidates, TypeOK
        <4>2. /\ \A j \in Issues \ {i} : running'[j] = running[j] /\ retry'[j] = entries[j]
              /\ running'[i] = None \/ retry'[i] = None
              /\ loop' # "crashed" => /\ claimed' = claimed \cup {i}
                                      /\ running'[i] # None \/ retry'[i] # None
          BY <1>typed, <3>2, <3>3, <3>7, <4>1, DispatchIssueEffect
        <4>3. CASE loop' = "crashed"
          BY <3>3, <4>2, <4>3 DEF ClaimedExactly, RunningIssues, RetryIssues
        <4>4. CASE loop' # "crashed"
          BY <1>typed, <2>1, <3>3, <4>2, <4>4, ClaimFollowsEntries DEF TypeOK
        <4> QED BY <4>3, <4>4
      <3> QED BY <3>1, <3>5, <3>6, <3>7 DEF RetryChecked
    <2> QED BY <2>2, <2>3
  <1>5. ASSUME NEW w \in Workers, NEW i \in Issues, NEW ok \in BOOLEAN,
               OnWorkerExit(w, i, ok)
        PROVE  ClaimedExactly'
    <2>1. loop = "idle" /\ loop' = "idle"
      BY <1>5 DEF OnWorkerExit, Receive
    <2>2. CASE running[i] = None
      BY <1>5, <2>1, <2>2, <1>same DEF OnWorkerExit, claimVars
    <2>3. CASE running[i] # None
      <3> DEFINE a == IF ok THEN 1 ELSE NextAttempt(running[i].attempt)
      <3>1. a \in Attempts
        BY <2>3, <1>typed, RunningAttemptTyped, NextAttemptTyped
      <3>2. ScheduleRetry(i, a, retry) /\ running' = [running EXCEPT ![i] = None]
        BY <1>5, <2>3 DEF OnWorkerExit
      <3> HIDE DEF a
      <3>3. /\ retry'[i] # None
            /\ \A j \in Issues \ {i} : retry'[j] = retry[j]
            /\ claimed' = claimed \cup {i}
        BY <3>1, <3>2, <1>typed, <1>entries, ScheduleRetryEffect
      <3>4. running'[i] = None /\ \A j \in Issues \ {i} : running'[j] = running[j]
        BY <3>2, <1>typed DEF TypeOK
      <3> QED BY <1>typed, <2>1, <3>3, <3>4, ClaimFollowsEntries DEF TypeOK
    <2> QED BY <2>2, <2>3
  <1>6. CASE \/ Serve \/ ServeRefused \/ TickStarts \/ StatesRefreshed \/ StatesRefreshFailed
             \/ ReconcileDone \/ CandidatesFetched \/ DispatchSkipped \/ TickEnds
             \/ \E i \in Issues : CandidatePassedOver(i)
    BY <1>6, <1>same
       DEF Serve, ServeRefused, TickStarts, StatesRefreshed, StatesRefreshFailed, ReconcileDone,
           CandidatesFetched, DispatchSkipped, TickEnds, CandidatePassedOver, Receive, claimVars
  <1>7. CASE OnStop
    BY <1>7, <1>same DEF OnStop, Receive
  <1>8. CASE Environment \/ ServiceOver \/ UNCHANGED vars
    BY <1>8, <1>same DEF Environment, WorkerEnds, RetryTimerFires, TickTimerFires,
           StopRequested, TrackerChanges, ServiceOver, claimVars, vars
  <1>9. CASE RaisesInHandler
    BY <1>9, <1>typed, RaisesEffect DEF ClaimedExactly, RunningIssues, RetryIssues
  <1> QED BY <1>1, <1>2, <1>3, <1>4, <1>5, <1>6, <1>7, <1>8, <1>9 DEF Next, EventLoop, RunTick

\* In every reachable state an issue is claimed exactly when it runs or waits for a
\* retry, never both, however events, reloads, failed calls and stops interleave.
THEOREM ClaimsExact == Spec => []ClaimedExactly
  BY ClaimedInit, ClaimedStep, TypedAlways, PTL DEF Spec
=============================================================================
