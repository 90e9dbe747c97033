-------------------- MODULE OrchestratorRefinementProofs --------------------
(***************************************************************************)
(* Proofs that the orchestrator implements the abstract claim lifecycle,   *)
(* that the dispatch limit follows from it, and which starts keep to the   *)
(* limit of their state.                                                   *)
(***************************************************************************)
EXTENDS OrchestratorProofs, FiniteSetTheorems

\* The claims, as Lifecycle reads them.
ClaimMap == [i \in Issues |-> ClaimOf(i)]

LifecycleStep ==
    (~Ended /\ Lifecycle!Next) \/ UNCHANGED <<ClaimMap, NextReport, Ended, config.max>>

-----------------------------------------------------------------------------
(* How a change of the entries changes the claim, while the process lives. *)

SameClaim(j) ==
    /\ running'[j] = None <=> running[j] = None
    /\ running[j] # None => running'[j].attempt = running[j].attempt
    /\ retry'[j] = retry[j]

\* The loop is at work before the step and after it.
LivesOn == ~Ended /\ ~Ended'

\* An exit at the head of the queue is a report of an issue.
LEMMA ExitReports ==
    ASSUME NEW q \in Seq(Event), q # << >>, Head(q).kind = "exit"
    PROVE  [issue |-> Head(q).issue, ok |-> Head(q).ok] \in Lifecycle!Reports
  <1>1. Head(q) \in Event
    BY HeadTailProperties
  <1>2. Head(q).issue \in Issues /\ Head(q).ok \in BOOLEAN
    BY <1>1 DEF Event, Tick, Stop, RetryDue, WorkerExit
  <1> QED BY <1>2 DEF Lifecycle!Reports

\* Whatever the loop handles after the step, it is a report or none.
LEMMA ReportTyped == TypeOK' => NextReport' \in Lifecycle!Reports
  <1> SUFFICES ASSUME TypeOK' PROVE NextReport' \in Lifecycle!Reports
    OBVIOUS
  <1>1. events' \in Seq(Event) /\ None \in Lifecycle!Reports
    BY DEF TypeOK, Lifecycle!Reports
  <1> QED BY <1>1, ExitReports DEF NextReport

\* A loop that is not idle, or receives something else, handles no report.
LEMMA NoReport ==
    /\ loop # "idle" => NextReport = None
    /\ \A i \in Issues : Receive(RetryDue(i)) => NextReport = None
    /\ Receive(Tick) \/ Receive(Stop) => NextReport = None
  BY DEF NextReport, Receive, RetryDue, Tick, Stop

\* If one issue's entries change, its claim alone does.
LEMMA OneClaimChanges ==
    ASSUME TypeOK', LivesOn, NEW i \in Issues, \A j \in Issues \ {i} : SameClaim(j),
           UNCHANGED config
    PROVE  Lifecycle!Becomes(i, ClaimOf(i)')
  <1>1. \A j \in Issues \ {i} : ClaimOf(j)' = ClaimOf(j)
    BY DEF SameClaim, ClaimOf, LivesOn
  <1>2. NextReport' \in Lifecycle!Reports
    BY ReportTyped
  <1>3. Ended' = Ended
    BY DEF LivesOn, Ended
  <1> QED BY <1>1, <1>2, <1>3 DEF Lifecycle!Becomes

\* If no issue's claim changes, that is a reload, of the same limit perhaps.
LEMMA NoClaimChanges ==
    ASSUME TypeOK', LivesOn, NextReport = None, \A j \in Issues : SameClaim(j)
    PROVE  LifecycleStep
  <1>1. \A j \in Issues : ClaimOf(j)' = ClaimOf(j)
    BY DEF SameClaim, ClaimOf, LivesOn
  <1>2. config.max' \in {c.max : c \in Configs} /\ NextReport' \in Lifecycle!Reports
    BY ReportTyped DEF TypeOK
  <1>3. Ended' = Ended
    BY DEF LivesOn, Ended
  <1>4. Lifecycle!Reload
    BY <1>1, <1>2, <1>3 DEF Lifecycle!Reload
  <1> QED BY <1>4 DEF LifecycleStep, Lifecycle!Next, LivesOn

\* When the process ends, so do all claims.
LEMMA ProcessEnds ==
    ASSUME ~Ended, Ended', UNCHANGED config
    PROVE  LifecycleStep
  <1>1. \A j \in Issues : ClaimOf(j)' = Lifecycle!Unclaimed
    BY DEF ClaimOf, Lifecycle!Unclaimed
  <1>2. NextReport' = None
    BY DEF Ended, NextReport
  <1>3. Lifecycle!Over
    BY <1>1, <1>2 DEF Lifecycle!Over
  <1> QED BY <1>3 DEF LifecycleStep, Lifecycle!Next

\* The claim of a running issue, of a queued one, and of one neither.
LEMMA ClaimCases ==
    ASSUME ~Ended, NEW i \in Issues
    PROVE  /\ running[i] # None => ClaimMap[i] = Lifecycle!Running(running[i].attempt)
           /\ running[i] = None /\ retry[i] # None =>
                 ClaimMap[i] = Lifecycle!RetryQueued(retry[i].attempt)
           /\ running[i] = None /\ retry[i] = None => ClaimMap[i] = Lifecycle!Unclaimed
  BY DEF ClaimMap, ClaimOf, Lifecycle!Running, Lifecycle!RetryQueued, Lifecycle!Unclaimed

\* The slots the code counts are those of the abstract state.
LEMMA SlotsAgree == ~Ended => Lifecycle!Busy = RunningIssues
  BY DEF Lifecycle!Busy, RunningIssues, ClaimOf

\* So is the question whether one is free.
LEMMA SlotFreeAgrees == TypeOK /\ ~Ended => (AvailableWorkerSlots > 0 <=> Lifecycle!SlotFree)
  <1> SUFFICES ASSUME TypeOK, ~Ended PROVE AvailableWorkerSlots > 0 <=> Lifecycle!SlotFree
    OBVIOUS
  <1>1. IsFiniteSet(RunningIssues)
    BY FiniteAssumption, FS_Subset DEF RunningIssues
  <1>2. Cardinality(RunningIssues) \in Nat
    BY <1>1, FS_CardinalityType
  <1>3. config.max \in Int
    BY ConfigAssumption DEF TypeOK, Config
  <1>4. Lifecycle!Cardinality(RunningIssues) = Cardinality(RunningIssues)
    BY DEF Lifecycle!Cardinality, Cardinality
  <1> QED BY <1>2, <1>3, <1>4, SlotsAgree DEF Lifecycle!SlotFree, AvailableWorkerSlots

-----------------------------------------------------------------------------
(* What the parts of the handlers do to the claim.                         *)

\* Scheduling a retry for an issue that does not run queues it with the attempt.
LEMMA ScheduleQueues ==
    ASSUME TypeOK, ~Ended', NEW i \in Issues, NEW a \in Attempts,
           NEW entries \in [Issues -> RetryEntry \cup {None}],
           ScheduleRetry(i, a, entries), running'[i] = None
    PROVE  /\ ClaimOf(i)' = Lifecycle!RetryQueued(a)
           /\ \A j \in Issues \ {i} : retry'[j] = entries[j]
  <1>1. PICK timer \in Timers :
            retry' = [entries EXCEPT ![i] = [attempt |-> a, timer |-> timer]]
    BY RepresentativeIsElement DEF ScheduleRetry
  <1>2. retry'[i] = [attempt |-> a, timer |-> timer] /\ retry'[i] # None
    BY <1>1, NoneAssumption DEF RetryEntry
  <1> QED BY <1>1, <1>2 DEF ClaimOf, Lifecycle!RetryQueued

\* A dispatch that does not crash the loop runs the attempt or queues the next one.
LEMMA DispatchClaims ==
    ASSUME TypeOK, ~Ended', NEW i \in Issues, NEW view \in View, NEW a \in Attempts,
           NEW entries \in [Issues -> RetryEntry \cup {None}],
           running[i] = None, entries[i] = None,
           \A j \in Issues \ {i} : entries[j] = retry[j],
           DispatchIssue(i, view, a, entries)
    PROVE  /\ \A j \in Issues \ {i} : SameClaim(j)
           /\ \/ ClaimOf(i)' = Lifecycle!Running(a)
              \/ ClaimOf(i)' = Lifecycle!RetryQueued(NextAttempt(a))
  <1>1. CASE DispatchStarted(i, view, a, entries)
    <2>1. PICK w \in Workers :
              running' = [running EXCEPT ![i] = [worker |-> w, attempt |-> a,
                             state |-> view.state, root |-> config.root]]
      BY <1>1, RepresentativeIsElement DEF DispatchStarted, FreeWorkers
    <2>2. view.state \in States /\ config.root \in Roots
      BY ConfigAssumption DEF View, Config, TypeOK
    <2>3. [worker |-> w, attempt |-> a, state |-> view.state, root |-> config.root] # None
      BY <2>2, NoneAssumption DEF RunningEntry
    <2>4. running'[i] # None /\ running'[i].attempt = a
      BY <2>1, <2>3 DEF TypeOK
    <2>5. \A j \in Issues \ {i} : running'[j] = running[j] /\ retry'[j] = retry[j]
      BY <1>1, <2>1 DEF DispatchStarted, TypeOK
    <2> QED BY <2>4, <2>5 DEF SameClaim, ClaimOf, Lifecycle!Running
  <1>2. CASE DispatchUnstarted(i, a, entries)
    BY <1>2, NextAttemptTyped, ScheduleQueues DEF DispatchUnstarted, SameClaim
  <1>3. CASE DispatchRefused(i, view, entries)
    BY <1>3 DEF DispatchRefused, Ended
  <1> QED BY <1>1, <1>2, <1>3 DEF DispatchIssue

\* A run that leaves `running` for a retry queues it with the attempt.
LEMMA RunIsQueued ==
    ASSUME TypeOK, TypeOK', LivesOn, NEW i \in Issues, NEW a \in Attempts, running[i] # None,
           ScheduleRetry(i, a, retry), running' = [running EXCEPT ![i] = None],
           UNCHANGED config
    PROVE  /\ Lifecycle!Becomes(i, Lifecycle!RetryQueued(a))
           /\ ClaimMap[i].phase = "running" /\ ClaimMap[i].attempt = running[i].attempt
           /\ NextAttempt(running[i].attempt) = Lifecycle!Following(ClaimMap[i].attempt)
  <1>1. running'[i] = None /\ \A j \in Issues \ {i} : running'[j] = running[j]
    BY DEF TypeOK
  <1>2. /\ ClaimOf(i)' = Lifecycle!RetryQueued(a)
        /\ \A j \in Issues \ {i} : retry'[j] = retry[j]
    <2>1. retry \in [Issues -> RetryEntry \cup {None}]
      BY DEF TypeOK
    <2> QED BY <1>1, <2>1, ScheduleQueues DEF LivesOn
  <1>3. Lifecycle!Becomes(i, Lifecycle!RetryQueued(a))
    BY <1>1, <1>2, OneClaimChanges DEF SameClaim
  <1>4. ClaimMap[i] = Lifecycle!Running(running[i].attempt)
    BY ClaimCases DEF LivesOn
  <1>5. ClaimMap[i].phase = "running" /\ ClaimMap[i].attempt = running[i].attempt
    BY <1>4 DEF Lifecycle!Running
  <1> QED BY <1>3, <1>5 DEF NextAttempt, Lifecycle!Following

-----------------------------------------------------------------------------
(* The refinement.                                                         *)

\* Initial states map to initial states.
LEMMA LifecycleInit == Init => Lifecycle!Init
  BY DEF Init, Lifecycle!Init, Lifecycle!Unclaimed, ClaimOf, NextReport, Ended

\* Only the start of a tick changes the configuration.
LEMMA ConfigKept == TypeOK /\ [Next]_vars /\ ~TickStarts => UNCHANGED config
  <1> SUFFICES ASSUME TypeOK, EventLoop, ~TickStarts PROVE UNCHANGED config
    BY OthersLeaveTheLoop DEF Next
  <1>1. CASE RaisesInHandler
    BY <1>1, RaisesEffect
  <1> QED BY <1>1 DEF EventLoop, RunTick, Serve, ServeRefused, StalledRunRetried, StatesRefreshed,
          StatesRefreshFailed, ReconcileIssue, ReconcileDone, CandidatesFetched, DispatchSkipped,
          CandidateDispatched, CandidatePassedOver, TickEnds, OnRetryTimer, OnWorkerExit, OnStop

\* A loop that ended does nothing more.
LEMMA EndedForGood == TypeOK /\ [Next]_vars /\ Ended => UNCHANGED vars
  <1> SUFFICES ASSUME TypeOK, Next, Ended PROVE UNCHANGED vars
    OBVIOUS
  <1>1. CASE EventLoop
    <2>1. ~RaisesInHandler
      BY RaisesEffect DEF Ended, TickPhases
    <2> QED BY <1>1, <2>1
            DEF Ended, EventLoop, RunTick, Serve, ServeRefused, TickStarts, StalledRunRetried,
                StatesRefreshed, StatesRefreshFailed, ReconcileIssue, ReconcileDone,
                CandidatesFetched, DispatchSkipped, CandidateDispatched, CandidatePassedOver,
                TickEnds, OnRetryTimer, OnWorkerExit, OnStop, Receive
  <1>2. CASE Environment
    BY <1>2 DEF Environment, WorkerEnds, RetryTimerFires, TickTimerFires, StopRequested,
           TrackerChanges
  <1> QED BY <1>1, <1>2 DEF Next, ServiceOver

\* What other threads do leaves the claims alone, and the report handled next.
LEMMA OthersLeaveTheClaims ==
    ASSUME TypeOK, TypeOK', LivesOn, Environment
    PROVE  LifecycleStep
  <1>1. UNCHANGED <<loop, config, running, retry>>
    BY OthersLeaveTheLoop
  <1>2. \A j \in Issues : SameClaim(j)
    BY <1>1 DEF SameClaim
  <1>3. CASE loop # "idle" \/ events = << >>
    BY <1>2, <1>3, NoClaimChanges DEF NextReport
  <1>4. CASE loop = "idle" /\ events # << >>
    <2>1. events' = events \/ \E e \in Event : events' = Append(events, e)
      BY DEF Environment, WorkerEnds, RetryTimerFires, TickTimerFires, StopRequested,
             TrackerChanges, Event, TypeOK
    <2>2. events' # << >> /\ Head(events') = Head(events)
      <3>1. ASSUME NEW e \in Event, events' = Append(events, e)
            PROVE  events' # << >> /\ Head(events') = Head(events)
        BY <1>4, <3>1 DEF TypeOK
      <3> QED BY <1>4, <2>1, <3>1
    <2>3. NextReport' = NextReport
      BY <1>1, <1>4, <2>2 DEF NextReport
    <2>4. \A j \in Issues : ClaimOf(j)' = ClaimOf(j)
      BY <1>1 DEF ClaimOf, Ended
    <2> QED BY <1>1, <2>3, <2>4 DEF LifecycleStep, ClaimMap, Ended
  <1> QED BY <1>3, <1>4

\* Every step maps to a step of the lifecycle, or to none.
LEMMA LifecycleNext == Typed /\ ClaimedExactly /\ [Next]_vars => LifecycleStep
  <1> SUFFICES ASSUME TypeOK, RefreshedAreRunning, ClaimedExactly, [Next]_vars
               PROVE  LifecycleStep
    BY DEF Typed
  <1>typed. TypeOK'
    BY TypedStep DEF Typed
  <1>ended. CASE Ended \/ UNCHANGED vars
    <2>1. UNCHANGED vars
      BY <1>ended, EndedForGood
    <2> QED BY <2>1 DEF LifecycleStep, ClaimMap, ClaimOf, NextReport, Ended, vars
  <1>ends. CASE ~Ended /\ Ended'
    <2>1. ~TickStarts
      BY <1>ends DEF TickStarts, Ended
    <2> QED BY <1>ends, <2>1, ConfigKept, ProcessEnds
  <1>lives. ASSUME LivesOn, Next PROVE LifecycleStep
    <2> USE <1>typed, <1>lives
    <2>entries. retry \in [Issues -> RetryEntry \cup {None}]
      BY DEF TypeOK
    <2>attempts. \A a \in Attempts : NextAttempt(a) = Lifecycle!Following(a)
      BY DEF NextAttempt, Lifecycle!Following
    <2>move. ASSUME NEW i \in Issues, NextReport = None,
                    \/ Lifecycle!Dispatch(i) \/ Lifecycle!Stall(i) \/ Lifecycle!Resume(i)
                    \/ Lifecycle!Requeue(i) \/ Lifecycle!Release(i)
             PROVE  LifecycleStep
      BY <2>move DEF LifecycleStep, Lifecycle!Next, LivesOn
    \* An issue that loses its only entry is released.
    <2>release. ASSUME NEW i \in Issues, running[i] # None \/ retry[i] # None,
                       running'[i] = None, retry'[i] = None, NextReport = None,
                       \A j \in Issues \ {i} : SameClaim(j), UNCHANGED config
                PROVE  LifecycleStep
      <3>1. ClaimOf(i)' = Lifecycle!Unclaimed
        BY <2>release DEF ClaimOf, Lifecycle!Unclaimed
      <3>2. ClaimMap[i] # Lifecycle!Unclaimed
        BY <2>release DEF ClaimMap, ClaimOf, Lifecycle!Unclaimed, LivesOn
      <3>3. Lifecycle!Release(i)
        BY <2>release, <3>1, <3>2, OneClaimChanges DEF Lifecycle!Release, ClaimMap
      <3> QED BY <2>move, <2>release, <3>3
    <2>1. ASSUME NEW i \in Issues, StalledRunRetried(i) PROVE LifecycleStep
      <3>1. NextAttempt(running[i].attempt) \in Attempts /\ NextReport = None
        BY <2>1, RunningAttemptTyped, NextAttemptTyped, NoReport DEF StalledRunRetried
      <3>2. Lifecycle!Stall(i)
        BY <2>1, <3>1, RunIsQueued DEF StalledRunRetried, Lifecycle!Stall, ClaimMap
      <3> QED BY <2>move, <3>1, <3>2
    <2>2. ASSUME NEW i \in Issues, ReconcileIssue(i) PROVE LifecycleStep
      <3>1. /\ running[i] \in RunningEntry /\ running[i] # None /\ UNCHANGED config
            /\ loop = "refresh"
        BY <2>2 DEF ReconcileIssue, RefreshedAreRunning, TypeOK
      <3>2. retry[i] = None /\ NextReport = None
        BY <3>1, NoReport DEF ClaimedExactly, RunningIssues, RetryIssues
      <3>3. CASE TerminateRunningIssue(i)
        <4>1. /\ running'[i] = None /\ retry' = retry
              /\ \A j \in Issues \ {i} : running'[j] = running[j]
          BY <3>3 DEF TerminateRunningIssue, TypeOK
        <4> QED BY <2>release, <3>1, <3>2, <4>1 DEF SameClaim
      <3>4. CASE /\ running' = [running EXCEPT ![i].state = batch[i].state]
                 /\ UNCHANGED <<loop, claimed, retry, armed, tickTimer>>
        <4>1. batch[i].state \in States
          BY <2>2, ViewAssumption DEF ReconcileIssue, TypeOK, View
        <4>2. /\ [running[i] EXCEPT !.state = batch[i].state] # None
              /\ [running[i] EXCEPT !.state = batch[i].state].attempt = running[i].attempt
          BY <3>1, <4>1, NoneAssumption DEF RunningEntry
        <4>3. /\ running'[i] = [running[i] EXCEPT !.state = batch[i].state]
              /\ \A j \in Issues \ {i} : running'[j] = running[j]
          BY <3>4 DEF TypeOK
        <4>4. \A j \in Issues : SameClaim(j)
          BY <3>1, <3>4, <4>2, <4>3 DEF SameClaim
        <4> QED BY <3>2, <4>4, NoClaimChanges
      <3>5. ~TerminationRefused(i)
        BY DEF TerminationRefused, LivesOn, Ended
      <3> QED BY <2>2, <3>3, <3>4, <3>5 DEF ReconcileIssue
    <2>3. ASSUME NEW i \in Issues, CandidateDispatched(i) PROVE LifecycleStep
      <3>1. /\ running[i] = None /\ i \notin claimed /\ loop = "dispatch"
            /\ AvailableWorkerSlots > 0 /\ UNCHANGED config
        BY <2>3 DEF CandidateDispatched, ShouldDispatch
      <3>2. retry[i] = None /\ NextReport = None
        BY <3>1, NoReport DEF ClaimedExactly, RetryIssues
      <3>3. batch[i] \in View /\ 0 \in Attempts
        BY <2>3, ViewAssumption, AttemptAssumption
           DEF CandidateDispatched, FirstCandidate, TypeOK, Attempts
      <3>4. DispatchIssue(i, batch[i], 0, retry)
        BY <2>3 DEF CandidateDispatched
      <3>5. /\ \A j \in Issues \ {i} : SameClaim(j)
            /\ \/ ClaimOf(i)' = Lifecycle!Running(0)
               \/ ClaimOf(i)' = Lifecycle!RetryQueued(NextAttempt(0))
        BY <2>entries, <3>1, <3>2, <3>3, <3>4, DispatchClaims DEF LivesOn
      <3>6. NextAttempt(0) = 1
        BY AttemptAssumption DEF NextAttempt
      <3>7. Lifecycle!Becomes(i, ClaimOf(i)') /\ Lifecycle!SlotFree
            /\ ClaimMap[i] = Lifecycle!Unclaimed
        BY <3>1, <3>2, <3>5, OneClaimChanges, SlotFreeAgrees, ClaimCases DEF LivesOn
      <3>8. Lifecycle!Dispatch(i)
        BY <3>5, <3>6, <3>7 DEF Lifecycle!Dispatch, ClaimMap
      <3> QED BY <2>move, <3>2, <3>8
    <2>4. ASSUME NEW i \in Issues, OnRetryTimer(i) PROVE LifecycleStep
      <3>1. loop = "idle" /\ UNCHANGED config /\ NextReport = None
        BY <2>4, NoReport DEF OnRetryTimer, Receive
      <3>2. CASE retry[i] = None
        BY <2>4, <3>1, <3>2, NoClaimChanges DEF OnRetryTimer, claimVars, SameClaim
      <3>3. CASE retry[i] # None
        <4> DEFINE a == retry[i].attempt
                   entries == [retry EXCEPT ![i] = None]
        <4>1. RetryChecked(i, a, entries)
          BY <2>4, <3>3 DEF OnRetryTimer
        <4>2. running[i] = None
          BY <3>3 DEF ClaimedExactly, RunningIssues, RetryIssues
        <4>3. /\ a \in Attempts /\ entries \in [Issues -> RetryEntry \cup {None}]
              /\ entries[i] = None /\ \A j \in Issues \ {i} : entries[j] = retry[j]
          BY <3>3, RetryAttemptTyped DEF TypeOK
        <4>4. NextAttempt(a) \in Attempts /\ NextAttempt(a) = Lifecycle!Following(a)
          BY <4>3, <2>attempts, NextAttemptTyped
        <4>5. ClaimMap[i] = Lifecycle!RetryQueued(a)
          BY <3>3, <4>2, ClaimCases DEF LivesOn
        <4> HIDE DEF a, entries
        <4>6. CASE /\ ScheduleRetry(i, NextAttempt(a), entries)
                   /\ UNCHANGED <<loop, running, workers, tickTimer>>
          <5>1. /\ ClaimOf(i)' = Lifecycle!RetryQueued(NextAttempt(a))
                /\ \A j \in Issues \ {i} : SameClaim(j)
            BY <4>2, <4>3, <4>4, <4>6, ScheduleQueues DEF SameClaim, LivesOn
          <5>2. Lifecycle!Requeue(i)
            BY <3>1, <4>4, <4>5, <5>1, OneClaimChanges
               DEF Lifecycle!Requeue, Lifecycle!RetryQueued, ClaimMap
          <5> QED BY <2>move, <3>1, <5>2
        <4>7. CASE retry' = entries /\ UNCHANGED running
          <5>1. \A j \in Issues \ {i} : SameClaim(j)
            BY <4>3, <4>7 DEF SameClaim
          <5> QED BY <2>release, <3>1, <3>3, <4>2, <4>3, <4>7, <5>1
        <4>8. CASE /\ i \in Candidates /\ AvailableWorkerSlots > 0
                   /\ DispatchIssue(i, tracker[i], a, entries)
          <5>1. tracker[i] \in View
            BY <4>8, ViewAssumption DEF Candidates, TypeOK
          <5>2. /\ \A j \in Issues \ {i} : SameClaim(j)
                /\ \/ ClaimOf(i)' = Lifecycle!Running(a)
                   \/ ClaimOf(i)' = Lifecycle!RetryQueued(NextAttempt(a))
            BY <4>2, <4>3, <4>8, <5>1, DispatchClaims DEF LivesOn
          <5>3. Lifecycle!Becomes(i, ClaimOf(i)') /\ Lifecycle!SlotFree
            BY <3>1, <4>8, <5>2, OneClaimChanges, SlotFreeAgrees DEF LivesOn
          <5>4. Lifecycle!Resume(i) \/ Lifecycle!Requeue(i)
            BY <4>4, <4>5, <5>2, <5>3
               DEF Lifecycle!Resume, Lifecycle!Requeue, Lifecycle!RetryQueued, ClaimMap
          <5> QED BY <2>move, <3>1, <5>4
        <4> QED BY <4>1, <4>6, <4>7, <4>8 DEF RetryChecked
      <3> QED BY <3>2, <3>3
    \* An exit is the report that was to be handled next.
    <2>5. ASSUME NEW w \in Workers, NEW i \in Issues, NEW ok \in BOOLEAN, OnWorkerExit(w, i, ok)
          PROVE  LifecycleStep
      <3>1. NextReport = [issue |-> i, ok |-> ok] /\ UNCHANGED config
        BY <2>5 DEF OnWorkerExit, Receive, WorkerExit, NextReport
      <3>2. CASE running[i] = None
        <4>1. UNCHANGED <<loop, running, retry>>
          BY <2>5, <3>2 DEF OnWorkerExit, Receive, claimVars
        <4>2. ClaimOf(i)' = ClaimMap[i] /\ \A j \in Issues : SameClaim(j)
          BY <4>1 DEF ClaimOf, ClaimMap, SameClaim, Ended
        <4>3. ClaimMap[i].phase # "running"
          BY <3>2 DEF ClaimMap, ClaimOf
        <4>4. Lifecycle!ExitIgnored(i, ok)
          BY <3>1, <4>2, <4>3, OneClaimChanges DEF Lifecycle!ExitIgnored, ClaimMap
        <4> QED BY <4>4 DEF LifecycleStep, Lifecycle!Next, LivesOn
      <3>3. CASE running[i] # None
        <4> DEFINE a == IF ok THEN 1 ELSE NextAttempt(running[i].attempt)
        <4>1. a \in Attempts
          BY <3>3, RunningAttemptTyped, NextAttemptTyped
        <4>2. ScheduleRetry(i, a, retry) /\ running' = [running EXCEPT ![i] = None]
          BY <2>5, <3>3 DEF OnWorkerExit
        <4>3. /\ Lifecycle!Becomes(i, Lifecycle!RetryQueued(a))
              /\ ClaimMap[i].phase = "running"
              /\ NextAttempt(running[i].attempt) = Lifecycle!Following(ClaimMap[i].attempt)
          <5> HIDE DEF a
          <5> QED BY <3>1, <3>3, <4>1, <4>2, RunIsQueued
        <4>4. Lifecycle!Exit(i, ok)
          BY <3>1, <4>3 DEF Lifecycle!Exit, ClaimMap
        <4> QED BY <4>4 DEF LifecycleStep, Lifecycle!Next, LivesOn
      <3> QED BY <3>2, <3>3
    <2>6. CASE \/ Serve \/ TickStarts \/ StatesRefreshed \/ StatesRefreshFailed
               \/ ReconcileDone \/ CandidatesFetched \/ DispatchSkipped \/ TickEnds
               \/ \E i \in Issues : CandidatePassedOver(i)
      <3>1. UNCHANGED <<running, retry>> /\ (loop # "idle" \/ Receive(Tick))
        BY <2>6 DEF Serve, TickStarts, StatesRefreshed, StatesRefreshFailed, ReconcileDone,
             CandidatesFetched, DispatchSkipped, TickEnds, CandidatePassedOver, claimVars
      <3> QED BY <3>1, NoReport, NoClaimChanges DEF SameClaim
    <2>7. ~(ServeRefused \/ OnStop \/ RaisesInHandler)
      BY RaisesEffect DEF ServeRefused, OnStop, LivesOn, Ended
    <2>8. CASE Environment
      BY <2>8, OthersLeaveTheClaims
    <2>9. ~ServiceOver
      BY DEF ServiceOver, LivesOn
    <2> QED BY <1>lives, <2>1, <2>2, <2>3, <2>4, <2>5, <2>6, <2>7, <2>8, <2>9
            DEF Next, EventLoop, RunTick
  <1> QED BY <1>ended, <1>ends, <1>lives DEF LivesOn

\* The orchestrator implements the claim lifecycle: every step of it, whatever
\* interleaves, moves at most one issue's claim along one documented transition, and a
\* worker's exit moves it as its result says.
THEOREM LifecycleImplemented == Spec => ImplementsLifecycle
  <1>1. Init => Lifecycle!Init
    BY LifecycleInit
  <1>2. Typed /\ ClaimedExactly /\ [Next]_vars
            => [~Ended /\ Lifecycle!Next]_<<[i \in Issues |-> ClaimOf(i)], NextReport, Ended, config.max>>
    BY LifecycleNext DEF LifecycleStep, ClaimMap
  <1> QED BY <1>1, <1>2, TypedAlways, ClaimsExact, PTL
          DEF Spec, ImplementsLifecycle, Lifecycle!Spec

-----------------------------------------------------------------------------
(* The dispatch limit.                                                     *)

\* The running issues are finitely many, and one more adds one at most.
LEMMA RunningCounted ==
    /\ IsFiniteSet(RunningIssues) /\ Cardinality(RunningIssues) \in Nat
    /\ \A S \in SUBSET RunningIssues : Cardinality(S) <= Cardinality(RunningIssues)
    /\ \A i \in Issues : Cardinality(RunningIssues \cup {i}) <= Cardinality(RunningIssues) + 1
  <1>1. IsFiniteSet(RunningIssues)
    BY FiniteAssumption, FS_Subset DEF RunningIssues
  <1>2. Cardinality(RunningIssues) \in Nat
    BY <1>1, FS_CardinalityType
  <1>3. ASSUME NEW S \in SUBSET RunningIssues
        PROVE  Cardinality(S) <= Cardinality(RunningIssues)
    BY <1>1, FS_Subset
  <1>4. ASSUME NEW i \in Issues
        PROVE  Cardinality(RunningIssues \cup {i}) <= Cardinality(RunningIssues) + 1
    <2>1. CASE i \in RunningIssues
      <3>1. Cardinality(RunningIssues \cup {i}) = Cardinality(RunningIssues)
        BY <1>1, <2>1, FS_AddElement
      <3> QED BY <1>2, <3>1
    <2>2. CASE i \notin RunningIssues
      <3>1. Cardinality(RunningIssues \cup {i}) = Cardinality(RunningIssues) + 1
        BY <1>1, <2>2, FS_AddElement
      <3> QED BY <1>2, <3>1
    <2> QED BY <2>1, <2>2
  <1> QED BY <1>1, <1>2, <1>3, <1>4

\* Only a dispatch starts a run: the poll's pass or the issue's retry.
LEMMA StartsByDispatch ==
    ASSUME Typed, [Next]_vars, NEW i \in Issues, running[i] = None, running'[i] # None
    PROVE  CandidateDispatched(i) \/ OnRetryTimer(i)
  <1>0. TypeOK
    BY DEF Typed
  <1>1. ASSUME NEW j \in Issues, j # i, NEW v, NEW a, NEW entries, DispatchIssue(j, v, a, entries)
        PROVE  running'[i] = running[i]
    BY <1>0, <1>1, RepresentativeIsElement
       DEF DispatchIssue, DispatchStarted, DispatchUnstarted, DispatchRefused, TypeOK
  <1>2. ASSUME NEW j \in Issues, j # i, CandidateDispatched(j) \/ OnRetryTimer(j)
        PROVE  running'[i] = running[i]
    BY <1>1, <1>2 DEF CandidateDispatched, OnRetryTimer, RetryChecked, claimVars
  <1>3. ASSUME NEW j \in Issues, ReconcileIssue(j) PROVE running'[i] = running[i] \/ running'[i] = None
    <2>1. running[j] # None
      BY <1>3 DEF ReconcileIssue, Typed, RefreshedAreRunning
    <2> QED BY <1>0, <1>3, <2>1
            DEF ReconcileIssue, TerminateRunningIssue, TerminationRefused, TypeOK
  <1>4. CASE \/ \E j \in Issues : StalledRunRetried(j)
             \/ \E w \in Workers, j \in Issues, ok \in BOOLEAN : OnWorkerExit(w, j, ok)
    BY <1>0, <1>4 DEF StalledRunRetried, OnWorkerExit, claimVars, TypeOK
  <1>5. CASE \/ Serve \/ ServeRefused \/ TickStarts \/ StatesRefreshed \/ StatesRefreshFailed
             \/ ReconcileDone \/ CandidatesFetched \/ DispatchSkipped \/ TickEnds \/ OnStop
             \/ (\E j \in Issues : CandidatePassedOver(j)) \/ Environment \/ ServiceOver
             \/ UNCHANGED vars
    BY <1>5 DEF Serve, ServeRefused, TickStarts, StatesRefreshed, StatesRefreshFailed,
       ReconcileDone, CandidatesFetched, DispatchSkipped, TickEnds, OnStop, CandidatePassedOver,
       Environment, WorkerEnds, RetryTimerFires, TickTimerFires, StopRequested, TrackerChanges,
       ServiceOver, claimVars, vars
  <1>6. ~RaisesInHandler
    BY <1>0, RaisesEffect
  <1> QED BY <1>2, <1>3, <1>4, <1>5, <1>6 DEF Next, EventLoop, RunTick

\* A step that ends the loop starts none.
LEMMA EndStartsNone ==
    ASSUME Typed, [Next]_vars, Ended \/ Ended'
    PROVE  RunningIssues' \subseteq RunningIssues
  <1> SUFFICES ASSUME NEW i \in Issues, running[i] = None, running'[i] # None PROVE FALSE
    BY DEF RunningIssues
  <1>1. CandidateDispatched(i) \/ OnRetryTimer(i)
    BY StartsByDispatch
  <1>2. UNCHANGED loop /\ loop \in {"dispatch", "idle"}
    BY <1>1 DEF CandidateDispatched, OnRetryTimer, Receive, RetryChecked, DispatchIssue,
           DispatchStarted, DispatchUnstarted, DispatchRefused, claimVars
  <1> QED BY <1>2 DEF Ended

\* A lifecycle step that starts a run takes a free slot, and any other starts none.
LEMMA LifecycleTakesFreeSlot ==
    ASSUME LifecycleStep, LivesOn
    PROVE  \/ RunningIssues' \subseteq RunningIssues
           \/ /\ Lifecycle!SlotFree
              /\ UNCHANGED config.max
              /\ \E i \in Issues : RunningIssues' = RunningIssues \cup {i}
  <1>0. /\ RunningIssues = {j \in Issues : ClaimMap[j].phase = "running"}
        /\ RunningIssues' = {j \in Issues : ClaimMap'[j].phase = "running"}
    BY DEF RunningIssues, ClaimMap, ClaimOf, LivesOn
  <1>1. CASE UNCHANGED ClaimMap
    BY <1>0, <1>1
  <1>2. CASE Lifecycle!Reload
    BY <1>0, <1>2 DEF Lifecycle!Reload, ClaimMap
  <1>3. ASSUME NEW i \in Issues, NEW c, Lifecycle!Becomes(i, c), c.phase # "running"
        PROVE  RunningIssues' \subseteq RunningIssues
    <2>1. ClaimMap' = [ClaimMap EXCEPT ![i] = c]
      BY <1>3 DEF Lifecycle!Becomes, ClaimMap
    <2> QED BY <1>0, <1>3, <2>1 DEF ClaimMap
  <1>4. ASSUME NEW i \in Issues, NEW a, Lifecycle!Becomes(i, Lifecycle!Running(a))
        PROVE  RunningIssues' = RunningIssues \cup {i} /\ UNCHANGED config.max
    <2>1. ClaimMap' = [ClaimMap EXCEPT ![i] = Lifecycle!Running(a)]
      BY <1>4 DEF Lifecycle!Becomes, ClaimMap
    <2>2. Lifecycle!Running(a).phase = "running"
      BY DEF Lifecycle!Running
    <2>3. /\ ClaimMap'[i].phase = "running"
          /\ \A j \in Issues \ {i} : ClaimMap'[j] = ClaimMap[j]
      BY <2>1, <2>2 DEF ClaimMap
    <2> QED BY <1>0, <1>4, <2>3 DEF Lifecycle!Becomes
  <1>5. /\ \A a : Lifecycle!RetryQueued(a).phase # "running"
        /\ Lifecycle!Unclaimed.phase # "running"
    BY DEF Lifecycle!RetryQueued, Lifecycle!Unclaimed
  <1>6. ASSUME NEW i \in Issues, Lifecycle!Dispatch(i)
        PROVE  \/ RunningIssues' \subseteq RunningIssues
               \/ /\ Lifecycle!SlotFree /\ UNCHANGED config.max
                  /\ RunningIssues' = RunningIssues \cup {i}
    BY <1>3, <1>4, <1>5, <1>6 DEF Lifecycle!Dispatch
  <1>7. ASSUME NEW i \in Issues, Lifecycle!Resume(i)
        PROVE  /\ Lifecycle!SlotFree /\ UNCHANGED config.max
               /\ RunningIssues' = RunningIssues \cup {i}
    BY <1>4, <1>7 DEF Lifecycle!Resume
  <1>8. ASSUME NEW i \in Issues,
               Lifecycle!Stall(i) \/ Lifecycle!Requeue(i) \/ Lifecycle!Release(i)
        PROVE  RunningIssues' \subseteq RunningIssues
    BY <1>3, <1>5, <1>8 DEF Lifecycle!Stall, Lifecycle!Requeue, Lifecycle!Release
  <1>9. ASSUME NEW i \in Issues, NEW ok \in BOOLEAN,
               Lifecycle!Exit(i, ok) \/ Lifecycle!ExitIgnored(i, ok)
        PROVE  RunningIssues' \subseteq RunningIssues
    BY <1>3, <1>5, <1>9 DEF Lifecycle!Exit, Lifecycle!ExitIgnored
  <1>10. ~Lifecycle!Over
    BY DEF Lifecycle!Over, LivesOn
  <1> QED BY <1>1, <1>2, <1>6, <1>7, <1>8, <1>9, <1>10 DEF LifecycleStep, Lifecycle!Next

\* A step that adds a run leaves no more than the limit allows.
LEMMA LimitStep ==
    ASSUME Typed, ClaimedExactly, [Next]_vars,
           Cardinality(RunningIssues') > Cardinality(RunningIssues)
    PROVE  Cardinality(RunningIssues') <= config'.max
  <1>1. LifecycleStep /\ TypeOK /\ TypeOK'
    BY LifecycleNext, TypedStep DEF Typed
  <1>2. ~(RunningIssues' \subseteq RunningIssues)
    <2> SUFFICES ASSUME RunningIssues' \subseteq RunningIssues PROVE FALSE
      OBVIOUS
    <2>1. Cardinality(RunningIssues') <= Cardinality(RunningIssues)
      BY RunningCounted
    <2>2. IsFiniteSet(RunningIssues')
      BY RunningCounted, FS_Subset
    <2>3. Cardinality(RunningIssues) \in Nat /\ Cardinality(RunningIssues') \in Nat
      BY <2>2, RunningCounted, FS_CardinalityType
    <2> QED BY <2>1, <2>3
  <1>lives. LivesOn
    BY <1>2, EndStartsNone DEF LivesOn
  <1>3. PICK i \in Issues : RunningIssues' = RunningIssues \cup {i}
    BY <1>1, <1>2, <1>lives, LifecycleTakesFreeSlot
  <1>4. AvailableWorkerSlots > 0 /\ config'.max = config.max
    BY <1>1, <1>2, <1>lives, LifecycleTakesFreeSlot, SlotFreeAgrees DEF LivesOn
  <1>5. /\ Cardinality(RunningIssues') <= Cardinality(RunningIssues) + 1
        /\ Cardinality(RunningIssues) \in Nat
    BY <1>3, RunningCounted
  <1>6. Cardinality(RunningIssues') \in Nat
    <2>1. IsFiniteSet(RunningIssues')
      BY <1>3, RunningCounted, FS_AddElement
    <2> QED BY <2>1, FS_CardinalityType
  <1>7. config.max \in Int
    BY <1>1, ConfigAssumption DEF TypeOK, Config
  <1> QED BY <1>4, <1>5, <1>6, <1>7 DEF AvailableWorkerSlots

\* No run is started beyond max_concurrent_agents, by the poll or by a retry, for any
\* number of issues and whatever the reloads did to the limit.
THEOREM LimitNeverExceeded == Spec => LimitRespected
  <1>1. Typed /\ ClaimedExactly /\ [Next]_vars =>
            [Cardinality(RunningIssues') > Cardinality(RunningIssues)
               => Cardinality(RunningIssues') <= config'.max]_vars
    BY LimitStep
  <1> QED BY <1>1, TypedAlways, ClaimsExact, PTL DEF Spec, LimitRespected

-----------------------------------------------------------------------------
(* The limits per state.  The poll's pass keeps them, and a retry does not  *)
(* look at them: it keeps them only where they bind no more than the whole. *)

\* The runs whose issue was last seen in state s.
RunsOfState(s) == {j \in RunningIssues : running[j].state = s}

\* SPEC 8.2-8.4 for every path that starts a run but the retry timer's.
PollRespectsStateLimit ==
    [][\A i \in Issues : running[i] = None /\ running'[i] # None /\ ~OnRetryTimer(i) =>
         Cardinality({j \in RunningIssues' : running'[j].state = running'[i].state})
           <= PerStateLimit(running'[i].state)]_vars

\* No state has a limit of its own below the limit of all runs.
StateLimitsAreLoose ==
    \A c \in Configs, s \in States : c.perState[s] = None \/ c.perState[s] >= c.max

\* The pass counts the runs of the candidate's state before it adds one.
LEMMA PassKeepsStateLimit ==
    ASSUME TypeOK, NEW i \in Issues, NEW CONSTANT s \in States, s = batch[i].state,
           CandidateDispatched(i), running'[i] # None
    PROVE  /\ running'[i].state = s
           /\ Cardinality(RunsOfState(s)') <= PerStateLimit(s)
  <1>1. /\ ShouldDispatch(i, batch[i]) /\ running[i] = None
        /\ DispatchIssue(i, batch[i], 0, retry)
    BY DEF CandidateDispatched, ShouldDispatch
  <1>2. PICK w \in Workers :
            running' = [running EXCEPT ![i] = [worker |-> w, attempt |-> 0,
                           state |-> s, root |-> config.root]]
    BY <1>1, RepresentativeIsElement
       DEF DispatchIssue, DispatchStarted, DispatchUnstarted, DispatchRefused, FreeWorkers
  <1>3. running'[i].state = s /\ \A j \in Issues \ {i} : running'[j] = running[j]
    BY <1>2 DEF TypeOK
  <1>4. RunsOfState(s)' = RunsOfState(s) \cup {i} /\ i \notin RunsOfState(s)
    BY <1>1, <1>3 DEF RunsOfState, RunningIssues
  <1>5. IsFiniteSet(RunsOfState(s))
    BY FiniteAssumption, FS_Subset DEF RunsOfState, RunningIssues
  <1>6. Cardinality(RunsOfState(s)) \in Nat
    BY <1>5, FS_CardinalityType
  <1>7. Cardinality(RunsOfState(s)') = Cardinality(RunsOfState(s)) + 1
    BY <1>4, <1>5, FS_AddElement
  <1>8. Cardinality(RunsOfState(s)) < PerStateLimit(s)
    BY <1>1 DEF ShouldDispatch, RunningCountForState, RunsOfState
  <1>9. PerStateLimit(s) \in Int
    BY ConfigAssumption DEF TypeOK, Config, PerStateLimit
  <1> QED BY <1>3, <1>6, <1>7, <1>8, <1>9

\* A run is started by the poll only while a slot of its state is free, whatever
\* interleaves and whatever reload changed the limits: the retry timer's dispatch, which
\* the run retry_state_limit refutes, is the only path that breaks SPEC 8.2-8.4.
THEOREM PollKeepsStateLimits == Spec => PollRespectsStateLimit
  <1>1. Typed /\ [Next]_vars =>
            [\A i \in Issues : running[i] = None /\ running'[i] # None /\ ~OnRetryTimer(i) =>
                Cardinality({j \in RunningIssues' : running'[j].state = running'[i].state})
                  <= PerStateLimit(running'[i].state)]_vars
    <2> SUFFICES ASSUME Typed, [Next]_vars, NEW i \in Issues, running[i] = None,
                        running'[i] # None, ~OnRetryTimer(i)
                 PROVE  Cardinality({j \in RunningIssues' : running'[j].state = running'[i].state})
                          <= PerStateLimit(running'[i].state)
      OBVIOUS
    <2>1. CandidateDispatched(i) /\ TypeOK
      BY StartsByDispatch DEF Typed
    <2>2. PICK s \in States : s = batch[i].state
      BY <2>1, StateAssumption DEF CandidateDispatched, ShouldDispatch
    <2> QED BY <2>1, <2>2, PassKeepsStateLimit DEF RunsOfState
  <1> QED BY <1>1, TypedAlways, PTL DEF Spec, PollRespectsStateLimit

\* Where no state is limited more than all runs are, SPEC 8.2-8.4 hold on both paths.
THEOREM LooseLimitsKept == ASSUME StateLimitsAreLoose PROVE Spec => StateLimitRespected
  <1>1. Typed /\ ClaimedExactly /\ [Next]_vars =>
            [\A i \in Issues : running[i] = None /\ running'[i] # None =>
                Cardinality({j \in RunningIssues' : running'[j].state = running'[i].state})
                  <= PerStateLimit(running'[i].state)]_vars
    <2> SUFFICES ASSUME Typed, ClaimedExactly, [Next]_vars, NEW i \in Issues,
                        running[i] = None, running'[i] # None
                 PROVE  Cardinality({j \in RunningIssues' : running'[j].state = running'[i].state})
                          <= PerStateLimit(running'[i].state)
      OBVIOUS
    <2> DEFINE same == {j \in RunningIssues' : running'[j].state = running'[i].state}
    <2>1. LifecycleStep /\ TypeOK /\ TypeOK' /\ UNCHANGED config
      <3>1. CandidateDispatched(i) \/ OnRetryTimer(i)
        BY StartsByDispatch
      <3> QED BY <3>1, LifecycleNext, TypedStep DEF Typed, CandidateDispatched, OnRetryTimer
    <2>2. i \in RunningIssues' /\ i \notin RunningIssues
      BY DEF RunningIssues
    <2>3. RunningIssues' = RunningIssues \cup {i}
      BY <2>1, <2>2, EndStartsNone, LifecycleTakesFreeSlot DEF LivesOn
    <2>4. Cardinality(RunningIssues') = Cardinality(RunningIssues) + 1
      BY <2>2, <2>3, RunningCounted, FS_AddElement
    <2>5. Cardinality(RunningIssues) \in Nat
      BY RunningCounted
    <2>6. Cardinality(RunningIssues') <= config'.max
      BY <2>4, <2>5, LimitStep
    <2>7. Cardinality(same) <= Cardinality(RunningIssues') /\ Cardinality(same) \in Nat
      <3>1. IsFiniteSet(RunningIssues') /\ same \in SUBSET RunningIssues'
        BY <2>3, RunningCounted, FS_AddElement
      <3> QED BY <3>1, FS_Subset, FS_CardinalityType
    <2>8. /\ config \in Configs /\ config.max \in Int
          /\ running'[i].state \in States
          /\ config.perState[running'[i].state] \in Int \cup {None}
      BY <2>1, ConfigAssumption DEF TypeOK, Config, RunningEntry
    <2>9. PerStateLimit(running'[i].state) >= config.max /\ PerStateLimit(running'[i].state) \in Int
      BY <2>8 DEF StateLimitsAreLoose, PerStateLimit
    <2> HIDE DEF same
    <2>10. Cardinality(same) <= PerStateLimit(running'[i].state)
      BY <2>1, <2>4, <2>5, <2>6, <2>7, <2>8, <2>9
    <2> QED BY <2>10 DEF same
  <1> QED BY <1>1, TypedAlways, ClaimsExact, PTL DEF Spec, StateLimitRespected

=============================================================================
