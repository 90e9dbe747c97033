----------------------- MODULE OrchestratorEventProofs -----------------------
(***************************************************************************)
(* Proofs of the properties of Orchestrator that relate the claim state to *)
(* the events, timers and threads still on their way: no slot leaks, ticks *)
(* form one chain, a retry is woken exactly once, the loop is never stuck  *)
(* and comes nearer to a stop; and when an issue has one thread at most,   *)
(* a tick never fails and a closed issue stays let go.                     *)
(***************************************************************************)
EXTENDS OrchestratorProofs, FiniteSetTheorems, WellFoundedInduction

-----------------------------------------------------------------------------
(* The queue.                                                              *)

\* Sending adds one event and keeps the others.
LEMMA SendQueues ==
    ASSUME events \in Seq(Event), NEW e \in Event, events' = Append(events, e)
    PROVE  /\ Queued(e)'
           /\ \A d : d # e => (Queued(d)' <=> Queued(d))
           /\ \A d : d # e => (QueuedOnce(d)' <=> QueuedOnce(d))
           /\ ~Queued(e) => QueuedOnce(e)'
  <1>1. /\ Len(events) \in Nat /\ Len(events') = Len(events) + 1
        /\ \A k \in 1 .. Len(events) : events'[k] = events[k]
        /\ events'[Len(events) + 1] = e
    BY AppendProperties, LenProperties
  <1>2. Queued(e)'
    BY <1>1 DEF Queued
  <1>3. ASSUME NEW d, d # e
        PROVE  /\ Queued(d)' <=> Queued(d)
               /\ QueuedOnce(d)' <=> QueuedOnce(d)
    BY <1>1, <1>3 DEF Queued, QueuedOnce
  <1>4. ~Queued(e) => QueuedOnce(e)'
    BY <1>1 DEF Queued, QueuedOnce
  <1> QED BY <1>2, <1>3, <1>4

\* Receiving takes the first event and keeps the others.
LEMMA ReceiveDequeues ==
    ASSUME events \in Seq(Event), NEW e, Receive(e)
    PROVE  /\ Queued(e)
           /\ \A d : d # e => (Queued(d)' <=> Queued(d))
           /\ \A d : Queued(d)' => Queued(d)
           /\ \A d : QueuedOnce(d) => QueuedOnce(d)'
           /\ QueuedOnce(e) => ~Queued(e)'
  <1>1. /\ Len(events) \in Nat /\ Len(events) >= 1 /\ Len(events') = Len(events) - 1
        /\ events[1] = e
        /\ \A k \in 1 .. Len(events') : events'[k] = events[k + 1]
    BY HeadTailProperties, LenProperties, EmptySeq DEF Receive
  <1>2. Queued(e)
    BY <1>1 DEF Queued
  <1>3. ASSUME NEW d, Queued(d)' PROVE Queued(d)
    <2>1. PICK k \in 1 .. Len(events') : events'[k] = d
      BY <1>3 DEF Queued
    <2>2. k + 1 \in 1 .. Len(events) /\ events[k + 1] = d
      BY <1>1, <2>1
    <2> QED BY <2>2 DEF Queued
  <1>4. ASSUME NEW d, d # e, Queued(d) PROVE Queued(d)'
    <2>1. PICK k \in 1 .. Len(events) : events[k] = d
      BY <1>4 DEF Queued
    <2>2. k # 1
      BY <1>1, <1>4, <2>1
    <2>3. k - 1 \in 1 .. Len(events') /\ events'[k - 1] = d
      BY <1>1, <2>1, <2>2
    <2> QED BY <2>3 DEF Queued
  <1>5. ASSUME NEW d, QueuedOnce(d) PROVE QueuedOnce(d)'
    <2> SUFFICES ASSUME NEW j \in 1 .. Len(events'), NEW k \in 1 .. Len(events'),
                        events'[j] = d, events'[k] = d
                 PROVE  j = k
      BY DEF QueuedOnce
    <2>1. j + 1 \in 1 .. Len(events) /\ k + 1 \in 1 .. Len(events)
      BY <1>1
    <2>2. j + 1 = k + 1
      BY <1>1, <1>5, <2>1 DEF QueuedOnce
    <2> QED BY <1>1, <2>2
  <1>6. ASSUME QueuedOnce(e), Queued(e)' PROVE FALSE
    <2>1. PICK k \in 1 .. Len(events') : events'[k] = e
      BY <1>6 DEF Queued
    <2>2. k + 1 \in 1 .. Len(events) /\ 1 \in 1 .. Len(events) /\ events[k + 1] = e
      BY <1>1, <2>1
    <2>3. k + 1 = 1
      BY <1>1, <1>6, <2>2 DEF QueuedOnce
    <2> QED BY <1>1, <2>3
  <1> QED BY <1>2, <1>3, <1>4, <1>5, <1>6

\* A queue left alone still holds what it held.
LEMMA QueueKept ==
    ASSUME UNCHANGED events
    PROVE  \A d : (Queued(d)' <=> Queued(d)) /\ (QueuedOnce(d)' <=> QueuedOnce(d))
  BY DEF Queued, QueuedOnce

\* Events of different kinds differ.
LEMMA KindsDiffer ==
    ASSUME NEW i, NEW j, NEW w, NEW ok
    PROVE  /\ Tick # Stop /\ Tick # RetryDue(i) /\ Tick # WorkerExit(w, i, ok)
           /\ Stop # RetryDue(i) /\ Stop # WorkerExit(w, i, ok)
           /\ RetryDue(j) # WorkerExit(w, i, ok)
           /\ RetryDue(i) = RetryDue(j) => i = j
  <1>1. /\ Tick.kind = "tick" /\ Stop.kind = "stop"
        /\ RetryDue(i).kind = "due" /\ RetryDue(j).kind = "due"
        /\ WorkerExit(w, i, ok).kind = "exit"
        /\ RetryDue(i).issue = i /\ RetryDue(j).issue = j
    BY DEF Tick, Stop, RetryDue, WorkerExit
  <1> QED BY <1>1

\* An exception takes no event but the one being handled off the queue.
LEMMA RaisesQueue ==
    ASSUME RaisesInHandler
    PROVE  \/ UNCHANGED events \/ Receive(Tick) \/ \E i \in Issues : Receive(RetryDue(i))
           \/ \E w \in Workers, i \in Issues, ok \in BOOLEAN : ExitRaises(w, i, ok)
  BY DEF RaisesInHandler, ReloadRaises, FetchRaises, NextTickRaises, StallRetryRaises,
         RemovalRaises, DispatchRaises, RetryRaises

LEMMA RaisesEnds == RaisesInHandler => loop' = "crashed"
  BY DEF RaisesInHandler, ReloadRaises, FetchRaises, NextTickRaises, StallRetryRaises,
         RemovalRaises, DispatchRaises, RetryRaises, ExitRaises, Raises

-----------------------------------------------------------------------------
(* The tick chain.  While the service has not been served, no tick is on    *)
(* its way: that is what makes the first one the only one.                 *)

NoTickBeforeServe == loop = "starting" => ~tickTimer /\ ~Queued(Tick)

Chain == SingleTickChain /\ NoTickBeforeServe

\* The chain holds before the service serves.
LEMMA ChainInit == Init => Chain
  BY EmptySeq DEF Init, Chain, SingleTickChain, NoTickBeforeServe, Serving, TickPhases,
                  Queued, QueuedOnce

\* Dispatching leaves the tick's timer alone and the loop where it was, or ends it.
LEMMA DispatchKeepsChain ==
    ASSUME NEW i, NEW view, NEW a, NEW entries, DispatchIssue(i, view, a, entries)
    PROVE  UNCHANGED <<loop, tickTimer>> \/ loop' = "crashed"
  BY DEF DispatchIssue, DispatchStarted, DispatchUnstarted, DispatchRefused

\* Every step keeps it: a tick is armed only where one was handled.
LEMMA ChainStep == TypeOK /\ Chain /\ [Next]_vars => Chain'
  <1> SUFFICES ASSUME TypeOK, Chain, [Next]_vars PROVE Chain'
    OBVIOUS
  <1> USE DEF Chain, SingleTickChain, NoTickBeforeServe, Serving, TickPhases
  <1>seq. events \in Seq(Event) /\ Tick \in Event /\ Stop \in Event
    BY DEF TypeOK, Event
  \* Steps within a tick, and the loop's end, touch neither queue nor timer.
  <1>within. ASSUME UNCHANGED <<events, tickTimer>>, loop \in TickPhases, loop' \in TickPhases
             PROVE  Chain'
    BY <1>within, QueueKept
  <1>ended. ASSUME loop' \in {"stopped", "crashed", "refused"} PROVE Chain'
    BY <1>ended
  <1>idle. ASSUME UNCHANGED events, loop \in TickPhases, loop' = "idle", tickTimer' = TRUE
           PROVE  Chain'
    BY <1>idle, QueueKept
  \* Another event is received, or sent.
  <1>received. ASSUME NEW e, Receive(e), e # Tick, loop' = loop, UNCHANGED tickTimer
               PROVE  Chain'
    BY <1>received, <1>seq, ReceiveDequeues DEF Receive
  <1>sent. ASSUME NEW e \in Event, e # Tick, events' = Append(events, e), loop' = loop,
                  UNCHANGED tickTimer
           PROVE  Chain'
    BY <1>sent, <1>seq, SendQueues
  <1>1. CASE Serve
    BY <1>1, <1>seq, SendQueues DEF Serve
  <1>2. CASE ServeRefused
    BY <1>2, <1>ended DEF ServeRefused
  <1>3. CASE TickStarts
    BY <1>3, <1>seq, ReceiveDequeues DEF TickStarts, Receive
  <1>4. CASE \/ StatesRefreshed \/ StatesRefreshFailed \/ ReconcileDone \/ CandidatesFetched
             \/ \E i \in Issues : StalledRunRetried(i) \/ CandidatePassedOver(i)
    BY <1>4, <1>within DEF StatesRefreshed, StatesRefreshFailed, ReconcileDone,
           CandidatesFetched, StalledRunRetried, CandidatePassedOver
  <1>5. CASE DispatchSkipped \/ TickEnds
    BY <1>5, <1>idle DEF DispatchSkipped, TickEnds
  <1>6. ASSUME NEW i \in Issues, ReconcileIssue(i) PROVE Chain'
    BY <1>6, <1>within, <1>ended DEF ReconcileIssue, TerminateRunningIssue, TerminationRefused
  <1>7. ASSUME NEW i \in Issues, CandidateDispatched(i) PROVE Chain'
    BY <1>7, <1>within, <1>ended, DispatchKeepsChain DEF CandidateDispatched
  <1>8. ASSUME NEW i \in Issues, OnRetryTimer(i) PROVE Chain'
    <2>1. UNCHANGED <<loop, tickTimer>> \/ loop' = "crashed"
      BY <1>8, DispatchKeepsChain DEF OnRetryTimer, RetryChecked
    <2>2. RetryDue(i) # Tick
      BY KindsDiffer
    <2> QED BY <1>8, <1>received, <1>ended, <2>1, <2>2 DEF OnRetryTimer
  <1>9. ASSUME NEW w \in Workers, NEW i \in Issues, NEW ok \in BOOLEAN, OnWorkerExit(w, i, ok)
        PROVE  Chain'
    BY <1>9, <1>received, KindsDiffer DEF OnWorkerExit
  <1>10. CASE OnStop
    BY <1>10, <1>ended DEF OnStop
  <1>11. ASSUME NEW w \in Workers, NEW ok \in BOOLEAN, WorkerEnds(w, ok) PROVE Chain'
    <2>1. WorkerExit(w, workers[w], ok) \in Event
      BY <1>11 DEF WorkerEnds, TypeOK, Event
    <2>2. WorkerExit(w, workers[w], ok) # Tick
      BY KindsDiffer
    <2> QED BY <1>11, <1>sent, <2>1, <2>2 DEF WorkerEnds
  <1>12. ASSUME NEW t \in Timers, RetryTimerFires(t) PROVE Chain'
    <2>1. RetryDue(armed[t]) \in Event
      BY <1>12 DEF RetryTimerFires, TypeOK, Event
    <2>2. RetryDue(armed[t]) # Tick
      BY KindsDiffer
    <2> QED BY <1>12, <1>sent, <2>1, <2>2 DEF RetryTimerFires
  <1>13. CASE TickTimerFires
    BY <1>13, <1>seq, SendQueues DEF TickTimerFires, TypeOK
  <1>14. CASE StopRequested
    BY <1>14, <1>sent, <1>seq, KindsDiffer DEF StopRequested
  <1>15. CASE (\E i \in Issues : TrackerChanges(i)) \/ ServiceOver \/ UNCHANGED vars
    BY <1>15, QueueKept DEF TrackerChanges, ServiceOver, vars
  <1>16. CASE RaisesInHandler
    BY <1>16, <1>ended, RaisesEffect
  <1> QED BY <1>1, <1>2, <1>3, <1>4, <1>5, <1>6, <1>7, <1>8, <1>9, <1>10, <1>11, <1>12,
             <1>13, <1>14, <1>15, <1>16
          DEF Next, EventLoop, RunTick, Environment

\* While the service serves, exactly one tick is in progress, queued or due by its
\* timer: early returns of the tick, failed calls and other events neither lose the
\* poll loop nor start a second one.
THEOREM TicksChained == Spec => []SingleTickChain
  <1>1. Chain => SingleTickChain
    BY DEF Chain
  <1>2. Typed => TypeOK
    BY DEF Typed
  <1> QED BY ChainInit, ChainStep, TypedAlways, <1>1, <1>2, PTL DEF Spec

-----------------------------------------------------------------------------
(* Slots.  NoLeakedSlot is inductive given the types: a fresh worker has no *)
(* thread and no exit queued, so no run in progress can be waiting for it.  *)

ExitsKept ==
    \A w \in Workers, i \in Issues, ok \in BOOLEAN :
        Queued(WorkerExit(w, i, ok)) => Queued(WorkerExit(w, i, ok))'

\* NoLeakedSlot, with the run's worker as a bound variable.
Slots == \A j \in Issues : \A v : running[j] # None /\ running[j].worker = v => HeldBy(v, j)

\* NoLeakedSlot in the form the proof uses, now and after a step.
LEMMA SlotsIsNoLeak == (NoLeakedSlot <=> Slots) /\ (NoLeakedSlot' <=> Slots')
  <1>1. NoLeakedSlot <=> Slots
    BY DEF NoLeakedSlot, Slots, HeldBy, RunningIssues
  <1>2. NoLeakedSlot' <=> Slots'
    BY DEF NoLeakedSlot, Slots, HeldBy, RunningIssues, Queued, WorkerExit
  <1> QED BY <1>1, <1>2

\* If threads and exits are kept and no run starts, no slot leaks.
LEMMA SlotsHeld ==
    ASSUME TypeOK, NoLeakedSlot, ExitsKept, UNCHANGED workers,
           \A j \in Issues : running'[j] # None =>
               running[j] # None /\ running'[j].worker = running[j].worker
    PROVE  NoLeakedSlot'
  <1> SUFFICES ASSUME NEW j \in Issues, NEW v, running'[j] # None, running'[j].worker = v
               PROVE  HeldBy(v, j)'
    BY SlotsIsNoLeak DEF Slots
  <1>1. v \in Workers /\ running[j] # None /\ running[j].worker = v
    BY DEF TypeOK, RunningEntry
  <1>2. HeldBy(v, j)
    BY <1>1, SlotsIsNoLeak DEF Slots
  <1> QED BY <1>1, <1>2 DEF HeldBy, ExitsKept

\* If threads, exits and runs are kept but for a thread started for the issue, or a
\* run started with it, no slot leaks.
LEMMA SlotTaken ==
    ASSUME TypeOK, NoLeakedSlot, ExitsKept, NEW i \in Issues,
           NEW w \in Representative(FreeWorkers), StartThread(w, i),
           \A j \in Issues : running'[j] # running[j] =>
               j = i /\ running'[j].worker = w
    PROVE  NoLeakedSlot'
  <1>1. w \in Workers /\ workers[w] = None /\ ~ExitQueued(w)
    BY RepresentativeIsElement DEF FreeWorkers
  <1>2. workers'[w] = i /\ \A v \in Workers \ {w} : workers'[v] = workers[v]
    BY <1>1 DEF StartThread, TypeOK
  <1> SUFFICES ASSUME NEW j \in Issues, NEW v, running'[j] # None, running'[j].worker = v
               PROVE  HeldBy(v, j)'
    BY SlotsIsNoLeak DEF Slots
  <1>3. CASE running'[j] # running[j]
    BY <1>2, <1>3 DEF HeldBy
  <1>4. CASE running'[j] = running[j]
    <2>1. v \in Workers
      BY <1>4 DEF TypeOK, RunningEntry
    <2>2. HeldBy(v, j)
      BY <1>4, SlotsIsNoLeak DEF Slots
    <2>3. v # w
      BY <1>1, <2>2, NoneAssumption DEF HeldBy, ExitQueued
    <2> QED BY <1>2, <2>1, <2>2, <2>3 DEF HeldBy, ExitsKept
  <1> QED BY <1>3, <1>4

\* A dispatch gives the run it starts the worker it started.
LEMMA DispatchLeaksNoSlot ==
    ASSUME TypeOK, NoLeakedSlot, ExitsKept, NEW i \in Issues, NEW view, NEW a, NEW entries,
           DispatchIssue(i, view, a, entries)
    PROVE  NoLeakedSlot'
  <1>1. CASE DispatchStarted(i, view, a, entries)
    <2>1. PICK w \in Representative(FreeWorkers) :
              /\ StartThread(w, i)
              /\ running' = [running EXCEPT ![i] = [worker |-> w, attempt |-> a,
                                state |-> view.state, root |-> config.root]]
      BY <1>1 DEF DispatchStarted
    <2>2. \A j \in Issues : running'[j] # running[j] => j = i /\ running'[j].worker = w
      BY <2>1 DEF TypeOK
    <2> QED BY <2>1, <2>2, SlotTaken
  <1>2. CASE DispatchUnstarted(i, a, entries)
    BY <1>2, SlotsHeld DEF DispatchUnstarted
  <1>3. CASE DispatchRefused(i, view, entries)
    <2>1. PICK w \in Representative(FreeWorkers) : StartThread(w, i)
      BY <1>3 DEF DispatchRefused
    <2> QED BY <1>3, <2>1, SlotTaken DEF DispatchRefused
  <1> QED BY <1>1, <1>2, <1>3 DEF DispatchIssue

\* No slot is taken initially.
LEMMA NoLeakInit == Init => NoLeakedSlot
  BY DEF Init, NoLeakedSlot, RunningIssues

\* Every step keeps the runs' workers alive or their exits queued.
LEMMA NoLeakStep == Typed /\ NoLeakedSlot /\ [Next]_vars => NoLeakedSlot'
  <1> SUFFICES ASSUME TypeOK, RefreshedAreRunning, NoLeakedSlot, [Next]_vars
               PROVE  NoLeakedSlot'
    BY DEF Typed
  <1>seq. events \in Seq(Event)
    BY DEF TypeOK
  <1>same. UNCHANGED events => ExitsKept
    BY QueueKept DEF ExitsKept
  <1>sent. ASSUME NEW e \in Event, events' = Append(events, e) PROVE ExitsKept
    BY <1>seq, <1>sent, SendQueues DEF ExitsKept
  <1>received. ASSUME NEW e, Receive(e),
                      \A w \in Workers, i \in Issues, ok \in BOOLEAN : e # WorkerExit(w, i, ok)
               PROVE  ExitsKept
    BY <1>seq, <1>received, ReceiveDequeues DEF ExitsKept
  <1>1. ASSUME NEW i \in Issues, StalledRunRetried(i) PROVE NoLeakedSlot'
    BY <1>1, <1>same, SlotsHeld DEF StalledRunRetried, TypeOK
  <1>2. ASSUME NEW i \in Issues, ReconcileIssue(i) PROVE NoLeakedSlot'
    <2>1. \/ running' = [running EXCEPT ![i] = None]
          \/ running' = [running EXCEPT ![i].state = batch[i].state]
      BY <1>2 DEF ReconcileIssue, TerminateRunningIssue, TerminationRefused
    <2>2. running[i] # None /\ running[i] \in RunningEntry
      BY <1>2 DEF ReconcileIssue, RefreshedAreRunning, TypeOK
    <2>3. [running[i] EXCEPT !.state = batch[i].state].worker = running[i].worker
      BY <2>2 DEF RunningEntry
    <2>4. \A j \in Issues : running'[j] # None =>
               running[j] # None /\ running'[j].worker = running[j].worker
      BY <2>1, <2>2, <2>3 DEF TypeOK
    <2> QED BY <1>2, <1>same, <2>4, SlotsHeld DEF ReconcileIssue
  <1>3. ASSUME NEW i \in Issues, CandidateDispatched(i) PROVE NoLeakedSlot'
    BY <1>3, <1>same, DispatchLeaksNoSlot DEF CandidateDispatched
  <1>4. ASSUME NEW i \in Issues, OnRetryTimer(i) PROVE NoLeakedSlot'
    <2>1. ExitsKept
      BY <1>4, <1>received, KindsDiffer DEF OnRetryTimer
    <2>2. CASE retry[i] = None
      BY <1>4, <2>1, <2>2, SlotsHeld DEF OnRetryTimer, claimVars
    <2>3. CASE retry[i] # None
      BY <1>4, <2>1, <2>3, SlotsHeld, DispatchLeaksNoSlot DEF OnRetryTimer, RetryChecked
    <2> QED BY <2>2, <2>3
  <1>5. ASSUME NEW w \in Workers, NEW i \in Issues, NEW ok \in BOOLEAN,
               OnWorkerExit(w, i, ok) \/ ExitRaises(w, i, ok)
        PROVE  NoLeakedSlot'
    <2> SUFFICES ASSUME NEW j \in Issues, NEW v, running'[j] # None, running'[j].worker = v
                 PROVE  HeldBy(v, j)'
      BY SlotsIsNoLeak DEF Slots
    <2>1. j # i /\ running'[j] = running[j]
      BY <1>5 DEF OnWorkerExit, ExitRaises, claimVars, TypeOK
    <2>2. ASSUME NEW good \in BOOLEAN PROVE WorkerExit(v, j, good) # WorkerExit(w, i, ok)
      <3>1. WorkerExit(v, j, good).issue = j /\ WorkerExit(w, i, ok).issue = i
        BY DEF WorkerExit
      <3> QED BY <2>1, <3>1
    <2>3. Receive(WorkerExit(w, i, ok)) /\ UNCHANGED workers
      BY <1>5 DEF OnWorkerExit, ExitRaises
    <2>4. \A good \in BOOLEAN : Queued(WorkerExit(v, j, good)) => Queued(WorkerExit(v, j, good))'
      BY <1>seq, <2>2, <2>3, ReceiveDequeues
    <2>5. HeldBy(v, j)
      BY <2>1, SlotsIsNoLeak DEF Slots
    <2> QED BY <2>3, <2>4, <2>5 DEF HeldBy
  <1>6. ASSUME NEW w \in Workers, NEW ok \in BOOLEAN, WorkerEnds(w, ok) PROVE NoLeakedSlot'
    <2>0. PICK i \in Issues : workers[w] = i
      BY <1>6 DEF WorkerEnds, TypeOK
    <2>1. WorkerExit(w, i, ok) \in Event /\ events' = Append(events, WorkerExit(w, i, ok))
      BY <1>6, <2>0 DEF WorkerEnds, Event
    <2>2. ExitsKept /\ Queued(WorkerExit(w, i, ok))'
      BY <1>seq, <1>sent, <2>1, SendQueues
    <2> SUFFICES ASSUME NEW j \in Issues, NEW v, running[j] # None, running[j].worker = v
                 PROVE  HeldBy(v, j)'
      BY <1>6, SlotsIsNoLeak DEF WorkerEnds, claimVars, Slots
    <2>3. v \in Workers /\ HeldBy(v, j)
      BY SlotsIsNoLeak DEF TypeOK, RunningEntry, Slots
    <2>4. CASE workers[v] = j /\ v = w
      BY <2>0, <2>2, <2>4 DEF HeldBy
    <2>5. CASE workers[v] = j /\ v # w
      BY <1>6, <2>3, <2>5 DEF WorkerEnds, TypeOK, HeldBy
    <2>6. CASE \E good \in BOOLEAN : Queued(WorkerExit(v, j, good))
      BY <2>2, <2>3, <2>6 DEF ExitsKept, HeldBy
    <2> QED BY <2>3, <2>4, <2>5, <2>6 DEF HeldBy
  <1>7. CASE \/ Serve \/ TickTimerFires \/ StopRequested
             \/ \E t \in Timers : RetryTimerFires(t)
    <2>1. ExitsKept
      BY <1>7, <1>sent
         DEF Serve, TickTimerFires, StopRequested, RetryTimerFires, Event, TypeOK
    <2> QED BY <1>7, <2>1, SlotsHeld
            DEF Serve, TickTimerFires, StopRequested, RetryTimerFires, claimVars
  <1>8. CASE TickStarts \/ OnStop
    <2>1. ExitsKept
      BY <1>8, <1>received, KindsDiffer DEF TickStarts, OnStop
    <2> QED BY <1>8, <2>1, SlotsHeld DEF TickStarts, OnStop, claimVars
  <1>9. CASE \/ ServeRefused \/ StatesRefreshed \/ StatesRefreshFailed \/ ReconcileDone
             \/ CandidatesFetched \/ DispatchSkipped \/ TickEnds
             \/ \E i \in Issues : CandidatePassedOver(i) \/ TrackerChanges(i)
             \/ ServiceOver \/ UNCHANGED vars
    BY <1>9, <1>same, SlotsHeld
       DEF ServeRefused, StatesRefreshed, StatesRefreshFailed, ReconcileDone, CandidatesFetched,
           DispatchSkipped, TickEnds, CandidatePassedOver, TrackerChanges, ServiceOver,
           claimVars, vars
  <1>10. CASE RaisesInHandler
    <2>1. \/ ExitsKept
          \/ \E w \in Workers, i \in Issues, ok \in BOOLEAN : ExitRaises(w, i, ok)
      BY <1>10, <1>same, <1>received, RaisesQueue, KindsDiffer
    <2>2. UNCHANGED workers /\ \A j \in Issues : running'[j] \in {running[j], None}
      BY <1>10, RaisesEffect
    <2>3. ExitsKept => NoLeakedSlot'
      BY <2>2, SlotsHeld
    <2> QED BY <1>5, <2>1, <2>3
  <1> QED BY <1>1, <1>2, <1>3, <1>4, <1>5, <1>6, <1>7, <1>8, <1>9, <1>10
          DEF Next, EventLoop, RunTick, Environment

\* Every run in `running` still has its own worker, alive or with its exit queued:
\* for any number of workers, and although a stopped worker lives on and its exit,
\* naming the issue alone, may end a later run of that issue.
THEOREM SlotsNeverLeak == Spec => []NoLeakedSlot
  BY NoLeakInit, NoLeakStep, TypedAlways, PTL DEF Spec

-----------------------------------------------------------------------------
(* Wake-ups.  RetryWakesOnce is inductive given the types and exact claims:  *)
(* whoever schedules a retry does so for an issue that has none.            *)

\* The wake-ups of issue j on their way are those there were.
DueKept(j) ==
    /\ Queued(RetryDue(j))' <=> Queued(RetryDue(j))
    /\ QueuedOnce(RetryDue(j)) => QueuedOnce(RetryDue(j))'

\* No wake-up of issue i is left: no timer and, after the step, no event.
Unwoken(i) == (\A t \in Timers : armed[t] # i) /\ ~Queued(RetryDue(i))'

\* A step that leaves retries, timers and due events alone keeps them matched.
LEMMA WakesKept ==
    ASSUME RetryWakesOnce, ~Ended, UNCHANGED <<retry, armed>>, \A j \in Issues : DueKept(j)
    PROVE  RetryWakesOnce'
  BY DEF RetryWakesOnce, RetryIssues, DueKept

\* An issue without wake-ups may be given a retry, or lose its entry.
LEMMA ScheduleWakes ==
    ASSUME TypeOK, RetryWakesOnce, ~Ended, NEW i \in Issues, NEW a \in Attempts,
           NEW entries \in [Issues -> RetryEntry \cup {None}], entries[i] = None,
           \A j \in Issues \ {i} : entries[j] = retry[j] /\ DueKept(j),
           Unwoken(i), ScheduleRetry(i, a, entries)
    PROVE  RetryWakesOnce'
  <1>1. PICK timer \in Timers :
            /\ armed' = [armed EXCEPT ![timer] = i]
            /\ retry' = [entries EXCEPT ![i] = [attempt |-> a, timer |-> timer]]
            /\ armed[timer] = None
            /\ \A j \in Issues \ {i} : entries[j] # None => entries[j].timer # timer
    <2> DEFINE live == [t \in Timers |-> IF entries[i] # None /\ entries[i].timer = t
                                        THEN None ELSE armed[t]]
               free == {t \in Timers : /\ live[t] = None
                                      /\ \A j \in Issues \ {i} :
                                            entries[j] # None => entries[j].timer # t}
    <2>1. live = armed
      BY DEF TypeOK
    <2>2. PICK timer \in Representative(free) :
              /\ armed' = [live EXCEPT ![timer] = i]
              /\ retry' = [entries EXCEPT ![i] = [attempt |-> a, timer |-> timer]]
      BY DEF ScheduleRetry
    <2>3. timer \in free
      BY <2>2, RepresentativeIsElement
    <2> HIDE DEF live
    <2> QED BY <2>1, <2>2, <2>3
  <1>2. /\ retry'[i] # None /\ retry'[i].timer = timer /\ armed'[timer] = i
        /\ \A j \in Issues \ {i} : retry'[j] = retry[j]
        /\ \A t \in Timers \ {timer} : armed'[t] = armed[t]
    BY <1>1, NoneAssumption DEF TypeOK, RetryEntry
  <1>3. ASSUME NEW j \in Issues, retry'[j] # None
        PROVE  armed'[retry'[j].timer] = j <=> ~Queued(RetryDue(j))'
    <2>1. CASE j = i
      BY <1>2, <2>1 DEF Unwoken
    <2>2. CASE j # i
      <3>1. retry'[j] = retry[j] /\ retry[j].timer # timer /\ retry[j].timer \in Timers
        BY <1>1, <1>2, <1>3, <2>2 DEF TypeOK, RetryEntry
      <3>2. armed'[retry[j].timer] = armed[retry[j].timer]
        BY <1>2, <3>1
      <3> QED BY <1>3, <2>2, <3>1, <3>2 DEF RetryWakesOnce, RetryIssues, DueKept
    <2> QED BY <2>1, <2>2
  <1>4. ASSUME NEW j \in Issues, Queued(RetryDue(j))'
        PROVE  retry'[j] # None /\ QueuedOnce(RetryDue(j))'
    <2>1. j # i
      BY <1>4 DEF Unwoken
    <2> QED BY <1>2, <1>4, <2>1 DEF RetryWakesOnce, DueKept
  <1>5. ASSUME NEW t \in Timers, armed'[t] # None
        PROVE  retry'[armed'[t]] # None /\ retry'[armed'[t]].timer = t
    <2>1. CASE t = timer
      BY <1>2, <2>1
    <2>2. CASE t # timer
      <3>1. armed'[t] = armed[t] /\ armed[t] \in Issues /\ armed[t] # i
        BY <1>2, <1>5, <2>2 DEF TypeOK, Unwoken
      <3> QED BY <1>2, <1>5, <3>1 DEF RetryWakesOnce
    <2> QED BY <2>1, <2>2
  <1> QED BY <1>3, <1>4, <1>5 DEF RetryWakesOnce, RetryIssues

\* An entry whose wake-up is gone may go with it.
LEMMA DropWakes ==
    ASSUME TypeOK, RetryWakesOnce, ~Ended, NEW i \in Issues,
           \A j \in Issues \ {i} : retry'[j] = retry[j] /\ DueKept(j),
           retry'[i] = None, UNCHANGED armed, Unwoken(i)
    PROVE  RetryWakesOnce'
  BY DEF RetryWakesOnce, RetryIssues, DueKept, Unwoken, TypeOK

\* A dispatch that queues a retry arms its timer, and touches no other.
LEMMA DispatchWakes ==
    ASSUME TypeOK, RetryWakesOnce, ~Ended, NEW i \in Issues, NEW view, NEW a \in Attempts,
           NEW entries \in [Issues -> RetryEntry \cup {None}], entries[i] = None,
           \A j \in Issues \ {i} : entries[j] = retry[j] /\ DueKept(j),
           Unwoken(i), DispatchIssue(i, view, a, entries)
    PROVE  RetryWakesOnce'
  <1>1. CASE DispatchStarted(i, view, a, entries)
    BY <1>1, DropWakes DEF DispatchStarted
  <1>2. CASE DispatchUnstarted(i, a, entries)
    BY <1>2, NextAttemptTyped, ScheduleWakes DEF DispatchUnstarted
  <1>3. CASE DispatchRefused(i, view, entries)
    BY <1>3 DEF DispatchRefused, RetryWakesOnce, Ended
  <1> QED BY <1>1, <1>2, <1>3 DEF DispatchIssue

\* There is no retry initially.
LEMMA WakesInit == Init => RetryWakesOnce
  BY EmptySeq DEF Init, RetryWakesOnce, RetryIssues, Queued, QueuedOnce

\* Every step keeps each retry and its wake-up together.
LEMMA WakesStep == Typed /\ ClaimedExactly /\ RetryWakesOnce /\ [Next]_vars => RetryWakesOnce'
  <1> SUFFICES ASSUME TypeOK, RefreshedAreRunning, ClaimedExactly, RetryWakesOnce,
                      [Next]_vars
               PROVE  RetryWakesOnce'
    BY DEF Typed
  <1>seq. events \in Seq(Event) /\ retry \in [Issues -> RetryEntry \cup {None}]
    BY DEF TypeOK
  <1>same. ASSUME UNCHANGED events, NEW j \in Issues PROVE DueKept(j)
    BY <1>same, QueueKept DEF DueKept
  <1>sent. ASSUME NEW e \in Event, events' = Append(events, e), NEW j \in Issues,
                  RetryDue(j) # e
           PROVE  DueKept(j)
    BY <1>seq, <1>sent, SendQueues DEF DueKept
  <1>received. ASSUME NEW e, Receive(e), NEW j \in Issues, RetryDue(j) # e PROVE DueKept(j)
    BY <1>seq, <1>received, ReceiveDequeues DEF DueKept
  <1>ended. Ended' => RetryWakesOnce'
    BY DEF RetryWakesOnce
  \* An issue without a retry entry has no wake-up.
  <1>fresh. ASSUME NEW i \in Issues, ~Ended, retry[i] = None, DueKept(i) PROVE Unwoken(i)
    BY <1>fresh, NoneAssumption DEF RetryWakesOnce, DueKept, Unwoken
  <1>1. ASSUME NEW i \in Issues, StalledRunRetried(i) PROVE RetryWakesOnce'
    <2>1. ~Ended /\ retry[i] = None
      BY <1>1 DEF StalledRunRetried, Ended, ClaimedExactly, RunningIssues, RetryIssues
    <2>2. (\A j \in Issues : DueKept(j)) /\ Unwoken(i)
      BY <1>1, <1>same, <1>fresh, <2>1 DEF StalledRunRetried
    <2>3. NextAttempt(running[i].attempt) \in Attempts
      BY <1>1, RunningAttemptTyped, NextAttemptTyped DEF StalledRunRetried
    <2> QED BY <1>1, <1>seq, <2>1, <2>2, <2>3, ScheduleWakes DEF StalledRunRetried
  <1>2. ASSUME NEW i \in Issues, CandidateDispatched(i) PROVE RetryWakesOnce'
    <2>1. ~Ended /\ retry[i] = None
      BY <1>2 DEF CandidateDispatched, ShouldDispatch, Ended, ClaimedExactly, RetryIssues
    <2>2. (\A j \in Issues : DueKept(j)) /\ Unwoken(i)
      BY <1>2, <1>same, <1>fresh, <2>1 DEF CandidateDispatched
    <2>3. 0 \in Attempts
      BY AttemptAssumption DEF Attempts
    <2> QED BY <1>2, <1>seq, <2>1, <2>2, <2>3, DispatchWakes DEF CandidateDispatched
  <1>3. ASSUME NEW i \in Issues, OnRetryTimer(i) PROVE RetryWakesOnce'
    <2>1. ~Ended /\ Receive(RetryDue(i)) /\ Queued(RetryDue(i))
      BY <1>3, <1>seq, ReceiveDequeues DEF OnRetryTimer, Receive, Ended
    <2>2. retry[i] # None /\ QueuedOnce(RetryDue(i))
      BY <2>1 DEF RetryWakesOnce
    <2>3. ASSUME NEW j \in Issues \ {i} PROVE DueKept(j)
      BY <1>received, <2>1, KindsDiffer
    <2>4. Unwoken(i)
      <3>1. ~Queued(RetryDue(i))'
        BY <1>seq, <2>1, <2>2, ReceiveDequeues
      <3>2. armed[retry[i].timer] # i
        BY <2>1, <2>2 DEF RetryWakesOnce, RetryIssues
      <3>3. ASSUME NEW t \in Timers, armed[t] = i PROVE FALSE
        BY <2>1, <3>2, <3>3, NoneAssumption DEF RetryWakesOnce
      <3> QED BY <3>1, <3>3 DEF Unwoken
    <2> DEFINE a == retry[i].attempt
               entries == [retry EXCEPT ![i] = None]
    <2>5. RetryChecked(i, a, entries)
      BY <1>3, <2>2 DEF OnRetryTimer
    <2>6. /\ a \in Attempts /\ entries \in [Issues -> RetryEntry \cup {None}]
          /\ entries[i] = None /\ \A j \in Issues \ {i} : entries[j] = retry[j]
      BY <2>2, RetryAttemptTyped DEF TypeOK
    <2>7. NextAttempt(a) \in Attempts
      BY <2>6, NextAttemptTyped
    <2> HIDE DEF a, entries
    <2>8. CASE ScheduleRetry(i, NextAttempt(a), entries)
      BY <2>1, <2>3, <2>4, <2>6, <2>7, <2>8, ScheduleWakes
    <2>9. CASE retry' = entries /\ UNCHANGED armed
      BY <2>1, <2>3, <2>4, <2>6, <2>9, DropWakes
    <2>10. CASE DispatchIssue(i, tracker[i], a, entries)
      BY <2>1, <2>3, <2>4, <2>6, <2>10, DispatchWakes
    <2> QED BY <2>5, <2>8, <2>9, <2>10 DEF RetryChecked
  <1>4. ASSUME NEW w \in Workers, NEW i \in Issues, NEW ok \in BOOLEAN, OnWorkerExit(w, i, ok)
        PROVE  RetryWakesOnce'
    <2>1. ~Ended /\ \A j \in Issues : DueKept(j)
      BY <1>4, <1>received, KindsDiffer DEF OnWorkerExit, Receive, Ended
    <2>2. CASE running[i] = None
      BY <1>4, <2>1, <2>2, WakesKept DEF OnWorkerExit, claimVars
    <2>3. CASE running[i] # None
      <3> DEFINE a == IF ok THEN 1 ELSE NextAttempt(running[i].attempt)
      <3>1. a \in Attempts
        BY <2>3, RunningAttemptTyped, NextAttemptTyped
      <3>2. ScheduleRetry(i, a, retry)
        BY <1>4, <2>3 DEF OnWorkerExit
      <3>3. retry[i] = None /\ Unwoken(i)
        BY <1>fresh, <2>1, <2>3 DEF ClaimedExactly, RunningIssues, RetryIssues
      <3> HIDE DEF a
      <3> QED BY <1>seq, <2>1, <3>1, <3>2, <3>3, ScheduleWakes
    <2> QED BY <2>2, <2>3
  <1>5. ASSUME NEW t \in Timers, RetryTimerFires(t) PROVE RetryWakesOnce'
    <2>1. PICK i \in Issues : armed[t] = i
      BY <1>5 DEF RetryTimerFires, TypeOK
    <2>2. /\ ~Ended /\ UNCHANGED retry /\ armed' = [armed EXCEPT ![t] = None]
          /\ RetryDue(i) \in Event /\ events' = Append(events, RetryDue(i))
      BY <1>5, <2>1 DEF RetryTimerFires, Event
    <2>3. retry[i] # None /\ retry[i].timer = t /\ ~Queued(RetryDue(i))
      BY <2>1, <2>2, NoneAssumption DEF RetryWakesOnce, RetryIssues
    <2>4. Queued(RetryDue(i))' /\ QueuedOnce(RetryDue(i))'
      BY <1>seq, <2>2, <2>3, SendQueues
    <2>5. ASSUME NEW j \in Issues \ {i} PROVE DueKept(j)
      BY <1>sent, <2>2, KindsDiffer
    <2>6. armed'[t] = None /\ \A u \in Timers \ {t} : armed'[u] = armed[u]
      BY <2>2 DEF TypeOK
    <2>7. ASSUME NEW j \in Issues, retry[j] # None
          PROVE  armed'[retry[j].timer] = j <=> ~Queued(RetryDue(j))'
      <3>1. CASE j = i
        BY <2>3, <2>4, <2>6, <3>1, NoneAssumption
      <3>2. CASE j # i
        <4>1. retry[j].timer \in Timers
          BY <2>7 DEF TypeOK, RetryEntry
        <4>2. armed[retry[j].timer] = j <=> ~Queued(RetryDue(j))
          BY <2>2, <2>7 DEF RetryWakesOnce, RetryIssues
        <4>3. armed'[retry[j].timer] = j <=> armed[retry[j].timer] = j
          BY <2>1, <2>6, <3>2, <4>1, NoneAssumption
        <4> QED BY <2>5, <3>2, <4>2, <4>3 DEF DueKept
      <3> QED BY <3>1, <3>2
    <2>8. ASSUME NEW j \in Issues, Queued(RetryDue(j))'
          PROVE  retry[j] # None /\ QueuedOnce(RetryDue(j))'
      BY <2>2, <2>3, <2>4, <2>5, <2>8 DEF RetryWakesOnce, DueKept
    <2> QED BY <2>2, <2>6, <2>7, <2>8 DEF RetryWakesOnce, RetryIssues
  <1>6. ASSUME NEW w \in Workers, NEW ok \in BOOLEAN, WorkerEnds(w, ok) PROVE RetryWakesOnce'
    <2>1. WorkerExit(w, workers[w], ok) \in Event
      BY <1>6 DEF WorkerEnds, TypeOK, Event
    <2>2. \A j \in Issues : DueKept(j)
      BY <1>6, <1>sent, <2>1, KindsDiffer DEF WorkerEnds
    <2> QED BY <1>6, <2>2, WakesKept DEF WorkerEnds, claimVars
  <1>7. CASE Serve \/ TickTimerFires \/ StopRequested
    <2>1. ~Ended /\ \A j \in Issues : DueKept(j)
      BY <1>7, <1>sent, KindsDiffer DEF Serve, TickTimerFires, StopRequested, Event, Ended
    <2> QED BY <1>7, <2>1, WakesKept DEF Serve, TickTimerFires, StopRequested, claimVars
  <1>8. CASE TickStarts
    BY <1>8, <1>received, KindsDiffer, WakesKept DEF TickStarts, Receive, Ended, claimVars
  <1>9. CASE ServeRefused \/ OnStop
    BY <1>9, <1>ended DEF ServeRefused, OnStop, Ended
  <1>10. ASSUME NEW i \in Issues, ReconcileIssue(i) PROVE RetryWakesOnce'
    <2>1. Ended' \/ UNCHANGED <<retry, armed>>
      BY <1>10 DEF ReconcileIssue, TerminateRunningIssue, TerminationRefused, Ended
    <2> QED BY <1>10, <1>same, <1>ended, <2>1, WakesKept DEF ReconcileIssue, Ended
  <1>11. CASE \/ StatesRefreshed \/ StatesRefreshFailed \/ ReconcileDone \/ CandidatesFetched
              \/ DispatchSkipped \/ TickEnds \/ \E i \in Issues : CandidatePassedOver(i)
    BY <1>11, <1>same, WakesKept
       DEF StatesRefreshed, StatesRefreshFailed, ReconcileDone, CandidatesFetched,
           DispatchSkipped, TickEnds, CandidatePassedOver, claimVars, Ended
  <1>12. CASE (\E i \in Issues : TrackerChanges(i)) \/ ServiceOver \/ UNCHANGED vars
    <2>1. UNCHANGED <<events, retry, armed, loop>>
      BY <1>12 DEF TrackerChanges, ServiceOver, claimVars, vars
    <2> QED BY <1>same, <1>ended, <2>1, WakesKept DEF Ended
  <1>13. CASE RaisesInHandler
    BY <1>13, <1>ended, RaisesEffect DEF Ended
  <1> QED BY <1>1, <1>2, <1>3, <1>4, <1>5, <1>6, <1>7, <1>8, <1>9, <1>10, <1>11, <1>12, <1>13
          DEF Next, EventLoop, RunTick, Environment

\* While the loop lives every queued retry is woken exactly once, by its own timer or
\* by one due event: a retry cancelled while its event waits in the queue is neither
\* handled twice nor forgotten.
THEOREM RetriesWoken == Spec => []RetryWakesOnce
  BY WakesInit, WakesStep, TypedAlways, ClaimsExact, PTL DEF Spec

-----------------------------------------------------------------------------
(* The loop never comes to a stand.  The guards of EventLoop, to which      *)
(* FairSpec is fair, as state predicates: what the handler of the next     *)
(* event needs is an identity for a retry timer, if it schedules one.      *)

CanSchedule(i, entries) ==
    \E t \in Timers :
        /\ armed[t] = None \/ (entries[i] # None /\ entries[i].timer = t)
        /\ \A j \in Issues \ {i} : entries[j] # None => entries[j].timer # t

HandlerCanGoOn(e) ==
    \/ e \in {Tick, Stop}
    \/ \E i \in Issues :
        /\ e = RetryDue(i)
        /\ retry[i] # None => CanSchedule(i, [retry EXCEPT ![i] = None])
    \/ \E w \in Workers, i \in Issues, ok \in BOOLEAN :
        /\ e = WorkerExit(w, i, ok)
        /\ running[i] # None => CanSchedule(i, retry)

LoopCanGoOn ==
    \/ loop \in {"starting", "stalls", "refresh", "fetch"}
    \/ loop = "idle" /\ events # << >> /\ HandlerCanGoOn(Head(events))
    \/ /\ loop = "dispatch"
       /\ \/ AvailableWorkerSlots <= 0
          \/ \A i \in Issues : batch[i] = None
          \/ \E i \in Issues : FirstCandidate(i) /\ CanSchedule(i, retry)

\* A loop that has not ended can go on, or waits for a tick whose timer is armed.
LoopNeverStuck == ~Ended => LoopCanGoOn \/ (loop = "idle" /\ tickTimer)

\* The retries of the other issues leave a timer.
LEMMA TimerLeft ==
    ASSUME NEW i \in Issues, NEW entries
    PROVE  \E t \in Timers : \A j \in Issues \ {i} : entries[j] # None => entries[j].timer # t
  <1> SUFFICES ASSUME \A t \in Timers : \E j \in Issues \ {i} :
                          entries[j] # None /\ entries[j].timer = t
               PROVE  FALSE
    OBVIOUS
  <1> DEFINE f == [t \in Timers |->
                      CHOOSE j \in Issues \ {i} : entries[j] # None /\ entries[j].timer = t]
  <1>1. f \in [Timers -> Issues \ {i}] /\ \A t \in Timers : entries[f[t]].timer = t
    OBVIOUS
  <1>2. /\ IsFiniteSet(Timers) /\ IsFiniteSet(Issues \ {i})
        /\ Cardinality(Issues \ {i}) = Cardinality(Issues) - 1
        /\ Cardinality(Issues) \in Nat /\ Cardinality(Timers) \in Nat
    BY FiniteAssumption, TimerAssumption, FS_RemoveElement, FS_CardinalityType
  <1>3. Cardinality(Issues \ {i}) < Cardinality(Timers)
    BY <1>2, TimerAssumption
  <1> HIDE DEF f
  <1>4. \E x, y \in Timers : x # y /\ f[x] = f[y]
    BY <1>1, <1>2, <1>3, FS_PigeonHole
  <1> QED BY <1>1, <1>4

\* So a retry can be scheduled: an armed timer belongs to an entry.
LEMMA ScheduleCanGoOn ==
    ASSUME TypeOK, RetryWakesOnce, ~Ended, NEW i \in Issues
    PROVE  /\ CanSchedule(i, retry)
           /\ Queued(RetryDue(i)) => CanSchedule(i, [retry EXCEPT ![i] = None])
  <1>1. \A t \in Timers : armed[t] # None =>
            armed[t] \in Issues /\ retry[armed[t]] # None /\ retry[armed[t]].timer = t
    BY DEF TypeOK, RetryWakesOnce
  <1>2. CanSchedule(i, retry)
    <2>1. PICK t \in Timers : \A j \in Issues \ {i} : retry[j] # None => retry[j].timer # t
      BY TimerLeft
    <2> QED BY <1>1, <2>1 DEF CanSchedule
  <1>3. ASSUME Queued(RetryDue(i)) PROVE CanSchedule(i, [retry EXCEPT ![i] = None])
    <2> DEFINE entries == [retry EXCEPT ![i] = None]
    <2>1. \A j \in Issues \ {i} : entries[j] = retry[j]
      BY DEF TypeOK
    <2>2. PICK t \in Timers : \A j \in Issues \ {i} : entries[j] # None => entries[j].timer # t
      BY TimerLeft
    <2>3. retry[i] # None /\ armed[retry[i].timer] # i
      BY <1>3 DEF RetryWakesOnce, RetryIssues
    <2>4. armed[t] = None
      BY <1>1, <2>1, <2>2, <2>3
    <2> QED BY <2>2, <2>4 DEF CanSchedule
  <1> QED BY <1>2, <1>3

\* Some issue of the batch comes first: of the sets of issues ranked below one of
\* the batch, which are finite, a smallest one is empty.
LEMMA SomeFirst ==
    ASSUME NEW k \in Issues, batch[k] # None
    PROVE  \E i \in Issues : FirstCandidate(i)
  <1> DEFINE below(i) == {j \in Issues : batch[j] # None /\ Rank[j] < Rank[i]}
             sets == {below(i) : i \in {j \in Issues : batch[j] # None}}
  <1>1. sets \subseteq SUBSET Issues /\ sets # {}
    OBVIOUS
  <1>2. IsWellFoundedOn(StrictSubsetOrdering(Issues), SUBSET Issues)
    BY FiniteAssumption, FS_FiniteSubsetsOfFinite, FS_StrictSubsetOrderingWellFounded
  <1> HIDE DEF sets
  <1>3. \E S \in sets : \A T \in sets : ~(<<T, S>> \in StrictSubsetOrdering(Issues))
    BY <1>1, <1>2, WFMin
  <1>4. PICK i \in Issues : /\ batch[i] # None
                            /\ \A j \in Issues : batch[j] # None =>
                                  ~(<<below(j), below(i)>> \in StrictSubsetOrdering(Issues))
    BY <1>3 DEF sets
  <1>5. ASSUME NEW j \in Issues, batch[j] # None PROVE Rank[i] <= Rank[j]
    <2> SUFFICES ASSUME Rank[j] < Rank[i] PROVE FALSE
      BY RankAssumption
    <2>1. below(j) \subseteq below(i) /\ j \in below(i) /\ j \notin below(j)
      BY <1>5, RankAssumption
    <2>2. <<below(j), below(i)>> \in StrictSubsetOrdering(Issues)
      BY <2>1 DEF StrictSubsetOrdering
    <2> QED BY <1>4, <1>5, <2>2
  <1> QED BY <1>4, <1>5 DEF FirstCandidate

\* The loop never waits for what does not come: in every state it can go on, for no
\* handler lacks a retry timer and no dispatch a first candidate, or the timer of the next
\* tick runs.  Of TicksRecur and StopHonoured this is the part without fairness.
THEOREM LoopGoesOn == Spec => []LoopNeverStuck
  <1>1. ASSUME TypeOK, SingleTickChain, RetryWakesOnce PROVE LoopNeverStuck
    <2> SUFFICES ASSUME ~Ended, ~(loop = "idle" /\ tickTimer) PROVE LoopCanGoOn
      BY DEF LoopNeverStuck
    <2>1. loop \in TickPhases \cup {"starting", "idle"}
      BY <1>1 DEF TypeOK, Ended
    <2>2. CASE loop \in {"starting", "stalls", "refresh", "fetch"}
      BY <2>2 DEF LoopCanGoOn
    <2>3. CASE loop = "idle"
      <3>1. Queued(Tick)
        BY <1>1, <2>3 DEF SingleTickChain, Serving
      <3>2. events # << >> /\ Head(events) \in Event /\ Queued(Head(events))
        <4>1. events \in Seq(Event) /\ Len(events) \in Nat /\ Len(events) >= 1
          BY <1>1, <3>1, LenProperties DEF TypeOK, Queued
        <4>2. events # << >> /\ Head(events) = events[1] /\ 1 \in 1 .. Len(events)
          BY <4>1, EmptySeq, HeadTailProperties
        <4> QED BY <4>1, <4>2, ElementOfSeq DEF Queued
      <3>3. HandlerCanGoOn(Head(events))
        BY <1>1, <3>2, ScheduleCanGoOn DEF Event, HandlerCanGoOn
      <3> QED BY <2>3, <3>2, <3>3 DEF LoopCanGoOn
    <2>4. CASE loop = "dispatch"
      BY <1>1, <2>4, SomeFirst, ScheduleCanGoOn DEF LoopCanGoOn
    <2> QED BY <2>1, <2>2, <2>3, <2>4 DEF TickPhases
  <1>2. Typed => TypeOK
    BY DEF Typed
  <1> QED BY <1>1, <1>2, TypedAlways, TicksChained, RetriesWoken, PTL

-----------------------------------------------------------------------------
(* A stop comes nearer.  What the loop does before it receives the k-th     *)
(* event: the steps left in the tick at hand, and for each event ahead no   *)
(* more than a whole tick takes.                                           *)

InBatch == {i \in Issues : batch[i] # None}

TickSteps ==
    CASE loop = "starting" -> 1
      [] loop = "stalls"   -> Cardinality(RunningIssues) + 2 * Cardinality(Issues) + 4
      [] loop = "refresh"  -> Cardinality(InBatch) + Cardinality(Issues) + 3
      [] loop = "fetch"    -> Cardinality(Issues) + 2
      [] loop = "dispatch" -> Cardinality(InBatch) + 1
      [] OTHER -> 0

MostTickSteps  == 3 * Cardinality(Issues) + 5
StepsBefore(k) == k * MostTickSteps + TickSteps
StopAt(k)      == k \in 1 .. Len(events) /\ events[k] = Stop

\* Each step of the loop ends it or brings it nearer to a stop that is queued, and
\* nobody else's step puts anything in front of the stop or loses it.
StopStep ==
    \A k \in Nat : StopAt(k) /\ ~Ended =>
        /\ EventLoop => Ended' \/ \E n \in 1 .. k : StopAt(n)' /\ StepsBefore(n)' < StepsBefore(k)
        /\ ~EventLoop => StopAt(k)' /\ StepsBefore(k)' = StepsBefore(k)
StopComesNearer == [][StopStep]_vars

TicksShort == TickSteps \in 0 .. MostTickSteps - 1

\* The sets counted are no larger than that of the issues.
LEMMA CountsBounded ==
    /\ Cardinality(Issues) \in Nat
    /\ Cardinality(RunningIssues) \in 0 .. Cardinality(Issues)
    /\ IsFiniteSet(InBatch) /\ Cardinality(InBatch) \in 0 .. Cardinality(Issues)
  <1>1. Cardinality(Issues) \in Nat
    BY FiniteAssumption, FS_CardinalityType
  <1>2. ASSUME NEW S \in SUBSET Issues
        PROVE  IsFiniteSet(S) /\ Cardinality(S) \in 0 .. Cardinality(Issues)
    BY <1>1, FiniteAssumption, FS_Subset, FS_CardinalityType
  <1> QED BY <1>1, <1>2 DEF RunningIssues, InBatch

\* No tick takes more steps than the bound.
LEMMA TickBounded == TicksShort
  BY CountsBounded DEF TicksShort, TickSteps, MostTickSteps

\* Taking an issue out of the batch, or out of the runs.
LEMMA OneLess ==
    ASSUME TypeOK, NEW i \in Issues
    PROVE  /\ batch[i] # None /\ batch' = [batch EXCEPT ![i] = None] =>
                 Cardinality(InBatch') = Cardinality(InBatch) - 1
           /\ running[i] # None /\ running' = [running EXCEPT ![i] = None] =>
                 Cardinality(RunningIssues') = Cardinality(RunningIssues) - 1
  <1>1. ASSUME batch[i] # None, batch' = [batch EXCEPT ![i] = None]
        PROVE  Cardinality(InBatch') = Cardinality(InBatch) - 1
    <2>1. InBatch' = InBatch \ {i} /\ i \in InBatch
      BY <1>1 DEF InBatch, TypeOK
    <2> QED BY <2>1, CountsBounded, FS_RemoveElement
  <1>2. ASSUME running[i] # None, running' = [running EXCEPT ![i] = None]
        PROVE  Cardinality(RunningIssues') = Cardinality(RunningIssues) - 1
    <2>1. RunningIssues' = RunningIssues \ {i} /\ i \in RunningIssues
      BY <1>2 DEF RunningIssues, TypeOK
    <2>2. IsFiniteSet(RunningIssues)
      BY FiniteAssumption, FS_Subset DEF RunningIssues
    <2> QED BY <2>1, <2>2, FS_RemoveElement
  <1> QED BY <1>1, <1>2

\* A step within a tick leaves fewer to its end, or ends the loop.
LEMMA TickGoesOn ==
    ASSUME TypeOK, RunTick, ~TickStarts
    PROVE  UNCHANGED events /\ (Ended' \/ TickSteps' < TickSteps)
  <1>n. /\ Cardinality(Issues) \in Nat
        /\ Cardinality(RunningIssues) \in Nat /\ Cardinality(RunningIssues) <= Cardinality(Issues)
        /\ Cardinality(InBatch) \in Nat /\ Cardinality(InBatch) <= Cardinality(Issues)
        /\ Cardinality(RunningIssues') \in Nat
        /\ Cardinality(InBatch') \in Nat /\ Cardinality(InBatch') <= Cardinality(Issues)
    <2>1. ASSUME NEW S \in SUBSET Issues
          PROVE  Cardinality(S) \in Nat /\ Cardinality(S) <= Cardinality(Issues)
      BY FiniteAssumption, FS_Subset, FS_CardinalityType
    <2>2. RunningIssues' \in SUBSET Issues /\ InBatch' \in SUBSET Issues
      BY DEF RunningIssues, InBatch
    <2> QED BY <2>1, <2>2, CountsBounded
  <1>1. ASSUME NEW i \in Issues, StalledRunRetried(i)
        PROVE  UNCHANGED events /\ TickSteps' < TickSteps
    <2>1. /\ loop = "stalls" /\ loop' = "stalls" /\ UNCHANGED events
          /\ running[i] # None /\ running' = [running EXCEPT ![i] = None]
      BY <1>1 DEF StalledRunRetried
    <2>2. Cardinality(RunningIssues') = Cardinality(RunningIssues) - 1
      BY <2>1, OneLess
    <2> QED BY <1>n, <2>1, <2>2 DEF TickSteps
  <1>2. CASE StatesRefreshed
    <2>1. loop = "stalls" /\ loop' = "refresh" /\ UNCHANGED events
      BY <1>2 DEF StatesRefreshed
    <2> QED BY <1>n, <2>1 DEF TickSteps
  <1>3. CASE StatesRefreshFailed
    <2>1. loop = "stalls" /\ loop' = "fetch" /\ UNCHANGED events
      BY <1>3 DEF StatesRefreshFailed
    <2> QED BY <1>n, <2>1 DEF TickSteps
  <1>4. ASSUME NEW i \in Issues, ReconcileIssue(i)
        PROVE  UNCHANGED events /\ (Ended' \/ TickSteps' < TickSteps)
    <2>1. /\ loop = "refresh" /\ (loop' = "refresh" \/ loop' = "crashed") /\ UNCHANGED events
          /\ batch[i] # None /\ batch' = [batch EXCEPT ![i] = None]
      BY <1>4 DEF ReconcileIssue, TerminateRunningIssue, TerminationRefused
    <2>2. Cardinality(InBatch') = Cardinality(InBatch) - 1
      BY <2>1, OneLess
    <2> QED BY <1>n, <2>1, <2>2 DEF TickSteps, Ended
  <1>5. CASE ReconcileDone
    <2>1. loop = "refresh" /\ loop' = "fetch" /\ UNCHANGED events
      BY <1>5 DEF ReconcileDone
    <2> QED BY <1>n, <2>1 DEF TickSteps
  <1>6. CASE CandidatesFetched
    <2>1. loop = "fetch" /\ loop' = "dispatch" /\ UNCHANGED events
      BY <1>6 DEF CandidatesFetched
    <2> QED BY <1>n, <2>1 DEF TickSteps
  <1>7. CASE DispatchSkipped
    <2>1. loop = "fetch" /\ loop' = "idle" /\ UNCHANGED events
      BY <1>7 DEF DispatchSkipped
    <2> QED BY <1>n, <2>1 DEF TickSteps
  <1>8. ASSUME NEW i \in Issues, CandidateDispatched(i) \/ CandidatePassedOver(i)
        PROVE  UNCHANGED events /\ (Ended' \/ TickSteps' < TickSteps)
    <2>1. /\ loop = "dispatch" /\ (loop' = "dispatch" \/ loop' = "crashed") /\ UNCHANGED events
          /\ batch[i] # None /\ batch' = [batch EXCEPT ![i] = None]
      BY <1>8, DispatchKeepsChain DEF CandidateDispatched, CandidatePassedOver, FirstCandidate
    <2>2. Cardinality(InBatch') = Cardinality(InBatch) - 1
      BY <2>1, OneLess
    <2> QED BY <1>n, <2>1, <2>2 DEF TickSteps, Ended
  <1>9. CASE TickEnds
    <2>1. loop = "dispatch" /\ loop' = "idle" /\ UNCHANGED events
      BY <1>9 DEF TickEnds
    <2> QED BY <1>n, <2>1 DEF TickSteps
  <1> QED BY <1>1, <1>2, <1>3, <1>4, <1>5, <1>6, <1>7, <1>8, <1>9 DEF RunTick

\* Receiving an event brings the others one place nearer.
LEMMA ReceivedNearer ==
    ASSUME TypeOK, NEW e, e # Stop, Receive(e), NEW k \in Nat, StopAt(k)
    PROVE  \E n \in 1 .. k : StopAt(n)' /\ StepsBefore(n)' < StepsBefore(k)
  <1>1. /\ events \in Seq(Event) /\ events # << >> /\ Head(events) = e /\ events' = Tail(events)
        /\ loop = "idle"
    BY DEF TypeOK, Receive
  <1>2. /\ Len(events) \in Nat /\ events[1] = e /\ Len(events') = Len(events) - 1
        /\ \A n \in 1 .. Len(events') : events'[n] = events[n + 1]
    BY <1>1, HeadTailProperties, LenProperties, EmptySeq
  <1>3. k \in 1 .. Len(events) /\ k # 1 /\ events[k] = Stop
    BY <1>2 DEF StopAt
  <1>4. k - 1 \in 1 .. k /\ k - 1 \in 1 .. Len(events') /\ events'[k - 1] = Stop
    BY <1>2, <1>3
  <1>5. StopAt(k - 1)'
    BY <1>4 DEF StopAt, Stop
  <1>6. StepsBefore(k - 1)' < StepsBefore(k)
    <2> DEFINE m == MostTickSteps  t == TickSteps'
    <2>1. TicksShort'
      BY TickBounded, PTL
    <2>2. m \in Nat /\ t \in Nat /\ t < m
      BY <2>1, CountsBounded DEF TicksShort, MostTickSteps
    <2>3. TickSteps = 0
      BY <1>1 DEF TickSteps
    <2> HIDE DEF m, t
    <2>4. (k - 1) * m + t < k * m + 0
      BY <2>2
    <2> QED BY <2>3, <2>4 DEF m, t, StepsBefore, MostTickSteps
  <1> QED BY <1>4, <1>5, <1>6

\* Sending an event leaves the others in their places.
LEMMA SentBehind ==
    ASSUME TypeOK, NEW k \in Nat, StopAt(k),
           UNCHANGED events \/ \E e \in Event : events' = Append(events, e)
    PROVE  StopAt(k)'
  BY AppendProperties, LenProperties DEF TypeOK, StopAt, Stop

LEMMA StopStepTaken == ASSUME TypeOK, Next PROVE StopStep
  <1> SUFFICES ASSUME NEW k \in Nat, StopAt(k), ~Ended
               PROVE  /\ EventLoop => Ended' \/ \E n \in 1 .. k :
                             StopAt(n)' /\ StepsBefore(n)' < StepsBefore(k)
                      /\ ~EventLoop => StopAt(k)' /\ StepsBefore(k)' = StepsBefore(k)
    BY DEF StopStep
  <1>1. CASE EventLoop
    <2>k. k \in 1 .. k
      BY DEF StopAt
    <2>n. TickSteps \in Nat /\ TickSteps' \in Nat /\ MostTickSteps \in Nat
      <3>1. TicksShort /\ TicksShort'
        BY TickBounded, PTL
      <3> QED BY <3>1, CountsBounded DEF TicksShort, MostTickSteps
    <2>near. ASSUME StopAt(k)', TickSteps' < TickSteps
             PROVE  \E n \in 1 .. k : StopAt(n)' /\ StepsBefore(n)' < StepsBefore(k)
      <3> DEFINE t == TickSteps  u == TickSteps'  m == k * MostTickSteps
      <3>1. m \in Nat /\ t \in Nat /\ u \in Nat /\ u < t
        BY <2>n, <2>near
      <3>2. StepsBefore(k)' = m + u /\ StepsBefore(k) = m + t
        BY DEF StepsBefore, MostTickSteps
      <3> HIDE DEF t, u, m
      <3>3. StepsBefore(k)' < StepsBefore(k)
        BY <3>1, <3>2
      <3> QED BY <2>k, <2>near, <3>3
    <2>1. CASE Serve
      <3>1. loop = "starting" /\ loop' = "idle" /\ events' = Append(events, Tick) /\ Tick \in Event
        BY <2>1 DEF Serve, Event
      <3>2. TickSteps' < TickSteps
        BY <3>1 DEF TickSteps
      <3> QED BY <1>1, <2>near, <3>1, <3>2, SentBehind
    <2>2. CASE ServeRefused \/ OnStop
      BY <1>1, <2>2 DEF ServeRefused, OnStop, Ended
    <2>3. CASE RunTick /\ ~TickStarts
      BY <1>1, <2>3, <2>near, TickGoesOn, SentBehind
    <2>4. CASE TickStarts
      BY <1>1, <2>4, ReceivedNearer, KindsDiffer DEF TickStarts
    <2>5. CASE \E i \in Issues : OnRetryTimer(i)
      BY <1>1, <2>5, ReceivedNearer, KindsDiffer DEF OnRetryTimer
    <2>6. CASE \E w \in Workers, i \in Issues, ok \in BOOLEAN : OnWorkerExit(w, i, ok)
      BY <1>1, <2>6, ReceivedNearer, KindsDiffer DEF OnWorkerExit
    <2>7. CASE RaisesInHandler
      BY <1>1, <2>7, RaisesEffect DEF Ended
    <2> QED BY <1>1, <2>1, <2>2, <2>3, <2>4, <2>5, <2>6, <2>7 DEF EventLoop
  <1>2. CASE ~EventLoop
    <2>1. Environment
      BY <1>2 DEF Next, ServiceOver
    <2>2. UNCHANGED <<loop, running, batch>>
      BY <2>1 DEF Environment, WorkerEnds, RetryTimerFires, TickTimerFires, StopRequested,
         TrackerChanges, claimVars
    <2>3. UNCHANGED events \/ \E e \in Event : events' = Append(events, e)
      BY <2>1 DEF TypeOK, Environment, WorkerEnds, RetryTimerFires, TickTimerFires, StopRequested,
         TrackerChanges, Event
    <2>4. TickSteps' = TickSteps
      BY <2>2 DEF TickSteps, RunningIssues, InBatch
    <2> QED BY <1>2, <2>3, <2>4, SentBehind DEF StepsBefore, MostTickSteps
  <1> QED BY <1>1, <1>2

\* A stop request that is the k-th event is honoured within (k + 1) * (3N + 5) steps of
\* the loop, N issues: ticks are short, every step of the loop brings it nearer to the
\* stop, and the events, timers and workers that keep coming only queue up behind.
THEOREM StopNearer == Spec => []TicksShort /\ StopComesNearer
  <1>1. TypeOK /\ [Next]_vars => [StopStep]_vars
    BY StopStepTaken
  <1>2. Typed => TypeOK
    BY DEF Typed
  <1> QED BY <1>1, <1>2, TickBounded, TypedAlways, PTL DEF Spec, StopComesNearer

-----------------------------------------------------------------------------
(* Threads and their exits.                                                *)

\* A worker thread reports once, when it is over.
ThreadsOnce ==
    /\ \A w \in Workers : ExitQueued(w) => workers[w] = None
    /\ \A w \in Workers, i, j \in Issues, a, b \in BOOLEAN :
          Queued(WorkerExit(w, i, a)) /\ Queued(WorkerExit(w, j, b)) => i = j /\ a = b
    /\ \A w \in Workers, i \in Issues, a \in BOOLEAN : QueuedOnce(WorkerExit(w, i, a))

\* Exits differ if they differ in anything.
LEMMA ExitsDiffer ==
    ASSUME NEW w, NEW v, NEW i, NEW j, NEW a, NEW b, WorkerExit(w, i, a) = WorkerExit(v, j, b)
    PROVE  w = v /\ i = j /\ a = b
  <1>1. /\ WorkerExit(w, i, a).worker = w /\ WorkerExit(w, i, a).issue = i
        /\ WorkerExit(w, i, a).ok = a
        /\ WorkerExit(v, j, b).worker = v /\ WorkerExit(v, j, b).issue = j
        /\ WorkerExit(v, j, b).ok = b
    BY DEF WorkerExit
  <1> QED BY <1>1

\* No exit is sent.
NoExitSent ==
    \A w \in Workers, i \in Issues, a \in BOOLEAN :
        /\ Queued(WorkerExit(w, i, a))' => Queued(WorkerExit(w, i, a))
        /\ QueuedOnce(WorkerExit(w, i, a)) => QueuedOnce(WorkerExit(w, i, a))'

\* Threads are left alone, or one is started with an identity no exit bears.
ThreadsKept == UNCHANGED workers \/ \E w \in FreeWorkers, i \in Issues : StartThread(w, i)

LEMMA OnceKept == ASSUME TypeOK, ThreadsOnce, NoExitSent, ThreadsKept PROVE ThreadsOnce'
  <1>1. \A w \in Workers : workers'[w] = workers[w] \/ ~ExitQueued(w)
    BY DEF ThreadsKept, StartThread, FreeWorkers, TypeOK
  <1>2. \A w \in Workers : ExitQueued(w)' => ExitQueued(w)
    BY DEF NoExitSent, ExitQueued
  <1>3. \A w \in Workers : ExitQueued(w)' => workers'[w] = None
    BY <1>1, <1>2 DEF ThreadsOnce
  <1> QED BY <1>3 DEF ThreadsOnce, NoExitSent, WorkerExit

\* Which steps send no exit.
LEMMA QuietSteps ==
    ASSUME TypeOK
    PROVE  /\ UNCHANGED events => NoExitSent
           /\ \A e : Receive(e) => NoExitSent
           /\ events' = Append(events, Tick) => NoExitSent
           /\ events' = Append(events, Stop) => NoExitSent
           /\ \A i \in Issues : events' = Append(events, RetryDue(i)) => NoExitSent
  <1>0. events \in Seq(Event)
    BY DEF TypeOK
  <1>1. UNCHANGED events => NoExitSent
    BY QueueKept DEF NoExitSent
  <1>2. ASSUME NEW e, Receive(e) PROVE NoExitSent
    BY <1>0, <1>2, ReceiveDequeues DEF NoExitSent
  <1>3. ASSUME NEW e \in Event, events' = Append(events, e),
               \A w, i, a : e # WorkerExit(w, i, a)
        PROVE  NoExitSent
    <2>1. \A d : d # e => (Queued(d)' <=> Queued(d)) /\ (QueuedOnce(d)' <=> QueuedOnce(d))
      BY <1>0, <1>3, SendQueues
    <2> QED BY <1>3, <2>1 DEF NoExitSent
  <1> QED BY <1>1, <1>2, <1>3, KindsDiffer DEF Event

\* A dispatch starts one thread at most, or the loop is left alone.
LEMMA DispatchThreads ==
    ASSUME NEW i \in Issues, NEW view, NEW a, NEW entries, DispatchIssue(i, view, a, entries)
    PROVE  ThreadsKept
  BY RepresentativeIsElement
     DEF DispatchIssue, DispatchStarted, DispatchUnstarted, DispatchRefused, ThreadsKept

LEMMA OnceInit == Init => ThreadsOnce
  BY EmptySeq DEF Init, ThreadsOnce, ExitQueued, Queued, QueuedOnce

LEMMA OnceStep == TypeOK /\ ThreadsOnce /\ [Next]_vars => ThreadsOnce'
  <1> SUFFICES ASSUME TypeOK, ThreadsOnce, [Next]_vars PROVE ThreadsOnce'
    OBVIOUS
  <1>1. ASSUME NEW w \in Workers, NEW ok \in BOOLEAN, WorkerEnds(w, ok) PROVE ThreadsOnce'
    <2>0. PICK i \in Issues : workers[w] = i
      BY <1>1 DEF WorkerEnds, TypeOK
    <2> DEFINE e == WorkerExit(w, i, ok)
    <2>1. /\ events \in Seq(Event) /\ e \in Event /\ events' = Append(events, e)
          /\ workers' = [workers EXCEPT ![w] = None] /\ ~ExitQueued(w)
      BY <1>1, <2>0, NoneAssumption DEF WorkerEnds, TypeOK, Event, ThreadsOnce
    <2>2. /\ \A d : d # e => (Queued(d)' <=> Queued(d)) /\ (QueuedOnce(d)' <=> QueuedOnce(d))
          /\ ~Queued(e) => QueuedOnce(e)'
      BY <2>1, SendQueues
    <2>3. \A j \in Issues, b \in BOOLEAN : ~Queued(WorkerExit(w, j, b))
      BY <2>1 DEF ExitQueued
    <2>4. \A v \in Workers, j \in Issues, b \in BOOLEAN :
              WorkerExit(v, j, b) = e => v = w /\ j = i /\ b = ok
      BY ExitsDiffer
    <2>5. \A v \in Workers : ExitQueued(v)' => workers'[v] = None
      <3> SUFFICES ASSUME NEW v \in Workers, NEW j \in Issues, NEW b \in BOOLEAN,
                          Queued(WorkerExit(v, j, b))'
                   PROVE  workers'[v] = None
        BY DEF ExitQueued, WorkerExit
      <3>1. CASE v = w
        BY <2>1, <3>1 DEF TypeOK
      <3>2. CASE v # w
        <4>1. Queued(WorkerExit(v, j, b))
          BY <2>2, <2>4, <3>2
        <4>2. workers[v] = None
          BY <4>1 DEF ThreadsOnce, ExitQueued
        <4> QED BY <2>1, <3>2, <4>2 DEF TypeOK
      <3> QED BY <3>1, <3>2
    <2>6. ASSUME NEW v \in Workers, NEW j \in Issues, NEW k \in Issues, NEW a \in BOOLEAN,
                 NEW b \in BOOLEAN, Queued(WorkerExit(v, j, a))', Queued(WorkerExit(v, k, b))'
          PROVE  j = k /\ a = b
      BY <2>2, <2>3, <2>4, <2>6 DEF ThreadsOnce
    <2>7. ASSUME NEW v \in Workers, NEW j \in Issues, NEW a \in BOOLEAN
          PROVE  QueuedOnce(WorkerExit(v, j, a))'
      <3>1. CASE WorkerExit(v, j, a) = e
        <4>1. v = w /\ j = i /\ a = ok /\ ~Queued(e)
          BY <2>3, <2>4, <3>1
        <4> QED BY <2>2, <4>1
      <3>2. CASE WorkerExit(v, j, a) # e
        BY <2>2, <3>2 DEF ThreadsOnce
      <3> QED BY <3>1, <3>2
    <2> QED BY <2>5, <2>6, <2>7 DEF ThreadsOnce, WorkerExit
  <1>2. ASSUME NEW i \in Issues, CandidateDispatched(i) PROVE ThreadsOnce'
    BY <1>2, OnceKept, QuietSteps, DispatchThreads DEF CandidateDispatched
  <1>3. ASSUME NEW i \in Issues, OnRetryTimer(i) PROVE ThreadsOnce'
    <2>1. ThreadsKept
      BY <1>3, DispatchThreads DEF OnRetryTimer, RetryChecked, ThreadsKept
    <2> QED BY <1>3, <2>1, OnceKept, QuietSteps DEF OnRetryTimer
  <1>4. CASE \/ \E w \in Workers, i \in Issues, ok \in BOOLEAN : OnWorkerExit(w, i, ok)
             \/ TickStarts \/ OnStop
    <2>1. UNCHANGED workers /\ \E e : Receive(e)
      BY <1>4 DEF OnWorkerExit, TickStarts, OnStop
    <2> QED BY <2>1, OnceKept, QuietSteps DEF ThreadsKept
  <1>5. CASE \/ Serve \/ TickTimerFires \/ StopRequested
             \/ \E t \in Timers : RetryTimerFires(t)
    <2>1. /\ UNCHANGED workers
          /\ \/ events' = Append(events, Tick) \/ events' = Append(events, Stop)
             \/ \E i \in Issues : events' = Append(events, RetryDue(i))
      BY <1>5 DEF Serve, TickTimerFires, StopRequested, RetryTimerFires, TypeOK
    <2> QED BY <2>1, OnceKept, QuietSteps DEF ThreadsKept
  <1>6. CASE \/ ServeRefused \/ StatesRefreshed \/ StatesRefreshFailed \/ ReconcileDone
             \/ CandidatesFetched \/ DispatchSkipped \/ TickEnds
             \/ \E i \in Issues : \/ StalledRunRetried(i) \/ ReconcileIssue(i)
                                  \/ CandidatePassedOver(i) \/ TrackerChanges(i)
             \/ ServiceOver \/ UNCHANGED vars
    <2>1. UNCHANGED <<workers, events>>
      BY <1>6 DEF ServeRefused, StatesRefreshed, StatesRefreshFailed, ReconcileDone,
         CandidatesFetched, DispatchSkipped, TickEnds, StalledRunRetried, ReconcileIssue,
         CandidatePassedOver, TrackerChanges, ServiceOver, vars
    <2> QED BY <2>1, OnceKept, QuietSteps DEF ThreadsKept
  <1>7. CASE RaisesInHandler
    <2>1. UNCHANGED workers /\ (UNCHANGED events \/ \E e : Receive(e))
      BY <1>7, RaisesEffect, RaisesQueue DEF ExitRaises
    <2> QED BY <2>1, OnceKept, QuietSteps DEF ThreadsKept
  <1> QED BY <1>1, <1>2, <1>3, <1>4, <1>5, <1>6, <1>7 DEF Next, EventLoop, RunTick, Environment

-----------------------------------------------------------------------------
(* One thread at a time.  What a run needs to be let go and followed by     *)
(* another of the same issue: stall detection, or an issue that becomes     *)
(* active again.  Without them no two threads ever work on one issue.      *)

\* What the tick dispatches, if it fetches it.
Eligible(view) == view # None /\ view.state \in ActiveStates \ TerminalStates

NoStallDetection == \A c \in Configs : ~c.stall
NoReturns == \A m \in Moves : Eligible(m[2]) => Eligible(m[1])

\* An exit still in the queue counts: its handler ends whatever run it finds.
OneThreadAtATime ==
    ~Ended => \A i \in Issues, v, w \in Workers : HeldBy(v, i) /\ HeldBy(w, i) => v = w

\* The strengthening.  An issue whose run was let go has neither run nor retry, is
\* not eligible in the tracker and not in what the tick has fetched from it.
Stale(w, i) == HeldBy(w, i) /\ (running[i] = None \/ running[i].worker # w)

Settled ==
    ~Ended => \A i \in Issues, w \in Workers : Stale(w, i) =>
        /\ running[i] = None /\ retry[i] = None
        /\ ~Eligible(tracker[i])
        /\ loop = "dispatch" => ~Eligible(batch[i])

\* What the tick fetched as not eligible is still so in the tracker.
FetchHolds ==
    loop \in {"refresh", "dispatch"} =>
        \A i \in Issues : batch[i] # None /\ Eligible(tracker[i]) => Eligible(batch[i])

HeldKept == \A w \in Workers, i \in Issues : HeldBy(w, i)' => HeldBy(w, i)

\* No step but a dispatch adds a thread to an issue.
LEMMA HeldIsKept ==
    ASSUME TypeOK, NoExitSent, UNCHANGED workers
    PROVE  HeldKept
  BY DEF NoExitSent, HeldKept, HeldBy, WorkerExit

LEMMA EndedHeldKept ==
    ASSUME TypeOK, NEW w \in Workers, NEW ok \in BOOLEAN, WorkerEnds(w, ok)
    PROVE  HeldKept
  <1>0. PICK i \in Issues : workers[w] = i
    BY DEF WorkerEnds, TypeOK
  <1> DEFINE e == WorkerExit(w, i, ok)
  <1>1. /\ events \in Seq(Event) /\ e \in Event /\ events' = Append(events, e)
        /\ workers' = [workers EXCEPT ![w] = None]
    BY <1>0 DEF WorkerEnds, TypeOK, Event
  <1>2. \A d : d # e => (Queued(d)' <=> Queued(d))
    BY <1>1, SendQueues
  <1> SUFFICES ASSUME NEW v \in Workers, NEW j \in Issues, HeldBy(v, j)' PROVE HeldBy(v, j)
    BY DEF HeldKept
  <1>3. CASE workers'[v] = j
    BY <1>1, <1>3, NoneAssumption DEF HeldBy, TypeOK
  <1>4. ASSUME NEW b \in BOOLEAN, Queued(WorkerExit(v, j, b))' PROVE HeldBy(v, j)
    <2>1. CASE WorkerExit(v, j, b) = e
      BY <1>0, <2>1, ExitsDiffer DEF HeldBy
    <2>2. CASE WorkerExit(v, j, b) # e
      BY <1>2, <1>4, <2>2 DEF HeldBy
    <2> QED BY <2>1, <2>2
  <1> QED BY <1>3, <1>4 DEF HeldBy, WorkerExit

\* Steps that leave the issue's entries and the tracker alone.
LEMMA SettledKept ==
    ASSUME Settled, ~Ended, HeldKept, UNCHANGED <<running, retry, tracker>>,
           \A i \in Issues : loop' = "dispatch" /\ Eligible(batch'[i]) =>
               Eligible(tracker[i]) \/ (loop = "dispatch" /\ Eligible(batch[i]))
    PROVE  Settled'
  <1>1. \A w \in Workers, i \in Issues : Stale(w, i)' => Stale(w, i)
    BY DEF HeldKept, Stale
  <1> QED BY <1>1 DEF Settled

\* A dispatch of an issue nobody holds makes one thread hold it.
LEMMA SettledDispatch ==
    ASSUME TypeOK, Settled, ~Ended, NEW i \in Issues, NEW view \in View, NEW a \in Attempts,
           NEW entries \in [Issues -> RetryEntry \cup {None}],
           \A j \in Issues \ {i} : entries[j] = retry[j],
           \A w \in Workers : ~HeldBy(w, i),
           DispatchIssue(i, view, a, entries), NoExitSent, UNCHANGED tracker,
           \A j \in Issues : loop' = "dispatch" /\ Eligible(batch'[j]) =>
               loop = "dispatch" /\ Eligible(batch[j])
    PROVE  Settled'
  <1>0. /\ workers \in [Workers -> Issues \cup {None}]
        /\ running \in [Issues -> RunningEntry \cup {None}]
    BY DEF TypeOK
  <1>1. CASE DispatchStarted(i, view, a, entries)
    <2>1. PICK w \in Workers :
              /\ workers' = [workers EXCEPT ![w] = i]
              /\ running' = [running EXCEPT ![i] = [worker |-> w, attempt |-> a,
                                state |-> view.state, root |-> config.root]]
              /\ retry' = [entries EXCEPT ![i] = None]
      BY <1>1, RepresentativeIsElement DEF DispatchStarted, StartThread, FreeWorkers
    <2>2. /\ workers'[w] = i /\ \A v \in Workers \ {w} : workers'[v] = workers[v]
          /\ running'[i] # None => running'[i].worker = w
          /\ \A j \in Issues \ {i} : running'[j] = running[j] /\ retry'[j] = retry[j]
      BY <1>0, <2>1
    <2>3. running'[i] # None
      <3>1. running'[i] = [worker |-> w, attempt |-> a, state |-> view.state, root |-> config.root]
        BY <1>0, <2>1
      <3>2. view.state \in States /\ config.root \in Roots
        BY ConfigAssumption DEF View, Config, TypeOK
      <3> QED BY <3>1, <3>2, NoneAssumption DEF RunningEntry
    <2>4. \A v \in Workers, j \in Issues : HeldBy(v, j)' /\ ~(v = w /\ j = i) => HeldBy(v, j)
      BY <2>2 DEF NoExitSent, HeldBy, WorkerExit
    <2>5. \A v \in Workers, j \in Issues : Stale(v, j)' => j # i /\ Stale(v, j)
      BY <2>2, <2>3, <2>4 DEF Stale
    <2> QED BY <2>2, <2>5 DEF Settled
  <1>2. CASE DispatchUnstarted(i, a, entries)
    <2>1. UNCHANGED <<workers, running>> /\ \A j \in Issues \ {i} : retry'[j] = retry[j]
      BY <1>2, NextAttemptTyped, ScheduleRetryEffect DEF DispatchUnstarted, TypeOK
    <2>2. \A v \in Workers, j \in Issues : Stale(v, j)' => j # i /\ Stale(v, j)
      BY <2>1, HeldIsKept DEF Stale, HeldKept
    <2> QED BY <2>1, <2>2 DEF Settled
  <1>3. CASE DispatchRefused(i, view, entries)
    BY <1>3 DEF DispatchRefused, Settled, Ended
  <1> QED BY <1>1, <1>2, <1>3 DEF DispatchIssue

LEMMA SettledInit == Init => Settled /\ FetchHolds
  <1>1. Init => Settled
    BY NoneAssumption, EmptySeq DEF Init, Settled, Stale, HeldBy, Queued
  <1>2. Init => FetchHolds
    BY DEF Init, FetchHolds
  <1> QED BY <1>1, <1>2

\* The batch is fetched from the tracker, where nothing becomes eligible again.
LEMMA FetchStep ==
    ASSUME NoReturns
    PROVE  TypeOK /\ FetchHolds /\ [Next]_vars => FetchHolds'
  <1> SUFFICES ASSUME TypeOK, FetchHolds, [Next]_vars PROVE FetchHolds'
    OBVIOUS
  <1>1. CASE StatesRefreshed \/ CandidatesFetched
    BY <1>1 DEF StatesRefreshed, CandidatesFetched, FetchHolds
  <1>2. ASSUME NEW i \in Issues, TrackerChanges(i) PROVE FetchHolds'
    <2>1. PICK v \in Views \cup {None} :
              <<tracker[i], v>> \in Moves /\ tracker' = [tracker EXCEPT ![i] = v]
      BY <1>2 DEF TrackerChanges
    <2>2. \A j \in Issues : Eligible(tracker'[j]) => Eligible(tracker[j])
      BY <2>1 DEF NoReturns, TypeOK
    <2>3. UNCHANGED <<loop, batch>>
      BY <1>2 DEF TrackerChanges
    <2> QED BY <2>2, <2>3 DEF FetchHolds
  <1>3. CASE \/ \E i \in Issues : ReconcileIssue(i) \/ CandidateDispatched(i) \/ CandidatePassedOver(i)
    <2>1. PICK i \in Issues : /\ batch' = [batch EXCEPT ![i] = None] /\ UNCHANGED tracker
                              /\ loop' = loop \/ loop' = "crashed"
      BY <1>3, DispatchKeepsChain DEF ReconcileIssue, TerminateRunningIssue, TerminationRefused,
         CandidateDispatched, CandidatePassedOver
    <2> QED BY <2>1 DEF FetchHolds, TypeOK
  <1>4. CASE TickStarts \/ ServeRefused \/ Serve \/ OnStop \/ DispatchSkipped \/ TickEnds
             \/ StatesRefreshFailed \/ ReconcileDone \/ \E i \in Issues : StalledRunRetried(i)
    BY <1>4 DEF TickStarts, ServeRefused, Serve, OnStop, DispatchSkipped, TickEnds,
       StatesRefreshFailed, ReconcileDone, StalledRunRetried, FetchHolds
  <1>5. ASSUME NEW i \in Issues, OnRetryTimer(i) PROVE FetchHolds'
    BY <1>5, DispatchKeepsChain DEF OnRetryTimer, RetryChecked, Receive, FetchHolds
  <1>6. CASE \/ \E w \in Workers, i \in Issues, ok \in BOOLEAN : OnWorkerExit(w, i, ok)
             \/ \E w \in Workers, ok \in BOOLEAN : WorkerEnds(w, ok)
             \/ \E t \in Timers : RetryTimerFires(t)
             \/ TickTimerFires \/ StopRequested \/ ServiceOver \/ UNCHANGED vars
    <2>1. UNCHANGED <<loop, batch, tracker>>
      BY <1>6 DEF OnWorkerExit, WorkerEnds, RetryTimerFires, TickTimerFires, StopRequested,
         ServiceOver, vars
    <2> QED BY <2>1 DEF FetchHolds
  <1>7. CASE RaisesInHandler
    BY <1>7, RaisesEnds DEF FetchHolds
  <1> QED BY <1>1, <1>2, <1>3, <1>4, <1>5, <1>6, <1>7 DEF Next, EventLoop, RunTick, Environment

LEMMA EndedStays == Ended /\ [Next]_vars => Ended'
  BY RaisesEnds DEF Ended, Next, EventLoop, RunTick, Environment, Serve, ServeRefused, TickStarts,
     StalledRunRetried, StatesRefreshed, StatesRefreshFailed, ReconcileIssue, ReconcileDone,
     CandidatesFetched, DispatchSkipped, CandidateDispatched, CandidatePassedOver, TickEnds,
     OnRetryTimer, OnWorkerExit, OnStop, Receive, WorkerEnds, RetryTimerFires, TickTimerFires,
     StopRequested, TrackerChanges, ServiceOver, vars

\* Every step leaves the issues whose run was let go alone.
LEMMA SettledStep ==
    ASSUME NoStallDetection, NoReturns
    PROVE  Typed /\ ClaimedExactly /\ ThreadsOnce /\ FetchHolds /\ Settled /\ [Next]_vars => Settled'
  <1> SUFFICES ASSUME TypeOK, RefreshedAreRunning, ClaimedExactly, ThreadsOnce, FetchHolds,
                      Settled, [Next]_vars, ~Ended
               PROVE  Settled'
    BY EndedStays DEF Settled, Typed
  <1>0. /\ workers \in [Workers -> Issues \cup {None}]
        /\ running \in [Issues -> RunningEntry \cup {None}]
        /\ retry \in [Issues -> RetryEntry \cup {None}]
        /\ batch \in [Issues -> Views \cup {None}]
    BY DEF TypeOK
  <1>a. loop \notin {"stopped", "crashed", "refused"}
    BY DEF Ended
  \* An issue that runs is held by its own worker alone, one that waits for a retry by nobody.
  <1>b. ASSUME NEW i \in Issues, retry[i] # None PROVE \A w \in Workers : ~HeldBy(w, i)
    <2>1. running[i] = None
      BY <1>b DEF ClaimedExactly, RunningIssues, RetryIssues
    <2> QED BY <1>b, <2>1 DEF Settled, Stale
  <1>1. ASSUME NEW i \in Issues, StalledRunRetried(i) PROVE Settled'
    BY <1>1 DEF StalledRunRetried, NoStallDetection, TypeOK
  <1>2. ASSUME NEW i \in Issues, ReconcileIssue(i) PROVE Settled'
    <2>1. /\ loop = "refresh" /\ batch[i] # None /\ UNCHANGED <<events, workers, tracker>>
          /\ running[i] # None
      BY <1>2 DEF ReconcileIssue, RefreshedAreRunning
    <2>2. HeldKept
      BY <2>1, QuietSteps, HeldIsKept
    <2>3. CASE loop' = "crashed"
      BY <2>3 DEF Settled, Ended
    <2>4. CASE running' = [running EXCEPT ![i].state = batch[i].state] /\ loop' = loop /\ UNCHANGED retry
      <3> DEFINE entry == [running[i] EXCEPT !.state = batch[i].state]
      <3>a. running[i] \in RunningEntry /\ batch[i].state \in States
        BY <1>0, <1>2, <2>1, ViewAssumption DEF View
      <3>b. entry \in RunningEntry /\ entry.worker = running[i].worker
        BY <3>a DEF RunningEntry
      <3>c. running'[i] = entry /\ \A j \in Issues \ {i} : running'[j] = running[j]
        BY <1>0, <2>4
      <3> HIDE DEF entry
      <3>1. /\ \A j \in Issues \ {i} : running'[j] = running[j]
            /\ running'[i] # None /\ running'[i].worker = running[i].worker
        BY <3>b, <3>c, NoneAssumption
      <3>2. \A w \in Workers, j \in Issues : Stale(w, j)' => Stale(w, j)
        BY <2>2, <3>1 DEF HeldKept, Stale
      <3>3. \A j \in Issues : running[j] = None => running'[j] = None
        BY <2>1, <3>1
      <3> QED BY <2>1, <2>4, <3>2, <3>3 DEF Settled
    <2>5. CASE /\ running' = [running EXCEPT ![i] = None] /\ loop' = loop /\ UNCHANGED retry
               /\ batch[i].state \notin ActiveStates \ TerminalStates
      <3>1. ~Eligible(tracker[i])
        BY <2>1, <2>5 DEF FetchHolds, Eligible
      <3>2. retry[i] = None
        BY <2>1 DEF ClaimedExactly, RunningIssues, RetryIssues
      <3>3. running'[i] = None /\ \A j \in Issues \ {i} : running'[j] = running[j]
        BY <1>0, <2>5
      <3>4. \A w \in Workers, j \in Issues \ {i} : Stale(w, j)' => Stale(w, j)
        BY <2>2, <3>3 DEF HeldKept, Stale
      <3> QED BY <2>1, <2>5, <3>1, <3>2, <3>3, <3>4 DEF Settled
    <2> QED BY <1>2, <2>3, <2>4, <2>5 DEF ReconcileIssue, TerminateRunningIssue, TerminationRefused
  <1>3. ASSUME NEW i \in Issues, CandidateDispatched(i) PROVE Settled'
    <2>1. /\ loop = "dispatch" /\ Eligible(batch[i]) /\ running[i] = None
          /\ UNCHANGED <<events, tracker>> /\ batch' = [batch EXCEPT ![i] = None]
          /\ DispatchIssue(i, batch[i], 0, retry)
      BY <1>3 DEF CandidateDispatched, ShouldDispatch, FirstCandidate, Eligible
    <2>2. \A w \in Workers : ~HeldBy(w, i)
      BY <2>1 DEF Settled, Stale
    <2>3. \A j \in Issues : Eligible(batch'[j]) => Eligible(batch[j])
      BY <1>0, <2>1 DEF Eligible
    <2>4. batch[i] \in View /\ 0 \in Attempts
      BY <1>0, <2>1, ViewAssumption, AttemptAssumption DEF Eligible, Attempts
    <2>5. retry \in [Issues -> RetryEntry \cup {None}] /\ NoExitSent
      BY <1>0, <2>1, QuietSteps
    <2> QED BY <2>1, <2>2, <2>3, <2>4, <2>5, SettledDispatch
  <1>4. ASSUME NEW i \in Issues, OnRetryTimer(i) PROVE Settled'
    <2>1. /\ loop = "idle" /\ UNCHANGED <<batch, tracker>> /\ NoExitSent
      BY <1>4, QuietSteps DEF OnRetryTimer, Receive
    <2>2. CASE retry[i] = None
      <3>1. UNCHANGED <<running, retry, workers, loop>>
        BY <1>4, <2>2 DEF OnRetryTimer, claimVars
      <3> QED BY <2>1, <3>1, HeldIsKept, SettledKept
    <2>3. CASE retry[i] # None
      <3> DEFINE entries == [retry EXCEPT ![i] = None]
      <3>1. RetryChecked(i, retry[i].attempt, entries)
        BY <1>4, <2>3 DEF OnRetryTimer
      <3>2. /\ entries \in [Issues -> RetryEntry \cup {None}] /\ entries[i] = None
            /\ \A j \in Issues \ {i} : entries[j] = retry[j]
            /\ retry[i].attempt \in Attempts /\ NextAttempt(retry[i].attempt) \in Attempts
        BY <1>0, <2>3, RetryAttemptTyped, NextAttemptTyped, RemovedTyped DEF RetryEntry
      <3>3. \A w \in Workers : ~HeldBy(w, i)
        BY <1>b, <2>3
      <3> HIDE DEF entries
      <3>4. CASE DispatchIssue(i, tracker[i], retry[i].attempt, entries) /\ i \in Candidates
        <4>1. tracker[i] \in View
          BY <3>4, ViewAssumption DEF TypeOK, Candidates
        <4>2. loop' # "dispatch"
          BY <2>1, <3>4, DispatchKeepsChain
        <4> QED BY <2>1, <3>2, <3>3, <3>4, <4>1, <4>2, SettledDispatch
      <3>5. CASE /\ UNCHANGED <<running, workers, loop>>
                 /\ retry' = entries \/ ScheduleRetry(i, NextAttempt(retry[i].attempt), entries)
        <4>1. \A j \in Issues \ {i} : retry'[j] = retry[j]
          BY <3>2, <3>5, ScheduleRetryEffect
        <4>2. \A w \in Workers, j \in Issues : Stale(w, j)' => j # i /\ Stale(w, j)
          BY <2>1, <3>3, <3>5, HeldIsKept DEF HeldKept, Stale
        <4> QED BY <2>1, <3>5, <4>1, <4>2 DEF Settled
      <3> QED BY <3>1, <3>4, <3>5 DEF RetryChecked
    <2> QED BY <2>2, <2>3
  <1>5. ASSUME NEW w \in Workers, NEW i \in Issues, NEW ok \in BOOLEAN, OnWorkerExit(w, i, ok)
        PROVE  Settled'
    <2> DEFINE e == WorkerExit(w, i, ok)
    <2>1. /\ loop = "idle" /\ UNCHANGED <<loop, batch, workers, tracker>> /\ NoExitSent
          /\ Receive(e) /\ events \in Seq(Event)
      BY <1>5, QuietSteps DEF OnWorkerExit, Receive, TypeOK
    <2>2. HeldKept
      BY <2>1, HeldIsKept
    <2>3. CASE running[i] = None
      <3>1. UNCHANGED <<running, retry>>
        BY <1>5, <2>3 DEF OnWorkerExit, claimVars
      <3> QED BY <2>1, <2>2, <3>1, SettledKept
    <2>4. CASE running[i] # None
      <3>1. /\ running' = [running EXCEPT ![i] = None]
            /\ \E a \in Attempts : ScheduleRetry(i, a, retry)
        BY <1>0, <1>5, <2>4, NextAttemptTyped, AttemptAssumption
           DEF OnWorkerExit, RunningEntry, Attempts
      <3>2. \A j \in Issues \ {i} : running'[j] = running[j] /\ retry'[j] = retry[j]
        BY <1>0, <3>1, ScheduleRetryEffect
      <3>3. Queued(e) /\ ~Queued(e)'
        BY <2>1, ReceiveDequeues DEF ThreadsOnce
      <3>4. \A v \in Workers : HeldBy(v, i) => running[i].worker = v
        BY <2>4 DEF Settled, Stale
      <3>5. running[i].worker = w
        BY <3>3, <3>4 DEF HeldBy
      <3>6. ASSUME NEW v \in Workers, HeldBy(v, i)' PROVE FALSE
        <4>1. v = w
          BY <2>2, <3>4, <3>5, <3>6 DEF HeldKept
        <4>2. workers'[w] # i
          BY <1>0, <2>1, <3>3, NoneAssumption DEF ThreadsOnce, ExitQueued
        <4>3. PICK b \in BOOLEAN : Queued(WorkerExit(w, i, b))'
          BY <3>6, <4>1, <4>2 DEF HeldBy, WorkerExit
        <4>4. Queued(WorkerExit(w, i, b))
          BY <2>1, <4>3 DEF NoExitSent
        <4>5. b = ok
          BY <3>3, <4>4 DEF ThreadsOnce
        <4> QED BY <3>3, <4>3, <4>5
      <3>7. \A v \in Workers, j \in Issues : Stale(v, j)' => j # i /\ Stale(v, j)
        BY <2>2, <3>2, <3>6 DEF HeldKept, Stale
      <3> QED BY <2>1, <3>2, <3>7 DEF Settled
    <2> QED BY <2>3, <2>4
  <1>6. ASSUME NEW w \in Workers, NEW ok \in BOOLEAN, WorkerEnds(w, ok) PROVE Settled'
    BY <1>6, EndedHeldKept, SettledKept DEF WorkerEnds, claimVars
  <1>7. ASSUME NEW i \in Issues, TrackerChanges(i) PROVE Settled'
    <2>1. PICK v \in Views \cup {None} :
              <<tracker[i], v>> \in Moves /\ tracker' = [tracker EXCEPT ![i] = v]
      BY <1>7 DEF TrackerChanges
    <2>2. \A j \in Issues : Eligible(tracker'[j]) => Eligible(tracker[j])
      BY <2>1 DEF NoReturns, TypeOK
    <2>3. UNCHANGED <<loop, events, running, retry, batch, workers>>
      BY <1>7 DEF TrackerChanges, claimVars
    <2>4. \A w \in Workers, j \in Issues : Stale(w, j)' => Stale(w, j)
      BY <2>3, QuietSteps, HeldIsKept DEF HeldKept, Stale
    <2> QED BY <2>2, <2>3, <2>4 DEF Settled
  <1>8. CASE CandidatesFetched
    <2>1. /\ UNCHANGED <<events, running, retry, workers, tracker>>
          /\ \A i \in Issues : Eligible(batch'[i]) => Eligible(tracker[i])
      BY <1>8 DEF CandidatesFetched, Candidates, claimVars, Eligible
    <2> QED BY <2>1, QuietSteps, HeldIsKept, SettledKept
  <1>9. CASE OnStop \/ ServeRefused
    BY <1>9 DEF OnStop, ServeRefused, Settled, Ended
  <1>10. CASE \/ Serve \/ TickStarts \/ StatesRefreshed \/ StatesRefreshFailed \/ ReconcileDone
              \/ DispatchSkipped \/ TickEnds \/ \E i \in Issues : CandidatePassedOver(i)
              \/ \E t \in Timers : RetryTimerFires(t)
              \/ TickTimerFires \/ StopRequested \/ ServiceOver \/ UNCHANGED vars
    <2>1. UNCHANGED <<running, retry, workers, tracker>>
      BY <1>10 DEF Serve, TickStarts, StatesRefreshed, StatesRefreshFailed, ReconcileDone,
         DispatchSkipped, TickEnds, CandidatePassedOver, RetryTimerFires, TickTimerFires,
         StopRequested, ServiceOver, claimVars, vars
    <2>2. \A i \in Issues : loop' = "dispatch" /\ Eligible(batch'[i]) =>
              loop = "dispatch" /\ Eligible(batch[i])
      BY <1>0, <1>10 DEF Serve, TickStarts, StatesRefreshed, StatesRefreshFailed, ReconcileDone,
         DispatchSkipped, TickEnds, CandidatePassedOver, RetryTimerFires, TickTimerFires,
         StopRequested, ServiceOver, vars, Eligible, Receive
    <2>3. NoExitSent
      BY <1>10, QuietSteps DEF Serve, TickStarts, StatesRefreshed, StatesRefreshFailed,
         ReconcileDone, DispatchSkipped, TickEnds, CandidatePassedOver, RetryTimerFires,
         TickTimerFires, StopRequested, ServiceOver, vars, TypeOK
    <2> QED BY <2>1, <2>2, <2>3, HeldIsKept, SettledKept
  <1>11. CASE RaisesInHandler
    BY <1>11, RaisesEnds DEF Settled, Ended
  <1> QED BY <1>1, <1>2, <1>3, <1>4, <1>5, <1>6, <1>7, <1>8, <1>9, <1>10, <1>11
          DEF Next, EventLoop, RunTick, Environment

\* A dispatch makes at most one thread hold its issue.
OneMore(i) ==
    \E w \in Workers : \A v \in Workers, j \in Issues :
        HeldBy(v, j)' => HeldBy(v, j) \/ (v = w /\ j = i)

LEMMA DispatchHolds ==
    ASSUME TypeOK, NoExitSent, NEW i \in Issues, NEW view, NEW a, NEW entries,
           DispatchIssue(i, view, a, entries)
    PROVE  HeldKept \/ OneMore(i)
  <1>1. CASE UNCHANGED workers
    BY <1>1, HeldIsKept
  <1>2. ASSUME NEW w \in Workers, workers' = [workers EXCEPT ![w] = i] PROVE OneMore(i)
    <2>1. \A v \in Workers \ {w} : workers'[v] = workers[v]
      BY <1>2 DEF TypeOK
    <2>2. workers'[w] = i
      BY <1>2 DEF TypeOK
    <2>3. \A v \in Workers, j \in Issues : HeldBy(v, j)' => HeldBy(v, j) \/ (v = w /\ j = i)
      BY <2>1, <2>2 DEF NoExitSent, HeldBy, WorkerExit
    <2> QED BY <2>3 DEF OneMore
  <1> QED BY <1>1, <1>2, RepresentativeIsElement DEF StartThread, DispatchIssue,
          DispatchStarted, DispatchUnstarted, DispatchRefused, FreeWorkers

\* Whoever is dispatched is held by nobody, so no issue gets a second thread.
LEMMA OneStep ==
    Typed /\ ClaimedExactly /\ Settled /\ OneThreadAtATime /\ [Next]_vars => OneThreadAtATime'
  <1> SUFFICES ASSUME TypeOK, ClaimedExactly, Settled, OneThreadAtATime, [Next]_vars, ~Ended
               PROVE  OneThreadAtATime'
    BY EndedStays DEF OneThreadAtATime, Typed
  <1>kept. HeldKept => OneThreadAtATime'
    BY DEF HeldKept, OneThreadAtATime
  <1>more. ASSUME NEW i \in Issues, \A w \in Workers : ~HeldBy(w, i), OneMore(i)
           PROVE  OneThreadAtATime'
    BY <1>more DEF OneMore, OneThreadAtATime
  <1>1. ASSUME NEW i \in Issues, CandidateDispatched(i) PROVE OneThreadAtATime'
    <2>1. /\ loop = "dispatch" /\ Eligible(batch[i]) /\ running[i] = None
          /\ UNCHANGED events /\ DispatchIssue(i, batch[i], 0, retry)
      BY <1>1 DEF CandidateDispatched, ShouldDispatch, FirstCandidate, Eligible
    <2>2. \A w \in Workers : ~HeldBy(w, i)
      BY <2>1 DEF Settled, Stale
    <2> QED BY <2>1, <2>2, <1>kept, <1>more, QuietSteps, DispatchHolds
  <1>2. ASSUME NEW i \in Issues, OnRetryTimer(i) PROVE OneThreadAtATime'
    <2>1. NoExitSent
      BY <1>2, QuietSteps DEF OnRetryTimer
    <2>2. CASE UNCHANGED workers
      BY <2>1, <2>2, <1>kept, HeldIsKept
    <2>3. ASSUME NEW view, NEW a, NEW entries, DispatchIssue(i, view, a, entries), retry[i] # None
          PROVE  OneThreadAtATime'
      <3>1. running[i] = None
        BY <2>3 DEF ClaimedExactly, RunningIssues, RetryIssues
      <3>2. \A w \in Workers : ~HeldBy(w, i)
        BY <2>3, <3>1 DEF Settled, Stale
      <3> QED BY <2>1, <2>3, <3>2, <1>kept, <1>more, DispatchHolds
    <2> QED BY <1>2, <2>2, <2>3 DEF OnRetryTimer, RetryChecked
  <1>3. ASSUME NEW w \in Workers, NEW ok \in BOOLEAN, WorkerEnds(w, ok) PROVE OneThreadAtATime'
    BY <1>3, <1>kept, EndedHeldKept
  <1>4. CASE \/ \E w \in Workers, i \in Issues, ok \in BOOLEAN : OnWorkerExit(w, i, ok)
             \/ TickStarts \/ OnStop
    <2>1. UNCHANGED workers /\ \E e : Receive(e)
      BY <1>4 DEF OnWorkerExit, TickStarts, OnStop
    <2> QED BY <2>1, <1>kept, HeldIsKept, QuietSteps
  <1>5. CASE \/ Serve \/ TickTimerFires \/ StopRequested
             \/ \E t \in Timers : RetryTimerFires(t)
    <2>1. /\ UNCHANGED workers
          /\ \/ events' = Append(events, Tick) \/ events' = Append(events, Stop)
             \/ \E i \in Issues : events' = Append(events, RetryDue(i))
      BY <1>5 DEF Serve, TickTimerFires, StopRequested, RetryTimerFires, TypeOK
    <2> QED BY <2>1, <1>kept, HeldIsKept, QuietSteps
  <1>6. CASE \/ ServeRefused \/ StatesRefreshed \/ StatesRefreshFailed \/ ReconcileDone
             \/ CandidatesFetched \/ DispatchSkipped \/ TickEnds
             \/ \E i \in Issues : \/ StalledRunRetried(i) \/ ReconcileIssue(i)
                                  \/ CandidatePassedOver(i) \/ TrackerChanges(i)
             \/ ServiceOver \/ UNCHANGED vars
    <2>1. UNCHANGED <<workers, events>>
      BY <1>6 DEF ServeRefused, StatesRefreshed, StatesRefreshFailed, ReconcileDone,
         CandidatesFetched, DispatchSkipped, TickEnds, StalledRunRetried, ReconcileIssue,
         CandidatePassedOver, TrackerChanges, ServiceOver, vars
    <2> QED BY <2>1, <1>kept, HeldIsKept, QuietSteps
  <1>7. CASE RaisesInHandler
    BY <1>7, RaisesEnds DEF OneThreadAtATime, Ended
  <1> QED BY <1>1, <1>2, <1>3, <1>4, <1>5, <1>6, <1>7 DEF Next, EventLoop, RunTick, Environment

\* Without stall detection, and as long as no issue becomes eligible again once it is
\* not, no two threads ever work on one issue, and an exit ends the run of its own worker
\* or none: what _stop_worker's comment says.  The run stale_exit shows that it takes
\* both conditions.
THEOREM OneThreadPerIssue ==
    ASSUME NoStallDetection, NoReturns
    PROVE  Spec => []OneThreadAtATime /\ StoppedWorkersExitIsNoOp
  <1>1. Init => OneThreadAtATime
    BY NoneAssumption, EmptySeq DEF Init, OneThreadAtATime, HeldBy, Queued
  <1>2. TypeOK /\ Settled /\ [Next]_vars =>
            [\A i \in Issues :
                (\E w \in Workers, ok \in BOOLEAN :
                    OnWorkerExit(w, i, ok) /\ running[i] # None /\ running[i].worker # w)
                  => running'[i] = running[i]]_vars
    <2> SUFFICES ASSUME TypeOK, Settled, NEW i \in Issues, NEW w \in Workers, NEW ok \in BOOLEAN,
                        OnWorkerExit(w, i, ok), running[i] # None, running[i].worker # w
                 PROVE  FALSE
      OBVIOUS
    <2>1. Queued(WorkerExit(w, i, ok)) /\ ~Ended
      BY ReceiveDequeues DEF OnWorkerExit, Receive, TypeOK, Ended
    <2>2. Stale(w, i)
      BY <2>1 DEF Stale, HeldBy
    <2> QED BY <2>1, <2>2 DEF Settled
  <1>3. Typed => TypeOK
    BY DEF Typed
  <1>4. Spec => []ThreadsOnce
    BY <1>3, OnceInit, OnceStep, TypedAlways, PTL DEF Spec
  <1>5. Spec => []FetchHolds
    BY <1>3, SettledInit, FetchStep, TypedAlways, PTL DEF Spec
  <1>6. Spec => []Settled
    BY <1>4, <1>5, SettledInit, SettledStep, TypedAlways, ClaimsExact, PTL DEF Spec
  <1>7. Spec => []OneThreadAtATime
    BY <1>1, <1>6, OneStep, TypedAlways, ClaimsExact, PTL DEF Spec
  <1> QED BY <1>2, <1>3, <1>6, <1>7, TypedAlways, PTL DEF Spec, StoppedWorkersExitIsNoOp

-----------------------------------------------------------------------------
(* What ends the loop.  A path outside the root is refused when the root    *)
(* was moved under a run, or when an identifier yields no path below it.   *)

RootStays == \A c, d \in Configs : c.root = d.root
AllKeyed  == \A v \in Views : v.keyed

\* Every run's workspace is under the root now configured.
RunsUnderRoot == \A i \in RunningIssues : running[i].root = config.root

\* The loop fails by one of the exceptions of RaisesInHandler, or not at all.
FailsByFault == loop' = "crashed" => loop = "crashed" \/ RaisesInHandler
FailsByFaultOnly == [][FailsByFault]_vars

RootKept == RunsUnderRoot' /\ FailsByFault

\* A step that leaves the runs alone, reload or not, and does not fail.
LEMMA RootKeptAlone ==
    ASSUME RootStays, TypeOK, RunsUnderRoot, config' \in Configs, UNCHANGED running,
           loop' # "crashed" \/ UNCHANGED loop
    PROVE  RootKept
  <1>1. config'.root = config.root
    BY DEF RootStays, TypeOK
  <1> QED BY <1>1 DEF RootKept, RunsUnderRoot, FailsByFault, RunningIssues

\* A run is started under the root.
LEMMA DispatchUnderRoot ==
    ASSUME AllKeyed, TypeOK, RunsUnderRoot, NEW i \in Issues, NEW view \in Views, NEW a,
           NEW entries, DispatchIssue(i, view, a, entries), UNCHANGED config
    PROVE  RootKept
  <1> USE DEF RootKept, RunsUnderRoot, FailsByFault, RunningIssues
  <1>0. view.keyed
    BY DEF AllKeyed
  <1>1. CASE DispatchStarted(i, view, a, entries)
    <2>1. PICK w \in Representative(FreeWorkers) :
              running' = [running EXCEPT ![i] = [worker |-> w, attempt |-> a,
                             state |-> view.state, root |-> config.root]]
      BY <1>1 DEF DispatchStarted
    <2>2. running'[i].root = config.root /\ \A j \in Issues \ {i} : running'[j] = running[j]
      BY <2>1 DEF TypeOK
    <2> QED BY <1>1, <2>2 DEF DispatchStarted
  <1>2. CASE DispatchUnstarted(i, a, entries)
    BY <1>2 DEF DispatchUnstarted
  <1> QED BY <1>0, <1>1, <1>2 DEF DispatchIssue, DispatchRefused

LEMMA RootKeptStep ==
    ASSUME RootStays, AllKeyed
    PROVE  Typed /\ RunsUnderRoot /\ [Next]_vars => RootKept
  <1> SUFFICES ASSUME TypeOK, RefreshedAreRunning, RunsUnderRoot, [Next]_vars PROVE RootKept
    BY DEF Typed
  <1>gone. ASSUME NEW i \in Issues, running' = [running EXCEPT ![i] = None],
                  UNCHANGED <<config, loop>>
           PROVE  RootKept
    BY <1>gone DEF RootKept, RunsUnderRoot, FailsByFault, RunningIssues, TypeOK
  <1>same. UNCHANGED <<running, config, loop>> => RootKept
    BY DEF RootKept, RunsUnderRoot, FailsByFault, RunningIssues
  <1>1. ASSUME NEW i \in Issues, ReconcileIssue(i) PROVE RootKept
    <2>1. running[i] # None /\ running[i] \in RunningEntry /\ running[i].root = config.root
      BY <1>1 DEF ReconcileIssue, RefreshedAreRunning, RunsUnderRoot, RunningIssues, TypeOK
    <2>2. CASE TerminateRunningIssue(i)
      BY <1>1, <2>2, <1>gone DEF ReconcileIssue, TerminateRunningIssue
    <2>3. CASE running' = [running EXCEPT ![i].state = batch[i].state] /\ UNCHANGED loop
      <3>1. [running[i] EXCEPT !.state = batch[i].state].root = running[i].root
        BY <2>1 DEF RunningEntry
      <3>2. \A j \in Issues : running'[j] # None =>
                running[j] # None /\ running'[j].root = running[j].root
        BY <2>1, <2>3, <3>1 DEF TypeOK
      <3> QED BY <1>1, <2>3, <3>2
              DEF ReconcileIssue, RootKept, RunsUnderRoot, FailsByFault, RunningIssues
    <2> QED BY <1>1, <2>1, <2>2, <2>3 DEF ReconcileIssue
  <1>2. ASSUME NEW i \in Issues, CandidateDispatched(i) PROVE RootKept
    <2>1. batch[i] \in Views
      BY <1>2 DEF CandidateDispatched, FirstCandidate, TypeOK
    <2> QED BY <1>2, <2>1, DispatchUnderRoot DEF CandidateDispatched
  <1>3. ASSUME NEW i \in Issues, OnRetryTimer(i) PROVE RootKept
    <2>1. i \in Candidates => tracker[i] \in Views
      BY DEF Candidates, TypeOK
    <2> QED BY <1>3, <2>1, <1>same, DispatchUnderRoot
            DEF OnRetryTimer, RetryChecked, claimVars
  <1>4. CASE \/ \E i \in Issues : StalledRunRetried(i)
             \/ \E w \in Workers, i \in Issues, ok \in BOOLEAN : OnWorkerExit(w, i, ok)
    BY <1>4, <1>gone, <1>same DEF StalledRunRetried, OnWorkerExit, claimVars
  <1>5. CASE \/ Serve \/ ServeRefused \/ TickStarts \/ StatesRefreshed \/ StatesRefreshFailed
             \/ ReconcileDone \/ CandidatesFetched \/ DispatchSkipped \/ TickEnds \/ OnStop
             \/ \E i \in Issues : CandidatePassedOver(i)
    <2>1. /\ UNCHANGED running /\ config' \in Configs
          /\ loop' # "crashed" \/ UNCHANGED loop
      BY <1>5 DEF Serve, ServeRefused, TickStarts, StatesRefreshed, StatesRefreshFailed,
         ReconcileDone, CandidatesFetched, DispatchSkipped, TickEnds, OnStop,
         CandidatePassedOver, claimVars, TypeOK
    <2> QED BY <2>1, RootKeptAlone
  <1>6. CASE Environment \/ ServiceOver \/ UNCHANGED vars
    <2>1. UNCHANGED <<running, config, loop>>
      BY <1>6 DEF Environment, WorkerEnds, RetryTimerFires, TickTimerFires, StopRequested,
         TrackerChanges, ServiceOver, claimVars, vars
    <2> QED BY <2>1, <1>same
  <1>7. CASE RaisesInHandler
    <2>1. UNCHANGED config /\ \A j \in Issues : running'[j] \in {running[j], None}
      BY <1>7, RaisesEffect
    <2> QED BY <1>7, <2>1 DEF RootKept, RunsUnderRoot, FailsByFault, RunningIssues
  <1> QED BY <1>1, <1>2, <1>3, <1>4, <1>5, <1>6, <1>7 DEF Next, EventLoop, RunTick

\* While no reload moves the workspace root and every identifier yields a path below it,
\* every run works under the root that removal will check, so the refusals of dispatch and
\* removal never end the loop: an exception of a reload, a read of the tracker, a hook or
\* a thread that does not start does, or none, and without them no tick ever fails.  The
\* run root_moved shows that a moved root alone is enough to break it.
THEOREM FixedRootNeverRefuses ==
    ASSUME RootStays, AllKeyed
    PROVE  Spec => /\ []RunsUnderRoot
                   /\ FailsByFaultOnly
                   /\ Faults = {} => []TickNeverFails
  <1>1. Init => RunsUnderRoot /\ TickNeverFails
    BY DEF Init, RunsUnderRoot, TickNeverFails, RunningIssues
  <1>2. Typed /\ RunsUnderRoot /\ [Next]_vars => RunsUnderRoot' /\ [FailsByFault]_vars
    BY RootKeptStep DEF RootKept
  <1>3. Spec => []RunsUnderRoot /\ FailsByFaultOnly
    BY <1>1, <1>2, TypedAlways, PTL DEF Spec, FailsByFaultOnly
  <1>4. ASSUME Faults = {} PROVE Spec => []TickNeverFails
    <2>1. Typed /\ TickNeverFails /\ [FailsByFault]_vars => TickNeverFails'
      BY <1>4, RaisesEffect DEF Typed, FailsByFault, TickNeverFails, vars
    <2> QED BY <1>1, <1>3, <2>1, TypedAlways, PTL DEF Spec, FailsByFaultOnly
  <1>5. CASE Faults = {}
    BY <1>3, <1>4, <1>5
  <1>6. CASE Faults # {}
    BY <1>3, <1>6
  <1> QED BY <1>5, <1>6

-----------------------------------------------------------------------------
(* Closed issues.  Ticks read the tracker into a batch and act on it later, *)
(* and retries, exits and late threads of the issue may all still be on     *)
(* their way when it is closed.                                             *)

\* The tracker shows issue i as closed.
Closed(i) == tracker[i] # None /\ tracker[i].state \in TerminalStates

\* It is not claimed, and the tick under way did not fetch it as eligible before.
LetGo(i) == Closed(i) /\ i \notin claimed /\ (loop = "dispatch" => ~Eligible(batch[i]))

\* For as long as the issue stays closed, nothing claims it again: no tick, retry, exit
\* or stalled run, whatever of it is still queued or running.
ClosedStaysLetGo == [][\A i \in Issues : LetGo(i) /\ Closed(i)' => LetGo(i)']_vars

\* Only its own dispatch, retry, exit or stall claims an issue that is not.
LEMMA ClaimAppears ==
    ASSUME Typed, ClaimedExactly, [Next]_vars, NEW i \in Issues, i \notin claimed,
           loop = "dispatch" => ~Eligible(batch[i])
    PROVE  i \notin claimed'
  <1>typed. TypeOK
    BY DEF Typed
  <1>none. loop # "crashed" => running[i] = None /\ retry[i] = None
    BY DEF ClaimedExactly, RunningIssues, RetryIssues
  <1>1. ASSUME NEW j \in Issues, CandidateDispatched(j) PROVE i \notin claimed'
    <2>1. /\ loop = "dispatch" /\ Eligible(batch[j]) /\ DispatchIssue(j, batch[j], 0, retry)
      BY <1>1 DEF CandidateDispatched, ShouldDispatch, FirstCandidate, Eligible
    <2> QED BY <2>1 DEF DispatchIssue, DispatchStarted, DispatchUnstarted, DispatchRefused,
             ScheduleRetry
  <1>2. ASSUME NEW j \in Issues, OnRetryTimer(j) PROVE i \notin claimed'
    <2>1. loop = "idle"
      BY <1>2 DEF OnRetryTimer, Receive
    <2>2. CASE retry[j] = None
      BY <1>2, <2>2 DEF OnRetryTimer, claimVars
    <2>3. CASE retry[j] # None
      <3>1. i # j
        BY <1>none, <2>1, <2>3
      <3> QED BY <1>2, <2>3, <3>1 DEF OnRetryTimer, RetryChecked, ScheduleRetry, DispatchIssue,
               DispatchStarted, DispatchUnstarted, DispatchRefused
    <2> QED BY <2>2, <2>3
  <1>3. ASSUME NEW w \in Workers, NEW j \in Issues, NEW ok \in BOOLEAN, OnWorkerExit(w, j, ok)
        PROVE  i \notin claimed'
    <2>1. loop = "idle"
      BY <1>3 DEF OnWorkerExit, Receive
    <2> QED BY <1>3, <1>none, <2>1 DEF OnWorkerExit, ScheduleRetry, claimVars
  <1>4. ASSUME NEW j \in Issues, StalledRunRetried(j) PROVE i \notin claimed'
    BY <1>4, <1>none DEF StalledRunRetried, ScheduleRetry
  <1>5. ASSUME NEW j \in Issues, ReconcileIssue(j) PROVE i \notin claimed'
    BY <1>5 DEF ReconcileIssue, TerminateRunningIssue, TerminationRefused
  <1>6. CASE \/ Serve \/ ServeRefused \/ TickStarts \/ StatesRefreshed \/ StatesRefreshFailed
             \/ ReconcileDone \/ CandidatesFetched \/ DispatchSkipped \/ TickEnds \/ OnStop
             \/ \E j \in Issues : CandidatePassedOver(j)
    BY <1>6 DEF Serve, ServeRefused, TickStarts, StatesRefreshed, StatesRefreshFailed,
       ReconcileDone, CandidatesFetched, DispatchSkipped, TickEnds, OnStop, CandidatePassedOver,
       claimVars
  <1>7. CASE Environment \/ ServiceOver \/ UNCHANGED vars
    BY <1>7, OthersLeaveTheLoop
  <1>8. CASE RaisesInHandler
    BY <1>typed, <1>8, RaisesEffect
  <1> QED BY <1>1, <1>2, <1>3, <1>4, <1>5, <1>6, <1>7, <1>8 DEF Next, EventLoop, RunTick

\* A fetch finds a closed issue not eligible, and the batch only loses issues after it.
LEMMA NotFetched ==
    ASSUME TypeOK, [Next]_vars, NEW i \in Issues, LetGo(i), loop' = "dispatch"
    PROVE  ~Eligible(batch'[i])
  <1>1. CASE CandidatesFetched
    BY <1>1 DEF CandidatesFetched, LetGo, Closed, Eligible
  <1>2. CASE \E j \in Issues : CandidateDispatched(j) \/ CandidatePassedOver(j)
    <2>1. loop = "dispatch" /\ \E j \in Issues : batch' = [batch EXCEPT ![j] = None]
      BY <1>2 DEF CandidateDispatched, CandidatePassedOver
    <2> QED BY <2>1 DEF LetGo, Eligible, TypeOK
  <1>3. CASE UNCHANGED <<loop, batch>>
    BY <1>3 DEF LetGo
  <1>4. CASE loop' \in {"stalls", "refresh", "fetch", "idle", "refused", "stopped", "crashed"}
    BY <1>4
  <1>5. CASE \E j \in Issues : OnRetryTimer(j)
    <2>1. loop = "idle" /\ loop' \in {loop, "crashed"}
      BY <1>5, DispatchKeepsChain DEF OnRetryTimer, RetryChecked, Receive
    <2> QED BY <1>4, <2>1
  <1>6. CASE \E j \in Issues : ReconcileIssue(j)
    <2>1. loop' \in {"refresh", "crashed"}
      BY <1>6 DEF ReconcileIssue, TerminateRunningIssue, TerminationRefused
    <2> QED BY <1>4, <2>1
  <1>7. CASE Environment \/ ServiceOver \/ UNCHANGED vars
    BY <1>3, <1>7, OthersLeaveTheLoop
  <1>8. CASE \/ Serve \/ ServeRefused \/ TickStarts \/ StatesRefreshed \/ StatesRefreshFailed
             \/ ReconcileDone \/ DispatchSkipped \/ TickEnds \/ OnStop
             \/ \E j \in Issues : StalledRunRetried(j)
             \/ \E w \in Workers, j \in Issues, ok \in BOOLEAN : OnWorkerExit(w, j, ok)
    BY <1>3, <1>4, <1>8 DEF Serve, ServeRefused, TickStarts, StatesRefreshed, StatesRefreshFailed,
       ReconcileDone, DispatchSkipped, TickEnds, OnStop, StalledRunRetried, OnWorkerExit
  <1>9. CASE RaisesInHandler
    BY <1>4, <1>9, RaisesEnds
  <1> QED BY <1>1, <1>2, <1>5, <1>6, <1>7, <1>8, <1>9 DEF Next, EventLoop, RunTick

\* What is left of "closed issues are let go" without fairness: once let go, a closed
\* issue is not claimed again before the tracker shows it open again.
THEOREM ClosedNotReclaimed == Spec => ClosedStaysLetGo
  <1>1. TypeOK /\ Typed /\ ClaimedExactly /\ [Next]_vars =>
            [\A i \in Issues : LetGo(i) /\ Closed(i)' => LetGo(i)']_vars
    <2> SUFFICES ASSUME TypeOK, Typed, ClaimedExactly, [Next]_vars, NEW i \in Issues,
                        LetGo(i), Closed(i)'
                 PROVE  LetGo(i)'
      OBVIOUS
    <2>1. i \notin claimed'
      BY ClaimAppears DEF LetGo
    <2>2. loop' = "dispatch" => ~Eligible(batch'[i])
      BY NotFetched
    <2> QED BY <2>1, <2>2 DEF LetGo, Eligible
  <1> QED BY <1>1, TypeCorrect, TypedAlways, ClaimsExact, PTL DEF Spec, ClosedStaysLetGo

-----------------------------------------------------------------------------
(* What AgentRunner builds on: who may work on an issue.                   *)

\* The threads at work and the tracked issues, as the contract has them.
Held == [i \in Issues |-> IF Ended THEN {} ELSE {w \in Workers : HeldBy(w, i)}]
Tracked == IF Ended THEN {} ELSE RunningIssues

RunsStep == Runs!Next \/ UNCHANGED <<Held, Tracked>>

HeldSame == \A w \in Workers, i \in Issues : HeldBy(w, i)' <=> HeldBy(w, i)

\* The loop's end takes everything away.
LEMMA EndIsOver == Ended' => RunsStep
  <1>1. Ended' => Held' = [i \in Issues |-> {}] /\ Tracked' = {}
    BY DEF Held, Tracked
  <1> QED BY <1>1 DEF RunsStep, Runs!Next, Runs!Over, Held, Tracked

\* If nobody starts or reports, one entry at most is let go.
LEMMA NobodyMoves ==
    ASSUME ~Ended, HeldSame,
           \/ RunningIssues' = RunningIssues
           \/ \E i \in RunningIssues : RunningIssues' = RunningIssues \ {i}
    PROVE  RunsStep
  <1> SUFFICES ASSUME ~Ended' PROVE RunsStep
    BY EndIsOver
  <1>1. Held' = Held
    BY DEF Held, HeldSame
  <1>2. Tracked = RunningIssues /\ Tracked' = RunningIssues'
    BY DEF Tracked
  <1>3. ASSUME NEW i \in RunningIssues, RunningIssues' = RunningIssues \ {i} PROVE RunsStep
    <2>1. i \in Issues
      BY DEF RunningIssues
    <2>2. Runs!LetGo(i)
      BY <1>1, <1>2, <1>3 DEF Runs!LetGo, Held, Tracked
    <2> QED BY <2>1, <2>2 DEF RunsStep, Runs!Next
  <1> QED BY <1>1, <1>2, <1>3 DEF RunsStep

\* Which steps keep every exit in the queue, and add none.
LEMMA ExitsStay ==
    ASSUME TypeOK
    PROVE  /\ UNCHANGED events => ExitsKept
           /\ \A e : Receive(e) /\ (\A w, i, a : e # WorkerExit(w, i, a)) => ExitsKept
           /\ events' = Append(events, Tick) => ExitsKept
           /\ events' = Append(events, Stop) => ExitsKept
           /\ \A i \in Issues : events' = Append(events, RetryDue(i)) => ExitsKept
  <1>0. events \in Seq(Event)
    BY DEF TypeOK
  <1>1. UNCHANGED events => ExitsKept
    BY QueueKept DEF ExitsKept
  <1>2. ASSUME NEW e, Receive(e), \A w, i, a : e # WorkerExit(w, i, a) PROVE ExitsKept
    BY <1>0, <1>2, ReceiveDequeues DEF ExitsKept
  <1>3. ASSUME NEW e \in Event, events' = Append(events, e) PROVE ExitsKept
    BY <1>0, <1>3, SendQueues DEF ExitsKept
  <1> QED BY <1>1, <1>2, <1>3 DEF Event

LEMMA SameHeld == ASSUME ExitsKept, NoExitSent, UNCHANGED workers PROVE HeldSame
  BY DEF ExitsKept, NoExitSent, HeldSame, HeldBy

\* A worker that ends is held by its exit.
LEMMA EndedIsHeld ==
    ASSUME TypeOK, NEW w \in Workers, NEW ok \in BOOLEAN, WorkerEnds(w, ok)
    PROVE  HeldSame
  <1>0. PICK i \in Issues : workers[w] = i
    BY DEF WorkerEnds, TypeOK
  <1> DEFINE e == WorkerExit(w, i, ok)
  <1>1. /\ events \in Seq(Event) /\ e \in Event /\ events' = Append(events, e)
        /\ workers' = [workers EXCEPT ![w] = None]
    BY <1>0 DEF WorkerEnds, TypeOK, Event
  <1>2. Queued(e)' /\ \A d : d # e => (Queued(d)' <=> Queued(d))
    BY <1>1, SendQueues
  <1> HIDE DEF e
  <1>3. \A d : Queued(d) => Queued(d)'
    BY <1>2
  <1> SUFFICES ASSUME NEW v \in Workers, NEW j \in Issues, HeldBy(v, j) PROVE HeldBy(v, j)'
    BY EndedHeldKept DEF HeldSame, HeldKept
  <1>4. CASE v = w /\ workers[v] = j
    BY <1>0, <1>2, <1>4 DEF e, HeldBy, WorkerExit
  <1>5. CASE v # w /\ workers[v] = j
    BY <1>1, <1>5 DEF HeldBy, TypeOK
  <1>6. ASSUME NEW b \in BOOLEAN, Queued(WorkerExit(v, j, b)) PROVE HeldBy(v, j)'
    BY <1>3, <1>6 DEF HeldBy, WorkerExit
  <1> QED BY <1>4, <1>5, <1>6 DEF HeldBy

\* A dispatch starts a thread nobody knows on an issue that has no entry.
LEMMA DispatchIsRunsStep ==
    ASSUME TypeOK, ~Ended, ExitsKept, NoExitSent, NEW i \in Issues, NEW view \in View,
           NEW a \in Attempts, NEW entries, running[i] = None, DispatchIssue(i, view, a, entries)
    PROVE  RunsStep
  <1>0. /\ workers \in [Workers -> Issues \cup {None}]
        /\ running \in [Issues -> RunningEntry \cup {None}]
    BY DEF TypeOK
  <1>1. CASE DispatchStarted(i, view, a, entries)
    <2>1. PICK w \in FreeWorkers :
              /\ workers' = [workers EXCEPT ![w] = i]
              /\ running' = [running EXCEPT ![i] = [worker |-> w, attempt |-> a,
                                state |-> view.state, root |-> config.root]]
      BY <1>1, RepresentativeIsElement DEF DispatchStarted, StartThread
    <2>2. w \in Workers /\ workers[w] = None /\ ~ExitQueued(w)
      BY <2>1 DEF FreeWorkers
    <2>3. \A j \in Issues : ~HeldBy(w, j)
      BY <2>2, NoneAssumption DEF HeldBy, ExitQueued
    <2>4. workers'[w] = i /\ \A v \in Workers \ {w} : workers'[v] = workers[v]
      BY <1>0, <2>1, <2>2
    <2>5. \A v \in Workers \ {w}, j \in Issues : HeldBy(v, j)' <=> HeldBy(v, j)
      BY <2>4 DEF ExitsKept, NoExitSent, HeldBy
    <2>6. ~ExitQueued(w)'
      BY <2>2 DEF NoExitSent, ExitQueued
    <2>7. \A j \in Issues : HeldBy(w, j)' <=> j = i
      BY <2>2, <2>4, <2>6 DEF HeldBy, ExitQueued
    <2>8. RunningIssues' = RunningIssues \cup {i}
      <3>1. running'[i] = [worker |-> w, attempt |-> a, state |-> view.state, root |-> config.root]
        BY <1>0, <2>1
      <3>2. view.state \in States /\ config.root \in Roots
        BY ConfigAssumption DEF View, Config, TypeOK
      <3>3. running'[i] # None
        BY <2>2, <3>1, <3>2, NoneAssumption DEF RunningEntry
      <3>4. \A j \in Issues \ {i} : running'[j] = running[j]
        BY <1>0, <2>1
      <3> QED BY <3>3, <3>4 DEF RunningIssues
    <2>9. ~Ended'
      BY <1>1 DEF DispatchStarted, Ended
    <2>10. Held' = [Held EXCEPT ![i] = @ \cup {w}]
      BY <2>2, <2>3, <2>5, <2>7, <2>9 DEF Held
    <2>11. i \notin Tracked /\ Tracked' = Tracked \cup {i}
      BY <2>8, <2>9 DEF Tracked, RunningIssues
    <2>12. \A j \in Issues : w \notin Held[j]
      BY <2>3 DEF Held
    <2>13. Runs!Dispatch(i, w)
      BY <2>10, <2>11, <2>12 DEF Runs!Dispatch, Held, Tracked
    <2> QED BY <2>2, <2>13 DEF RunsStep, Runs!Next
  <1>2. CASE DispatchUnstarted(i, a, entries)
    <2>1. UNCHANGED <<workers, running>>
      BY <1>2 DEF DispatchUnstarted
    <2>2. RunningIssues' = RunningIssues
      BY <2>1 DEF RunningIssues
    <2> QED BY <2>1, <2>2, SameHeld, NobodyMoves
  <1>3. CASE DispatchRefused(i, view, entries)
    BY <1>3, EndIsOver DEF DispatchRefused, Ended
  <1> QED BY <1>1, <1>2, <1>3 DEF DispatchIssue

\* An exit is the one report of its worker.
LEMMA ExitIsReport ==
    ASSUME TypeOK, ThreadsOnce, ~Ended, NEW w \in Workers, NEW i \in Issues, NEW ok \in BOOLEAN,
           OnWorkerExit(w, i, ok)
    PROVE  RunsStep
  <1> SUFFICES ASSUME ~Ended' PROVE RunsStep
    BY EndIsOver
  <1> DEFINE e == WorkerExit(w, i, ok)
  <1>1. /\ Receive(e) /\ UNCHANGED workers /\ events \in Seq(Event)
    BY DEF OnWorkerExit, TypeOK
  <1>2. /\ Queued(e) /\ \A d : d # e => (Queued(d)' <=> Queued(d))
        /\ \A d : Queued(d)' => Queued(d)
        /\ QueuedOnce(e) => ~Queued(e)'
    BY <1>1, ReceiveDequeues
  <1>3. ~Queued(e)'
    BY <1>2 DEF ThreadsOnce
  <1>4. HeldBy(w, i)
    BY <1>2 DEF HeldBy
  <1>5. \A j \in Issues : ~HeldBy(w, j)'
    <2>1. workers[w] = None
      BY <1>2 DEF ThreadsOnce, ExitQueued
    <2>2. ASSUME NEW j \in Issues, NEW b \in BOOLEAN, Queued(WorkerExit(w, j, b))' PROVE FALSE
      BY <1>2, <1>3, <2>2 DEF ThreadsOnce
    <2> QED BY <1>1, <2>1, <2>2, NoneAssumption DEF HeldBy, WorkerExit
  <1>6. \A j \in Issues \ {i} : ~HeldBy(w, j)
    <2>1. workers[w] = None
      BY <1>2 DEF ThreadsOnce, ExitQueued
    <2>2. ASSUME NEW j \in Issues, NEW b \in BOOLEAN, Queued(WorkerExit(w, j, b)) PROVE j = i
      BY <1>2, <2>2 DEF ThreadsOnce
    <2> QED BY <2>1, <2>2, NoneAssumption DEF HeldBy
  <1>7. \A v \in Workers \ {w}, j \in Issues : HeldBy(v, j)' <=> HeldBy(v, j)
    <2>1. ASSUME NEW v \in Workers \ {w}, NEW j \in Issues, NEW b \in BOOLEAN
          PROVE  Queued(WorkerExit(v, j, b))' <=> Queued(WorkerExit(v, j, b))
      <3>1. WorkerExit(v, j, b) # e
        BY ExitsDiffer
      <3> QED BY <1>2, <3>1 DEF WorkerExit
    <2> QED BY <1>1, <2>1 DEF HeldBy
  <1>8. RunningIssues' = RunningIssues \ {i}
    <2>0. running \in [Issues -> RunningEntry \cup {None}]
      BY DEF TypeOK
    <2>1. running'[i] = None /\ \A j \in Issues \ {i} : running'[j] = running[j]
      <3>1. CASE running[i] = None
        BY <3>1 DEF OnWorkerExit, claimVars
      <3>2. CASE running[i] # None
        <4>1. running' = [running EXCEPT ![i] = None]
          BY <3>2 DEF OnWorkerExit
        <4> QED BY <2>0, <4>1
      <3> QED BY <3>1, <3>2
    <2> QED BY <2>1 DEF RunningIssues
  <1> HIDE DEF e
  <1>9. w \in Held[i] /\ Held' = [Held EXCEPT ![i] = @ \ {w}]
    <2>1. /\ Held = [j \in Issues |-> {v \in Workers : HeldBy(v, j)}]
          /\ Held' = [j \in Issues |-> {v \in Workers : HeldBy(v, j)'}]
      BY DEF Held
    <2>2. {v \in Workers : HeldBy(v, i)'} = {v \in Workers : HeldBy(v, i)} \ {w}
      BY <1>5, <1>7
    <2>3. \A j \in Issues \ {i} :
              {v \in Workers : HeldBy(v, j)'} = {v \in Workers : HeldBy(v, j)}
      BY <1>5, <1>6, <1>7
    <2>4. w \in {v \in Workers : HeldBy(v, i)}
      BY <1>4
    <2> QED BY <2>1, <2>2, <2>3, <2>4
  <1>10. Tracked' = Tracked \ {i}
    BY <1>8 DEF Tracked
  <1>11. Runs!Report(i, w)
    BY <1>9, <1>10 DEF Runs!Report, Held, Tracked
  <1> QED BY <1>11 DEF RunsStep, Runs!Next

\* Every step of the service is one of the contract, or none.
LEMMA RunsStepTaken == Typed /\ ClaimedExactly /\ ThreadsOnce /\ [Next]_vars => RunsStep
  <1> SUFFICES ASSUME Typed, TypeOK, ClaimedExactly, ThreadsOnce, [Next]_vars, ~Ended PROVE RunsStep
    BY EndedStays, EndIsOver DEF Typed
  <1>0. running \in [Issues -> RunningEntry \cup {None}]
    BY DEF TypeOK
  <1>quiet. ASSUME UNCHANGED <<events, workers>> PROVE HeldSame
    BY <1>quiet, ExitsStay, QuietSteps, SameHeld
  <1>1. ASSUME NEW i \in Issues, CandidateDispatched(i) PROVE RunsStep
    <2>1. /\ DispatchIssue(i, batch[i], 0, retry) /\ UNCHANGED events /\ running[i] = None
          /\ batch[i] \in View /\ 0 \in Attempts
      BY <1>1, ViewAssumption, AttemptAssumption
         DEF CandidateDispatched, ShouldDispatch, FirstCandidate, TypeOK, Attempts
    <2> QED BY <2>1, ExitsStay, QuietSteps, DispatchIsRunsStep
  <1>2. ASSUME NEW i \in Issues, OnRetryTimer(i) PROVE RunsStep
    <2>1. ExitsKept /\ NoExitSent
      BY <1>2, ExitsStay, QuietSteps, KindsDiffer DEF OnRetryTimer
    <2>2. CASE UNCHANGED <<workers, running>>
      <3>1. RunningIssues' = RunningIssues
        BY <2>2 DEF RunningIssues
      <3> QED BY <2>1, <2>2, <3>1, SameHeld, NobodyMoves
    <2>3. ASSUME retry[i] # None, i \in Candidates,
                 DispatchIssue(i, tracker[i], retry[i].attempt, [retry EXCEPT ![i] = None])
          PROVE  RunsStep
      <3>1. running[i] = None
        BY <2>3 DEF ClaimedExactly, RunningIssues, RetryIssues
      <3>2. tracker[i] \in View /\ retry[i].attempt \in Attempts
        BY <2>3, ViewAssumption, RetryAttemptTyped DEF Candidates, TypeOK
      <3> QED BY <2>1, <2>3, <3>1, <3>2, DispatchIsRunsStep
    <2> QED BY <1>2, <2>2, <2>3 DEF OnRetryTimer, RetryChecked, claimVars
  <1>3. ASSUME NEW i \in Issues, StalledRunRetried(i) PROVE RunsStep
    <2>1. running[i] # None /\ running' = [running EXCEPT ![i] = None] /\ UNCHANGED <<events, workers>>
      BY <1>3 DEF StalledRunRetried
    <2>2. i \in RunningIssues /\ RunningIssues' = RunningIssues \ {i}
      BY <1>0, <2>1 DEF RunningIssues
    <2> QED BY <1>quiet, <2>1, <2>2, NobodyMoves
  <1>4. ASSUME NEW i \in Issues, ReconcileIssue(i) PROVE RunsStep
    <2>1. running[i] # None /\ UNCHANGED <<events, workers>>
      BY <1>4 DEF ReconcileIssue, Typed, RefreshedAreRunning
    <2>2. CASE running' = [running EXCEPT ![i] = None]
      <3>1. i \in RunningIssues /\ RunningIssues' = RunningIssues \ {i}
        BY <1>0, <2>1, <2>2 DEF RunningIssues
      <3> QED BY <1>quiet, <2>1, <3>1, NobodyMoves
    <2>3. ASSUME running' = [running EXCEPT ![i].state = batch[i].state] PROVE RunsStep
      <3>1. running'[i] = [running[i] EXCEPT !.state = batch[i].state]
            /\ \A j \in Issues \ {i} : running'[j] = running[j]
        BY <1>0, <2>3
      <3>2. running'[i] # None
        <4>1. TypeOK'
          BY TypedStep DEF Typed
        <4>2. running[i] \in RunningEntry
          BY <1>0, <2>1
        <4>3. batch[i].state \in States
          BY <1>4, ViewAssumption DEF ReconcileIssue, TypeOK, View
        <4>4. running'[i] \in RunningEntry
          BY <3>1, <4>2, <4>3 DEF RunningEntry
        <4> QED BY <4>4, NoneAssumption
      <3>3. RunningIssues' = RunningIssues
        BY <2>1, <3>1, <3>2 DEF RunningIssues
      <3> QED BY <1>quiet, <2>1, <3>3, NobodyMoves
    <2> QED BY <1>4, <2>2, <2>3 DEF ReconcileIssue, TerminateRunningIssue, TerminationRefused
  <1>5. ASSUME NEW w \in Workers, NEW i \in Issues, NEW ok \in BOOLEAN, OnWorkerExit(w, i, ok)
        PROVE  RunsStep
    BY <1>5, ExitIsReport
  <1>6. ASSUME NEW w \in Workers, NEW ok \in BOOLEAN, WorkerEnds(w, ok) PROVE RunsStep
    <2>1. RunningIssues' = RunningIssues
      BY <1>6 DEF WorkerEnds, claimVars, RunningIssues
    <2> QED BY <1>6, <2>1, EndedIsHeld, NobodyMoves
  <1>7. CASE OnStop \/ ServeRefused
    BY <1>7, EndIsOver DEF OnStop, ServeRefused, Ended
  <1>10. CASE RaisesInHandler
    BY <1>10, EndIsOver, RaisesEnds DEF Ended
  <1>8. CASE \/ Serve \/ TickStarts \/ TickTimerFires \/ StopRequested
             \/ \E t \in Timers : RetryTimerFires(t)
    <2>1. UNCHANGED <<workers, running>>
      BY <1>8 DEF Serve, TickStarts, TickTimerFires, StopRequested, RetryTimerFires, claimVars
    <2>2. ExitsKept /\ NoExitSent
      <3>1. CASE TickStarts
        BY <3>1, ExitsStay, QuietSteps, KindsDiffer DEF TickStarts
      <3>2. CASE \/ Serve \/ TickTimerFires \/ StopRequested
                 \/ \E t \in Timers : RetryTimerFires(t)
        <4>1. \/ events' = Append(events, Tick) \/ events' = Append(events, Stop)
              \/ \E i \in Issues : events' = Append(events, RetryDue(i))
          BY <3>2 DEF Serve, TickTimerFires, StopRequested, RetryTimerFires, TypeOK
        <4> QED BY <4>1, ExitsStay, QuietSteps
      <3> QED BY <1>8, <3>1, <3>2
    <2>3. RunningIssues' = RunningIssues
      BY <2>1 DEF RunningIssues
    <2> QED BY <2>1, <2>2, <2>3, SameHeld, NobodyMoves
  <1>9. CASE \/ StatesRefreshed \/ StatesRefreshFailed \/ ReconcileDone \/ CandidatesFetched
             \/ DispatchSkipped \/ TickEnds \/ ServiceOver \/ UNCHANGED vars
             \/ \E i \in Issues : CandidatePassedOver(i) \/ TrackerChanges(i)
    <2>1. UNCHANGED <<workers, events, running>>
      BY <1>9 DEF StatesRefreshed, StatesRefreshFailed, ReconcileDone, CandidatesFetched,
         DispatchSkipped, TickEnds, CandidatePassedOver, TrackerChanges, ServiceOver, vars, claimVars
    <2>2. RunningIssues' = RunningIssues
      BY <2>1 DEF RunningIssues
    <2> QED BY <1>quiet, <2>1, <2>2, NobodyMoves
  <1> QED BY <1>1, <1>2, <1>3, <1>4, <1>5, <1>6, <1>7, <1>8, <1>9, <1>10
          DEF Next, EventLoop, RunTick, Environment

\* The orchestrator provides what AgentRunner builds on, for any number of issues,
\* threads and events on their way: a thread is started only on an issue without entry,
\* and reports once, which ends what is tracked of that issue and nothing else.
THEOREM RunsProvided == Spec => ImplementsIssueRuns
  <1>1. Init => Runs!Init
    <2> SUFFICES ASSUME Init PROVE Runs!Init
      OBVIOUS
    <2>1. \A w \in Workers, i \in Issues : ~HeldBy(w, i)
      BY NoneAssumption, EmptySeq DEF Init, HeldBy, Queued
    <2> QED BY <2>1 DEF Init, Runs!Init, RunningIssues, Ended
  <1>2. Typed /\ ClaimedExactly /\ ThreadsOnce /\ [Next]_vars => [Runs!Next]_<<Held, Tracked>>
    BY RunsStepTaken DEF RunsStep
  <1>3. Typed => TypeOK
    BY DEF Typed
  <1>4. Spec => []ThreadsOnce
    BY <1>3, OnceInit, OnceStep, TypedAlways, PTL DEF Spec
  <1> QED BY <1>1, <1>2, <1>4, TypedAlways, ClaimsExact, PTL
          DEF Spec, ImplementsIssueRuns, Runs!Spec, Held, Tracked

=============================================================================
