-------------------------- MODULE AccountingProofs --------------------------
(* Proofs about Accounting, for any number of runs, turns, events and any  *)
(* timeout.                                                                *)
EXTENDS Accounting, SequenceTheorems, TLAPS

-----------------------------------------------------------------------------
(* Events and the queue.                                                   *)

\* Every event is one of the queue's, and what it says of its run.
LEMMA EventTypes ==
    /\ Tick \in Event /\ RetryDue \in Event /\ Updates \subseteq Event
    /\ \A r \in Runs : WorkerExit(r) \in Event /\ Noise(r) \in Updates /\ Named(r) \in Updates
    /\ \A r \in Runs, n \in 1 .. MaxTurns : Result(r, n) \in Updates
<1> QED BY DEF Event, Updates

\* An update is of a run, and a result of one of its turns.
LEMMA UpdateRuns ==
    ASSUME NEW e \in Updates
    PROVE  /\ e.kind = "update" /\ e.run \in Runs
           /\ e.what = "result" => /\ e.turn \in 1 .. MaxTurns
                                   /\ e = Result(e.run, e.turn)
                                   /\ <<e.run, e.turn>> \in Results
           /\ e.what \in {"noise", "named", "result"}
<1> QED BY DEF Updates, Noise, Named, Result, Results

\* Sending appends one event.
LEMMA Sent ==
    ASSUME TypeOK, NEW e \in Event, Enqueue(e)
    PROVE  /\ events' \in Seq(Event)
           /\ Len(events) \in Nat /\ Len(events') = Len(events) + 1
           /\ \A k \in 1 .. Len(events) : events'[k] = events[k]
           /\ events'[Len(events) + 1] = e
           /\ \A d : Queued(d)' <=> Queued(d) \/ d = e
<1>1. /\ events' \in Seq(Event)
      /\ Len(events) \in Nat /\ Len(events') = Len(events) + 1
      /\ \A k \in 1 .. Len(events) : events'[k] = events[k]
      /\ events'[Len(events) + 1] = e
  BY AppendProperties, LenProperties DEF TypeOK, Enqueue
<1>2. \A d : Queued(d)' <=> Queued(d) \/ d = e
  BY <1>1 DEF Queued
<1> QED BY <1>1, <1>2

\* Receiving takes the first event.
LEMMA Received ==
    ASSUME TypeOK, NEW e, Receive(e)
    PROVE  /\ events' \in Seq(Event)
           /\ e \in Event /\ Len(events) \in Nat /\ Len(events) >= 1
           /\ Len(events') = Len(events) - 1
           /\ events[1] = e
           /\ \A k \in 1 .. Len(events') : events'[k] = events[k + 1]
           /\ Queued(e)
           /\ \A d : Queued(d)' => Queued(d)
           /\ \A d : d # e => (Queued(d)' <=> Queued(d))
<1>1. /\ events' \in Seq(Event)
      /\ e \in Event /\ Len(events) \in Nat /\ Len(events) >= 1
      /\ Len(events') = Len(events) - 1
      /\ events[1] = e
      /\ \A k \in 1 .. Len(events') : events'[k] = events[k + 1]
  BY HeadTailProperties, LenProperties, EmptySeq DEF TypeOK, Receive
<1>2. Queued(e)
  BY <1>1 DEF Queued
<1>3. ASSUME NEW d, Queued(d)' PROVE Queued(d)
  <2>1. PICK k \in 1 .. Len(events') : events'[k] = d
    BY <1>3 DEF Queued
  <2>2. k + 1 \in 1 .. Len(events) /\ events[k + 1] = d
    BY <1>1, <2>1
  <2> QED BY <2>2 DEF Queued
<1>4. ASSUME NEW d, d # e, Queued(d) PROVE Queued(d)'
  <2>1. PICK k \in 1 .. Len(events) : events[k] = d
    BY <1>4 DEF Queued
  <2>2. k # 1
    BY <1>1, <1>4, <2>1
  <2>3. k - 1 \in 1 .. Len(events') /\ events'[k - 1] = d
    BY <1>1, <2>1, <2>2
  <2> QED BY <2>3 DEF Queued
<1> QED BY <1>1, <1>2, <1>3, <1>4

-----------------------------------------------------------------------------
(* Types, and the entry.                                                   *)

\* The strengthening: the entry is the last dispatch's, began in the past, and
\* excludes a retry.  Without it a run's time could be negative.
EntryIsLast ==
    entry # None =>
        /\ entry.run = started
        /\ entry.startedAt <= clock
        /\ retry = "none"

Typed == TypeOK /\ EntryIsLast

\* They hold initially.
LEMMA TypedInit == Init => Typed
<1> SUFFICES ASSUME Init PROVE Typed
  OBVIOUS
<1>1. events \in Seq(Event)
  BY EventTypes DEF Init
<1>2. Zero \in Counter /\ 0 \in Time
  BY BoundAssumption DEF Zero, Counter, Time
<1> QED BY <1>1, <1>2, BoundAssumption DEF Init, Typed, TypeOK, EntryIsLast

\* What a dispatch writes.
LEMMA DispatchTyped ==
    ASSUME Typed, Dispatch, clock' = clock
    PROVE  /\ started' \in 0 .. MaxRuns /\ started' \in Runs
           /\ used' = used /\ report' = report /\ retry' = "none"
           /\ spoke' \in [Runs -> Time]
           /\ entry' \in RunningEntry \cup {None} /\ EntryIsLast'
<1>1. started + 1 \in Runs /\ clock \in Nat
  BY BoundAssumption DEF Dispatch, Typed, TypeOK, Runs, Time
<1>2. entry' \in RunningEntry
  BY <1>1 DEF Dispatch, Typed, TypeOK, RunningEntry
<1>3. spoke' \in [Runs -> Time]
  BY <1>1 DEF Dispatch, Typed, TypeOK
<1>4. EntryIsLast'
  BY <1>1 DEF Dispatch, EntryIsLast
<1> QED BY <1>1, <1>2, <1>3, <1>4 DEF Dispatch, Runs

\* What letting a run go writes.
LEMMA LetGoTyped ==
    ASSUME Typed, entry # None, LetGo
    PROVE  /\ letGo' \in SUBSET Runs /\ letGo' # {}
           /\ runtime' = runtime /\ totals' = totals /\ occupied' = occupied
           /\ Elapsed(entry) \in Nat
<1>1. entry \in RunningEntry
  BY DEF Typed, TypeOK
<1>2. Elapsed(entry) \in Nat
  BY <1>1 DEF Typed, TypeOK, EntryIsLast, RunningEntry, Elapsed, Time
<1> QED BY <1>1, <1>2 DEF Typed, TypeOK, RunningEntry, LetGo, countVars

\* A tick: an entry is dropped, or none is, and a run may be dispatched.
LEMMA TickEffects ==
    ASSUME OnTick
    PROVE  /\ Receive(Tick) /\ clock' = clock
           /\ \/ /\ entry # None /\ LetGo
                 /\ Dispatch \/ (entry' = None /\ retry' \in {"none", "armed"} /\ UNCHANGED workerVars)
              \/ /\ UNCHANGED <<countVars, historyVars, entry, workerVars>>
                 /\ retry' = retry \/ (entry = None /\ retry' = "armed")
              \/ /\ UNCHANGED <<countVars, historyVars>>
                 /\ entry = None /\ Dispatch
<1> QED BY DEF OnTick, StalledRunRetried, ClosedIssueTerminated, RunGoesOn, CandidateConsidered,
               NotDispatched, Stalled

\* The entry an update leaves.
LEMMA HeardTyped ==
    ASSUME Typed, NEW e \in Updates, entry # None, Heard(e), UNCHANGED <<clock, started, retry>>
    PROVE  /\ entry' \in RunningEntry /\ entry'.session \in LiveSession
           /\ entry'.run = entry.run /\ entry'.startedAt = entry.startedAt
           /\ entry'.session.lastEvent = clock
           /\ entry'.session.of = IF entry.session # None THEN entry.session.of ELSE e.run
           /\ ShownUsage \in Counter
           /\ entry'.session.usage = [x \in Results |-> ShownUsage[x] +
                 (IF e.what = "result" /\ x = <<e.run, e.turn>> THEN 1 ELSE 0)]
           /\ EntryIsLast'
<1>1. entry \in RunningEntry /\ clock \in Time /\ e.run \in Runs
  BY UpdateRuns DEF Typed, TypeOK
<1>2. Zero \in Counter
  BY DEF Zero, Counter
<1>3. SessionFor(e) \in LiveSession /\ ShownUsage \in Counter /\ SessionFor(e).usage = ShownUsage
      /\ SessionFor(e).of = IF entry.session # None THEN entry.session.of ELSE e.run
  BY <1>1, <1>2 DEF SessionFor, LiveSession, RunningEntry, ShownUsage
<1> DEFINE u == [x \in Results |-> ShownUsage[x] +
                   (IF e.what = "result" /\ x = <<e.run, e.turn>> THEN 1 ELSE 0)]
           s == [SessionFor(e) EXCEPT !.lastEvent = clock, !.usage = u]
<1>4. u \in Counter
  BY <1>3 DEF Counter
<1>5. s \in LiveSession /\ s.lastEvent = clock /\ s.usage = u /\ s.of = SessionFor(e).of
  BY <1>1, <1>3, <1>4 DEF LiveSession
<1>6. entry' = [entry EXCEPT !.session = s]
  BY <1>3 DEF Heard
<1> HIDE DEF u, s
<1>7. entry' \in RunningEntry /\ entry'.session = s
      /\ entry'.run = entry.run /\ entry'.startedAt = entry.startedAt
  BY <1>1, <1>5, <1>6 DEF RunningEntry
<1>8. EntryIsLast'
  BY <1>7 DEF EntryIsLast, Typed
<1> QED BY <1>3, <1>5, <1>7, <1>8 DEF u

\* What the exit of a run adds up.
LEMMA ExitTyped ==
    ASSUME Typed, NEW r \in Runs, entry # None, AccumulateTotals(r)
    PROVE  /\ runtime' = runtime + Elapsed(entry) /\ runtime' \in Nat
           /\ totals' = [x \in Results |-> totals[x] + (IF x \in report[r] THEN 1 ELSE 0)]
           /\ totals' \in Counter
<1>1. entry \in RunningEntry
  BY DEF Typed, TypeOK
<1>2. Elapsed(entry) \in Nat
  BY <1>1 DEF Typed, TypeOK, EntryIsLast, RunningEntry, Elapsed, Time
<1>3. totals' \in Counter
  BY DEF AccumulateTotals, Typed, TypeOK, Counter
<1> QED BY <1>2, <1>3 DEF AccumulateTotals, Typed, TypeOK

\* A run's turns are results.
LEMMA TurnsTyped == ASSUME TypeOK, NEW r \in Runs PROVE Turns(r) \in SUBSET Results
<1>1. used[r] \in 0 .. MaxTurns
  BY DEF TypeOK
<1> QED BY <1>1, BoundAssumption DEF Turns, Results

\* Every step keeps types and the entry's shape.
LEMMA TypedStep == Typed /\ [Next]_vars => Typed'
<1> SUFFICES ASSUME Typed, [Next]_vars PROVE Typed'
  OBVIOUS
<1>0. TypeOK /\ EntryIsLast /\ MaxTime \in Nat
  BY BoundAssumption DEF Typed
<1>1. CASE OnTick
  <2>1. /\ events' \in Seq(Event) /\ clock' = clock
    BY <1>0, <1>1, TickEffects, Received
  <2>2. CASE entry # None /\ LetGo /\ Dispatch
    BY <1>0, <2>1, <2>2, LetGoTyped, DispatchTyped DEF Typed, TypeOK
  <2>3. CASE /\ entry # None /\ LetGo
             /\ entry' = None /\ retry' \in {"none", "armed"} /\ UNCHANGED workerVars
    BY <1>0, <2>1, <2>3, LetGoTyped DEF Typed, TypeOK, EntryIsLast, workerVars
  <2>4. CASE /\ UNCHANGED <<countVars, historyVars, entry, workerVars>>
             /\ retry' = retry \/ (entry = None /\ retry' = "armed")
    BY <1>0, <2>1, <2>4 DEF Typed, TypeOK, EntryIsLast, workerVars, countVars, historyVars
  <2>5. CASE UNCHANGED <<countVars, historyVars>> /\ entry = None /\ Dispatch
    BY <1>0, <2>1, <2>5, DispatchTyped DEF Typed, TypeOK, countVars, historyVars
  <2> QED BY <1>1, TickEffects, <2>2, <2>3, <2>4, <2>5
<1>2. CASE OnRetryTimer
  <2>1. /\ events' \in Seq(Event) /\ clock' = clock /\ UNCHANGED <<countVars, historyVars>>
    BY <1>0, <1>2, Received DEF OnRetryTimer
  <2>2. CASE retry # "none" /\ Dispatch
    BY <1>0, <2>1, <2>2, DispatchTyped DEF Typed, TypeOK, countVars, historyVars
  <2>3. CASE \/ retry = "none" /\ NotDispatched(retry)
             \/ retry # "none" /\ (NotDispatched("armed") \/ NotDispatched("none"))
    BY <1>0, <2>1, <2>3 DEF Typed, TypeOK, EntryIsLast, NotDispatched, workerVars, countVars, historyVars
  <2> QED BY <1>2, <2>2, <2>3 DEF OnRetryTimer
<1>3. ASSUME NEW r \in Runs, OnWorkerExit(r) PROVE Typed'
  <2>1. /\ events' \in Seq(Event)
        /\ UNCHANGED <<clock, workerVars, occupied>>
    BY <1>0, <1>3, Received DEF OnWorkerExit
  <2>2. CASE entry = None
    BY <1>0, <1>3, <2>1, <2>2 DEF OnWorkerExit, Typed, TypeOK, EntryIsLast, workerVars, countVars
  <2>3. CASE entry # None
    <3>1. AccumulateTotals(r) /\ letGo' = letGo \cup ({entry.run} \ {r}) /\ entry' = None /\ retry' = "armed"
      BY <1>3, <2>3 DEF OnWorkerExit
    <3>2. entry.run \in Runs
      BY <1>0, <2>3 DEF TypeOK, RunningEntry
    <3> QED BY <1>0, <2>1, <2>3, <3>1, <3>2, ExitTyped DEF Typed, TypeOK, EntryIsLast, workerVars
  <2> QED BY <2>2, <2>3
<1>4. ASSUME NEW e \in Updates, OnAgentUpdate(e) PROVE Typed'
  <2>1. /\ events' \in Seq(Event)
        /\ UNCHANGED <<clock, workerVars, retry, historyVars>>
    BY <1>0, <1>4, Received DEF OnAgentUpdate
  <2>2. CASE UNCHANGED <<entry, countVars>>
    BY <1>0, <2>1, <2>2 DEF Typed, TypeOK, EntryIsLast, workerVars, countVars, historyVars
  <2>3. CASE entry # None /\ Heard(e)
    <3>1. UNCHANGED countVars
      BY <2>3 DEF Heard
    <3>2. entry' \in RunningEntry /\ EntryIsLast'
      BY <2>1, <2>3, HeardTyped DEF workerVars
    <3> QED BY <1>0, <2>1, <3>1, <3>2 DEF Typed, TypeOK, workerVars, countVars, historyVars
  <2> QED BY <1>4, <2>2, <2>3 DEF OnAgentUpdate
<1>5. ASSUME NEW r \in Runs, Speaks(r) PROVE Typed'
  <2>1. events' \in Seq(Event)
    <3>1. used[r] \in 0 .. MaxTurns
      BY <1>0 DEF TypeOK
    <3>2. used[r] < MaxTurns => used[r] + 1 \in 1 .. MaxTurns
      BY <3>1, BoundAssumption
    <3>3. PICK e \in Event : Enqueue(e)
      BY <1>5, <3>2, EventTypes DEF Speaks
    <3> QED BY <1>0, <3>3, Sent
  <2>2. used' \in [Runs -> 0 .. MaxTurns] /\ spoke' \in [Runs -> Time]
    <3>1. used[r] \in Nat /\ clock \in Time /\ MaxTurns \in Nat
      BY <1>0, BoundAssumption DEF TypeOK
    <3>2. used' = used \/ (used[r] < MaxTurns /\ used' = [used EXCEPT ![r] = used[r] + 1])
      BY <1>5 DEF Speaks
    <3>3. spoke' = spoke \/ spoke' = [spoke EXCEPT ![r] = clock]
      BY <1>5 DEF Speaks
    <3>4. used' \in [Runs -> 0 .. MaxTurns]
      BY <1>0, <3>1, <3>2 DEF TypeOK
    <3> QED BY <1>0, <3>1, <3>3, <3>4 DEF TypeOK
  <2> QED BY <1>0, <1>5, <2>1, <2>2 DEF Speaks, Typed, TypeOK, EntryIsLast, countVars, historyVars
<1>6. ASSUME NEW r \in Runs, WorkerEnds(r) PROVE Typed'
  <2>1. events' \in Seq(Event)
    BY <1>0, <1>6, EventTypes, Sent DEF WorkerEnds
  <2>2. report' \in [Runs -> {None} \cup SUBSET Results]
    BY <1>0, <1>6, TurnsTyped DEF WorkerEnds, TypeOK
  <2> QED BY <1>0, <1>6, <2>1, <2>2 DEF WorkerEnds, Typed, TypeOK, EntryIsLast, countVars, historyVars
<1>7. CASE TickTimerFires
  <2>1. events' \in Seq(Event)
    BY <1>0, <1>7, EventTypes, Sent DEF TickTimerFires
  <2> QED BY <1>0, <1>7, <2>1 DEF TickTimerFires, Typed, TypeOK, EntryIsLast, workerVars, countVars, historyVars
<1>8. CASE RetryTimerFires
  <2>1. events' \in Seq(Event)
    BY <1>0, <1>8, EventTypes, Sent DEF RetryTimerFires
  <2> QED BY <1>0, <1>8, <2>1 DEF RetryTimerFires, Typed, TypeOK, EntryIsLast, workerVars, countVars, historyVars
<1>9. CASE TimePasses
  <2>1. clock' \in Time /\ clock' = clock + 1 /\ clock \in Nat /\ occupied' \in Nat
    BY <1>0, <1>9 DEF TimePasses, TypeOK, Time
  <2>2. EntryIsLast'
    BY <1>0, <1>9, <2>1 DEF TimePasses, EntryIsLast, workerVars, TypeOK, RunningEntry, Time
  <2> QED BY <1>0, <1>9, <2>1, <2>2 DEF TimePasses, Typed, TypeOK, workerVars, countVars
<1>10. CASE UNCHANGED vars
  BY <1>0, <1>10 DEF vars, Typed, TypeOK, EntryIsLast, workerVars, countVars, historyVars
<1> QED BY <1>1, <1>2, <1>3, <1>4, <1>5, <1>6, <1>7, <1>8, <1>9, <1>10 DEF Next, EventLoop, Environment

\* TypeOK in every state: no counter and no elapsed time is ever negative.
THEOREM TypeCorrect == Spec => []TypeOK
<1>1. Typed => TypeOK
  BY DEF Typed
<1> QED BY <1>1, TypedInit, TypedStep, PTL DEF Spec

-----------------------------------------------------------------------------
(* The time shown is spent once.                                           *)

\* Initially neither is any.
LEMMA TimeInit == Init => NoTimeAddedTwice
<1> QED BY DEF Init, NoTimeAddedTwice, SecondsRunning

\* A fresh entry has run for no time.
LEMMA FreshElapsed ==
    ASSUME Typed, Dispatch, clock' = clock
    PROVE  entry' # None /\ entry'.startedAt = clock'
<1>1. entry' = [run |-> started + 1, startedAt |-> clock, session |-> None]
  BY DEF Dispatch
<1>2. started + 1 \in Runs /\ clock \in Time
  BY BoundAssumption DEF Dispatch, Typed, TypeOK, Runs
<1>3. entry' \in RunningEntry
  BY <1>1, <1>2 DEF RunningEntry
<1> QED BY <1>1, <1>3, NoneAssumption

\* Time leaves a row only with a run that is let go, or for the totals.
LEMMA TimeStep == Typed /\ NoTimeAddedTwice /\ [Next]_vars => NoTimeAddedTwice'
<1> SUFFICES ASSUME Typed, NoTimeAddedTwice, [Next]_vars PROVE NoTimeAddedTwice'
  OBVIOUS
<1>0. /\ clock \in Nat /\ runtime \in Nat /\ occupied \in Nat
      /\ entry # None => /\ entry \in RunningEntry /\ entry.startedAt \in Nat
                         /\ Elapsed(entry) = clock - entry.startedAt /\ Elapsed(entry) \in Nat
  BY DEF Typed, TypeOK, EntryIsLast, Time, RunningEntry, Elapsed
<1> USE <1>0 DEF NoTimeAddedTwice, SecondsRunning
<1>1. CASE OnTick
  <2>1. clock' = clock
    BY <1>1, TickEffects
  <2>2. CASE entry # None /\ LetGo /\ Dispatch
    <3>1. runtime' = runtime /\ letGo' # {} /\ occupied' = occupied
      BY <2>2, LetGoTyped
    <3>2. entry' # None /\ Elapsed(entry)' = 0
      BY <2>1, <2>2, FreshElapsed DEF Elapsed
    <3> QED BY <2>2, <3>1, <3>2
  <2>3. CASE entry # None /\ LetGo /\ entry' = None
    <3>1. runtime' = runtime /\ letGo' # {} /\ occupied' = occupied
      BY <2>3, LetGoTyped
    <3> QED BY <2>3, <3>1
  <2>4. CASE UNCHANGED <<countVars, historyVars, entry>>
    BY <2>1, <2>4 DEF countVars, historyVars, Elapsed
  <2>5. CASE UNCHANGED <<countVars, historyVars>> /\ entry = None /\ Dispatch
    <3>1. runtime' = runtime /\ letGo' = letGo /\ occupied' = occupied
      BY <2>5 DEF countVars, historyVars
    <3>2. entry' # None /\ Elapsed(entry)' = 0
      BY <2>1, <2>5, FreshElapsed DEF Elapsed
    <3> QED BY <2>5, <3>1, <3>2
  <2> QED BY <1>1, TickEffects, <2>2, <2>3, <2>4, <2>5
<1>2. CASE OnRetryTimer
  <2>1. clock' = clock /\ UNCHANGED <<countVars, historyVars>>
    BY <1>2 DEF OnRetryTimer
  <2>2. CASE retry # "none" /\ Dispatch
    <3>1. entry = None
      BY <2>2 DEF Typed, EntryIsLast
    <3> QED BY <2>1, <2>2, <3>1, FreshElapsed DEF countVars, historyVars, Elapsed
  <2>3. CASE entry' = entry
    BY <2>1, <2>3 DEF countVars, historyVars, Elapsed
  <2> QED BY <1>2, <2>2, <2>3 DEF OnRetryTimer, NotDispatched
<1>3. ASSUME NEW r \in Runs, OnWorkerExit(r) PROVE NoTimeAddedTwice'
  <2>1. CASE entry = None
    BY <1>3, <2>1 DEF OnWorkerExit, countVars
  <2>2. CASE entry # None
    BY <1>3, <2>2 DEF OnWorkerExit, AccumulateTotals
  <2> QED BY <2>1, <2>2
<1>4. ASSUME NEW e \in Updates, OnAgentUpdate(e) PROVE NoTimeAddedTwice'
  <2>1. UNCHANGED <<clock, retry, started, historyVars>>
    BY <1>4 DEF OnAgentUpdate, workerVars
  <2>2. CASE UNCHANGED <<entry, countVars>>
    BY <2>1, <2>2 DEF historyVars, countVars, Elapsed
  <2>3. CASE entry # None /\ Heard(e)
    <3>1. entry' \in RunningEntry /\ entry'.startedAt = entry.startedAt
      BY <2>1, <2>3, HeardTyped
    <3> QED BY <2>1, <2>3, <3>1, NoneAssumption DEF Heard, historyVars, countVars, Elapsed
  <2> QED BY <1>4, <2>2, <2>3 DEF OnAgentUpdate
<1>5. ASSUME NEW r \in Runs, Speaks(r) \/ WorkerEnds(r) PROVE NoTimeAddedTwice'
  BY <1>5 DEF Speaks, WorkerEnds, countVars, historyVars, Elapsed
<1>6. CASE TickTimerFires \/ RetryTimerFires
  BY <1>6 DEF TickTimerFires, RetryTimerFires, countVars, historyVars, Elapsed
<1>7. CASE TimePasses
  BY <1>7 DEF TimePasses, countVars, Elapsed
<1>8. CASE UNCHANGED vars
  BY <1>8 DEF vars, countVars, historyVars, Elapsed
<1> QED BY <1>1, <1>2, <1>3, <1>4, <1>5, <1>6, <1>7, <1>8 DEF Next, EventLoop, Environment

\* NoTimeAddedTwice for any number of runs: seconds_running never exceeds the
\* time the issue had an entry, whichever runs' exits popped which entries.
THEOREM RuntimeBooked == Spec => []NoTimeAddedTwice
<1> QED BY TypedInit, TypedStep, TimeInit, TimeStep, PTL DEF Spec

-----------------------------------------------------------------------------
(* What is in the queue.                                                   *)

\* The run has been dispatched and its exit was not yet handled.
Open(r) == r <= started /\ ~Closed(r)

\* A run's exit is its last event.
ExitLast ==
    \A j, k \in 1 .. Len(events), r \in Runs :
        events[j] = WorkerExit(r) /\ events[k].run = r => k <= j

\* A turn's result is in the queue at most once.
ResultsOnce ==
    \A j, k \in 1 .. Len(events), r \in Runs, n \in 1 .. MaxTurns :
        events[j] = Result(r, n) /\ events[k] = Result(r, n) => j = k

\* Only open runs have events in the queue, and their results were reached.
OpenOnly ==
    /\ \A k \in 1 .. Len(events), r \in Runs : events[k].run = r => Open(r)
    /\ \A r \in Runs : Queued(WorkerExit(r)) => report[r] # None
    /\ \A r \in Runs, n \in 1 .. MaxTurns : Queued(Result(r, n)) => n <= used[r]

\* A run that was not dispatched has done nothing.
Unborn == \A r \in Runs : r > started => report[r] = None /\ used[r] = 0

Queue == ExitLast /\ ResultsOnce /\ OpenOnly /\ Unborn

\* Events of different kinds or runs differ.
LEMMA EventsDiffer ==
    /\ \A r, q \in Runs : WorkerExit(r) = WorkerExit(q) => r = q
    /\ \A r, q \in Runs, n, m \in 1 .. MaxTurns : Result(r, n) = Result(q, m) => r = q /\ n = m
    /\ \A r, q \in Runs, n \in 1 .. MaxTurns : WorkerExit(r) # Result(q, n)
    /\ \A r \in Runs, e \in Updates : WorkerExit(r) # e
    /\ \A r \in Runs : Tick # WorkerExit(r) /\ RetryDue # WorkerExit(r) /\ WorkerExit(r).run = r
    /\ \A e \in Updates : Tick # e /\ RetryDue # e
    /\ \A r \in Runs : Tick.run # r /\ RetryDue.run # r
    /\ \A r \in Runs, n \in 1 .. MaxTurns : Result(r, n).run = r /\ Result(r, n).what = "result"
<1>1. 0 \notin Runs
  BY DEF Runs
<1>2. \A r, q \in Runs : WorkerExit(r) = WorkerExit(q) => r = q
  BY DEF WorkerExit
<1>3. \A r, q \in Runs, n, m \in 1 .. MaxTurns : Result(r, n) = Result(q, m) => r = q /\ n = m
  BY DEF Result
<1>4. \A r, q \in Runs, n \in 1 .. MaxTurns : WorkerExit(r) # Result(q, n)
  BY DEF WorkerExit, Result
<1>5. ASSUME NEW r \in Runs, NEW e \in Updates PROVE WorkerExit(r) # e
  <2>1. e.kind = "update" /\ WorkerExit(r).kind = "exit"
    BY UpdateRuns DEF WorkerExit
  <2> QED BY <2>1
<1>6. \A r \in Runs : Tick # WorkerExit(r) /\ RetryDue # WorkerExit(r) /\ WorkerExit(r).run = r
  BY DEF WorkerExit, Tick, RetryDue
<1>7. ASSUME NEW e \in Updates PROVE Tick # e /\ RetryDue # e
  <2>1. e.kind = "update" /\ Tick.kind = "tick" /\ RetryDue.kind = "due"
    BY UpdateRuns DEF Tick, RetryDue
  <2> QED BY <2>1
<1>8. \A r \in Runs : Tick.run # r /\ RetryDue.run # r
  BY <1>1 DEF Tick, RetryDue
<1>9. \A r \in Runs, n \in 1 .. MaxTurns : Result(r, n).run = r /\ Result(r, n).what = "result"
  BY DEF Result
<1> QED BY <1>2, <1>3, <1>4, <1>5, <1>6, <1>7, <1>8, <1>9

\* It holds initially.
LEMMA QueueInit == Init => Queue
<1> SUFFICES ASSUME Init PROVE Queue
  OBVIOUS
<1>1. Len(events) = 1 /\ events[1] = Tick
  BY DEF Init
<1>2. \A d : Queued(d) => d = Tick
  BY <1>1 DEF Queued
<1> QED BY <1>1, <1>2, EventsDiffer, EventTypes DEF Init, Queue, ExitLast, ResultsOnce, OpenOnly, Unborn

\* Handling an event keeps it, whether or not a run is dispatched then.
LEMMA QueueReceives ==
    ASSUME Typed, Queue, NEW e, Receive(e), UNCHANGED <<used, report>>,
           started' \in Nat, started <= started'
    PROVE  Queue'
<1>0. TypeOK
  BY DEF Typed
<1>1. /\ Len(events) \in Nat /\ Len(events) >= 1 /\ Len(events') = Len(events) - 1
      /\ \A k \in 1 .. Len(events') : events'[k] = events[k + 1] /\ k + 1 \in 1 .. Len(events)
      /\ events[1] = e /\ 1 \in 1 .. Len(events)
      /\ \A d : Queued(d)' => Queued(d)
      /\ \A d : d # e => (Queued(d)' <=> Queued(d))
  BY <1>0, Received
<1>2. ExitLast'
  <2> SUFFICES ASSUME NEW j \in 1 .. Len(events'), NEW k \in 1 .. Len(events'), NEW r \in Runs,
                      events'[j] = WorkerExit(r), events'[k].run = r
               PROVE  k <= j
    BY DEF ExitLast
  <2>1. k + 1 <= j + 1
    BY <1>1 DEF Queue, ExitLast
  <2> QED BY <1>1, <2>1
<1>3. ResultsOnce'
  <2> SUFFICES ASSUME NEW j \in 1 .. Len(events'), NEW k \in 1 .. Len(events'), NEW r \in Runs,
                      NEW n \in 1 .. MaxTurns, events'[j] = Result(r, n), events'[k] = Result(r, n)
               PROVE  j = k
    BY DEF ResultsOnce
  <2>1. /\ j + 1 \in 1 .. Len(events) /\ k + 1 \in 1 .. Len(events)
        /\ events[j + 1] = Result(r, n) /\ events[k + 1] = Result(r, n)
    BY <1>1
  <2>2. j + 1 = k + 1
    BY <2>1 DEF Queue, ResultsOnce
  <2> QED BY <2>2
<1>4. ASSUME NEW k \in 1 .. Len(events'), NEW r \in Runs, events'[k].run = r PROVE Open(r)'
  <2>1. events[k + 1].run = r /\ k + 1 \in 1 .. Len(events) /\ k + 1 > 1
    BY <1>1, <1>4
  <2>2. Open(r) /\ e # WorkerExit(r)
    BY <1>1, <2>1 DEF Queue, OpenOnly, ExitLast
  <2>3. started \in Nat /\ r \in Nat
    BY <1>0, BoundAssumption DEF TypeOK, Runs
  <2> QED BY <1>1, <2>2, <2>3 DEF Open, Closed
<1>5. OpenOnly'
  BY <1>1, <1>4 DEF OpenOnly, Queue
<1>6. Unborn'
  BY <1>0, BoundAssumption DEF Queue, Unborn, TypeOK, Runs
<1> QED BY <1>2, <1>3, <1>5, <1>6 DEF Queue

\* So does what a live run sends: it is behind all else of that run.
LEMMA QueueSends ==
    ASSUME Typed, Queue, NEW r \in Runs, Live(r), NEW e \in Event, Enqueue(e), e.run = r,
           started' = started,
           \/ /\ e \in Updates /\ e.what # "result" /\ UNCHANGED <<used, report>>
           \/ /\ e = Result(r, used[r] + 1) /\ used[r] < MaxTurns
              /\ used' = [used EXCEPT ![r] = used[r] + 1] /\ report' = report
           \/ /\ e = WorkerExit(r) /\ used' = used
              /\ report'[r] # None /\ \A q \in Runs \ {r} : report'[q] = report[q]
    PROVE  Queue'
<1>0. /\ TypeOK /\ used[r] \in 0 .. MaxTurns /\ MaxTurns \in Nat
      /\ \A q \in Runs : used[q] \in Nat /\ q \in Nat
      /\ started \in Nat
  BY BoundAssumption DEF Typed, TypeOK, Runs
<1>1. /\ Len(events) \in Nat /\ Len(events') = Len(events) + 1
      /\ \A k \in 1 .. Len(events) : events'[k] = events[k]
      /\ events'[Len(events) + 1] = e
      /\ \A d : Queued(d)' <=> Queued(d) \/ d = e
  BY <1>0, Sent
<1>2. ~Queued(WorkerExit(r)) /\ r <= started /\ report[r] = None
  BY DEF Live, Queue, OpenOnly
<1>3. \A k \in 1 .. Len(events) : events[k] # WorkerExit(r)
  BY <1>2 DEF Queued
<1>4. ExitLast'
  <2> SUFFICES ASSUME NEW j \in 1 .. Len(events'), NEW k \in 1 .. Len(events'), NEW q \in Runs,
                      events'[j] = WorkerExit(q), events'[k].run = q
               PROVE  k <= j
    BY DEF ExitLast
  <2>1. CASE j = Len(events) + 1
    BY <1>1, <2>1
  <2>2. CASE j # Len(events) + 1
    <3>1. j \in 1 .. Len(events) /\ events[j] = WorkerExit(q) /\ q # r
      BY <1>1, <1>3, <2>2
    <3>2. k # Len(events) + 1
      BY <1>1, <3>1
    <3>3. k \in 1 .. Len(events) /\ events[k].run = q
      BY <1>1, <3>2
    <3> QED BY <3>1, <3>3 DEF Queue, ExitLast
  <2> QED BY <2>1, <2>2
<1>5. ResultsOnce'
  <2> SUFFICES ASSUME NEW j \in 1 .. Len(events'), NEW k \in 1 .. Len(events'), NEW q \in Runs,
                      NEW n \in 1 .. MaxTurns, events'[j] = Result(q, n), events'[k] = Result(q, n)
               PROVE  j = k
    BY DEF ResultsOnce
  <2>1. e = Result(q, n) => ~Queued(Result(q, n))
    <3>1. SUFFICES ASSUME e = Result(q, n) PROVE ~Queued(Result(q, n))
      OBVIOUS
    <3>2. e.what = "result" /\ q = r /\ e # WorkerExit(r)
      BY <3>1, EventsDiffer
    <3>3. e = Result(r, used[r] + 1) /\ used[r] + 1 \in 1 .. MaxTurns
      BY <1>0, <3>2
    <3>4. n = used[r] + 1
      BY <3>1, <3>3 DEF Result
    <3>5. Queued(Result(q, n)) => n <= used[q]
      BY DEF Queue, OpenOnly
    <3>6. ~(used[r] + 1 <= used[r])
      BY <1>0
    <3> QED BY <3>2, <3>4, <3>5, <3>6
  <2>2. (j = Len(events) + 1 \/ k = Len(events) + 1) => j = k
    BY <1>1, <2>1 DEF Queued
  <2>3. (j # Len(events) + 1 /\ k # Len(events) + 1) => j = k
    BY <1>1 DEF Queue, ResultsOnce
  <2> QED BY <2>2, <2>3
<1>6. ASSUME NEW k \in 1 .. Len(events'), NEW q \in Runs, events'[k].run = q PROVE Open(q)'
  <2>1. CASE q = r
    BY <1>1, <1>2, <2>1 DEF Open, Closed
  <2>2. CASE q # r
    <3>1. k \in 1 .. Len(events) /\ events[k].run = q
      BY <1>1, <1>6, <2>2
    <3>2. Open(q) /\ report'[q] = report[q]
      BY <2>2, <3>1 DEF Queue, OpenOnly
    <3> QED BY <1>1, <3>2 DEF Open, Closed
  <2> QED BY <2>1, <2>2
<1>7. ASSUME NEW q \in Runs, Queued(WorkerExit(q))' PROVE report'[q] # None
  <2>1. CASE q = r
    <3>1. e = WorkerExit(r)
      BY <1>1, <1>2, <1>7, <2>1
    <3>2. e \notin Updates /\ e # Result(r, used[r] + 1)
      BY <3>1, EventsDiffer DEF WorkerExit, Result
    <3> QED BY <2>1, <3>2
  <2>2. CASE q # r
    <3>1. Queued(WorkerExit(q)) /\ report'[q] = report[q]
      BY <1>1, <1>7, <2>2, EventsDiffer
    <3> QED BY <3>1 DEF Queue, OpenOnly
  <2> QED BY <2>1, <2>2
<1>8. ASSUME NEW q \in Runs, NEW n \in 1 .. MaxTurns, Queued(Result(q, n))' PROVE n <= used'[q]
  <2>1. used[q] <= used'[q] /\ used'[q] \in Nat
    <3>1. used \in [Runs -> 0 .. MaxTurns] /\ used[q] \in Nat
      BY <1>0 DEF TypeOK
    <3>2. used' = used \/ used' = [used EXCEPT ![r] = used[r] + 1]
      BY <1>0
    <3>3. used'[q] = used[q] \/ used'[q] = used[q] + 1
      BY <3>1, <3>2
    <3> QED BY <3>1, <3>3
  <2>2. CASE Queued(Result(q, n))
    BY <1>0, <2>1, <2>2 DEF Queue, OpenOnly
  <2>3. CASE e = Result(q, n)
    <3>2. e.what = "result" /\ q = r /\ e # WorkerExit(r)
      BY <2>3, EventsDiffer
    <3>3. e = Result(r, used[r] + 1) /\ used[r] + 1 \in 1 .. MaxTurns
          /\ used' = [used EXCEPT ![r] = used[r] + 1]
      BY <1>0, <3>2
    <3>4. n = used[r] + 1
      BY <2>3, <3>3 DEF Result
    <3>5. used'[r] = used[r] + 1
      BY <1>0, <3>3 DEF TypeOK
    <3> QED BY <2>1, <3>2, <3>4, <3>5
  <2> QED BY <1>1, <1>8, <2>2, <2>3
<1>9. OpenOnly'
  BY <1>6, <1>7, <1>8 DEF OpenOnly
<1>10. Unborn'
  BY <1>0, <1>2 DEF Queue, Unborn, TypeOK
<1> QED BY <1>4, <1>5, <1>9, <1>10 DEF Queue

-----------------------------------------------------------------------------
(* The steps, as the accounts see them.                                    *)

\* A tick or a due retry: the entry stays, goes, or is a new run's.
LEMMA LoopTurn ==
    ASSUME Typed, OnTick \/ OnRetryTimer
    PROVE  /\ UNCHANGED <<clock, used, report, totals>>
           /\ started' \in Nat /\ started <= started'
           /\ \E e \in {Tick, RetryDue} : Receive(e)
           /\ \/ UNCHANGED <<entry, letGo, started, spoke>>
              \/ /\ entry # None /\ entry' = None /\ letGo' = letGo \cup {entry.run}
                 /\ UNCHANGED <<started, spoke>>
              \/ /\ Dispatch
                 /\ letGo' = IF entry = None THEN letGo ELSE letGo \cup {entry.run}
<1>0. started \in Nat
  BY BoundAssumption DEF Typed, TypeOK
<1>1. CASE OnTick
  <2>1. Receive(Tick) /\ clock' = clock
    BY <1>1, TickEffects
  <2>2. CASE entry # None /\ LetGo /\ Dispatch
    BY <1>0, <2>1, <2>2 DEF LetGo, Dispatch, countVars
  <2>3. CASE entry # None /\ LetGo /\ entry' = None /\ UNCHANGED workerVars
    BY <1>0, <2>1, <2>3 DEF LetGo, countVars, workerVars
  <2>4. CASE UNCHANGED <<countVars, historyVars, entry, workerVars>>
    BY <1>0, <2>1, <2>4 DEF countVars, historyVars, workerVars
  <2>5. CASE UNCHANGED <<countVars, historyVars>> /\ entry = None /\ Dispatch
    BY <1>0, <2>1, <2>5 DEF Dispatch, countVars, historyVars
  <2> QED BY <1>1, TickEffects, <2>2, <2>3, <2>4, <2>5
<1>2. CASE OnRetryTimer
  <2>1. Receive(RetryDue) /\ UNCHANGED <<clock, countVars, historyVars>>
    BY <1>2 DEF OnRetryTimer
  <2>2. CASE retry # "none" /\ Dispatch
    <3>1. entry = None
      BY <2>2 DEF Typed, EntryIsLast
    <3> QED BY <1>0, <2>1, <2>2, <3>1 DEF Dispatch, countVars, historyVars
  <2>3. CASE UNCHANGED <<workerVars, entry>>
    BY <1>0, <2>1, <2>3 DEF workerVars, countVars, historyVars
  <2> QED BY <1>2, <2>2, <2>3 DEF OnRetryTimer, NotDispatched
<1> QED BY <1>1, <1>2

\* The timers, time and stuttering touch none of the accounts.
Aside == TickTimerFires \/ RetryTimerFires \/ TimePasses \/ UNCHANGED vars

LEMMA AsideEffects ==
    ASSUME Typed, Aside
    PROVE  /\ UNCHANGED <<started, used, report, entry, totals, spoke, letGo>>
           /\ clock <= clock'
           /\ \/ UNCHANGED events
              \/ \E e \in {Tick, RetryDue} : Enqueue(e)
<1>0. clock \in Nat
  BY DEF Typed, TypeOK, Time
<1>1. CASE TickTimerFires \/ RetryTimerFires
  BY <1>0, <1>1 DEF TickTimerFires, RetryTimerFires, workerVars, countVars, historyVars
<1>2. CASE TimePasses
  BY <1>0, <1>2 DEF TimePasses, workerVars, countVars
<1>3. CASE UNCHANGED vars
  BY <1>0, <1>3 DEF vars, workerVars, countVars, historyVars
<1> QED BY <1>1, <1>2, <1>3 DEF Aside

\* The steps of Next, under these names.
LEMMA Steps ==
    [Next]_vars =>
        \/ OnTick \/ OnRetryTimer
        \/ \E r \in Runs : OnWorkerExit(r)
        \/ \E e \in Updates : OnAgentUpdate(e)
        \/ \E r \in Runs : Speaks(r)
        \/ \E r \in Runs : WorkerEnds(r)
        \/ Aside
<1> QED BY DEF Next, EventLoop, Environment, Aside

\* Ticks and due retries are no events of a run.
LEMMA QueueSendsOther ==
    ASSUME Typed, Queue, NEW e \in {Tick, RetryDue}, Enqueue(e), UNCHANGED <<started, used, report>>
    PROVE  Queue'
<1>0. TypeOK /\ e \in Event
  BY EventTypes DEF Typed
<1>1. /\ Len(events) \in Nat /\ Len(events') = Len(events) + 1
      /\ \A k \in 1 .. Len(events) : events'[k] = events[k]
      /\ events'[Len(events) + 1] = e
      /\ \A d : Queued(d)' <=> Queued(d) \/ d = e
  BY <1>0, Sent
<1>2. /\ \A r \in Runs : e # WorkerExit(r) /\ e.run # r
      /\ \A r \in Runs, n \in 1 .. MaxTurns : e # Result(r, n)
  BY EventsDiffer, EventTypes
<1>3. ExitLast'
  <2> SUFFICES ASSUME NEW j \in 1 .. Len(events'), NEW k \in 1 .. Len(events'), NEW q \in Runs,
                      events'[j] = WorkerExit(q), events'[k].run = q
               PROVE  k <= j
    BY DEF ExitLast
  <2>1. j # Len(events) + 1 /\ k # Len(events) + 1
    BY <1>1, <1>2
  <2>2. j \in 1 .. Len(events) /\ k \in 1 .. Len(events) /\ events[j] = WorkerExit(q) /\ events[k].run = q
    BY <1>1, <2>1
  <2> QED BY <2>2 DEF Queue, ExitLast
<1>4. ResultsOnce'
  <2> SUFFICES ASSUME NEW j \in 1 .. Len(events'), NEW k \in 1 .. Len(events'), NEW q \in Runs,
                      NEW n \in 1 .. MaxTurns, events'[j] = Result(q, n), events'[k] = Result(q, n)
               PROVE  j = k
    BY DEF ResultsOnce
  <2>1. j # Len(events) + 1 /\ k # Len(events) + 1
    BY <1>1, <1>2
  <2>2. j \in 1 .. Len(events) /\ k \in 1 .. Len(events) /\ events[j] = Result(q, n) /\ events[k] = Result(q, n)
    BY <1>1, <2>1
  <2> QED BY <2>2 DEF Queue, ResultsOnce
<1>5. ASSUME NEW q \in Runs PROVE Open(q)' <=> Open(q)
  BY <1>1, <1>2 DEF Open, Closed
<1>6. ASSUME NEW k \in 1 .. Len(events'), NEW q \in Runs, events'[k].run = q PROVE Open(q)'
  <2>1. k # Len(events) + 1
    BY <1>1, <1>2, <1>6
  <2>2. k \in 1 .. Len(events) /\ events[k].run = q
    BY <1>1, <1>6, <2>1
  <2> QED BY <1>5, <2>2 DEF Queue, OpenOnly
<1>7. OpenOnly' /\ Unborn'
  BY <1>1, <1>2, <1>6 DEF Queue, OpenOnly, Unborn
<1> QED BY <1>3, <1>4, <1>7 DEF Queue

\* Every step keeps the order of the queue.
LEMMA QueueStep == Typed /\ Queue /\ [Next]_vars => Queue'
<1> SUFFICES ASSUME Typed, Queue, [Next]_vars PROVE Queue'
  OBVIOUS
<1>0. TypeOK /\ started \in Nat
  BY BoundAssumption DEF Typed, TypeOK
<1>1. CASE OnTick \/ OnRetryTimer
  BY <1>1, LoopTurn, QueueReceives
<1>2. ASSUME NEW r \in Runs, OnWorkerExit(r) PROVE Queue'
  BY <1>0, <1>2, QueueReceives DEF OnWorkerExit, workerVars
<1>3. ASSUME NEW e \in Updates, OnAgentUpdate(e) PROVE Queue'
  BY <1>0, <1>3, QueueReceives DEF OnAgentUpdate, workerVars
<1>4. ASSUME NEW r \in Runs, Speaks(r) PROVE Queue'
  <2>1. Live(r) /\ started' = started /\ report' = report
    BY <1>4 DEF Speaks
  <2>2. ASSUME NEW e \in Updates, e.what # "result", e.run = r, Enqueue(e), used' = used PROVE Queue'
    BY <1>0, <2>1, <2>2, EventTypes, QueueSends
  <2>3. CASE Enqueue(Noise(r)) /\ used' = used
    BY <2>2, <2>3, EventTypes DEF Noise
  <2>4. CASE Enqueue(Named(r)) /\ used' = used
    BY <2>2, <2>4, EventTypes DEF Named
  <2>5. CASE used[r] < MaxTurns /\ used' = [used EXCEPT ![r] = used[r] + 1] /\ Enqueue(Result(r, used[r] + 1))
    <3>1. used[r] + 1 \in 1 .. MaxTurns
      BY <1>0, <2>5, BoundAssumption DEF TypeOK
    <3>2. Result(r, used[r] + 1) \in Event /\ Result(r, used[r] + 1).run = r
      BY <3>1, EventTypes, EventsDiffer
    <3> QED BY <2>1, <2>5, <3>2, QueueSends
  <2> QED BY <1>4, <2>3, <2>4, <2>5 DEF Speaks
<1>5. ASSUME NEW r \in Runs, WorkerEnds(r) PROVE Queue'
  <2>1. Live(r) /\ started' = started /\ used' = used /\ Enqueue(WorkerExit(r))
    BY <1>5 DEF WorkerEnds
  <2>2. PICK turns \in {Turns(r), {}} : report' = [report EXCEPT ![r] = turns]
    BY <1>5 DEF WorkerEnds
  <2>3. turns # None
    BY <1>0, TurnsTyped, NoneAssumption
  <2>4. report'[r] # None /\ \A q \in Runs \ {r} : report'[q] = report[q]
    BY <1>0, <2>2, <2>3 DEF TypeOK
  <2>5. WorkerExit(r) \in Event /\ WorkerExit(r).run = r
    BY EventTypes, EventsDiffer
  <2> QED BY <2>1, <2>4, <2>5, QueueSends
<1>6. CASE Aside
  <2>1. CASE UNCHANGED events
    BY <1>6, <2>1, AsideEffects DEF Queue, ExitLast, ResultsOnce, OpenOnly, Unborn, Open, Closed, Queued
  <2>2. CASE \E e \in {Tick, RetryDue} : Enqueue(e)
    BY <1>6, <2>2, AsideEffects, QueueSendsOther
  <2> QED BY <1>6, <2>1, <2>2, AsideEffects
<1> QED BY <1>1, <1>2, <1>3, <1>4, <1>5, <1>6, Steps

\* Receiving an update of a run takes that one event, of an open run.
LEMMA UpdateReceived ==
    ASSUME Typed, Queue, NEW e \in Updates, Receive(e)
    PROVE  /\ Open(e.run)
           /\ e.what = "result" => e.turn <= used[e.run] /\ ~Queued(e)'
           /\ \A d : d # e => (Queued(d)' <=> Queued(d))
<1>1. /\ Len(events) \in Nat /\ Len(events) >= 1 /\ Len(events') = Len(events) - 1
      /\ events[1] = e /\ Queued(e) /\ 1 \in 1 .. Len(events)
      /\ \A k \in 1 .. Len(events') : events'[k] = events[k + 1]
      /\ \A d : d # e => (Queued(d)' <=> Queued(d))
  BY Received DEF Typed
<1>2. Open(e.run)
  <2>1. e.run \in Runs /\ events[1].run = e.run
    BY <1>1, UpdateRuns
  <2> QED BY <1>1, <2>1 DEF Queue, OpenOnly
<1>3. ASSUME e.what = "result" PROVE e.turn <= used[e.run] /\ ~Queued(e)'
  <2>1. e.run \in Runs /\ e.turn \in 1 .. MaxTurns /\ e = Result(e.run, e.turn)
    BY <1>3, UpdateRuns
  <2>2. e.turn <= used[e.run]
    BY <1>1, <2>1 DEF Queue, OpenOnly
  <2>3. ASSUME NEW k \in 1 .. Len(events'), events'[k] = e PROVE FALSE
    <3>1. k + 1 \in 1 .. Len(events) /\ 1 \in 1 .. Len(events) /\ events[k + 1] = e
      BY <1>1, <2>3
    <3>2. k + 1 = 1
      BY <1>1, <2>1, <3>1 DEF Queue, ResultsOnce
    <3> QED BY <3>2
  <2> QED BY <2>2, <2>3 DEF Queued
<1> QED BY <1>1, <1>2, <1>3

\* An exit is handled once, and closes its run.
LEMMA ExitReceived ==
    ASSUME Typed, Queue, NEW r \in Runs, Receive(WorkerExit(r)), UNCHANGED workerVars
    PROVE  r <= started /\ report[r] # None /\ ~Closed(r) /\ Closed(r)'
<1>1. /\ Len(events) \in Nat /\ Len(events) >= 1 /\ Len(events') = Len(events) - 1
      /\ events[1] = WorkerExit(r) /\ Queued(WorkerExit(r)) /\ 1 \in 1 .. Len(events)
      /\ \A k \in 1 .. Len(events') : events'[k] = events[k + 1]
  BY Received DEF Typed
<1>2. Open(r) /\ report[r] # None /\ WorkerExit(r).run = r
  BY <1>1, EventsDiffer DEF Queue, OpenOnly
<1>3. ASSUME NEW k \in 1 .. Len(events'), events'[k] = WorkerExit(r) PROVE FALSE
  <2>1. k + 1 \in 1 .. Len(events) /\ events[k + 1].run = r
    BY <1>1, <1>2, <1>3
  <2>2. k + 1 <= 1
    BY <1>1, <2>1 DEF Queue, ExitLast
  <2> QED BY <2>2
<1> QED BY <1>2, <1>3 DEF Open, Closed, Queued, workerVars

\* Nothing but the handling of its exit closes a run, and for good.
LEMMA ClosedChanges ==
    ASSUME Typed, Queue, [Next]_vars, NEW q \in Runs
    PROVE  /\ Closed(q) => Closed(q)' /\ report'[q] = report[q]
           /\ Closed(q)' => Closed(q) \/ OnWorkerExit(q)
           /\ q <= started /\ Open(q)' => Open(q)
<1>0. TypeOK /\ started \in Nat /\ q \in Nat
  BY BoundAssumption DEF Typed, TypeOK, Runs
<1>a. SUFFICES /\ Closed(q) => Closed(q)' /\ report'[q] = report[q]
               /\ Closed(q)' => Closed(q) \/ OnWorkerExit(q)
  BY DEF Open
<1>1. CASE OnTick \/ OnRetryTimer
  <2>1. Queued(WorkerExit(q))' <=> Queued(WorkerExit(q))
    BY <1>0, <1>1, LoopTurn, Received, EventsDiffer
  <2>2. report' = report /\ started' \in Nat /\ started <= started'
    BY <1>1, LoopTurn
  <2>3. q > started => report[q] = None
    BY DEF Queue, Unborn
  <2> QED BY <1>0, <2>1, <2>2, <2>3 DEF Closed
<1>2. ASSUME NEW r \in Runs, OnWorkerExit(r)
      PROVE  /\ Closed(q) => Closed(q)' /\ report'[q] = report[q]
             /\ Closed(q)' => Closed(q) \/ OnWorkerExit(q)
  <2>1. Receive(WorkerExit(r)) /\ UNCHANGED workerVars
    BY <1>2 DEF OnWorkerExit
  <2>2. CASE q = r
    BY <1>2, <2>1, <2>2, ExitReceived
  <2>3. CASE q # r
    BY <1>0, <2>1, <2>3, Received, EventsDiffer DEF Closed, workerVars
  <2> QED BY <2>2, <2>3
<1>3. ASSUME NEW e \in Updates, OnAgentUpdate(e)
      PROVE  /\ Closed(q) => Closed(q)' /\ report'[q] = report[q]
             /\ Closed(q)' => Closed(q)
  BY <1>0, <1>3, UpdateReceived, EventsDiffer DEF OnAgentUpdate, Closed, workerVars
<1>4. ASSUME NEW r \in Runs, Speaks(r)
      PROVE  /\ Closed(q) => Closed(q)' /\ report'[q] = report[q]
             /\ Closed(q)' => Closed(q)
  <2>1. used[r] < MaxTurns => used[r] + 1 \in 1 .. MaxTurns
    BY <1>0, BoundAssumption DEF TypeOK
  <2>2. PICK e \in Updates : Enqueue(e)
    BY <1>4, <2>1, EventTypes DEF Speaks
  <2>3. Queued(WorkerExit(q))' <=> Queued(WorkerExit(q))
    BY <1>0, <2>2, Sent, EventTypes, EventsDiffer
  <2> QED BY <1>4, <2>3 DEF Speaks, Closed
<1>5. ASSUME NEW r \in Runs, WorkerEnds(r)
      PROVE  /\ Closed(q) => Closed(q)' /\ report'[q] = report[q]
             /\ Closed(q)' => Closed(q)
  <2>1. Live(r) /\ started' = started /\ Enqueue(WorkerExit(r))
    BY <1>5 DEF WorkerEnds
  <2>2. \A d : Queued(d)' <=> Queued(d) \/ d = WorkerExit(r)
    BY <1>0, <2>1, Sent, EventTypes
  <2>3. CASE q = r
    BY <2>1, <2>2, <2>3 DEF Closed, Live
  <2>4. CASE q # r
    <3>1. report'[q] = report[q]
      BY <1>0, <1>5, <2>4 DEF WorkerEnds, TypeOK
    <3> QED BY <2>1, <2>2, <2>4, <3>1, EventsDiffer DEF Closed
  <2> QED BY <2>3, <2>4
<1>6. CASE Aside
  <2>1. Queued(WorkerExit(q))' <=> Queued(WorkerExit(q))
    <3>1. CASE UNCHANGED events
      BY <3>1 DEF Queued
    <3>2. CASE \E e \in {Tick, RetryDue} : Enqueue(e)
      BY <1>0, <3>2, Sent, EventTypes, EventsDiffer
    <3> QED BY <1>6, <3>1, <3>2, AsideEffects
  <2> QED BY <1>6, <2>1, AsideEffects DEF Closed
<1> QED BY <1>1, <1>2, <1>3, <1>4, <1>5, <1>6, Steps

-----------------------------------------------------------------------------
(* Two workers of one issue.                                               *)

\* The strengthening: a run whose exit was not handled has the entry, or was let
\* go.
Kept == \A r \in Runs : Open(r) => r \in letGo \/ (entry # None /\ entry.run = r)

\* It holds initially.
LEMMA KeptInit == Init => Kept
<1> SUFFICES ASSUME Init, NEW r \in Runs PROVE ~Open(r)
  BY DEF Kept
<1>1. r \in Nat /\ r >= 1 /\ started = 0
  BY BoundAssumption DEF Init, Runs
<1> QED BY <1>1 DEF Open

\* An entry is dropped only with its run let go or its own exit handled.
LEMMA KeptStep == Typed /\ Queue /\ Kept /\ [Next]_vars => Kept'
<1> SUFFICES ASSUME Typed, Queue, Kept, [Next]_vars, NEW r \in Runs, Open(r)'
             PROVE  (r \in letGo \/ (entry # None /\ entry.run = r))'
  BY DEF Kept
<1>0. TypeOK /\ started \in Nat /\ r \in Nat /\ entry \in RunningEntry \cup {None}
  BY BoundAssumption DEF Typed, TypeOK, Runs
<1>a. r <= started => r \in letGo \/ (entry # None /\ entry.run = r)
  BY ClosedChanges DEF Kept
<1>1. CASE OnTick \/ OnRetryTimer
  <2>1. CASE UNCHANGED <<entry, letGo, started>>
    BY <1>a, <2>1 DEF Open
  <2>2. CASE /\ entry # None /\ entry' = None /\ letGo' = letGo \cup {entry.run} /\ UNCHANGED started
    BY <1>a, <2>2 DEF Open
  <2>3. CASE /\ Dispatch
             /\ letGo' = IF entry = None THEN letGo ELSE letGo \cup {entry.run}
    <3>1. r <= started + 1
      BY <2>3 DEF Dispatch, Open
    <3>2. CASE r <= started
      BY <1>a, <2>3, <3>2
    <3>3. CASE r = started + 1
      <4>1. clock' = clock
        BY <1>1, LoopTurn
      <4>2. entry' # None /\ entry'.run = r
        BY <2>3, <3>3, <4>1, FreshElapsed DEF Dispatch
      <4> QED BY <4>2
    <3> QED BY <1>0, <3>1, <3>2, <3>3
  <2> QED BY <1>1, <2>1, <2>2, <2>3, LoopTurn
<1>2. ASSUME NEW q \in Runs, OnWorkerExit(q) PROVE (r \in letGo \/ (entry # None /\ entry.run = r))'
  <2>1. started' = started /\ r # q
    BY <1>2, ExitReceived DEF OnWorkerExit, Open, workerVars
  <2>2. CASE entry = None
    BY <1>2, <1>a, <2>1, <2>2 DEF OnWorkerExit, Open
  <2>3. CASE entry # None
    BY <1>2, <1>a, <2>1, <2>3 DEF OnWorkerExit, Open
  <2> QED BY <2>2, <2>3
<1>3. ASSUME NEW e \in Updates, OnAgentUpdate(e) PROVE (r \in letGo \/ (entry # None /\ entry.run = r))'
  <2>1. UNCHANGED <<clock, started, retry, letGo>>
    BY <1>3 DEF OnAgentUpdate, workerVars, historyVars
  <2>2. entry # None /\ Heard(e) => entry' \in RunningEntry /\ entry'.run = entry.run
    BY <2>1, HeardTyped
  <2>3. (entry # None /\ Heard(e)) \/ entry' = entry
    BY <1>3 DEF OnAgentUpdate
  <2> QED BY <1>a, <2>1, <2>2, <2>3, NoneAssumption DEF Open
<1>4. ASSUME NEW q \in Runs, Speaks(q) \/ WorkerEnds(q) PROVE (r \in letGo \/ (entry # None /\ entry.run = r))'
  BY <1>4, <1>a DEF Speaks, WorkerEnds, historyVars, Open
<1>5. CASE Aside
  BY <1>5, <1>a, AsideEffects DEF Open
<1> QED BY <1>1, <1>2, <1>3, <1>4, <1>5, Steps

\* OneWorkerPerIssue for any number of runs: the code never starts a second
\* worker of an issue unless it gave up the first.
THEOREM SecondWorkerOnlyAfterLetGo == Spec => []OneWorkerPerIssue
<1>1. Typed /\ Queue /\ Kept => OneWorkerPerIssue
  <2> SUFFICES ASSUME Typed, Kept, NEW q \in Runs, NEW r \in Runs, Live(q), Live(r), q < r, q \notin letGo
               PROVE  FALSE
    BY DEF OneWorkerPerIssue
  <2>1. Open(q)
    BY DEF Live, Open, Closed
  <2>2. entry # None /\ entry.run = q
    BY <2>1 DEF Kept
  <2>3. q = started /\ r <= started /\ q \in Nat /\ r \in Nat /\ started \in Nat
    BY <2>2 DEF Typed, EntryIsLast, Live, Runs
  <2> QED BY <2>3
<1> QED BY <1>1, TypedInit, TypedStep, QueueInit, QueueStep, KeptInit, KeptStep, PTL DEF Spec

-----------------------------------------------------------------------------
(* The tokens.                                                             *)

\* Turns are finished one after the other, and a result enters the queue only
\* when its turn is.
LEMMA UsedGrows ==
    ASSUME Typed, [Next]_vars, NEW r \in Runs
    PROVE  /\ used[r] \in Nat /\ used'[r] \in Nat /\ used[r] <= used'[r]
           /\ \A n \in 1 .. MaxTurns :
                Queued(Result(r, n))' => Queued(Result(r, n)) \/ n > used[r]
           /\ report'[r] # report[r] => used' = used /\ report'[r] \in {Turns(r), {}}
<1>0. TypeOK /\ used[r] \in Nat
  BY BoundAssumption DEF Typed, TypeOK
<1>1. ASSUME used' = used, report' = report, UNCHANGED events \/ \E e \in Event : Receive(e)
      PROVE  used'[r] = used[r] /\ report'[r] = report[r]
             /\ \A n \in 1 .. MaxTurns : Queued(Result(r, n))' => Queued(Result(r, n))
  <2>1. CASE UNCHANGED events
    BY <1>1, <2>1 DEF Queued
  <2>2. ASSUME NEW e \in Event, Receive(e)
        PROVE  \A n \in 1 .. MaxTurns : Queued(Result(r, n))' => Queued(Result(r, n))
    BY <1>0, <2>2, Received
  <2> QED BY <1>1, <2>1, <2>2
<1>2. CASE OnTick \/ OnRetryTimer
  BY <1>0, <1>1, <1>2, LoopTurn, EventTypes
<1>3. ASSUME NEW q \in Runs, OnWorkerExit(q)
      PROVE  used' = used /\ report' = report /\ \E e \in Event : Receive(e)
  BY <1>3, EventTypes DEF OnWorkerExit, workerVars
<1>4. ASSUME NEW e \in Updates, OnAgentUpdate(e)
      PROVE  used' = used /\ report' = report /\ \E d \in Event : Receive(d)
  BY <1>4, EventTypes DEF OnAgentUpdate, workerVars
<1>5. ASSUME NEW q \in Runs, Speaks(q)
      PROVE  /\ used'[r] \in Nat /\ used[r] <= used'[r] /\ report' = report
             /\ \A n \in 1 .. MaxTurns :
                  Queued(Result(r, n))' => Queued(Result(r, n)) \/ n > used[r]
  <2>1. CASE Enqueue(Noise(q)) /\ used' = used
    <3>1. \A n \in 1 .. MaxTurns : Result(r, n) # Noise(q)
      BY DEF Result, Noise
    <3> QED BY <1>0, <1>5, <2>1, <3>1, Sent, EventTypes DEF Speaks
  <2>2. CASE Enqueue(Named(q)) /\ used' = used
    <3>1. \A n \in 1 .. MaxTurns : Result(r, n) # Named(q)
      BY DEF Result, Named
    <3> QED BY <1>0, <1>5, <2>2, <3>1, Sent, EventTypes DEF Speaks
  <2>3. CASE used[q] < MaxTurns /\ used' = [used EXCEPT ![q] = used[q] + 1] /\ Enqueue(Result(q, used[q] + 1))
    <3>1. used[q] \in Nat /\ used[q] + 1 \in 1 .. MaxTurns
      BY <1>0, <2>3, BoundAssumption DEF TypeOK
    <3>2. \A d : Queued(d)' <=> Queued(d) \/ d = Result(q, used[q] + 1)
      BY <1>0, <2>3, <3>1, Sent, EventTypes
    <3>3. used'[r] \in Nat /\ used[r] <= used'[r]
      BY <1>0, <2>3 DEF TypeOK
    <3>4. \A n \in 1 .. MaxTurns : Result(r, n) = Result(q, used[q] + 1) => n = used[r] + 1
      BY <3>1, EventsDiffer
    <3>5. ASSUME NEW n \in 1 .. MaxTurns, Queued(Result(r, n))', ~Queued(Result(r, n))
          PROVE  n > used[r]
      <4>1. n = used[r] + 1
        BY <3>2, <3>4, <3>5
      <4> QED BY <1>0, <4>1
    <3> QED BY <1>5, <3>3, <3>5 DEF Speaks
  <2> QED BY <1>5, <2>1, <2>2, <2>3 DEF Speaks
<1>6. ASSUME NEW q \in Runs, WorkerEnds(q)
      PROVE  /\ used' = used
             /\ report'[r] # report[r] => report'[r] \in {Turns(r), {}}
             /\ \A n \in 1 .. MaxTurns : Queued(Result(r, n))' => Queued(Result(r, n))
  <2>1. \A d : Queued(d)' <=> Queued(d) \/ d = WorkerExit(q)
    BY <1>0, <1>6, Sent, EventTypes DEF WorkerEnds
  <2> QED BY <1>0, <1>6, <2>1, EventsDiffer DEF WorkerEnds, TypeOK
<1>7. CASE Aside
  <2>1. CASE UNCHANGED events
    BY <1>0, <1>1, <1>7, <2>1, AsideEffects
  <2>2. ASSUME NEW e \in {Tick, RetryDue}, Enqueue(e)
        PROVE  \A n \in 1 .. MaxTurns : Queued(Result(r, n))' => Queued(Result(r, n))
    BY <1>0, <2>2, Sent, EventTypes, EventsDiffer
  <2> QED BY <1>0, <1>7, <2>1, <2>2, AsideEffects
<1>8. CASE \/ OnTick \/ OnRetryTimer
           \/ \E q \in Runs : OnWorkerExit(q)
           \/ \E e \in Updates : OnAgentUpdate(e)
  <2>1. used' = used /\ report' = report /\ \E e \in Event : Receive(e)
    BY <1>2, <1>3, <1>4, <1>8, LoopTurn, EventTypes
  <2> QED BY <1>0, <1>1, <2>1
<1>9. CASE \E q \in Runs : Speaks(q)
  BY <1>0, <1>5, <1>9
<1>10. CASE \E q \in Runs : WorkerEnds(q)
  BY <1>0, <1>6, <1>10
<1> QED BY <1>7, <1>8, <1>9, <1>10, Steps

\* What a step does to the totals and to the row shown.
LEMMA AccountSteps ==
    ASSUME Typed, [Next]_vars
    PROVE  \/ \E r \in Runs : OnWorkerExit(r) /\ entry # None
           \/ \E e \in Updates : OnAgentUpdate(e) /\ entry # None /\ Heard(e)
           \/ /\ totals' = totals
              /\ ShownUsage' = ShownUsage \/ ShownUsage' = Zero
              /\ letGo \subseteq letGo'
<1>0. TypeOK
  BY DEF Typed
<1>1. CASE OnTick \/ OnRetryTimer
  <2>1. totals' = totals /\ letGo \subseteq letGo'
    BY <1>1, LoopTurn
  <2>2. CASE entry' = entry \/ entry' = None
    BY <1>1, <2>1, <2>2 DEF ShownUsage
  <2>3. CASE Dispatch
    <3>1. entry'.session = None
      BY <2>3 DEF Dispatch
    <3>2. ShownUsage' = Zero
      BY <3>1 DEF ShownUsage, Zero
    <3> QED BY <2>1, <3>2
  <2> QED BY <1>1, <2>2, <2>3, LoopTurn
<1>2. ASSUME NEW r \in Runs, OnWorkerExit(r), entry = None
      PROVE  UNCHANGED <<totals, entry, letGo>>
  BY <1>2 DEF OnWorkerExit, countVars
<1>3. ASSUME NEW e \in Updates, OnAgentUpdate(e), ~(entry # None /\ Heard(e))
      PROVE  UNCHANGED <<totals, entry, letGo>>
  BY <1>3 DEF OnAgentUpdate, countVars, historyVars
<1>4. ASSUME NEW r \in Runs, Speaks(r) \/ WorkerEnds(r)
      PROVE  UNCHANGED <<totals, entry, letGo>>
  BY <1>4 DEF Speaks, WorkerEnds, countVars, historyVars
<1>5. CASE Aside
  BY <1>5, AsideEffects DEF ShownUsage
<1>6. UNCHANGED <<totals, entry, letGo>> => totals' = totals /\ ShownUsage' = ShownUsage /\ letGo \subseteq letGo'
  BY DEF ShownUsage
<1> QED BY <1>1, <1>2, <1>3, <1>4, <1>5, <1>6, Steps

\* The strengthening: the totals hold closed runs' turns, a row shows finished
\* turns whose result has left the queue, and an attempt reports its own turns.
Booked ==
    /\ \A x \in Results : totals[x] > 0 => Closed(x[1])
    /\ \A x \in Results : ShownUsage[x] > 0 =>
          x[2] <= used[x[1]] /\ ~Queued(Result(x[1], x[2]))
    /\ \A r \in Runs, x \in Results : report[r] # None /\ x \in report[r] => x[1] = r

Tokens == Booked /\ NoTokenShownTwice /\ UsageCounted

\* A result is a run and one of its turns.
LEMMA ResultParts ==
    ASSUME NEW x \in Results
    PROVE  x[1] \in Runs /\ x[2] \in 1 .. MaxTurns /\ x = <<x[1], x[2]>>
<1> QED BY DEF Results

\* They hold initially.
LEMMA TokensInit == Init => Tokens
<1> SUFFICES ASSUME Init PROVE Tokens
  OBVIOUS
<1>1. \A x \in Results : totals[x] = 0 /\ ShownUsage[x] = 0
  BY DEF Init, ShownUsage, Zero
<1>2. \A r \in Runs : report[r] = None
  BY DEF Init
<1> QED BY <1>1, <1>2 DEF Tokens, Booked, NoTokenShownTwice, UsageCounted, Closed

\* Every step keeps the books.
LEMMA TokensStep == Typed /\ Queue /\ Kept /\ Tokens /\ [Next]_vars => Tokens'
<1> SUFFICES ASSUME Typed, Queue, Kept, Tokens, [Next]_vars PROVE Tokens'
  OBVIOUS
<1>0. TypeOK /\ Typed'
  BY TypedStep DEF Typed
<1>c. \A x \in Results : totals[x] \in Nat /\ ShownUsage[x] \in Nat /\ Zero[x] = 0
  <2>1. totals \in Counter /\ Zero \in Counter
    BY <1>0 DEF TypeOK, Zero, Counter
  <2>2. ShownUsage \in Counter
    BY <1>0, <2>1 DEF TypeOK, ShownUsage, RunningEntry, LiveSession
  <2> QED BY <2>1, <2>2 DEF Counter, Zero
<1>d. ASSUME NEW x \in Results PROVE totals[x] + ShownUsage[x] <= 1
  BY DEF Tokens, NoTokenShownTwice
<1>r. \A r \in Runs, x \in Results : report'[r] # None /\ x \in report'[r] => x[1] = r
  <2> SUFFICES ASSUME NEW r \in Runs, NEW x \in Results, report'[r] # None, x \in report'[r]
               PROVE  x[1] = r
    OBVIOUS
  <2>1. CASE report'[r] = report[r]
    BY <2>1 DEF Tokens, Booked
  <2>2. CASE report'[r] \in {Turns(r), {}}
    BY <2>2 DEF Turns
  <2> QED BY <2>1, <2>2, UsedGrows
<1>q. ASSUME NEW x \in Results, ShownUsage[x] > 0
      PROVE  x[2] <= used'[x[1]] /\ ~Queued(Result(x[1], x[2]))'
  <2>1. x[1] \in Runs /\ x[2] \in 1 .. MaxTurns
    BY ResultParts
  <2>2. x[2] <= used[x[1]] /\ ~Queued(Result(x[1], x[2]))
    BY <1>q DEF Tokens, Booked
  <2>3. used[x[1]] \in Nat /\ used'[x[1]] \in Nat /\ used[x[1]] <= used'[x[1]]
        /\ (Queued(Result(x[1], x[2]))' => Queued(Result(x[1], x[2])) \/ x[2] > used[x[1]])
    BY <2>1, UsedGrows
  <2> QED BY <2>1, <2>2, <2>3
<1>1. CASE /\ ~\E r \in Runs : OnWorkerExit(r) /\ entry # None
           /\ totals' = totals
           /\ ShownUsage' = ShownUsage \/ ShownUsage' = Zero
           /\ letGo \subseteq letGo'
  <2>1. \A x \in Results : totals'[x] = totals[x] /\ (ShownUsage'[x] = ShownUsage[x] \/ ShownUsage'[x] = 0)
    BY <1>1, <1>c
  <2>2. NoTokenShownTwice'
    BY <1>c, <1>d, <2>1 DEF NoTokenShownTwice
  <2>3. ASSUME NEW x \in Results, totals'[x] > 0 PROVE Closed(x[1])'
    BY <2>1, <2>3, ResultParts, ClosedChanges DEF Tokens, Booked
  <2>4. ASSUME NEW x \in Results, ShownUsage'[x] > 0
        PROVE  x[2] <= used'[x[1]] /\ ~Queued(Result(x[1], x[2]))'
    BY <1>q, <2>1, <2>4
  <2>5. ASSUME NEW r \in Runs, Closed(r)', r \notin letGo', NEW x \in Results, x[1] = r
        PROVE  totals'[x] = IF x \in report'[r] THEN 1 ELSE 0
    <3>1. CASE Closed(r)
      <4>1. totals[x] = IF x \in report[r] THEN 1 ELSE 0
        BY <1>1, <2>5, <3>1 DEF Tokens, UsageCounted
      <4> QED BY <2>1, <3>1, <4>1, ClosedChanges
    <3>2. CASE OnWorkerExit(r) /\ ~Closed(r)
      <4>1. Receive(WorkerExit(r)) /\ UNCHANGED workerVars
        BY <3>2 DEF OnWorkerExit
      <4>2. Open(r)
        BY <4>1, ExitReceived DEF Open
      <4>3. entry # None /\ entry.run = r
        BY <1>1, <2>5, <4>2 DEF Kept
      <4> QED BY <1>1, <3>2, <4>3
    <3> QED BY <2>5, <3>1, <3>2, ClosedChanges
  <2> QED BY <1>r, <2>2, <2>3, <2>4, <2>5 DEF Tokens, Booked, UsageCounted
<1>2. ASSUME NEW q \in Runs, OnWorkerExit(q), entry # None PROVE Tokens'
  <2>1. Receive(WorkerExit(q)) /\ UNCHANGED workerVars /\ entry' = None
        /\ letGo' = letGo \cup ({entry.run} \ {q}) /\ AccumulateTotals(q)
    BY <1>2 DEF OnWorkerExit
  <2>2. q <= started /\ report[q] # None /\ ~Closed(q) /\ Closed(q)'
    BY <2>1, ExitReceived
  <2>3. \A x \in Results : totals'[x] = totals[x] + (IF x \in report[q] THEN 1 ELSE 0)
    BY <1>2, <2>1, ExitTyped
  <2>4. \A x \in Results : ShownUsage'[x] = 0
    BY <1>c, <2>1 DEF ShownUsage, Zero
  <2>5. ASSUME NEW x \in Results, x \in report[q] PROVE x[1] = q /\ totals[x] = 0
    <3>1. x[1] = q
      BY <2>2, <2>5 DEF Tokens, Booked
    <3>2. ~(totals[x] > 0)
      BY <2>2, <3>1 DEF Tokens, Booked
    <3> QED BY <1>c, <3>1, <3>2
  <2>6. ASSUME NEW x \in Results PROVE totals'[x] + ShownUsage'[x] <= 1
    BY <1>c, <1>d, <2>3, <2>4, <2>5
  <2>7. ASSUME NEW x \in Results, totals'[x] > 0 PROVE Closed(x[1])'
    <3>1. CASE x \in report[q]
      BY <2>2, <2>5, <3>1
    <3>2. CASE x \notin report[q]
      <4>1. totals[x] > 0
        BY <1>c, <2>3, <2>7, <3>2
      <4>2. Closed(x[1]) /\ x[1] \in Runs
        BY <4>1, ResultParts DEF Tokens, Booked
      <4> QED BY <4>2, ClosedChanges
    <3> QED BY <3>1, <3>2
  <2>8. ASSUME NEW r \in Runs, Closed(r)', r \notin letGo', NEW x \in Results, x[1] = r
        PROVE  totals'[x] = IF x \in report'[r] THEN 1 ELSE 0
    <3>1. CASE r = q
      <4>1. ~(totals[x] > 0)
        BY <2>2, <2>8, <3>1 DEF Tokens, Booked
      <4>2. report'[r] = report[q]
        BY <2>1, <3>1 DEF workerVars
      <4> QED BY <1>c, <2>3, <4>1, <4>2
    <3>2. CASE r # q
      <4>1. Closed(r) /\ report'[r] = report[r]
        <5>1. Closed(r) \/ OnWorkerExit(r)
          BY <2>8, ClosedChanges
        <5>2. ~OnWorkerExit(r)
          BY <1>0, <2>1, <3>2, Received, EventsDiffer DEF OnWorkerExit
        <5> QED BY <5>1, <5>2, ClosedChanges
      <4>2. totals[x] = IF x \in report[r] THEN 1 ELSE 0
        BY <2>1, <2>8, <4>1 DEF Tokens, UsageCounted
      <4>3. x \notin report[q]
        BY <2>5, <2>8, <3>2
      <4> QED BY <1>c, <2>3, <4>1, <4>2, <4>3
    <3> QED BY <3>1, <3>2
  <2>9. Booked'
    BY <1>r, <2>4, <2>7 DEF Booked
  <2> QED BY <2>6, <2>8, <2>9 DEF Tokens, NoTokenShownTwice, UsageCounted
<1>3. ASSUME NEW e \in Updates, OnAgentUpdate(e), entry # None, Heard(e) PROVE Tokens'
  <2>1. Receive(e) /\ UNCHANGED <<clock, started, retry, report, used, letGo, totals>>
    BY <1>3 DEF OnAgentUpdate, Heard, workerVars, countVars, historyVars
  <2>2. /\ Open(e.run) /\ e.run \in Runs
        /\ e.what = "result" => /\ e = Result(e.run, e.turn)
                                /\ e.turn <= used[e.run] /\ Queued(e) /\ ~Queued(e)'
    BY <1>0, <2>1, UpdateReceived, UpdateRuns, Received
  <2>3. \A x \in Results : ShownUsage'[x] = ShownUsage[x]
            + (IF e.what = "result" /\ x = <<e.run, e.turn>> THEN 1 ELSE 0)
    <3>1. /\ entry' \in RunningEntry /\ entry'.session \in LiveSession
          /\ entry'.session.usage = [x \in Results |-> ShownUsage[x]
                + (IF e.what = "result" /\ x = <<e.run, e.turn>> THEN 1 ELSE 0)]
      BY <1>3, <2>1, HeardTyped
    <3>2. ShownUsage' = entry'.session.usage
      BY <3>1, NoneAssumption DEF ShownUsage
    <3> QED BY <3>1, <3>2
  <2>4. ASSUME NEW x \in Results, e.what = "result", x = <<e.run, e.turn>>
        PROVE  /\ totals[x] = 0 /\ ShownUsage[x] = 0
               /\ x[2] <= used'[x[1]] /\ ~Queued(Result(x[1], x[2]))'
    <3>1. x[1] = e.run /\ x[2] = e.turn
      BY <2>4
    <3>2. ~(totals[x] > 0)
      BY <2>2, <3>1 DEF Open, Tokens, Booked
    <3>3. ~(ShownUsage[x] > 0)
      BY <2>2, <2>4, <3>1 DEF Tokens, Booked
    <3> QED BY <1>c, <2>1, <2>2, <2>4, <3>1, <3>2, <3>3
  <2>5. NoTokenShownTwice'
    BY <1>c, <1>d, <2>1, <2>3, <2>4 DEF NoTokenShownTwice
  <2>6. ASSUME NEW x \in Results, ShownUsage'[x] > 0
        PROVE  x[2] <= used'[x[1]] /\ ~Queued(Result(x[1], x[2]))'
    <3>1. CASE e.what = "result" /\ x = <<e.run, e.turn>>
      BY <2>4, <3>1
    <3>2. CASE ~(e.what = "result" /\ x = <<e.run, e.turn>>)
      BY <1>c, <1>q, <2>3, <2>6, <3>2
    <3> QED BY <3>1, <3>2
  <2>7. ASSUME NEW x \in Results, totals'[x] > 0 PROVE Closed(x[1])'
    BY <2>1, <2>7, ResultParts, ClosedChanges DEF Tokens, Booked
  <2>8. ASSUME NEW r \in Runs, Closed(r)', r \notin letGo', NEW x \in Results, x[1] = r
        PROVE  totals'[x] = IF x \in report'[r] THEN 1 ELSE 0
    <3>1. ~OnWorkerExit(r)
      BY <1>0, <2>1, Received, EventsDiffer DEF OnWorkerExit
    <3>2. Closed(r) /\ report'[r] = report[r]
      BY <2>8, <3>1, ClosedChanges
    <3> QED BY <2>1, <2>8, <3>2 DEF Tokens, UsageCounted
  <2>9. Booked'
    BY <1>r, <2>6, <2>7 DEF Booked
  <2> QED BY <2>5, <2>8, <2>9 DEF Tokens, UsageCounted
<1> QED BY <1>1, <1>2, <1>3, AccountSteps

\* NoTokenShownTwice for any number of runs and turns.
THEOREM ShownOnce == Spec => []NoTokenShownTwice
<1>1. Tokens => NoTokenShownTwice
  BY DEF Tokens
<1> QED BY <1>1, TypedInit, TypedStep, QueueInit, QueueStep, KeptInit, KeptStep,
           TokensInit, TokensStep, PTL DEF Spec

\* UsageCounted for any number of runs and turns.
THEOREM ReportsCounted == Spec => []UsageCounted
<1>1. Tokens => UsageCounted
  BY DEF Tokens
<1> QED BY <1>1, TypedInit, TypedStep, QueueInit, QueueStep, KeptInit, KeptStep,
           TokensInit, TokensStep, PTL DEF Spec

-----------------------------------------------------------------------------
(* The row a run shows.                                                    *)

\* The strengthening: what a run has finished is in its row or in the queue.
RowComplete ==
    entry # None => \A n \in 1 .. used[entry.run] :
        ShownUsage[<<entry.run, n>>] = 1 \/ Queued(Result(entry.run, n))

\* The turns of a run are among the results.
LEMMA TurnsFinished ==
    ASSUME TypeOK, NEW r \in Runs, NEW n \in 1 .. used[r]
    PROVE  n \in 1 .. MaxTurns /\ <<r, n>> \in Results
<1>1. used[r] \in 0 .. MaxTurns
  BY DEF TypeOK
<1> QED BY <1>1, BoundAssumption DEF Results

\* A result leaves the queue by being heard.
LEMMA RowCompleteStep ==
    Typed /\ Queue /\ Tokens /\ RowComplete /\ [Next]_vars => RowComplete'
<1> SUFFICES ASSUME Typed, Queue, Tokens, RowComplete, [Next]_vars, entry' # None,
                    NEW n \in 1 .. used'[entry'.run]
             PROVE  (ShownUsage[<<entry.run, n>>] = 1 \/ Queued(Result(entry.run, n)))'
  BY DEF RowComplete
<1>0. TypeOK /\ Typed' /\ entry \in RunningEntry \cup {None} /\ entry' \in RunningEntry \cup {None}
      /\ TypeOK' /\ entry'.run \in Runs
  BY TypedStep DEF Typed, TypeOK, RunningEntry
<1>n. n \in 1 .. MaxTurns /\ <<entry'.run, n>> \in Results
  <2>1. used'[entry'.run] \in 0 .. MaxTurns
    BY <1>0 DEF TypeOK
  <2> QED BY <1>0, <2>1, BoundAssumption DEF Results
<1>k. ASSUME entry' = entry, used' = used, \A d \in Updates : Queued(d) => Queued(d)'
      PROVE  (ShownUsage[<<entry.run, n>>] = 1 \/ Queued(Result(entry.run, n)))'
  BY <1>0, <1>n, <1>k, EventTypes DEF RowComplete, ShownUsage, Zero
<1>1. CASE OnTick \/ OnRetryTimer
  <2>1. used' = used /\ \A d \in Updates : Queued(d) => Queued(d)'
    BY <1>0, <1>1, LoopTurn, Received, EventsDiffer
  <2>2. CASE Dispatch
    <3>1. entry'.run = started + 1 /\ started \in Nat
      BY <2>2, BoundAssumption, <1>0 DEF Dispatch, TypeOK
    <3>2. used[entry'.run] = 0
      BY <1>0, <3>1 DEF Queue, Unborn
    <3> QED BY <2>1, <3>2
  <2> QED BY <1>1, <1>k, <2>1, <2>2, LoopTurn
<1>2. ASSUME NEW q \in Runs, OnWorkerExit(q)
      PROVE  entry' = entry /\ used' = used /\ \A d \in Updates : Queued(d) => Queued(d)'
  BY <1>0, <1>2, Received, EventsDiffer DEF OnWorkerExit, workerVars
<1>3. ASSUME NEW e \in Updates, OnAgentUpdate(e)
      PROVE  (ShownUsage[<<entry.run, n>>] = 1 \/ Queued(Result(entry.run, n)))'
  <2>1. Receive(e) /\ UNCHANGED <<clock, started, used, report, retry>>
    BY <1>3 DEF OnAgentUpdate, workerVars
  <2>2. Queued(e) /\ \A d : d # e => (Queued(d)' <=> Queued(d))
    BY <1>0, <2>1, Received
  <2>3. CASE entry # None /\ Heard(e)
    <3>1. /\ entry'.run = entry.run /\ entry' \in RunningEntry /\ entry'.session \in LiveSession
          /\ ShownUsage \in Counter
          /\ entry'.session.usage = [x \in Results |-> ShownUsage[x]
                + (IF e.what = "result" /\ x = <<e.run, e.turn>> THEN 1 ELSE 0)]
      BY <2>1, <2>3, HeardTyped
    <3>2. ShownUsage' = entry'.session.usage
      BY <3>1, NoneAssumption DEF ShownUsage
    <3>3. ShownUsage[<<entry.run, n>>] = 1 \/ Queued(Result(entry.run, n))
      BY <2>1, <2>3, <3>1 DEF RowComplete
    <3>4. CASE e = Result(entry.run, n)
      <4>1. e.what = "result" /\ e.run = entry.run /\ e.turn = n
        BY <3>4 DEF Result
      <4>2. ~(ShownUsage[<<entry.run, n>>] > 0) /\ ShownUsage[<<entry.run, n>>] \in Nat
        BY <1>n, <2>2, <3>1, <3>4 DEF Tokens, Booked, Counter
      <4> QED BY <1>n, <3>1, <3>2, <4>1, <4>2
    <3>5. CASE e # Result(entry.run, n)
      <4>1. e.what = "result" => e = Result(e.run, e.turn)
        BY UpdateRuns
      <4>2. ~(e.what = "result" /\ <<entry.run, n>> = <<e.run, e.turn>>)
        BY <3>5, <4>1
      <4>3. ShownUsage'[<<entry.run, n>>] = ShownUsage[<<entry.run, n>>]
        BY <1>n, <3>1, <3>2, <4>2 DEF Counter
      <4> QED BY <2>2, <3>1, <3>3, <3>5, <4>3
    <3> QED BY <3>4, <3>5
  <2>4. CASE ~(entry # None /\ Heard(e))
    <3>1. entry' = entry /\ e.what = "noise"
      BY <1>3, <2>4 DEF OnAgentUpdate
    <3>2. e # Result(entry.run, n)
      BY <3>1 DEF Result
    <3> QED BY <1>n, <2>1, <2>2, <3>1, <3>2 DEF RowComplete, ShownUsage, Zero
  <2> QED BY <2>3, <2>4
<1>4. ASSUME NEW q \in Runs, Speaks(q)
      PROVE  (ShownUsage[<<entry.run, n>>] = 1 \/ Queued(Result(entry.run, n)))'
  <2>1. entry' = entry /\ ShownUsage' = ShownUsage
    BY <1>4 DEF Speaks, ShownUsage
  <2>2. ASSUME NEW e \in Updates, Enqueue(e) PROVE \A d : Queued(d) => Queued(d)'
    BY <1>0, <2>2, Sent, EventTypes
  <2>3. CASE used' = used
    <3>0. used[q] < MaxTurns => used[q] + 1 \in 1 .. MaxTurns
      BY <1>0, BoundAssumption DEF TypeOK
    <3>1. \A d : Queued(d) => Queued(d)'
      BY <1>4, <2>2, <3>0, EventTypes DEF Speaks
    <3> QED BY <1>k, <2>1, <2>3, <3>1
  <2>4. CASE used[q] < MaxTurns /\ used' = [used EXCEPT ![q] = used[q] + 1] /\ Enqueue(Result(q, used[q] + 1))
    <3>1. used[q] \in Nat /\ used[q] + 1 \in 1 .. MaxTurns
      BY <1>0, <2>4, BoundAssumption DEF TypeOK
    <3>2. \A d : Queued(d)' <=> Queued(d) \/ d = Result(q, used[q] + 1)
      BY <1>0, <2>4, <3>1, Sent, EventTypes
    <3>3. CASE n \in 1 .. used[entry.run]
      BY <2>1, <3>2, <3>3 DEF RowComplete
    <3>4. CASE n \notin 1 .. used[entry.run]
      <4>1. q = entry.run
        BY <1>0, <2>1, <2>4, <3>4 DEF TypeOK
      <4>2. n = used[q] + 1
        BY <1>0, <2>1, <2>4, <3>1, <3>4, <4>1 DEF TypeOK
      <4> QED BY <2>1, <3>2, <4>1, <4>2
    <3> QED BY <3>3, <3>4
  <2> QED BY <1>4, <2>3, <2>4 DEF Speaks
<1>5. ASSUME NEW q \in Runs, WorkerEnds(q)
      PROVE  entry' = entry /\ used' = used /\ \A d \in Updates : Queued(d) => Queued(d)'
  BY <1>0, <1>5, Sent, EventTypes DEF WorkerEnds
<1>6. CASE Aside
  <2>1. CASE UNCHANGED events
    BY <1>6, <1>k, <2>1, AsideEffects DEF Queued
  <2>2. ASSUME NEW e \in {Tick, RetryDue}, Enqueue(e) PROVE \A d : Queued(d) => Queued(d)'
    BY <1>0, <2>2, Sent, EventTypes
  <2> QED BY <1>6, <1>k, <2>1, <2>2, AsideEffects
<1>7. CASE \E q \in Runs : OnWorkerExit(q)
  BY <1>2, <1>7, <1>k
<1>8. CASE \E q \in Runs : WorkerEnds(q)
  BY <1>5, <1>8, <1>k
<1> QED BY <1>1, <1>3, <1>4, <1>6, <1>7, <1>8, Steps

\* ShownBeforeCounted for any number of turns and any queue: a run's exit is its
\* last event, so all its results were heard.
THEOREM RowsComplete == Spec => []ShownBeforeCounted
<1>1. Typed /\ Queue /\ RowComplete => ShownBeforeCounted
  <2> SUFFICES ASSUME Typed, Queue, RowComplete, events # << >>, entry # None,
                      Head(events) = WorkerExit(entry.run), NEW x \in Turns(entry.run)
               PROVE  ShownUsage[x] = 1
    BY DEF ShownBeforeCounted
  <2>0. TypeOK /\ entry.run \in Runs
    BY DEF Typed, TypeOK, RunningEntry
  <2>1. PICK n \in 1 .. used[entry.run] : x = <<entry.run, n>>
    BY DEF Turns
  <2>2. n \in 1 .. MaxTurns
    BY <2>0, TurnsFinished
  <2>3. Len(events) \in Nat /\ Len(events) >= 1 /\ events[1] = WorkerExit(entry.run)
    BY <2>0, HeadTailProperties, LenProperties, EmptySeq DEF TypeOK
  <2>4. ASSUME NEW k \in 1 .. Len(events), events[k] = Result(entry.run, n) PROVE FALSE
    <3>1. 1 \in 1 .. Len(events) /\ events[k].run = entry.run
      BY <2>0, <2>2, <2>3, <2>4, EventsDiffer
    <3>2. k = 1
      BY <2>0, <2>3, <3>1 DEF Queue, ExitLast
    <3> QED BY <2>0, <2>2, <2>3, <2>4, <3>2, EventsDiffer
  <2> QED BY <2>1, <2>4 DEF RowComplete, Queued
<1>2. Init => RowComplete
  BY DEF Init, RowComplete
<1> QED BY <1>1, <1>2, TypedInit, TypedStep, QueueInit, QueueStep, KeptInit, KeptStep,
           TokensInit, TokensStep, RowCompleteStep, PTL DEF Spec

\* An update is heard only while its run is open, and an open run has the entry
\* or was let go.
LEMMA RowsMixStep ==
    Typed /\ Queue /\ Kept /\ RowsMixOnlyAfterLetGo /\ [Next]_vars => RowsMixOnlyAfterLetGo'
<1> SUFFICES ASSUME Typed, Queue, Kept, RowsMixOnlyAfterLetGo, [Next]_vars,
                    entry' # None, entry'.session # None
             PROVE  /\ entry'.session.of \in letGo' \cup {entry'.run}
                    /\ \A x \in Results :
                          entry'.session.usage[x] > 0 => x[1] \in letGo' \cup {entry'.run}
  BY DEF RowsMixOnlyAfterLetGo
<1>1. CASE entry' = entry /\ letGo' = letGo
  BY <1>1 DEF RowsMixOnlyAfterLetGo
<1>2. CASE OnTick \/ OnRetryTimer
  BY <1>1, <1>2, LoopTurn DEF Dispatch
<1>3. ASSUME NEW q \in Runs, OnWorkerExit(q) PROVE entry' = entry /\ letGo' = letGo
  BY <1>3 DEF OnWorkerExit
<1>4. ASSUME NEW e \in Updates, OnAgentUpdate(e), entry # None, Heard(e)
      PROVE  /\ entry'.session.of \in letGo' \cup {entry'.run}
             /\ \A x \in Results :
                   entry'.session.usage[x] > 0 => x[1] \in letGo' \cup {entry'.run}
  <2>1. Receive(e) /\ UNCHANGED <<clock, started, retry, letGo>>
    BY <1>4 DEF OnAgentUpdate, workerVars, historyVars
  <2>2. e.run \in letGo \cup {entry.run}
    BY <2>1, UpdateReceived, UpdateRuns DEF Kept
  <2>3. /\ entry'.run = entry.run
        /\ entry'.session.of = IF entry.session # None THEN entry.session.of ELSE e.run
        /\ ShownUsage \in Counter
        /\ entry'.session.usage = [x \in Results |-> ShownUsage[x]
              + (IF e.what = "result" /\ x = <<e.run, e.turn>> THEN 1 ELSE 0)]
    BY <1>4, <2>1, HeardTyped
  <2>4. entry'.session.of \in letGo' \cup {entry'.run}
    BY <1>4, <2>1, <2>2, <2>3 DEF RowsMixOnlyAfterLetGo
  <2>5. ASSUME NEW x \in Results, entry'.session.usage[x] > 0
        PROVE  x[1] \in letGo' \cup {entry'.run}
    <3>1. CASE x = <<e.run, e.turn>>
      BY <2>1, <2>2, <2>3, <3>1
    <3>2. CASE x # <<e.run, e.turn>>
      <4>1. ShownUsage[x] > 0
        BY <2>3, <2>5, <3>2 DEF Counter
      <4>2. entry.session # None /\ entry.session.usage[x] > 0
        BY <1>4, <4>1 DEF ShownUsage, Zero
      <4> QED BY <1>4, <2>1, <2>3, <4>2 DEF RowsMixOnlyAfterLetGo
    <3> QED BY <3>1, <3>2
  <2> QED BY <2>4, <2>5
<1>5. ASSUME NEW e \in Updates, OnAgentUpdate(e), ~(entry # None /\ Heard(e))
      PROVE  entry' = entry /\ letGo' = letGo
  BY <1>5 DEF OnAgentUpdate, historyVars
<1>6. ASSUME NEW q \in Runs, Speaks(q) \/ WorkerEnds(q) PROVE entry' = entry /\ letGo' = letGo
  BY <1>6 DEF Speaks, WorkerEnds, historyVars
<1>7. CASE Aside
  BY <1>1, <1>7, AsideEffects
<1> QED BY <1>1, <1>2, <1>3, <1>4, <1>5, <1>6, <1>7, Steps

\* RowsMixOnlyAfterLetGo for any number of runs and turns.
THEOREM RowsOfOwnRun == Spec => []RowsMixOnlyAfterLetGo
<1>1. Init => RowsMixOnlyAfterLetGo
  BY DEF Init, RowsMixOnlyAfterLetGo
<1> QED BY <1>1, TypedInit, TypedStep, QueueInit, QueueStep, KeptInit, KeptStep,
           RowsMixStep, PTL DEF Spec

-----------------------------------------------------------------------------
(* The stall clock.                                                        *)

\* Something the run said with its session's name waits in the queue.
Unheard(r) == \E e \in Updates : Queued(e) /\ e.run = r /\ e.what # "noise"

\* The strengthening: the stall clock is not behind what the run has said,
\* except for what waits in the queue.
ClockFollows ==
    /\ \A r \in Runs : spoke[r] <= clock
    /\ entry # None => StallReference >= spoke[entry.run] \/ Unheard(entry.run)

LEMMA ClockFollowsStep ==
    Typed /\ Queue /\ ClockFollows /\ [Next]_vars => ClockFollows'
<1> SUFFICES ASSUME Typed, Queue, ClockFollows, [Next]_vars PROVE ClockFollows'
  OBVIOUS
<1>0. /\ TypeOK /\ TypeOK' /\ clock \in Int /\ clock' \in Int /\ spoke \in [Runs -> Time]
      /\ \A r \in Runs : spoke[r] \in Int /\ spoke'[r] \in Int
      /\ entry # None => entry.run \in Runs
      /\ started \in Nat
  BY TypedStep, BoundAssumption DEF Typed, TypeOK, Time, RunningEntry
<1>s. UNCHANGED <<entry, spoke>> /\ clock <= clock' /\ (\A d \in Updates : Queued(d) => Queued(d)')
        => ClockFollows'
  BY <1>0 DEF ClockFollows, StallReference, Unheard
<1>1. CASE OnTick \/ OnRetryTimer
  <2>1. clock' = clock /\ \A d \in Updates : Queued(d) => Queued(d)'
    BY <1>0, <1>1, LoopTurn, Received, EventsDiffer
  <2>2. CASE UNCHANGED <<entry, spoke>>
    BY <1>0, <1>s, <2>1, <2>2
  <2>3. CASE entry' = None /\ UNCHANGED spoke
    BY <2>1, <2>3 DEF ClockFollows
  <2>4. CASE Dispatch
    <3>1. /\ entry' = [run |-> started + 1, startedAt |-> clock, session |-> None]
          /\ spoke' = [spoke EXCEPT ![started + 1] = clock] /\ started + 1 \in Runs
      BY <1>0, <2>4, BoundAssumption DEF Dispatch, Runs
    <3>2. spoke'[started + 1] = clock /\ \A r \in Runs : spoke'[r] <= clock
      BY <1>0, <3>1 DEF ClockFollows
    <3>3. entry'.run = started + 1 /\ StallReference' = clock
      BY <3>1 DEF StallReference
    <3> QED BY <1>0, <2>1, <3>2, <3>3 DEF ClockFollows
  <2> QED BY <1>1, <2>2, <2>3, <2>4, LoopTurn
<1>2. ASSUME NEW q \in Runs, OnWorkerExit(q) PROVE ClockFollows'
  <2>1. spoke' = spoke /\ clock' = clock /\ entry' \in {entry, None}
    BY <1>2 DEF OnWorkerExit, workerVars
  <2>2. \A d \in Updates : Queued(d) => Queued(d)'
    BY <1>0, <1>2, Received, EventsDiffer DEF OnWorkerExit
  <2> QED BY <1>0, <1>s, <2>1, <2>2 DEF ClockFollows
<1>3. ASSUME NEW e \in Updates, OnAgentUpdate(e) PROVE ClockFollows'
  <2>1. Receive(e) /\ UNCHANGED <<clock, started, retry, spoke>>
    BY <1>3 DEF OnAgentUpdate, workerVars
  <2>2. CASE entry # None /\ Heard(e)
    <3>1. /\ entry' \in RunningEntry /\ entry'.session \in LiveSession
          /\ entry'.run = entry.run /\ entry'.session.lastEvent = clock
      BY <2>1, <2>2, HeardTyped
    <3>2. StallReference' = clock
      BY <3>1, NoneAssumption DEF StallReference
    <3>3. spoke'[entry'.run] <= clock
      BY <1>0, <2>1, <2>2, <3>1 DEF ClockFollows
    <3> QED BY <1>0, <2>1, <3>2, <3>3 DEF ClockFollows
  <2>3. CASE ~(entry # None /\ Heard(e))
    <3>1. entry' = entry /\ (entry # None => e.what = "noise")
      BY <1>3, <2>3 DEF OnAgentUpdate
    <3>2. \A d : d # e => (Queued(d) <=> Queued(d)')
      BY <1>0, <2>1, Received
    <3>3. entry # None /\ Unheard(entry.run) => Unheard(entry.run)'
      BY <3>1, <3>2 DEF Unheard
    <3> QED BY <2>1, <3>1, <3>3 DEF ClockFollows, StallReference
  <2> QED BY <2>2, <2>3
<1>4. ASSUME NEW q \in Runs, Speaks(q) PROVE ClockFollows'
  <2>1. UNCHANGED <<entry, clock>>
    BY <1>4 DEF Speaks
  <2>2. used[q] < MaxTurns => used[q] + 1 \in 1 .. MaxTurns
    BY <1>0, BoundAssumption DEF TypeOK
  <2>3. PICK e \in Updates : /\ Enqueue(e) /\ e.run = q
                             /\ \/ spoke' = spoke
                                \/ e.what # "noise" /\ spoke' = [spoke EXCEPT ![q] = clock]
    BY <1>4, <2>2, EventTypes, EventsDiffer DEF Speaks, Noise, Named
  <2>4. \A d : Queued(d)' <=> Queued(d) \/ d = e
    BY <1>0, <2>3, Sent, EventTypes
  <2>5. CASE spoke' = spoke
    BY <1>0, <1>s, <2>1, <2>4, <2>5
  <2>6. CASE e.what # "noise" /\ spoke' = [spoke EXCEPT ![q] = clock]
    <3>1. \A r \in Runs : spoke'[r] <= clock
      BY <1>0, <2>6 DEF ClockFollows
    <3>2. Unheard(q)'
      BY <2>3, <2>4, <2>6 DEF Unheard
    <3>3. ASSUME entry # None, entry.run # q PROVE StallReference >= spoke'[entry.run] \/ Unheard(entry.run)'
      <4>1. spoke'[entry.run] = spoke[entry.run]
        BY <1>0, <2>6, <3>3
      <4>2. Unheard(entry.run) => Unheard(entry.run)'
        BY <2>1, <2>4 DEF Unheard
      <4> QED BY <3>3, <4>1, <4>2 DEF ClockFollows
    <3> QED BY <2>1, <3>1, <3>2, <3>3 DEF ClockFollows, StallReference
  <2> QED BY <2>3, <2>5, <2>6
<1>5. ASSUME NEW q \in Runs, WorkerEnds(q) PROVE ClockFollows'
  <2>1. UNCHANGED <<entry, clock, spoke>>
    BY <1>5 DEF WorkerEnds
  <2>2. \A d \in Updates : Queued(d) => Queued(d)'
    BY <1>0, <1>5, Sent, EventTypes DEF WorkerEnds
  <2> QED BY <1>0, <1>s, <2>1, <2>2
<1>6. CASE Aside
  <2>1. UNCHANGED <<entry, spoke>> /\ clock <= clock'
    BY <1>6, AsideEffects
  <2>2. ASSUME NEW e \in {Tick, RetryDue}, Enqueue(e) PROVE \A d : Queued(d) => Queued(d)'
    BY <1>0, <2>2, Sent, EventTypes
  <2>3. \A d \in Updates : Queued(d) => Queued(d)'
    BY <1>6, <2>2, AsideEffects DEF Queued
  <2> QED BY <1>s, <2>1, <2>3
<1> QED BY <1>1, <1>2, <1>3, <1>4, <1>5, <1>6, Steps

\* StallJudgedFairly for any timeout and any queue.
THEOREM StallsFair == Spec => []StallJudgedFairly
<1>1. Typed /\ ClockFollows => StallJudgedFairly
  <2> SUFFICES ASSUME Typed, ClockFollows, Stalled, ~Unheard(entry.run)
               PROVE  clock - spoke[entry.run] > StallTimeout
    BY DEF StallJudgedFairly, Unheard
  <2>1. /\ clock \in Nat /\ entry.run \in Runs /\ spoke[entry.run] \in Nat
        /\ StallReference \in Nat
    BY DEF Stalled, Typed, TypeOK, Time, RunningEntry, LiveSession, StallReference
  <2>2. StallReference >= spoke[entry.run] /\ clock - StallReference > StallTimeout
    BY DEF ClockFollows, Stalled
  <2> QED BY <2>1, <2>2, BoundAssumption
<1>2. Init => ClockFollows
  BY DEF Init, ClockFollows
<1> QED BY <1>1, <1>2, TypedInit, TypedStep, QueueInit, QueueStep, ClockFollowsStep, PTL DEF Spec

=============================================================================
