-------------------------- MODULE ServiceHostProofs --------------------------
(* Proofs about ServiceHost, for any number of clients, signals and edits. *)
EXTENDS ServiceHost, WorkflowReloadProofs, SequenceTheorems

-----------------------------------------------------------------------------
(* The store in the process.                                               *)

\* Every step of the process is a step of the store or leaves it alone.
LEMMA StoreStep == [HostNext]_allVars => [Next]_vars
<1> SUFFICES ASSUME [HostNext]_allVars PROVE Next \/ UNCHANGED vars
  BY DEF vars
<1>1. CASE StoreWorks
  BY <1>1 DEF StoreWorks, Next, Reloads
<1>2. CASE PollReloads
  BY <1>2 DEF PollReloads, Next, Reloads
<1>3. CASE Edits
  BY <1>3 DEF Edits, Next
<1>4. CASE FileChecked \/ LoadFailed \/ Composed \/ ServeStarts \/ FirstTick \/ QueueLocked
  BY <1>4 DEF FileChecked, LoadFailed, Composed, ServeStarts, FirstTick, QueueLocked
<1>5. CASE \/ StopReceived \/ ExitReceived \/ ExitRaises \/ TickBegins
           \/ \E c \in Clients : SnapshotBuilt(c)
  BY <1>5 DEF StopReceived, ExitReceived, ExitRaises, TickBegins, SnapshotBuilt
<1>6. CASE PollUnchanged \/ ReloadAdopted \/ TickRaises \/ TickEnds
  BY <1>6 DEF PollUnchanged, ReloadAdopted, TickRaises, TickEnds
<1>7. CASE ShutdownStarts \/ WorkersJoined \/ HandlersRestored \/ Exits
  BY <1>7 DEF ShutdownStarts, WorkersJoined, HandlersRestored, Exits
<1>8. CASE OtherThreads \/ Signal \/ Over \/ UNCHANGED allVars
  BY <1>8 DEF OtherThreads, Signal, Over, allVars
<1> QED BY <1>1, <1>2, <1>3, <1>4, <1>5, <1>6, <1>7, <1>8 DEF HostNext, MainThread

\* So what is proved of WorkflowReload holds in the process.
LEMMA HostRunsStore == HostSpec => Spec
<1>1. HostInit => Init
  BY DEF HostInit
<1> QED BY <1>1, StoreStep, PTL DEF HostSpec, Spec

\* RereadOnlyAfterEdit in the process: a broken file is not tried again by every
\* tick.
THEOREM HostRereadsBounded == HostSpec => []RereadOnlyAfterEdit
<1> QED BY HostRunsStore, RereadsBounded, PTL

\* NothingMissed in the process: no edit is lost between the looks of a poll.
THEOREM HostNoEditLost == HostSpec => []NothingMissed
<1> QED BY HostRunsStore, NoEditLost, PTL

-----------------------------------------------------------------------------
(* Types, and the queue.                                                   *)

\* Every event is one of the queue's; ticks and stops are no other event.
LEMMA HostEvents ==
    /\ Tick \in Event /\ Stop \in Event /\ WorkerExit \in Event
    /\ \A c \in Clients : Snapshot(c) \in Event /\ Snapshot(c) # Tick
    /\ Tick # Stop /\ WorkerExit # Tick
<1> QED BY DEF Event, Tick, Stop, WorkerExit, Snapshot

\* An event is appended.
LEMMA Appended ==
    ASSUME HostTypeOK, NEW e \in Event, events' = Append(events, e)
    PROVE  /\ events' \in Seq(Event)
           /\ Len(events) \in Nat /\ Len(events') = Len(events) + 1
           /\ \A k \in 1 .. Len(events) : events'[k] = events[k]
           /\ events'[Len(events) + 1] = e
<1>1. events \in Seq(Event)
  BY DEF HostTypeOK
<1> QED BY <1>1, AppendProperties, LenProperties

\* The first event is taken.
LEMMA Taken ==
    ASSUME HostTypeOK, NEW e, NEW to, Gets(e, to)
    PROVE  /\ events' \in Seq(Event)
           /\ Len(events) \in Nat /\ Len(events) >= 1
           /\ Len(events') = Len(events) - 1
           /\ events[1] = e
           /\ \A k \in 1 .. Len(events') : events'[k] = events[k + 1]
<1>1. events \in Seq(Event)
  BY DEF HostTypeOK
<1> QED BY <1>1, HeadTailProperties, LenProperties, EmptySeq DEF Gets

\* The parts of HostTypeOK: the flags, and the rest of what the process keeps.
Flags ==
    /\ handlers \in BOOLEAN /\ serving \in BOOLEAN /\ failure \in BOOLEAN
    /\ timer \in BOOLEAN /\ working \in BOOLEAN

Others ==
    /\ main \in {"checking", "loading", "stuck"} \cup Looping \cup Leaving \cup Gone
    /\ code \in {None, 0, 1}
    /\ events \in Seq(Event)
    /\ client \in [Clients -> {"idle", "checked", "refused", "asked", "answered", "timed out"}]
    /\ adopted \in Version \cup {None}
    /\ signals \in 0 .. MaxSignals /\ late \in Nat

\* The parts make up HostTypeOK.
LEMMA HostTypeParts == HostTypeOK <=> TypeOK /\ Flags /\ Others
<1> QED BY Zenon DEF HostTypeOK, Flags, Others

\* The counts of signals and ticks are natural numbers.
LEMMA NaturalCounts == HostTypeOK => signals \in Nat /\ late \in Nat
<1>1. HostTypeOK => signals \in 0 .. MaxSignals /\ late \in Nat
  BY Zenon DEF HostTypeOK
<1> QED BY <1>1, HostAssumption

\* The types hold initially.
LEMMA HostTypedInit == HostInit => HostTypeOK
<1> SUFFICES ASSUME HostInit PROVE HostTypeOK
  OBVIOUS
<1>1. TypeOK
  BY TypedInit DEF HostInit
<1>2. Flags
  BY Zenon DEF HostInit, Flags
<1>3. events \in Seq(Event)
  BY EmptySeq DEF HostInit
<1>4. Others
  BY <1>3, HostAssumption DEF HostInit, Others
<1> QED BY <1>1, <1>2, <1>4, HostTypeParts

\* Every step keeps the flags flags.
LEMMA FlagsStep == Flags /\ [HostNext]_allVars => Flags'
<1> SUFFICES ASSUME Flags, [HostNext]_allVars PROVE Flags'
  OBVIOUS
<1> USE DEF Flags, hostVars, threadVars, signalVars, Goes, Fails, Gets
<1>1. CASE StoreWorks \/ PollReloads \/ Edits
  BY <1>1, Zenon DEF StoreWorks, PollReloads, Edits
<1>2. CASE FileChecked
  BY <1>2, Zenon DEF FileChecked
<1>3. CASE LoadFailed \/ Composed \/ FirstTick
  BY <1>3, Zenon DEF LoadFailed, Composed, FirstTick
<1>4. CASE ServeStarts
  BY <1>4, Zenon DEF ServeStarts
<1>5. CASE QueueLocked \/ StopReceived \/ ExitReceived \/ ExitRaises \/ TickBegins
  BY <1>5, Zenon DEF QueueLocked, StopReceived, ExitReceived, ExitRaises, TickBegins
<1>6. ASSUME NEW c \in Clients, SnapshotBuilt(c) PROVE Flags'
  BY <1>6, Zenon DEF SnapshotBuilt
<1>7. CASE PollUnchanged \/ ReloadAdopted
  BY <1>7, Zenon DEF PollUnchanged, ReloadAdopted
<1>8. CASE TickRaises
  BY <1>8, Zenon DEF TickRaises
<1>9. CASE TickEnds
  <2>1. working' = working \/ working' = TRUE
    BY <1>9, Zenon DEF TickEnds, MayDispatch
  <2> QED BY <1>9, <2>1, Zenon DEF TickEnds
<1>10. CASE ShutdownStarts \/ WorkersJoined \/ HandlersRestored \/ Exits
  BY <1>10, Zenon DEF ShutdownStarts, WorkersJoined, HandlersRestored, Exits
<1>11. CASE OtherThreads
  BY <1>11, Zenon DEF OtherThreads, ClientChecks, ClientAsks, ClientTimesOut, TimerFires, WorkerEnds
<1>12. CASE Signal
  BY <1>12, Zenon DEF Signal
<1>13. CASE Over \/ UNCHANGED allVars
  BY <1>13, Zenon DEF Over, allVars
<1> QED BY <1>1, <1>2, <1>3, <1>4, <1>5, <1>6, <1>7, <1>8, <1>9, <1>10, <1>11, <1>12, <1>13
        DEF HostNext, MainThread

\* Every step keeps the other types.
LEMMA OthersStep == HostTypeOK /\ [HostNext]_allVars => Others'
<1> SUFFICES ASSUME HostTypeOK, [HostNext]_allVars PROVE Others'
  OBVIOUS
<1>o. Others
  BY HostTypeParts
<1>e. effective \in Version \cup {None}
  BY HostTypeParts DEF TypeOK
<1>n. late \in Nat /\ signals \in 0 .. MaxSignals
  BY <1>o, Zenon DEF Others
<1>p. late + 1 \in Nat /\ (signals < MaxSignals => signals + 1 \in 0 .. MaxSignals)
  BY <1>n, HostAssumption
<1> USE <1>o, HostAssumption
      DEF Others, Looping, Ticking, Leaving, Gone, hostVars, threadVars, signalVars, Goes, Fails
<1>1. CASE StoreWorks \/ PollReloads \/ Edits
  BY <1>1 DEF StoreWorks, PollReloads, Edits
<1>2. CASE FileChecked \/ LoadFailed \/ ServeStarts \/ QueueLocked
  BY <1>2 DEF FileChecked, LoadFailed, ServeStarts, QueueLocked
<1>3. CASE Composed \/ ReloadAdopted
  BY <1>e, <1>3 DEF Composed, ReloadAdopted
<1>4. CASE FirstTick
  <2>1. events' \in Seq(Event)
    BY <1>4, HostEvents, Appended DEF FirstTick
  <2> QED BY <1>4, <2>1 DEF FirstTick
<1>5. CASE StopReceived \/ ExitReceived \/ ExitRaises \/ TickBegins
  <2>1. events' \in Seq(Event)
    BY <1>5, Taken DEF StopReceived, ExitReceived, ExitRaises, TickBegins
  <2>2. late' = late + 1 \/ late' = late
    BY <1>5, Zenon DEF StopReceived, ExitReceived, ExitRaises, TickBegins
  <2>3. /\ main' \in {"stopping", "getting", "polling"}
        /\ UNCHANGED <<code, client, adopted, signals>>
    BY <1>5 DEF StopReceived, ExitReceived, ExitRaises, TickBegins, Gets
  <2>4. late' \in Nat
    BY <1>n, <1>p, <2>2, Zenon
  <2> QED BY <2>1, <2>3, <2>4
<1>6. ASSUME NEW c \in Clients, SnapshotBuilt(c) PROVE Others'
  <2>1. events' \in Seq(Event)
    BY <1>6, Taken DEF SnapshotBuilt
  <2> QED BY <1>6, <2>1 DEF SnapshotBuilt, Gets
<1>7. CASE PollUnchanged \/ TickRaises \/ TickEnds
  BY <1>7 DEF PollUnchanged, TickRaises, TickEnds
<1>8. CASE ShutdownStarts \/ WorkersJoined \/ HandlersRestored \/ Exits
  BY <1>8 DEF ShutdownStarts, WorkersJoined, HandlersRestored, Exits
<1>9. CASE OtherThreads
  <2>1. events' = events \/ \E d \in Event : events' = Append(events, d)
    BY <1>9, HostEvents
      DEF OtherThreads, ClientChecks, ClientAsks, ClientTimesOut, TimerFires, WorkerEnds, Put
  <2>2. events' \in Seq(Event)
    BY <2>1, Appended
  <2>3. client' \in [Clients -> {"idle", "checked", "refused", "asked", "answered", "timed out"}]
    BY <1>9 DEF OtherThreads, ClientChecks, ClientAsks, ClientTimesOut, TimerFires, WorkerEnds
  <2> QED BY <1>9, <2>2, <2>3 DEF OtherThreads
<1>10. CASE Signal
  <2>1. events' = events \/ events' = Append(events, Stop)
    BY <1>10 DEF Signal, Put
  <2>2. events' \in Seq(Event)
    BY <2>1, HostEvents, Appended
  <2>3. signals < MaxSignals /\ signals' = signals + 1
    BY <1>10, Zenon DEF Signal
  <2>4. main' \in {"killed", "stuck", main} /\ UNCHANGED <<code, client, adopted, late>>
    BY <1>10 DEF Signal
  <2>5. signals' \in 0 .. MaxSignals
    BY <1>p, <2>3, Zenon
  <2> QED BY <2>2, <2>4, <2>5
<1>11. CASE Over \/ UNCHANGED allVars
  BY <1>11 DEF Over, allVars
<1> QED BY <1>1, <1>2, <1>3, <1>4, <1>5, <1>6, <1>7, <1>8, <1>9, <1>10, <1>11
        DEF HostNext, MainThread

\* Every step keeps the types.
LEMMA HostTypedStep == HostTypeOK /\ [HostNext]_allVars => HostTypeOK'
<1> SUFFICES ASSUME HostTypeOK, [HostNext]_allVars PROVE HostTypeOK'
  OBVIOUS
<1>1. TypeOK'
  BY StoreStep, TypedStep, HostTypeParts
<1>2. Flags'
  BY FlagsStep, HostTypeParts
<1>3. Others'
  BY OthersStep
<1> QED BY <1>1, <1>2, <1>3, Zenon DEF HostTypeOK, Flags, Others

\* HostTypeOK in every state.
THEOREM HostTypeCorrect == HostSpec => []HostTypeOK
<1> QED BY HostTypedInit, HostTypedStep, PTL DEF HostSpec

-----------------------------------------------------------------------------
(* A stop waits for one tick at most.                                      *)

\* No tick waits in the queue.
NoTick == \A k \in 1 .. Len(events) : events[k] # Tick

\* The strengthening, first part: before the first tick and during one, none is
\* queued or armed; between ticks, at most one.
OneTick ==
    /\ main \in {"checking", "loading", "preflight", "starting", "putting"} \cup Ticking =>
          timer = FALSE /\ NoTick
    /\ main \in {"getting", "locked", "waiting"} =>
          /\ timer = TRUE => NoTick
          /\ \A j, k \in 1 .. Len(events) : events[j] = Tick /\ events[k] = Tick => j = k

\* Second part: while the loop may still begin a tick, a signal has left a stop
\* in the queue; once a tick has begun after it, no tick is before that stop.
StopAhead ==
    /\ late <= 1
    /\ signals = 0 => late = 0
    /\ main \in {"checking", "loading"} \cup Looping /\ signals > 0 =>
          \E k \in 1 .. Len(events) :
             /\ events[k] = Stop
             /\ late = 1 => \A j \in 1 .. k : events[j] # Tick

\* Both hold before main().
LEMMA PromptInit == HostInit => OneTick /\ StopAhead
<1> SUFFICES ASSUME HostInit PROVE OneTick /\ StopAhead
  OBVIOUS
<1>1. events = << >> /\ Len(events) = 0 /\ timer = FALSE /\ signals = 0 /\ late = 0
  BY EmptySeq DEF HostInit
<1>2. main = "checking"
  BY DEF HostInit
<1>3. OneTick
  BY <1>1, <1>2 DEF OneTick, NoTick
<1> QED BY <1>1, <1>3 DEF StopAhead

\* A step that leaves queue, timer and counts alone and keeps the loop between
\* ticks or in one, or leaves it.
LEMMA PromptQuiet ==
    ASSUME OneTick, StopAhead, UNCHANGED <<events, timer, signals, late>>,
           \/ main' = main
           \/ main' \notin {"checking", "loading"} \cup Looping
           \/ /\ main \in {"checking", "loading", "preflight", "starting", "putting"} \cup Ticking
              /\ main' \in {"checking", "loading"} \cup Looping
           \/ main \in {"getting", "locked", "waiting"} /\ main' \in {"getting", "locked", "waiting"}
    PROVE  OneTick' /\ StopAhead'
<1>1. OneTick'
  BY DEF OneTick, NoTick, Looping, Ticking
<1>2. StopAhead'
  BY DEF StopAhead, Looping, Ticking
<1> QED BY <1>1, <1>2

\* An event that is no tick is put.
LEMMA PromptPut ==
    ASSUME HostTypeOK, OneTick, StopAhead, NEW e \in Event, e # Tick, events' = Append(events, e),
           UNCHANGED <<main, timer, signals, late>>
    PROVE  OneTick' /\ StopAhead'
<1>1. /\ Len(events) \in Nat /\ Len(events') = Len(events) + 1
      /\ \A k \in 1 .. Len(events) : events'[k] = events[k]
      /\ events'[Len(events) + 1] = e
  BY Appended
<1>2. NoTick => NoTick'
  BY <1>1 DEF NoTick
<1>3. \A j \in 1 .. Len(events') : events'[j] = Tick => j \in 1 .. Len(events) /\ events[j] = Tick
  BY <1>1
<1>4. OneTick'
  BY <1>2, <1>3 DEF OneTick
<1>5. ASSUME NEW k \in 1 .. Len(events), events[k] = Stop,
             late = 1 => \A j \in 1 .. k : events[j] # Tick
      PROVE  /\ k \in 1 .. Len(events') /\ events'[k] = Stop
             /\ late = 1 => \A j \in 1 .. k : events'[j] # Tick
  BY <1>1, <1>5
<1>6. StopAhead'
  BY <1>5 DEF StopAhead
<1> QED BY <1>4, <1>6

\* The first tick, or that of the timer, is put.
LEMMA PromptTick ==
    ASSUME HostTypeOK, OneTick, StopAhead, events' = Append(events, Tick),
           UNCHANGED <<signals, late>>,
           \/ main = "putting" /\ main' = "getting" /\ UNCHANGED timer
           \/ timer = TRUE /\ timer' = FALSE /\ UNCHANGED main
    PROVE  OneTick' /\ StopAhead'
<1>1. /\ Len(events) \in Nat /\ Len(events') = Len(events) + 1
      /\ \A k \in 1 .. Len(events) : events'[k] = events[k]
      /\ events'[Len(events) + 1] = Tick
  BY Appended, HostEvents
<1>2. OneTick'
  <2>1. CASE main = "putting" /\ main' = "getting" /\ UNCHANGED timer
    <3>1. NoTick /\ timer' = FALSE
      BY <2>1 DEF OneTick
    <3>2. \A j \in 1 .. Len(events') : events'[j] = Tick => j = Len(events) + 1
      BY <1>1, <3>1 DEF NoTick
    <3> QED BY <2>1, <3>1, <3>2 DEF OneTick, Ticking
  <2>2. CASE timer = TRUE /\ timer' = FALSE /\ UNCHANGED main
    <3>1. main \in {"getting", "locked", "waiting"} => NoTick
      BY <2>2 DEF OneTick
    <3>2. main \in {"getting", "locked", "waiting"} =>
             \A j \in 1 .. Len(events') : events'[j] = Tick => j = Len(events) + 1
      BY <1>1, <3>1 DEF NoTick
    <3>3. main \notin {"checking", "loading", "preflight", "starting", "putting"} \cup Ticking
      BY <2>2 DEF OneTick
    <3> QED BY <2>2, <3>2, <3>3 DEF OneTick
  <2> QED BY <2>1, <2>2
<1>3. ASSUME NEW k \in 1 .. Len(events), events[k] = Stop,
             late = 1 => \A j \in 1 .. k : events[j] # Tick
      PROVE  /\ k \in 1 .. Len(events') /\ events'[k] = Stop
             /\ late = 1 => \A j \in 1 .. k : events'[j] # Tick
  BY <1>1, <1>3
<1>4. main' \in {"checking", "loading"} \cup Looping => main \in {"checking", "loading"} \cup Looping
  BY DEF Looping
<1>5. StopAhead'
  BY <1>3, <1>4 DEF StopAhead
<1> QED BY <1>2, <1>5

\* An event that is neither tick nor stop is taken.
LEMMA PromptTaken ==
    ASSUME HostTypeOK, OneTick, StopAhead, NEW e, Gets(e, "getting"), e # Tick, e # Stop,
           UNCHANGED <<timer, signals, late>>
    PROVE  OneTick' /\ StopAhead'
<1>1. /\ Len(events) \in Nat /\ Len(events) >= 1
      /\ Len(events') = Len(events) - 1
      /\ events[1] = e
      /\ \A k \in 1 .. Len(events') : events'[k] = events[k + 1]
  BY Taken
<1>2. main = "locked" /\ main' = "getting"
  BY DEF Gets, Goes
<1>3. NoTick => NoTick'
  BY <1>1 DEF NoTick
<1>4. \A j, k \in 1 .. Len(events') : events'[j] = Tick /\ events'[k] = Tick => j = k
  BY <1>1, <1>2 DEF OneTick
<1>5. OneTick'
  BY <1>2, <1>3, <1>4 DEF OneTick, Ticking
<1>6. ASSUME NEW k \in 1 .. Len(events), events[k] = Stop,
             late = 1 => \A j \in 1 .. k : events[j] # Tick
      PROVE  /\ k - 1 \in 1 .. Len(events') /\ events'[k - 1] = Stop
             /\ late = 1 => \A j \in 1 .. (k - 1) : events'[j] # Tick
  BY <1>1, <1>6
<1>7. main \in Looping
  BY <1>2 DEF Looping
<1>8. StopAhead'
  BY <1>6, <1>7 DEF StopAhead
<1> QED BY <1>5, <1>8

\* A tick begins.  If it is the second after a signal, the stop was before it.
LEMMA PromptBegins == HostTypeOK /\ OneTick /\ StopAhead /\ TickBegins => OneTick' /\ StopAhead'
<1> SUFFICES ASSUME HostTypeOK, OneTick, StopAhead, TickBegins PROVE OneTick' /\ StopAhead'
  OBVIOUS
<1>1. /\ Len(events) \in Nat /\ Len(events) >= 1
      /\ Len(events') = Len(events) - 1
      /\ events[1] = Tick
      /\ \A k \in 1 .. Len(events') : events'[k] = events[k + 1]
  BY Taken DEF TickBegins
<1>2. main = "locked" /\ main' = "polling"
  BY DEF TickBegins, Gets, Goes
<1>3. timer' = timer /\ signals' = signals
  BY DEF TickBegins, threadVars
<1>4. NoTick'
  <2>1. \A k \in 1 .. Len(events) : events[k] = Tick => k = 1
    BY <1>1, <1>2 DEF OneTick
  <2> QED BY <1>1, <2>1 DEF NoTick
<1>5. timer' = FALSE
  <2>1. ~NoTick
    BY <1>1 DEF NoTick
  <2>2. timer \in BOOLEAN
    BY HostTypeParts, Zenon DEF Flags
  <2> QED BY <1>2, <1>3, <2>1, <2>2, Zenon DEF OneTick
<1>6. OneTick'
  BY <1>2, <1>4, <1>5 DEF OneTick, Ticking
<1>7. signals \in Nat /\ late \in Nat
  BY NaturalCounts
<1>8. CASE signals = 0
  <2>1. late' = 0
    BY <1>7, <1>8 DEF TickBegins, StopAhead
  <2> QED BY <1>3, <1>6, <1>8, <2>1 DEF StopAhead
<1>9. CASE signals > 0
  <2>1. PICK k \in 1 .. Len(events) :
           events[k] = Stop /\ (late = 1 => \A j \in 1 .. k : events[j] # Tick)
    BY <1>2, <1>9 DEF StopAhead, Looping
  <2>2. late = 0
    BY <1>1, <1>7, <2>1 DEF StopAhead
  <2>3. late' = 1
    BY <1>9, <2>2 DEF TickBegins
  <2>4. k # 1
    BY <1>1, <2>1, HostEvents
  <2>5. k - 1 \in 1 .. Len(events') /\ events'[k - 1] = Stop
    BY <1>1, <2>1, <2>4
  <2>6. \A j \in 1 .. (k - 1) : events'[j] # Tick
    BY <1>4, <2>5, <1>1 DEF NoTick
  <2> QED BY <1>3, <1>6, <1>9, <2>3, <2>5, <2>6 DEF StopAhead
<1> QED BY <1>7, <1>8, <1>9

\* A signal puts its stop behind whatever waits.
LEMMA PromptSignal == HostTypeOK /\ OneTick /\ StopAhead /\ Signal => OneTick' /\ StopAhead'
<1> SUFFICES ASSUME HostTypeOK, OneTick, StopAhead, Signal PROVE OneTick' /\ StopAhead'
  OBVIOUS
<1>1. timer' = timer /\ late' = late /\ signals' = signals + 1
  BY Zenon DEF Signal, threadVars
<1>2. signals \in Nat /\ late \in Nat
  BY NaturalCounts
<1>3. late <= 1 /\ signals' # 0
  BY <1>1, <1>2 DEF StopAhead
<1>4. CASE main' = "killed" \/ main' = "stuck"
  <2>1. main' \notin {"checking", "loading"} \cup Looping
    BY <1>4 DEF Looping, Ticking
  <2>2. OneTick'
    BY <2>1, <1>4 DEF OneTick, Looping
  <2> QED BY <1>1, <1>3, <2>1, <2>2 DEF StopAhead
<1>5. CASE Put(Stop) /\ main' = main
  <2>1. events' = Append(events, Stop)
    BY <1>5 DEF Put
  <2>2. /\ Len(events) \in Nat /\ Len(events') = Len(events) + 1
        /\ \A k \in 1 .. Len(events) : events'[k] = events[k]
        /\ events'[Len(events) + 1] = Stop
    BY <2>1, Appended, HostEvents
  <2>3. NoTick => NoTick'
    BY <2>2, HostEvents DEF NoTick
  <2>4. \A j \in 1 .. Len(events') : events'[j] = Tick => j \in 1 .. Len(events) /\ events[j] = Tick
    BY <2>2, HostEvents
  <2>5. OneTick'
    BY <1>1, <1>5, <2>3, <2>4 DEF OneTick
  <2>6. CASE late = 0
    BY <1>1, <1>3, <2>2, <2>5, <2>6 DEF StopAhead
  <2>7. CASE late # 0 /\ main \in {"checking", "loading"} \cup Looping
    <3>1. PICK k \in 1 .. Len(events) :
             events[k] = Stop /\ (late = 1 => \A j \in 1 .. k : events[j] # Tick)
      BY <1>2, <2>7 DEF StopAhead
    <3>2. /\ k \in 1 .. Len(events') /\ events'[k] = Stop
          /\ late = 1 => \A j \in 1 .. k : events'[j] # Tick
      BY <2>2, <3>1
    <3> QED BY <1>1, <1>3, <2>5, <3>2 DEF StopAhead
  <2>8. CASE main \notin {"checking", "loading"} \cup Looping
    BY <1>1, <1>3, <1>5, <2>5, <2>8 DEF StopAhead
  <2> QED BY <2>6, <2>7, <2>8
<1> QED BY <1>4, <1>5, Zenon DEF Signal

\* Every step keeps both parts.
LEMMA PromptStep == HostTypeOK /\ OneTick /\ StopAhead /\ [HostNext]_allVars => OneTick' /\ StopAhead'
<1> SUFFICES ASSUME HostTypeOK, OneTick, StopAhead, [HostNext]_allVars PROVE OneTick' /\ StopAhead'
  OBVIOUS
<1> USE DEF Goes, Fails, hostVars, threadVars, signalVars
<1>1. CASE StoreWorks \/ Edits
  BY <1>1, PromptQuiet DEF StoreWorks, Edits
<1>2. CASE FileChecked \/ LoadFailed \/ Composed \/ ServeStarts
  BY <1>2, PromptQuiet DEF FileChecked, LoadFailed, Composed, ServeStarts, Looping, Ticking
<1>3. CASE FirstTick
  BY <1>3, PromptTick DEF FirstTick
<1>4. CASE QueueLocked
  BY <1>4, PromptQuiet DEF QueueLocked, Looping
<1>5. CASE StopReceived \/ ExitRaises
  <2>1. main' = "stopping" /\ UNCHANGED <<signals, late>>
    BY <1>5 DEF StopReceived, ExitRaises, Gets
  <2>2. main' \notin {"checking", "loading"} \cup Looping /\ main' \notin {"getting", "locked", "waiting"}
    BY <2>1 DEF Looping, Ticking
  <2> QED BY <2>1, <2>2 DEF OneTick, StopAhead, Looping
<1>6. CASE ExitReceived
  <2>1. Gets(WorkerExit, "getting") /\ UNCHANGED <<timer, signals, late>>
    BY <1>6 DEF ExitReceived
  <2>2. WorkerExit # Tick /\ WorkerExit # Stop
    BY DEF WorkerExit, Tick, Stop
  <2> QED BY <2>1, <2>2, PromptTaken
<1>7. ASSUME NEW c \in Clients, SnapshotBuilt(c) PROVE OneTick' /\ StopAhead'
  <2>1. Gets(Snapshot(c), "getting") /\ UNCHANGED <<timer, signals, late>>
    BY <1>7 DEF SnapshotBuilt
  <2>2. Snapshot(c) # Tick /\ Snapshot(c) # Stop
    BY DEF Snapshot, Tick, Stop
  <2> QED BY <2>1, <2>2, PromptTaken
<1>8. CASE TickBegins
  BY <1>8, PromptBegins
<1>9. CASE PollReloads \/ PollUnchanged \/ ReloadAdopted \/ TickRaises
  BY <1>9, PromptQuiet DEF PollReloads, PollUnchanged, ReloadAdopted, TickRaises, Looping, Ticking
<1>10. CASE TickEnds
  <2>1. /\ main = "ticking" /\ main' = "getting" /\ UNCHANGED <<events, signals, late>>
    BY <1>10 DEF TickEnds
  <2>2. NoTick
    BY <2>1 DEF OneTick, Ticking
  <2>3. OneTick'
    BY <2>1, <2>2 DEF OneTick, NoTick, Ticking
  <2>4. main \in Looping
    BY <2>1 DEF Looping, Ticking
  <2> QED BY <2>1, <2>3, <2>4 DEF StopAhead
<1>11. CASE ShutdownStarts \/ WorkersJoined \/ HandlersRestored \/ Exits
  <2>1. main' \in {"joining", "restoring", "exiting", "exited"} /\ UNCHANGED <<signals, late>>
    BY <1>11 DEF ShutdownStarts, WorkersJoined, HandlersRestored, Exits
  <2>2. main' \notin {"checking", "loading"} \cup Looping
    BY <2>1 DEF Looping, Ticking
  <2> QED BY <2>1, <2>2 DEF OneTick, StopAhead, Looping
<1>12. CASE OtherThreads
  <2>1. UNCHANGED <<main, signals, late>>
    BY <1>12 DEF OtherThreads
  <2>2. ASSUME NEW c \in Clients, ClientChecks(c) \/ ClientTimesOut(c) PROVE OneTick' /\ StopAhead'
    BY <2>1, <2>2, PromptQuiet DEF ClientChecks, ClientTimesOut
  <2>3. ASSUME NEW c \in Clients, ClientAsks(c) PROVE OneTick' /\ StopAhead'
    BY <2>1, <2>3, PromptPut, HostEvents DEF ClientAsks, Put
  <2>4. CASE WorkerEnds
    BY <2>1, <2>4, PromptPut, HostEvents DEF WorkerEnds, Put
  <2>5. CASE TimerFires
    <3>1. timer = TRUE
      BY <2>5, HostTypeParts, Zenon DEF TimerFires, Flags
    <3>2. events' = Append(events, Tick) /\ timer' = FALSE
      BY <2>5 DEF TimerFires, Put
    <3> QED BY <2>1, <3>1, <3>2, PromptTick
  <2> QED BY <1>12, <2>2, <2>3, <2>4, <2>5 DEF OtherThreads
<1>13. CASE Signal
  BY <1>13, PromptSignal
<1>14. CASE Over \/ UNCHANGED allVars
  BY <1>14, PromptQuiet DEF Over, allVars
<1> QED BY <1>1, <1>2, <1>3, <1>4, <1>5, <1>6, <1>7, <1>8, <1>9, <1>10, <1>11, <1>12, <1>13, <1>14
        DEF HostNext, MainThread

\* StopWaitsForOneTick, however many signals arrive, wherever they interrupt the
\* main thread, and whatever the queue holds.
THEOREM StopPrompt == HostSpec => []StopWaitsForOneTick
<1>1. StopAhead => StopWaitsForOneTick
  BY DEF StopAhead, StopWaitsForOneTick
<1> QED BY <1>1, HostTypeCorrect, PromptInit, PromptStep, PTL DEF HostSpec

-----------------------------------------------------------------------------
(* The store and the service.                                              *)

\* Outside a reload the store is at rest; a reload in the service never ends in
\* "refused", which only the first load may.
StoreAtRest ==
    /\ main \in Looping \ {"reloading"} => store = "idle"
    /\ main = "reloading" => store # "refused" /\ effective # None

\* The service runs on what the store holds in force, except between the end of a
\* reload that applied and its adoption.
AdoptedInForce ==
    main \in Looping =>
        adopted = effective \/ (main = "reloading" /\ store = "idle" /\ reported = {})

\* Steps outside the store and the adoption, between places where the store rests.
LEMMA RestKept ==
    ASSUME StoreAtRest, AdoptedInForce, UNCHANGED <<vars, adopted>>,
           \/ main' = main
           \/ main' \notin Looping
           \/ main \in Looping \ {"reloading"} /\ main' \in Looping \ {"reloading"}
    PROVE  StoreAtRest' /\ AdoptedInForce'
<1> QED BY DEF StoreAtRest, AdoptedInForce, vars, Looping, Ticking

\* Every step keeps both.
LEMMA RestStep ==
    HostTypeOK /\ StoreAtRest /\ AdoptedInForce /\ [HostNext]_allVars
        => StoreAtRest' /\ AdoptedInForce'
<1> SUFFICES ASSUME HostTypeOK, StoreAtRest, AdoptedInForce, [HostNext]_allVars
             PROVE  StoreAtRest' /\ AdoptedInForce'
  OBVIOUS
<1>t. TypeOK
  BY HostTypeParts
<1> USE DEF Goes, Fails, Gets, signalVars
<1>1. CASE StoreWorks
  <2>1. UNCHANGED <<main, adopted>> /\ main \in {"loading", "reloading"}
    BY <1>1 DEF StoreWorks
  <2>2. CASE main = "loading"
    BY <2>1, <2>2 DEF StoreAtRest, AdoptedInForce, Looping, Ticking
  <2>3. CASE main = "reloading"
    <3>1. CASE TakeSignature \/ Read
      BY <2>1, <2>3, <3>1 DEF TakeSignature, Read, StoreAtRest, AdoptedInForce, Looping, Ticking
    <3>2. CASE Resolve
      BY <2>1, <2>3, <3>2
         DEF Resolve, Loaded, StoreAtRest, AdoptedInForce, Looping, Ticking
    <3> QED BY <1>1, <3>1, <3>2 DEF StoreWorks
  <2> QED BY <2>1, <2>2, <2>3
<1>2. CASE Composed
  <2>1. main' = "preflight" /\ store' = "idle" /\ adopted' = effective'
    BY <1>2 DEF Composed, vars
  <2> QED BY <2>1 DEF StoreAtRest, AdoptedInForce, Looping, Ticking
<1>3. CASE PollReloads
  <2>1. /\ main = "polling" /\ main' = "reloading" /\ store = "idle" /\ store' = "restat"
        /\ UNCHANGED <<adopted, effective>>
    BY <1>3 DEF PollReloads, Poll
  <2>2. effective # None
    BY <1>t, <2>1 DEF TypeOK
  <2> QED BY <2>1, <2>2 DEF StoreAtRest, AdoptedInForce, Looping, Ticking
<1>4. CASE ReloadAdopted
  <2>1. /\ main = "reloading" /\ main' = "ticking" /\ store' = "idle"
        /\ effective' = effective
        /\ adopted' = IF reported = {} THEN effective ELSE adopted
    BY <1>4 DEF ReloadAdopted, vars
  <2> QED BY <2>1 DEF StoreAtRest, AdoptedInForce, Looping, Ticking
<1>5. CASE Edits
  <2>1. UNCHANGED <<main, adopted, store, effective, reported>>
    BY <1>5 DEF Edits, Edit, Remove
  <2> QED BY <2>1 DEF StoreAtRest, AdoptedInForce
<1>6. CASE FileChecked \/ LoadFailed
  BY <1>6, RestKept DEF FileChecked, LoadFailed, Looping, Ticking
<1>7. CASE \/ ServeStarts \/ FirstTick \/ QueueLocked \/ StopReceived \/ ExitReceived
           \/ TickBegins \/ PollUnchanged \/ TickEnds \/ \E c \in Clients : SnapshotBuilt(c)
  BY <1>7, RestKept DEF ServeStarts, FirstTick, QueueLocked, StopReceived, ExitReceived,
     TickBegins, PollUnchanged, TickEnds, SnapshotBuilt, Looping, Ticking
<1>8. CASE TickRaises \/ ExitRaises \/ ShutdownStarts \/ WorkersJoined \/ HandlersRestored \/ Exits
  BY <1>8, RestKept DEF TickRaises, ExitRaises, ShutdownStarts, WorkersJoined, HandlersRestored, Exits,
     Looping, Ticking
<1>9. CASE OtherThreads \/ Over \/ UNCHANGED allVars
  BY <1>9, RestKept DEF OtherThreads, Over, allVars
<1>10. CASE Signal
  <2>1. main' = main \/ main' \notin Looping
    BY <1>10 DEF Signal, Looping, Ticking
  <2> QED BY <1>10, <2>1, RestKept DEF Signal
<1> QED BY <1>1, <1>2, <1>3, <1>4, <1>5, <1>6, <1>7, <1>8, <1>9, <1>10 DEF HostNext, MainThread

\* The store rests outside reloads and the service runs on what it holds.
LEMMA RestAlways == HostSpec => [](StoreAtRest /\ AdoptedInForce)
<1>1. HostInit => StoreAtRest /\ AdoptedInForce
  BY DEF HostInit, StoreAtRest, AdoptedInForce, Looping, Ticking
<1> QED BY <1>1, HostTypeCorrect, RestStep, PTL DEF HostSpec

\* ServiceUpToDate, wherever the edits fall and whatever signals interrupt: the safety
\* half of ServiceFollowsFile.  Only the tick that looks again is left to fairness.
THEOREM ServiceWorksByFile == HostSpec => []ServiceUpToDate
<1>1. StoreAtRest /\ AdoptedInForce /\ NothingMissed => ServiceUpToDate
  BY DEF StoreAtRest, AdoptedInForce, NothingMissed, ServiceUpToDate
<1> QED BY <1>1, RestAlways, HostNoEditLost, PTL

-----------------------------------------------------------------------------
(* The main thread never lacks a step, and never sleeps for ever.           *)

\* What each place needs for the thread to go on: the guards of its steps.
MainCanGoOn ==
    \/ main \in {"checking", "loading", "preflight", "starting", "putting", "getting",
                 "locked", "ticking"} \cup Leaving
    \/ main = "waiting" /\ events # << >>
    \/ main = "polling" /\ (Stat = signature \/ store = "idle")
    \/ main = "reloading" /\ store # "refused"

\* It can go on, or it waits for the tick of an armed timer, or for nothing more.
MainNeverStuck ==
    MainCanGoOn \/ (main = "waiting" /\ timer) \/ main \in Gone \cup {"stuck"}

\* Between ticks the next one is armed or queued.
TickQueued == \E k \in 1 .. Len(events) : events[k] = Tick
TickComes  == main \in {"getting", "locked", "waiting"} => timer = TRUE \/ TickQueued

LEMMA TickComesStep == HostTypeOK /\ TickComes /\ [HostNext]_allVars => TickComes'
<1> SUFFICES ASSUME HostTypeOK, TickComes, [HostNext]_allVars PROVE TickComes'
  OBVIOUS
<1> USE DEF Goes, Fails, hostVars, threadVars, signalVars
<1>sent. ASSUME NEW e \in Event, events' = Append(events, e) PROVE TickQueued => TickQueued'
  BY <1>sent, Appended DEF TickQueued
<1>put. ASSUME events' = Append(events, Tick) PROVE TickQueued'
  <2>1. /\ Len(events) \in Nat /\ Len(events') = Len(events) + 1
        /\ events'[Len(events) + 1] = Tick
    BY <1>put, Appended, HostEvents
  <2> QED BY <2>1 DEF TickQueued
<1>got. ASSUME NEW e, Gets(e, "getting"), e # Tick PROVE TickQueued => TickQueued'
  <2>1. /\ Len(events) \in Nat /\ Len(events) >= 1 /\ Len(events') = Len(events) - 1
        /\ events[1] = e
        /\ \A k \in 1 .. Len(events') : events'[k] = events[k + 1]
    BY <1>got, Taken
  <2>2. ASSUME NEW k \in 1 .. Len(events), events[k] = Tick PROVE TickQueued'
    <3>1. k # 1
      BY <1>got, <2>1, <2>2
    <3>2. k - 1 \in 1 .. Len(events') /\ events'[k - 1] = Tick
      BY <2>1, <2>2, <3>1
    <3> QED BY <3>2 DEF TickQueued
  <2> QED BY <2>2 DEF TickQueued
<1>1. CASE FirstTick
  BY <1>1, <1>put DEF FirstTick, TickComes
<1>2. CASE TickEnds
  BY <1>2, Zenon DEF TickEnds, TickComes
<1>3. CASE ExitReceived
  <2>1. WorkerExit # Tick
    BY HostEvents
  <2> QED BY <1>3, <2>1, <1>got DEF ExitReceived, Gets, TickComes
<1>4. ASSUME NEW c \in Clients, SnapshotBuilt(c) PROVE TickComes'
  <2>1. Snapshot(c) # Tick
    BY HostEvents
  <2> QED BY <1>4, <2>1, <1>got DEF SnapshotBuilt, Gets, TickComes
<1>5. CASE QueueLocked
  <2>1. main' \in {"getting", "locked", "waiting"} => main \in {"getting", "locked", "waiting"}
    BY <1>5 DEF QueueLocked
  <2> QED BY <1>5, <2>1 DEF QueueLocked, TickComes, TickQueued
<1>6. CASE OtherThreads
  <2>0. UNCHANGED main
    BY <1>6 DEF OtherThreads
  <2>1. CASE TimerFires
    BY <2>0, <2>1, <1>put DEF TimerFires, Put, TickComes
  <2>2. CASE WorkerEnds
    BY <2>0, <2>2, <1>sent, HostEvents DEF WorkerEnds, Put, TickComes
  <2>3. ASSUME NEW c \in Clients, ClientAsks(c) PROVE TickComes'
    BY <2>0, <2>3, <1>sent, HostEvents DEF ClientAsks, Put, TickComes
  <2>4. ASSUME NEW c \in Clients, ClientChecks(c) \/ ClientTimesOut(c) PROVE TickComes'
    BY <2>0, <2>4 DEF ClientChecks, ClientTimesOut, TickComes, TickQueued
  <2> QED BY <1>6, <2>1, <2>2, <2>3, <2>4 DEF OtherThreads
<1>7. CASE Signal
  <2>1. CASE main' = "killed" \/ main' = "stuck"
    BY <2>1 DEF TickComes
  <2>2. CASE Put(Stop) /\ main' = main
    BY <1>7, <2>2, <1>sent, HostEvents DEF Signal, Put, TickComes
  <2> QED BY <1>7, <2>1, <2>2, Zenon DEF Signal
<1>8. CASE \/ FileChecked \/ LoadFailed \/ Composed \/ ServeStarts \/ StopReceived \/ TickBegins
           \/ PollReloads \/ PollUnchanged \/ ReloadAdopted \/ TickRaises \/ ExitRaises
           \/ ShutdownStarts \/ WorkersJoined \/ HandlersRestored \/ Exits
  <2>1. main' \notin {"getting", "locked", "waiting"}
    BY <1>8 DEF FileChecked, LoadFailed, Composed, ServeStarts, StopReceived, TickBegins, Gets,
       PollReloads, PollUnchanged, ReloadAdopted, TickRaises, ExitRaises, ShutdownStarts,
       WorkersJoined, HandlersRestored, Exits
  <2> QED BY <2>1 DEF TickComes
<1>9. CASE StoreWorks \/ Edits \/ Over \/ UNCHANGED allVars
  <2>1. UNCHANGED <<main, events, timer>>
    BY <1>9 DEF StoreWorks, Edits, Over, allVars
  <2> QED BY <2>1 DEF TickComes, TickQueued
<1> QED BY <1>1, <1>2, <1>3, <1>4, <1>5, <1>6, <1>7, <1>8, <1>9 DEF HostNext, MainThread

\* Every place of the main thread has what its steps need.
LEMMA PlacesHaveSteps ==
    ASSUME HostTypeOK, StoreAtRest, TickComes
    PROVE  MainNeverStuck
<1>1. main \in {"checking", "loading", "stuck"} \cup Looping \cup Leaving \cup Gone
  BY DEF HostTypeOK
<1>2. CASE main = "waiting"
  <2>1. events = << >> => ~TickQueued
    BY EmptySeq DEF TickQueued
  <2>2. timer = TRUE \/ events # << >>
    BY <1>2, <2>1 DEF TickComes
  <2> QED BY <1>2, <2>2 DEF MainNeverStuck, MainCanGoOn
<1>3. CASE main = "polling" \/ main = "reloading"
  BY <1>3 DEF StoreAtRest, MainNeverStuck, MainCanGoOn, Looping, Ticking
<1>4. CASE main \notin {"waiting", "polling", "reloading"}
  BY <1>1, <1>4 DEF MainNeverStuck, MainCanGoOn, Looping, Ticking
<1> QED BY <1>2, <1>3, <1>4

\* The main thread always has a step, or sleeps while the tick's timer is armed, or the
\* process is gone, or a signal caught it in its own queue: neither a reload nor an empty
\* queue leaves the service hanging.
THEOREM HostGoesOn == HostSpec => []MainNeverStuck
<1>1. HostInit => TickComes
  BY DEF HostInit, TickComes
<1>2. HostSpec => []TickComes
  BY <1>1, HostTypeCorrect, TickComesStep, PTL DEF HostSpec
<1> QED BY <1>2, HostTypeCorrect, RestAlways, PlacesHaveSteps, PTL

-----------------------------------------------------------------------------
(* What waits in the queue comes nearer with every step of the main thread. *)

\* The most steps until the loop takes the head of a queue that is not empty.
LoopSteps ==
    CASE main = "locked" -> 1
      [] main \in {"getting", "waiting"} -> 2
      [] main \in {"putting", "ticking"} -> 3
      [] main = "starting" -> 4
      [] main = "preflight" -> 5
      [] main = "reloading" -> CASE store = "restat" -> 7 [] store = "read" -> 6
                                 [] store = "resolve" -> 5 [] OTHER -> 4
      [] main = "polling" -> 8
      [] OTHER -> 0

\* The steps from the end of the loop to the exit.
LeaveSteps ==
    CASE main = "stopping" -> 4 [] main = "joining" -> 3 [] main = "restoring" -> 2
      [] main = "exiting" -> 1 [] OTHER -> 0

\* Client c's request is in the loop's queue with no stop before it, and is taken in n
\* steps of the main thread at most.
RequestIn(c, n) ==
    /\ client[c] = "asked" /\ main \in Looping
    /\ \E k \in 1 .. Len(events) :
          /\ events[k] = Snapshot(c) /\ \A j \in 1 .. k : events[j] # Stop
          /\ n = 8 * k + LoopSteps

\* The main thread exits in n steps at most, by a stop in its queue or on its way out.
ExitIn(n) ==
    \/ /\ main \in Looping
       /\ \E k \in 1 .. Len(events) : events[k] = Stop /\ n = 4 + 8 * k + LoopSteps
    \/ main \in Leaving \cup {"exited"} /\ n = LeaveSteps

\* A request that could be answered is not lost: until its client gives up or something
\* fails, each step of the main thread brings the answer nearer, and no other thread,
\* signal or edit takes it away or puts anything before it.
RequestNearer ==
    [][\A c \in Clients, n \in Nat :
         /\ RequestIn(c, n)
         /\ client'[c] \notin {"answered", "timed out"}
         /\ ~failure' /\ main' \notin {"killed", "stuck"}
         => /\ MainThread => \E m \in 0 .. n - 1 : RequestIn(c, m)'
            /\ ~MainThread => RequestIn(c, n)']_allVars

\* Likewise a stop: whatever is queued, the process is over a bounded number of its
\* steps later, unless a signal finds the handlers gone or the queue locked.
ExitNearer ==
    [][\A n \in Nat : ExitIn(n) /\ main' \notin {"killed", "stuck"} =>
         /\ MainThread => \E m \in 0 .. n - 1 : ExitIn(m)'
         /\ ~MainThread => ExitIn(n)']_allVars

\* A signal the handlers caught has its stop in the queue, or the loop has been left.
SignalHeard ==
    signals > 0 /\ handlers => main \in {"killed", "stuck"} \/ \E n \in Nat : ExitIn(n)

\* The queue keeps its events and may get more behind them.
QueueGrows ==
    /\ Len(events) <= Len(events')
    /\ \A k \in 1 .. Len(events) : events'[k] = events[k]

\* The head of the queue is taken.
HeadTaken ==
    /\ main = "locked" /\ main' \in {"getting", "polling"} /\ Len(events') = Len(events) - 1
    /\ events[1] # Stop
    /\ \A k \in 1 .. Len(events') : events'[k] = events[k + 1]

\* How far the loop is from the next event is a small number.
LEMMA LoopStepsBound ==
    LoopSteps \in 0 .. 8 /\ LoopSteps' \in 0 .. 8 /\ (main = "locked" => LoopSteps = 1)
<1> QED BY DEF LoopSteps

\* Where the k-th event is when the queue has grown, or its head was taken.
LEMMA PlacesKept ==
    ASSUME HostTypeOK, [HostNext]_allVars, NEW CONSTANT k \in 1 .. Len(events)
    PROVE  /\ k \in Nat /\ k >= 1 /\ Len(events) > 0
           /\ QueueGrows =>
                k \in 1 .. Len(events') /\ \A j \in 1 .. k : events'[j] = events[j]
           /\ HeadTaken /\ k # 1 =>
                /\ k - 1 \in 1 .. Len(events') /\ events'[k - 1] = events[k]
                /\ \A j \in 1 .. (k - 1) : j + 1 \in 1 .. k /\ events'[j] = events[j + 1]
<1>1. events \in Seq(Event) /\ events' \in Seq(Event)
  BY HostTypedStep DEF HostTypeOK
<1>2. Len(events) \in Nat /\ Len(events') \in Nat
  BY <1>1, LenProperties
<1> QED BY <1>2 DEF QueueGrows, HeadTaken

\* An event with no stop before it keeps its place, or moves up one when the head is taken.
LEMMA NoStopKept ==
    ASSUME HostTypeOK, [HostNext]_allVars, NEW CONSTANT k \in 1 .. Len(events), NEW CONSTANT e,
           events[k] = e, \A j \in 1 .. k : events[j] # Stop
    PROVE  /\ QueueGrows =>
                k \in 1 .. Len(events') /\ events'[k] = e /\ \A j \in 1 .. k : events'[j] # Stop
           /\ HeadTaken /\ k # 1 =>
                /\ k - 1 \in 1 .. Len(events') /\ events'[k - 1] = e
                /\ \A j \in 1 .. (k - 1) : events'[j] # Stop
<1>0. k \in 1 .. k
  BY PlacesKept
<1>1. ASSUME QueueGrows
      PROVE  k \in 1 .. Len(events') /\ events'[k] = e /\ \A j \in 1 .. k : events'[j] # Stop
  <2>1. k \in 1 .. Len(events') /\ \A j \in 1 .. k : events'[j] = events[j]
    BY <1>1, PlacesKept, Zenon
  <2> QED BY <1>0, <2>1, Zenon
<1>2. ASSUME HeadTaken, k # 1
      PROVE  /\ k - 1 \in 1 .. Len(events') /\ events'[k - 1] = e
             /\ \A j \in 1 .. (k - 1) : events'[j] # Stop
  <2>1. /\ k - 1 \in 1 .. Len(events') /\ events'[k - 1] = events[k]
        /\ \A j \in 1 .. (k - 1) : j + 1 \in 1 .. k /\ events'[j] = events[j + 1]
    BY <1>2, PlacesKept, Zenon
  <2> QED BY <2>1, Zenon
<1> QED BY <1>1, <1>2, Zenon

\* Steps of others leave the loop where it is, or a signal catches it.
LEMMA OthersQueue ==
    ASSUME HostTypeOK, [HostNext]_allVars, ~MainThread
    PROVE  \/ main' \in {"killed", "stuck"}
           \/ UNCHANGED <<main, store>> /\ Len(events) \in Nat /\ QueueGrows
<1>0. events \in Seq(Event) /\ Len(events) \in Nat
  BY LenProperties DEF HostTypeOK
<1>kept. UNCHANGED events => QueueGrows
  BY <1>0 DEF QueueGrows
<1>sent. ASSUME NEW e \in Event, events' = Append(events, e) PROVE QueueGrows
  BY <1>0, <1>sent, Appended DEF QueueGrows
<1>1. CASE OtherThreads
  <2>1. events' = events \/ \E e \in Event : events' = Append(events, e)
    BY <1>1, HostEvents
       DEF OtherThreads, ClientChecks, ClientAsks, ClientTimesOut, TimerFires, WorkerEnds, Put
  <2> QED BY <1>0, <1>1, <2>1, <1>kept, <1>sent DEF OtherThreads, vars
<1>2. CASE Signal
  <2>1. CASE Put(Stop) /\ main' = main
    BY <1>0, <1>2, <2>1, <1>sent, HostEvents DEF Signal, Put, vars
  <2> QED BY <1>2, <2>1, Zenon DEF Signal
<1>3. CASE Edits
  <2>1. UNCHANGED <<main, events, store>>
    BY <1>3 DEF Edits, Edit, Remove
  <2> QED BY <1>0, <2>1, <1>kept
<1>4. CASE Over \/ UNCHANGED allVars
  <2>1. UNCHANGED <<main, events, store>>
    BY <1>4 DEF Over, allVars, vars
  <2> QED BY <1>0, <2>1, <1>kept
<1> QED BY <1>1, <1>2, <1>3, <1>4 DEF HostNext

\* A step of the main thread in the loop takes the head, leaves the loop, or comes one
\* step nearer to the next event.
LEMMA LoopAdvances ==
    ASSUME HostTypeOK, MainThread, main \in Looping, Len(events) > 0
    PROVE  \/ main' = "stopping" /\ (failure' = TRUE \/ events[1] = Stop)
           \/ main' = "restoring" /\ failure' = TRUE
           \/ HeadTaken
           \/ main' \in Looping /\ LoopSteps' < LoopSteps /\ QueueGrows
<1>a. events \in Seq(Event)
  BY DEF HostTypeOK
<1>0. events \in Seq(Event) /\ Len(events) \in Nat /\ events # << >>
  BY <1>a, LenProperties, EmptySeq
<1>kept. UNCHANGED events => QueueGrows
  BY <1>0 DEF QueueGrows
<1> USE DEF Goes, Fails, threadVars, signalVars, hostVars
<1>1. CASE StoreWorks
  <2>1. main = "reloading" /\ main' = "reloading" /\ UNCHANGED events
    BY <1>1 DEF StoreWorks, Looping, Ticking
  <2>2. \/ store = "restat" /\ store' = "read"
        \/ store = "read" /\ store' \in {"raised", "resolve"}
        \/ store = "resolve" /\ store' \in {"idle", "refused"}
    BY <1>1 DEF StoreWorks, TakeSignature, Read, Resolve
  <2>3. LoopSteps' < LoopSteps
    BY <2>1, <2>2 DEF LoopSteps
  <2> QED BY <2>1, <2>3, <1>kept
<1>2. CASE ServeStarts
  <2>1. CASE Fails("preflight", "restoring")
    BY <2>1
  <2>2. CASE Goes("preflight", "starting")
    BY <1>2, <2>2, <1>kept DEF ServeStarts, LoopSteps, Looping
  <2> QED BY <1>2, <2>1, <2>2, Zenon DEF ServeStarts
<1>3. CASE FirstTick
  <2>1. QueueGrows
    BY <1>0, <1>3, Appended, HostEvents DEF FirstTick, QueueGrows
  <2> QED BY <1>3, <2>1 DEF FirstTick, LoopSteps, Looping
<1>4. CASE QueueLocked
  <2>1. UNCHANGED events
    BY <1>4 DEF QueueLocked
  <2>2. \/ main = "starting" /\ main' = "putting"
        \/ main = "getting" /\ main' = "locked"
        \/ main = "waiting" /\ main' = "locked"
    BY <1>0, <1>4 DEF QueueLocked
  <2> QED BY <2>1, <2>2, <1>kept DEF LoopSteps, Looping
<1>5. CASE StopReceived
  <2>1. events[1] = Stop
    BY <1>5, Taken DEF StopReceived
  <2> QED BY <1>5, <2>1 DEF StopReceived, Gets
<1>6. ASSUME NEW e, NEW to \in {"getting", "polling"}, Gets(e, to), e # Stop PROVE HeadTaken
  BY <1>6, Taken DEF HeadTaken, Gets
<1>7. CASE ExitReceived \/ \E c \in Clients : SnapshotBuilt(c)
  <2>1. WorkerExit # Stop /\ \A c \in Clients : Snapshot(c) # Stop
    BY DEF WorkerExit, Snapshot, Stop
  <2> QED BY <1>6, <1>7, <2>1 DEF ExitReceived, SnapshotBuilt
<1>8. CASE TickBegins
  BY <1>6, <1>8, HostEvents DEF TickBegins
<1>9. CASE PollReloads
  <2>1. main = "polling" /\ main' = "reloading" /\ store' = "restat" /\ UNCHANGED events
    BY <1>9 DEF PollReloads, Poll
  <2> QED BY <2>1, <1>kept DEF LoopSteps, Looping, Ticking
<1>10. CASE PollUnchanged \/ TickEnds
  BY <1>10, <1>kept DEF PollUnchanged, TickEnds, LoopSteps, Looping, Ticking
<1>11. CASE ReloadAdopted
  <2>1. main = "reloading" /\ main' = "ticking" /\ UNCHANGED events
    BY <1>11 DEF ReloadAdopted
  <2>2. LoopSteps \in 4 .. 7 /\ LoopSteps' = 3
    BY <2>1 DEF LoopSteps
  <2>3. LoopSteps' < LoopSteps
    BY <2>2
  <2> QED BY <2>1, <2>3, <1>kept DEF Looping, Ticking
<1>12. CASE TickRaises \/ ExitRaises
  BY <1>12, Zenon DEF TickRaises, ExitRaises
<1>13. CASE \/ FileChecked \/ LoadFailed \/ Composed \/ ShutdownStarts \/ WorkersJoined
            \/ HandlersRestored \/ Exits
  BY <1>13 DEF FileChecked, LoadFailed, Composed, ShutdownStarts, WorkersJoined,
     HandlersRestored, Exits, Looping, Ticking
<1> QED BY <1>1, <1>2, <1>3, <1>4, <1>5, <1>7, <1>8, <1>9, <1>10, <1>11, <1>12, <1>13
        DEF MainThread

\* Whoever asked is still asking, is answered or gives up.
LEMMA AskedStays ==
    ASSUME HostTypeOK, [HostNext]_allVars, NEW c \in Clients, client[c] = "asked"
    PROVE  client'[c] \in {"asked", "answered", "timed out"}
<1>0. client \in [Clients -> {"idle", "checked", "refused", "asked", "answered", "timed out"}]
  BY DEF HostTypeOK
<1> USE DEF threadVars, hostVars
<1>1. ASSUME NEW d \in Clients, SnapshotBuilt(d) PROVE client'[c] \in {"asked", "answered", "timed out"}
  BY <1>0, <1>1 DEF SnapshotBuilt
<1>2. CASE OtherThreads
  BY <1>0, <1>2
     DEF OtherThreads, ClientChecks, ClientAsks, ClientTimesOut, TimerFires, WorkerEnds
<1>3. CASE MainThread /\ ~\E d \in Clients : SnapshotBuilt(d)
  <2>1. client' = client
    BY <1>3, Zenon DEF MainThread, FileChecked, StoreWorks, LoadFailed, Composed, ServeStarts,
       FirstTick, QueueLocked, StopReceived, ExitReceived, ExitRaises, TickBegins, PollReloads,
       PollUnchanged, ReloadAdopted, TickRaises, TickEnds, ShutdownStarts, WorkersJoined, HandlersRestored, Exits
  <2> QED BY <2>1
<1>4. CASE Signal \/ Edits \/ Over \/ UNCHANGED allVars
  <2>1. client' = client
    BY <1>4, Zenon DEF Signal, Edits, Over, allVars
  <2> QED BY <2>1
<1> QED BY <1>1, <1>2, <1>3, <1>4 DEF HostNext

\* A request whose turn it is is answered.
LEMMA HeadAnswered ==
    ASSUME HostTypeOK, MainThread, HeadTaken, NEW c \in Clients, events[1] = Snapshot(c),
           client[c] = "asked"
    PROVE  client'[c] = "answered"
<1>0. client \in [Clients -> {"idle", "checked", "refused", "asked", "answered", "timed out"}]
  BY DEF HostTypeOK
<1>1. ASSUME NEW e, NEW to, Gets(e, to) PROVE e = Snapshot(c)
  BY <1>1, Taken
<1>2. Snapshot(c) # WorkerExit /\ Snapshot(c) # Tick /\ \A d : Snapshot(c) = Snapshot(d) => c = d
  BY DEF Snapshot, WorkerExit, Tick
<1>3. ~ExitReceived /\ ~ExitRaises /\ ~TickBegins /\ \A d \in Clients : SnapshotBuilt(d) => d = c
  BY <1>1, <1>2 DEF ExitReceived, ExitRaises, TickBegins, SnapshotBuilt
<1>4. SnapshotBuilt(c)
  BY <1>3 DEF HeadTaken, MainThread, FileChecked, StoreWorks, LoadFailed, Composed, ServeStarts,
     FirstTick, QueueLocked, StopReceived, PollReloads, PollUnchanged, ReloadAdopted, TickRaises,
     TickEnds, ShutdownStarts, WorkersJoined, HandlersRestored, Exits, Goes, Fails, Gets
<1> QED BY <1>0, <1>4 DEF SnapshotBuilt

\* The request comes nearer, or stays where it is.
LEMMA RequestStep ==
    ASSUME HostTypeOK, [HostNext]_allVars, NEW c \in Clients, NEW CONSTANT n \in Nat, RequestIn(c, n),
           client'[c] = "asked", failure' # TRUE, main' \notin {"killed", "stuck"}
    PROVE  /\ MainThread => \E m \in 0 .. n - 1 : RequestIn(c, m)'
           /\ ~MainThread => RequestIn(c, n)'
<1>1. client[c] = "asked" /\ main \in Looping
  BY DEF RequestIn
<1>2. PICK k \in 1 .. Len(events) :
          /\ events[k] = Snapshot(c) /\ \A j \in 1 .. k : events[j] # Stop
          /\ n = 8 * k + LoopSteps
  BY DEF RequestIn
<1>kept. /\ QueueGrows => /\ k \in 1 .. Len(events') /\ events'[k] = Snapshot(c)
                          /\ \A j \in 1 .. k : events'[j] # Stop
         /\ HeadTaken /\ k # 1 => /\ k - 1 \in 1 .. Len(events') /\ events'[k - 1] = Snapshot(c)
                                   /\ \A j \in 1 .. (k - 1) : events'[j] # Stop
  BY <1>2, NoStopKept, Zenon
<1>3. k \in Nat /\ k >= 1 /\ Len(events) > 0 /\ events[1] # Stop
  BY <1>2, PlacesKept
<1> DEFINE a == LoopSteps
           b == LoopSteps'
<1>4. a \in 0 .. 8 /\ b \in 0 .. 8 /\ n = 8 * k + a
  BY <1>2, LoopStepsBound
<1> HIDE DEF a, b
<1>5. /\ b < a => 8 * k + b \in 0 .. n - 1
      /\ a = 1 => 8 * (k - 1) + b \in 0 .. n - 1
  BY <1>3, <1>4
<1>6. ASSUME QueueGrows, main' \in Looping, NEW CONSTANT m, m = 8 * k + b PROVE RequestIn(c, m)'
  <2>1. /\ k \in 1 .. Len(events') /\ events'[k] = Snapshot(c)
        /\ \A j \in 1 .. k : events'[j] # Stop
    BY <1>6, <1>kept
  <2> QED BY <1>6, <2>1 DEF RequestIn, b
<1>7. CASE ~MainThread
  <2>1. UNCHANGED <<main, store>> /\ QueueGrows
    BY <1>7, OthersQueue
  <2>2. b = a
    BY <2>1 DEF a, b, LoopSteps
  <2> QED BY <1>1, <1>4, <1>6, <1>7, <2>1, <2>2
<1>8. CASE MainThread
  <2>1. CASE main' \in Looping /\ LoopSteps' < LoopSteps /\ QueueGrows
    <3>1. PICK m \in 0 .. n - 1 : m = 8 * k + b
      BY <1>5, <2>1 DEF a, b
    <3> QED BY <1>6, <1>8, <2>1, <3>1
  <2>2. CASE HeadTaken
    <3>1. k # 1
      BY <1>1, <1>2, <1>8, <2>2, HeadAnswered
    <3>2. /\ k - 1 \in 1 .. Len(events') /\ events'[k - 1] = Snapshot(c)
          /\ \A j \in 1 .. (k - 1) : events'[j] # Stop
      BY <2>2, <3>1, <1>kept
    <3>3. a = 1
      BY <2>2, LoopStepsBound DEF HeadTaken, a
    <3>4. PICK m \in 0 .. n - 1 : m = 8 * (k - 1) + b
      BY <1>5, <3>3
    <3>5. main' \in Looping
      BY <2>2 DEF HeadTaken, Looping, Ticking
    <3>6. RequestIn(c, m)'
      BY <3>2, <3>4, <3>5 DEF RequestIn, b
    <3> QED BY <1>8, <3>4, <3>6
  <2> QED BY <1>1, <1>3, <1>8, <2>1, <2>2, LoopAdvances
<1> QED BY <1>7, <1>8

\* A stop comes nearer, and so does the exit once the loop is left.
LEMMA ExitStep ==
    ASSUME HostTypeOK, [HostNext]_allVars, NEW CONSTANT n \in Nat, ExitIn(n),
           main' \notin {"killed", "stuck"}
    PROVE  /\ MainThread => \E m \in 0 .. n - 1 : ExitIn(m)'
           /\ ~MainThread => ExitIn(n)'
<1>1. CASE main \in Leaving \cup {"exited"} /\ n = LeaveSteps
  <2>1. CASE ~MainThread
    <3>1. UNCHANGED main
      BY <2>1, OthersQueue
    <3> QED BY <1>1, <2>1, <3>1 DEF ExitIn, LeaveSteps
  <2>2. CASE MainThread
    <3>1. \/ main = "stopping" /\ main' = "joining"
          \/ main = "joining" /\ main' = "restoring"
          \/ main = "restoring" /\ main' = "exiting"
          \/ main = "exiting" /\ main' = "exited"
      BY <1>1, <2>2 DEF MainThread, FileChecked, StoreWorks, LoadFailed, Composed, ServeStarts,
         FirstTick, QueueLocked, StopReceived, ExitReceived, ExitRaises, TickBegins, SnapshotBuilt, PollReloads,
         PollUnchanged, ReloadAdopted, TickRaises, TickEnds, ShutdownStarts, WorkersJoined,
         HandlersRestored, Exits, Goes, Fails, Gets, Leaving
    <3>2. PICK m \in 0 .. n - 1 : m = LeaveSteps'
      BY <1>1, <3>1 DEF LeaveSteps
    <3>3. ExitIn(m)'
      BY <3>1, <3>2 DEF ExitIn, Leaving
    <3> QED BY <2>2, <3>2, <3>3
  <2> QED BY <2>1, <2>2
<1>2. ASSUME main \in Looping, NEW CONSTANT k \in 1 .. Len(events), events[k] = Stop,
             n = 4 + 8 * k + LoopSteps
      PROVE  /\ MainThread => \E m \in 0 .. n - 1 : ExitIn(m)'
             /\ ~MainThread => ExitIn(n)'
  <2>0. k \in Nat /\ k >= 1 /\ Len(events) > 0
    BY PlacesKept
  <2> DEFINE a == LoopSteps
             b == LoopSteps'
  <2>1. a \in 0 .. 8 /\ b \in 0 .. 8 /\ n = 4 + 8 * k + a
    BY <1>2, LoopStepsBound
  <2> HIDE DEF a, b
  <2>2. /\ b < a => 4 + 8 * k + b \in 0 .. n - 1
        /\ a = 1 => 4 + 8 * (k - 1) + b \in 0 .. n - 1
        /\ n - 1 >= 11
    BY <2>0, <2>1
  <2>3. ASSUME QueueGrows, main' \in Looping, NEW CONSTANT m, m = 4 + 8 * k + b PROVE ExitIn(m)'
    <3>1. k \in 1 .. Len(events') /\ events'[k] = Stop
      BY <1>2, <2>0, <2>3, PlacesKept
    <3> QED BY <2>3, <3>1 DEF ExitIn, b
  <2>4. CASE ~MainThread
    <3>1. UNCHANGED <<main, store>> /\ QueueGrows
      BY <2>4, OthersQueue
    <3>2. b = a
      BY <3>1 DEF a, b, LoopSteps
    <3> QED BY <1>2, <2>1, <2>3, <2>4, <3>1, <3>2
  <2>5. CASE MainThread
    <3>2. CASE main' \in {"stopping", "restoring"}
      <4>1. LeaveSteps' \in {2, 4}
        BY <3>2 DEF LeaveSteps
      <4>2. PICK m \in 0 .. n - 1 : m = LeaveSteps'
        BY <2>2, <4>1
      <4>3. ExitIn(m)'
        BY <3>2, <4>2 DEF ExitIn, Leaving
      <4> QED BY <2>5, <4>2, <4>3
    <3>3. CASE main' \in Looping /\ LoopSteps' < LoopSteps /\ QueueGrows
      <4>1. PICK m \in 0 .. n - 1 : m = 4 + 8 * k + b
        BY <2>2, <3>3 DEF a, b
      <4> QED BY <2>3, <2>5, <3>3, <4>1
    <3>4. CASE HeadTaken
      <4>0. k # 1
        BY <1>2, <3>4 DEF HeadTaken
      <4>1. k - 1 \in 1 .. Len(events') /\ events'[k - 1] = Stop
        BY <1>2, <3>4, <4>0, PlacesKept
      <4>2. a = 1
        BY <3>4, LoopStepsBound DEF HeadTaken, a
      <4>3. PICK m \in 0 .. n - 1 : m = 4 + 8 * (k - 1) + b
        BY <2>2, <4>2
      <4>4. main' \in Looping
        BY <3>4 DEF HeadTaken, Looping, Ticking
      <4>5. ExitIn(m)'
        BY <4>1, <4>3, <4>4 DEF ExitIn, b
      <4> QED BY <2>5, <4>3, <4>5
    <3> QED BY <1>2, <2>0, <2>5, <3>2, <3>3, <3>4, LoopAdvances
  <2> QED BY <2>4, <2>5
<1> QED BY <1>1, <1>2 DEF ExitIn

\* SnapshotAnswered's safety half, for any number of clients.  What is left to fairness
\* is that the main thread takes its steps.
THEOREM RequestsKept == HostSpec => RequestNearer
<1>1. HostTypeOK /\ [HostNext]_allVars =>
        [\A c \in Clients, n \in Nat :
           /\ RequestIn(c, n)
           /\ client'[c] \notin {"answered", "timed out"}
           /\ ~failure' /\ main' \notin {"killed", "stuck"}
           => /\ MainThread => \E m \in 0 .. n - 1 : RequestIn(c, m)'
              /\ ~MainThread => RequestIn(c, n)']_allVars
  <2> SUFFICES ASSUME HostTypeOK, [HostNext]_allVars, NEW c \in Clients, NEW n \in Nat,
                      RequestIn(c, n), client'[c] \notin {"answered", "timed out"},
                      ~failure', main' \notin {"killed", "stuck"}
               PROVE  /\ MainThread => \E m \in 0 .. n - 1 : RequestIn(c, m)'
                      /\ ~MainThread => RequestIn(c, n)'
    OBVIOUS
  <2>1. client'[c] = "asked"
    BY AskedStays DEF RequestIn
  <2>2. failure' # TRUE
    BY Zenon
  <2> QED BY <2>1, <2>2, RequestStep
<1> QED BY <1>1, HostTypeCorrect, PTL DEF HostSpec, RequestNearer

\* Where the handlers are installed, the loop has been entered or composed.
HandlersInLoop == handlers = TRUE => main \notin {"checking", "loading", "exiting", "exited"}

LEMMA HandlersStep == HostTypeOK /\ HandlersInLoop /\ [HostNext]_allVars => HandlersInLoop'
<1> SUFFICES ASSUME HostTypeOK, HandlersInLoop, [HostNext]_allVars PROVE HandlersInLoop'
  OBVIOUS
<1> USE DEF Goes, Fails, Gets, hostVars
<1>1. CASE HandlersRestored \/ Composed
  BY <1>1, Zenon DEF HandlersRestored, Composed, HandlersInLoop
<1>2. CASE \/ StoreWorks \/ OtherThreads \/ Edits \/ Over \/ UNCHANGED allVars
  BY <1>2, Zenon DEF StoreWorks, OtherThreads, Edits, Over, allVars, HandlersInLoop
<1>3. CASE FileChecked \/ LoadFailed \/ Exits
  BY <1>3, Zenon DEF FileChecked, LoadFailed, Exits, HandlersInLoop
<1>4. CASE \/ ServeStarts \/ FirstTick \/ QueueLocked \/ StopReceived \/ ExitReceived
           \/ TickBegins \/ PollReloads \/ PollUnchanged \/ ReloadAdopted \/ TickRaises
           \/ ExitRaises \/ TickEnds \/ ShutdownStarts \/ WorkersJoined \/ \E c \in Clients : SnapshotBuilt(c)
  <2>1. main' \notin {"checking", "loading", "exiting", "exited"}
    BY <1>4 DEF ServeStarts, FirstTick, QueueLocked, StopReceived, ExitReceived, ExitRaises, TickBegins,
       PollReloads, PollUnchanged, ReloadAdopted, TickRaises, TickEnds, ShutdownStarts,
       WorkersJoined, SnapshotBuilt
  <2> QED BY <2>1 DEF HandlersInLoop
<1>5. CASE Signal
  BY <1>5, Zenon DEF Signal, HandlersInLoop
<1> QED BY <1>1, <1>2, <1>3, <1>4, <1>5 DEF HostNext, MainThread

\* The safety half of SignalEndsHost: a signal the handlers caught puts the process a
\* bounded number of its own steps from its exit, however much is queued and whatever the
\* workers do, and no step but an unlucky signal's takes it away from there.
THEOREM SignalsKept == HostSpec => []SignalHeard /\ ExitNearer
<1>1. HostTypeOK /\ [HostNext]_allVars =>
        [\A n \in Nat : ExitIn(n) /\ main' \notin {"killed", "stuck"} =>
           /\ MainThread => \E m \in 0 .. n - 1 : ExitIn(m)'
           /\ ~MainThread => ExitIn(n)']_allVars
  BY ExitStep
<1>2. HostInit => HandlersInLoop
  BY DEF HostInit, HandlersInLoop
<1>3. HostSpec => []HandlersInLoop
  BY <1>2, HostTypeCorrect, HandlersStep, PTL DEF HostSpec
<1>4. HostSpec => []StopAhead
  BY HostTypeCorrect, PromptInit, PromptStep, PTL DEF HostSpec
<1>5. HostTypeOK /\ HandlersInLoop /\ StopAhead => SignalHeard
  <2> SUFFICES ASSUME HostTypeOK, HandlersInLoop, StopAhead, signals > 0, handlers = TRUE,
                      main \notin {"killed", "stuck"}
               PROVE  \E n \in Nat : ExitIn(n)
    <3>1. HostTypeOK => handlers \in BOOLEAN
      BY HostTypeParts, Zenon DEF Flags
    <3> QED BY <3>1, Zenon DEF SignalHeard
  <2>1. main \in Looping \cup Leaving
    <3>1. main \in {"checking", "loading", "stuck"} \cup Looping \cup Leaving \cup Gone
      BY DEF HostTypeOK
    <3> QED BY <3>1, Zenon DEF HandlersInLoop, Gone
  <2>2. CASE main \in Looping
    <3>1. PICK k \in 1 .. Len(events) : events[k] = Stop
      BY <2>2 DEF StopAhead
    <3>2. PICK n \in Nat : n = 4 + 8 * k + LoopSteps
      BY <3>1, LoopStepsBound
    <3> QED BY <2>2, <3>1, <3>2 DEF ExitIn
  <2>3. CASE main \in Leaving
    <3>1. PICK n \in Nat : n = LeaveSteps
      BY <2>3 DEF LeaveSteps
    <3> QED BY <2>3, <3>1 DEF ExitIn
  <2> QED BY <2>1, <2>2, <2>3
<1> QED BY <1>1, <1>3, <1>4, <1>5, HostTypeCorrect, PTL DEF HostSpec, ExitNearer

=============================================================================
