----------------------------- MODULE ServiceHost -----------------------------
(***************************************************************************)
(* The process around the scheduling: the host of cli.py, the event loop   *)
(* of service.py with its queue, its tick timer and its shutdown, signals, *)
(* threads that ask for snapshots, and the configuration store             *)
(* (WorkflowReload) that each tick polls.                                  *)
(*                                                                         *)
(* The queue is CPython's queue.Queue.  Its mutex is not re-entrant, and a *)
(* signal handler runs on the main thread, between any two steps of what   *)
(* that thread is doing, which may be the queue's own code.                *)
(***************************************************************************)
EXTENDS WorkflowReload, Sequences

CONSTANTS
    Clients,     \* threads that ask for one snapshot each
    MaxSignals   \* bound: how many signals arrive

ASSUME HostAssumption == MaxSignals \in Nat

VARIABLES
    main,      \* where the main thread stands
    handlers,  \* whether the signal handlers are installed
    serving,   \* service._serving
    failure,   \* whether an exception is on its way to main()
    code,      \* the exit code, None before the exit
    events,    \* service._events
    timer,     \* whether service._tick_timer is armed
    working,   \* whether the worker thread of the one issue's run lives
    client,    \* per client: how far its take_snapshot is
    adopted,   \* service._config, None before the service is built
    signals,   \* how many signals have arrived
    late       \* history: ticks begun after the first signal

hostVars   == <<handlers, serving, failure, code>>
threadVars == <<timer, working, client>>
signalVars == <<signals, late>>
allVars    == <<vars, main, hostVars, events, threadVars, adopted, signalVars>>

Tick        == [kind |-> "tick",     of |-> None]
Stop        == [kind |-> "stop",     of |-> None]
WorkerExit  == [kind |-> "exit",     of |-> None]
Snapshot(c) == [kind |-> "snapshot", of |-> c]
Event       == {Tick, Stop, WorkerExit} \cup {Snapshot(c) : c \in Clients}

\* In a tick; in the event loop; on the way out of it.
Ticking == {"polling", "reloading", "ticking"}
Looping == {"preflight", "starting", "putting", "getting", "locked", "waiting"} \cup Ticking
Leaving == {"stopping", "joining", "restoring", "exiting"}
Gone    == {"exited", "killed"}

HostInit ==
    /\ Init
    /\ main = "checking" /\ handlers = FALSE /\ serving = FALSE
    /\ failure = FALSE /\ code = None
    /\ events = << >> /\ timer = FALSE /\ working = FALSE
    /\ client = [c \in Clients |-> "idle"]
    /\ adopted = None /\ signals = 0 /\ late = 0

\* The main thread goes from one place to the next, or fails on its way.
Goes(from, to)  == main = from /\ main' = to
Fails(from, to) == main = from /\ main' = to /\ failure' = TRUE /\ UNCHANGED <<handlers, serving, code>>

-----------------------------------------------------------------------------
(* Starting.                                                               *)

\* main(): the workflow file must exist.
FileChecked ==
    /\ \/ file # None /\ Goes("checking", "loading") /\ UNCHANGED hostVars
       \/ file = None /\ Fails("checking", "exiting")
    /\ UNCHANGED <<vars, events, threadVars, adopted, signalVars>>

\* The store looks at the file, in its constructor or in a reload.
StoreWorks ==
    /\ main \in {"loading", "reloading"}
    /\ TakeSignature \/ Read \/ Resolve
    /\ UNCHANGED <<main, hostVars, events, threadVars, adopted, signalVars>>

\* run_application: the initial load failed.
LoadFailed ==
    /\ store \in {"raised", "refused"}
    /\ Fails("loading", "exiting")
    /\ UNCHANGED <<vars, events, threadVars, adopted, signalVars>>

\* run_application composes the service and installs the handlers.
Composed ==
    /\ store = "idle"
    /\ Goes("loading", "preflight")
    /\ adopted' = effective
    /\ handlers' = TRUE
    /\ UNCHANGED <<vars, serving, failure, code, events, threadVars, signalVars>>

\* serve: the preflight, which may refuse, and the startup cleanup.
ServeStarts ==
    /\ \/ Fails("preflight", "restoring")
       \/ Goes("preflight", "starting") /\ serving' = TRUE /\ UNCHANGED <<handlers, failure, code>>
    /\ UNCHANGED <<vars, events, threadVars, adopted, signalVars>>

\* serve puts the first tick.
FirstTick ==
    /\ Goes("putting", "getting")
    /\ events' = Append(events, Tick)
    /\ UNCHANGED <<vars, hostVars, threadVars, adopted, signalVars>>

-----------------------------------------------------------------------------
(* The event loop.                                                         *)

\* put and get take the mutex; a get that finds nothing gives it back and waits.
QueueLocked ==
    /\ \/ Goes("starting", "putting")
       \/ Goes("getting", "locked")
       \/ events = << >> /\ Goes("locked", "waiting")
       \/ events # << >> /\ Goes("waiting", "locked")
    /\ UNCHANGED <<vars, hostVars, events, threadVars, adopted, signalVars>>

\* get returns the event e, which leads to the given place.
Gets(e, to) ==
    /\ events # << >> /\ Head(events) = e /\ events' = Tail(events)
    /\ Goes("locked", to)

\* Mutant: a stop anywhere in the queue ends the loop.
MutantStopOvertakes ==
    /\ \E k \in 1 .. Len(events) : events[k] = Stop
    /\ Gets(Head(events), "stopping")
    /\ UNCHANGED <<vars, hostVars, threadVars, adopted, signalVars>>

\* A stop leaves the loop.
StopReceived ==
    /\ Gets(Stop, "stopping")
    /\ UNCHANGED <<vars, hostVars, threadVars, adopted, signalVars>>

\* A snapshot is built and handed back.
SnapshotBuilt(c) ==
    /\ Gets(Snapshot(c), "getting")
    /\ client' = [client EXCEPT ![c] = IF @ = "asked" THEN "answered" ELSE @]
    /\ UNCHANGED <<vars, hostVars, timer, working, adopted, signalVars>>

\* An exit changes the scheduling state.  The retry it leads to is left out: its
\* due event is received, and may raise, as the exit is.
ExitReceived ==
    /\ Gets(WorkerExit, "getting")
    /\ UNCHANGED <<vars, hostVars, threadVars, adopted, signalVars>>

\* Its handler raises, and the exception leaves the loop.
ExitRaises ==
    /\ Gets(WorkerExit, "stopping")
    /\ Fails("locked", "stopping")
    /\ UNCHANGED <<vars, threadVars, adopted, signalVars>>

TickBegins ==
    /\ Gets(Tick, "polling")
    /\ late' = IF signals > 0 THEN late + 1 ELSE late
    /\ UNCHANGED <<vars, hostVars, threadVars, adopted, signals>>

\* _poll_reload: the signature differs, and the store reloads.
PollReloads ==
    /\ Goes("polling", "reloading")
    /\ Poll
    /\ UNCHANGED <<hostVars, events, threadVars, adopted, signalVars>>

\* _poll_reload: the signature is known.
PollUnchanged ==
    /\ Stat = signature
    /\ Goes("polling", "ticking")
    /\ UNCHANGED <<vars, hostVars, events, threadVars, adopted, signalVars>>

\* Mutant: what the reload applied stays with the store.
MutantReloadNotAdopted ==
    /\ store = "idle"
    /\ Goes("reloading", "ticking")
    /\ UNCHANGED <<vars, hostVars, events, threadVars, adopted, signalVars>>

\* _apply_config: what the reload applied is adopted.
ReloadAdopted ==
    /\ store = "idle"
    /\ Goes("reloading", "ticking")
    /\ adopted' = IF reported = {} THEN effective ELSE adopted
    /\ UNCHANGED <<vars, hostVars, events, threadVars, signalVars>>

\* The reload raised, or run_tick did: the exception leaves the loop.
TickRaises ==
    /\ \/ store = "raised" /\ Fails("reloading", "stopping")
       \/ Fails("ticking", "stopping")
    /\ UNCHANGED <<vars, events, threadVars, adopted, signalVars>>

\* A tick may start a worker for the one issue there is, unless the exit of the
\* last one still has to be handled.
MayDispatch ==
    \/ UNCHANGED working
    \/ (\A k \in 1 .. Len(events) : events[k] # WorkerExit) /\ working' = TRUE

\* Mutant: a tick may be followed by another at once.
MutantTicksTwice ==
    /\ Goes("ticking", "getting")
    /\ timer' = TRUE
    /\ MayDispatch
    /\ events' \in {events, Append(events, Tick)}
    /\ UNCHANGED <<vars, hostVars, client, adopted, signalVars>>

\* run_tick, which may start a worker, and the timer of the next tick.
TickEnds ==
    /\ Goes("ticking", "getting")
    /\ timer' = TRUE
    /\ MayDispatch
    /\ UNCHANGED <<vars, hostVars, events, client, adopted, signalVars>>

-----------------------------------------------------------------------------
(* Stopping.                                                               *)

\* serve's finally: the service serves no more, and _shutdown cancels the timer.
ShutdownStarts ==
    /\ Goes("stopping", "joining")
    /\ serving' = FALSE /\ timer' = FALSE
    /\ UNCHANGED <<vars, handlers, failure, code, events, working, client, adopted, signalVars>>

\* Mutant: the workers are joined without a limit.
MutantJoinsForever ==
    /\ ~working
    /\ Goes("joining", "restoring")
    /\ UNCHANGED <<vars, hostVars, events, threadVars, adopted, signalVars>>

\* _shutdown: the workers have ended, or the grace period has.
WorkersJoined ==
    /\ Goes("joining", "restoring")
    /\ UNCHANGED <<vars, hostVars, events, threadVars, adopted, signalVars>>

\* run_application's finally.
HandlersRestored ==
    /\ Goes("restoring", "exiting")
    /\ handlers' = FALSE
    /\ UNCHANGED <<vars, serving, failure, code, events, threadVars, adopted, signalVars>>

\* main() returns; the threads that are left are daemons.
Exits ==
    /\ Goes("exiting", "exited")
    /\ code' = IF failure THEN 1 ELSE 0
    /\ UNCHANGED <<vars, handlers, serving, failure, events, threadVars, adopted, signalVars>>

MainThread ==
    \/ FileChecked \/ StoreWorks \/ LoadFailed \/ Composed \/ ServeStarts \/ FirstTick
    \/ QueueLocked \/ StopReceived \/ ExitReceived \/ ExitRaises \/ TickBegins
    \/ \E c \in Clients : SnapshotBuilt(c)
    \/ PollReloads \/ PollUnchanged \/ ReloadAdopted \/ TickRaises \/ TickEnds
    \/ ShutdownStarts \/ WorkersJoined \/ HandlersRestored \/ Exits

-----------------------------------------------------------------------------
(* The other threads, and signals.                                         *)

\* The main thread holds the queue's mutex; when it is stuck, for ever.
MutexHeld == main \in {"putting", "locked", "stuck"}

\* Another thread, or a signal handler, puts an event into the queue.
Put(e) == ~MutexHeld /\ events' = Append(events, e)

\* take_snapshot on another thread: it looks at _serving, puts its request, and
\* waits for the reply or its timeout.
ClientChecks(c) ==
    /\ client[c] = "idle"
    /\ client' = [client EXCEPT ![c] = IF serving THEN "checked" ELSE "refused"]
    /\ UNCHANGED <<events, timer, working>>

ClientAsks(c) ==
    /\ client[c] = "checked"
    /\ Put(Snapshot(c))
    /\ client' = [client EXCEPT ![c] = "asked"]
    /\ UNCHANGED <<timer, working>>

ClientTimesOut(c) ==
    /\ client[c] = "asked"
    /\ client' = [client EXCEPT ![c] = "timed out"]
    /\ UNCHANGED <<events, timer, working>>

TimerFires ==
    /\ timer
    /\ Put(Tick)
    /\ timer' = FALSE
    /\ UNCHANGED <<working, client>>

WorkerEnds ==
    /\ working
    /\ Put(WorkerExit)
    /\ working' = FALSE
    /\ UNCHANGED <<timer, client>>

OtherThreads ==
    /\ main \notin Gone
    /\ \/ \E c \in Clients : ClientChecks(c) \/ ClientAsks(c) \/ ClientTimesOut(c)
       \/ TimerFires \/ WorkerEnds
    /\ UNCHANGED <<vars, main, hostVars, adopted, signalVars>>

\* SIGINT or SIGTERM.  The handler puts a stop, on the main thread: if that holds
\* the mutex, it waits for itself.  Without the handlers the signal ends the
\* process.
Signal ==
    /\ main \notin Gone /\ signals < MaxSignals
    /\ signals' = signals + 1
    /\ \/ ~handlers /\ main' = "killed" /\ UNCHANGED events
       \/ handlers /\ MutexHeld /\ main' = "stuck" /\ UNCHANGED events
       \/ handlers /\ Put(Stop) /\ UNCHANGED main
    /\ UNCHANGED <<vars, hostVars, threadVars, adopted, late>>

Edits ==
    /\ main \notin Gone
    /\ Edit \/ Remove
    /\ UNCHANGED <<main, hostVars, events, threadVars, adopted, signalVars>>

\* The process is gone, or waits for itself.
Over ==
    /\ main \in Gone \cup {"stuck"}
    /\ UNCHANGED allVars

HostNext == MainThread \/ OtherThreads \/ Signal \/ Edits \/ Over

HostSpec == HostInit /\ [][HostNext]_allVars

\* The main thread goes on, and an armed timer fires; workers may hang, clients
\* need not ask, signals need not come.
FairHostSpec ==
    /\ HostSpec
    /\ WF_allVars(MainThread)
    /\ WF_allVars(OtherThreads /\ TimerFires)

-----------------------------------------------------------------------------
(* Properties.                                                             *)

\* The types of the variables.
HostTypeOK ==
    /\ TypeOK
    /\ main \in {"checking", "loading", "stuck"} \cup Looping \cup Leaving \cup Gone
    /\ handlers \in BOOLEAN /\ serving \in BOOLEAN
    /\ failure \in BOOLEAN /\ code \in {None, 0, 1}
    /\ events \in Seq(Event)
    /\ timer \in BOOLEAN /\ working \in BOOLEAN
    /\ client \in [Clients -> {"idle", "checked", "refused", "asked", "answered", "timed out"}]
    /\ adopted \in Version \cup {None}
    /\ signals \in 0 .. MaxSignals /\ late \in Nat

\* A stop waits for one more tick at most: ticks neither overtake it nor multiply
\* before it.
StopWaitsForOneTick == late <= 1

\* In the loop and outside a reload, a file whose signature the store takes for known
\* is the one the service works by, or the operator was told why it is not: no edit
\* between two looks of a poll, and no failed attempt, leaves the service on an old
\* configuration that no later tick would look at again.
ServiceUpToDate ==
    main \in Looping \ {"reloading"} /\ file # None /\ Stat = signature =>
        adopted = file \/ Stat \in reported

\* The client's request waits in a queue that holds no stop before it.
Ahead(c) ==
    /\ client[c] = "asked" /\ main \in Looping
    /\ \E k \in 1 .. Len(events) :
          events[k] = Snapshot(c) /\ \A j \in 1 .. k : events[j] # Stop

\* A snapshot asked for before any stop is answered, unless its client gives up,
\* or a failure or a signal at the wrong moment ends the loop: a stop that comes
\* after the request takes nothing away from it.
SnapshotAnswered ==
    \A c \in Clients :
        Ahead(c) ~> \/ client[c] \in {"answered", "timed out"}
                    \/ failure \/ main \in {"killed", "stuck"}

\* A signal that finds the handlers installed ends the process with exit code 0
\* whatever the workers do, unless something fails first, a later signal finds
\* the handlers gone, or it interrupts the main thread in its queue.
SignalEndsHost ==
    signals > 0 /\ handlers ~> code = 0 \/ failure \/ main \in {"killed", "stuck"}

\* Once the editing ends with a file on disk, the service works by what it says,
\* or the operator was told of the attempt that failed on this very state of the
\* file, or the process is over.
ServiceFollowsFile ==
    <>[]( \/ file = None
          \/ adopted = file
          \/ Stat \in reported
          \/ failure \/ main \in Gone \cup {"stuck"} )
=============================================================================
