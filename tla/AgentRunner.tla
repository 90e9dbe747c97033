---------------------------- MODULE AgentRunner -----------------------------
(***************************************************************************)
(* The worker attempts of one issue (agent_runner.py), the workspace       *)
(* directory they share one after the other (workspace.py) and the hooks   *)
(* run in it (hooks.py).                                                   *)
(*                                                                         *)
(* The event loop tracks at most one attempt, but it cannot stop one: when *)
(* it lets an attempt go, the worker thread lives on, and the next attempt *)
(* may share the directory with it.  The loop removes the directory of a   *)
(* closed issue whoever is in it.  A restart takes all threads away and    *)
(* leaves the directory.                                                   *)
(*                                                                         *)
(* A turn is TurnRunner seen from outside: it ends, with success or not.   *)
(***************************************************************************)
EXTENDS Naturals

CONSTANTS
    Workers,    \* worker threads alive at one time
    MaxTurns,   \* agent.max_turns
    RemovalMayFail, \* whether the removal of a directory may end half way
    MayRestart  \* whether the process may end and start again

ASSUME TurnAssumption == MaxTurns \in Nat \ {0}
ASSUME FailureAssumption == RemovalMayFail \in BOOLEAN /\ MayRestart \in BOOLEAN

Errors == {"none", "workspace", "hook", "prompt", "turn", "tracker", "crash"}

\* What the locals of one run_agent_attempt say; home is created_now, as long as
\* the directory it speaks of is the one at the workspace path.  The history fields count the
\* after_run hooks that ran and record whether before_run passed, and whether
\* the last answer of the tracker showed the issue active.
Phases == {"free", "ensure", "reuse", "after_create", "creating", "before_run",
           "prompt", "launch", "turn", "refresh", "after_run", "exit"}
Attempt == [phase : Phases, home : BOOLEAN, turn : 1 .. MaxTurns, session : BOOLEAN,
            error : Errors, before : BOOLEAN, afters : 0 .. 2, active : BOOLEAN]

VARIABLES
    attempts,   \* the attempt each worker thread runs
    tracked,    \* whether state.running has an entry for the issue
    loop,       \* whether the event loop is removing the directory
    place,      \* what is at the workspace path
    prepared    \* whether after_create has completed in the directory

vars == <<attempts, tracked, loop, place, prepared>>
workspace == <<place, prepared>>
service   == <<tracked, loop>>

Free == [phase |-> "free", home |-> FALSE, turn |-> 1, session |-> FALSE,
         error |-> "none", before |-> FALSE, afters |-> 0, active |-> TRUE]

Init ==
    /\ attempts = [w \in Workers |-> Free]
    /\ tracked = FALSE /\ loop = "idle"
    /\ place \in {"absent", "dir", "file"}
    /\ prepared = (place = "dir")

At(w, phase) == attempts[w].phase = phase
Goto(w, phase) == attempts' = [attempts EXCEPT ![w].phase = phase]

\* _Accounting.failed and .finish_with: the attempt ends without and with its
\* after_run hook.
Failed(w, error) ==
    attempts' = [attempts EXCEPT ![w].phase = "exit", ![w].error = error]
FinishWith(w, error) ==
    attempts' = [attempts EXCEPT ![w].phase = "after_run", ![w].error = error]

\* What a hook's output does that is no text: an exception no handler expects,
\* caught at last where the worker thread reports.
HookCrashes(w) ==
    attempts' = [attempts EXCEPT ![w].phase = "exit", ![w].error = "crash"]

-----------------------------------------------------------------------------
(* The workspace.                                                          *)

\* ensure_workspace tries to create the directory.
EnsureWorkspace(w) ==
    /\ At(w, "ensure")
    /\ \/ /\ place = "absent"
          /\ attempts' = [attempts EXCEPT ![w].phase = "after_create", ![w].home = TRUE]
          /\ place' = "dir" /\ prepared' = FALSE
       \/ /\ place # "absent"
          /\ Goto(w, "reuse")
          /\ UNCHANGED workspace
       \/ /\ Failed(w, "workspace")     \* no root, an unusable key, an OSError
          /\ UNCHANGED workspace
    /\ UNCHANGED service

\* Mutant: whatever mkdir(exist_ok=True) leaves behind counts as just created.
MutantReuseAsCreated(w) ==
    /\ At(w, "reuse")
    /\ IF place = "dir"
       THEN attempts' = [attempts EXCEPT ![w].phase = "after_create", ![w].home = TRUE]
       ELSE Failed(w, "workspace")
    /\ UNCHANGED <<workspace, service>>

\* Something is there already; it is looked at again, and may be gone.
ReuseWorkspace(w) ==
    /\ At(w, "reuse")
    /\ IF place = "dir" THEN Goto(w, "before_run") ELSE Failed(w, "workspace")
    /\ UNCHANGED <<workspace, service>>

\* run_after_create: a configured hook starts in the directory if that is still
\* there; without one there is nothing to set up and nothing is looked at.
AfterCreateStarts(w) ==
    /\ At(w, "after_create")
    /\ \/ /\ IF place = "dir" THEN Goto(w, "creating") ELSE Failed(w, "hook")
          /\ UNCHANGED prepared
       \/ Goto(w, "before_run") /\ prepared' = (prepared \/ attempts[w].home)
    /\ UNCHANGED <<place, service>>

\* It succeeds, fails or times out, or writes what is no text.
AfterCreateEnds(w) ==
    /\ At(w, "creating")
    /\ \/ Goto(w, "before_run") /\ prepared' = (prepared \/ attempts[w].home)
       \/ Failed(w, "hook") /\ UNCHANGED prepared
       \/ HookCrashes(w) /\ UNCHANGED prepared
    /\ UNCHANGED <<place, service>>

\* The before_run hook: it passes, also where none is configured and the
\* directory is gone, or it fails, or crashes.
BeforeRun(w) ==
    /\ At(w, "before_run")
    /\ \/ attempts' = [attempts EXCEPT ![w].phase = "prompt", ![w].before = TRUE]
       \/ Failed(w, "hook")
       \/ HookCrashes(w)
    /\ UNCHANGED <<workspace, service>>

-----------------------------------------------------------------------------
(* The turns.                                                              *)

\* Only the first turn renders the template.
BuildPrompt(w) ==
    /\ At(w, "prompt")
    /\ \/ Goto(w, "launch")
       \/ attempts[w].turn = 1 /\ FinishWith(w, "prompt")
    /\ UNCHANGED <<workspace, service>>

\* launch_turn refuses a path that is no directory.
LaunchTurn(w) ==
    /\ At(w, "launch")
    /\ IF place = "dir" THEN Goto(w, "turn") ELSE FinishWith(w, "turn")
    /\ UNCHANGED <<workspace, service>>

\* Mutant: a failed turn ends the attempt without its after_run hook.
MutantTurnFailsAtOnce(w) ==
    /\ At(w, "turn")
    /\ \/ \E s \in BOOLEAN :
            attempts' = [attempts EXCEPT ![w].phase = "refresh", ![w].session = @ \/ s]
       \/ Failed(w, "turn")
    /\ UNCHANGED <<workspace, service>>

\* The turn ends; the first session id reported is kept.
TurnEnds(w) ==
    /\ At(w, "turn")
    /\ \/ \E s \in BOOLEAN :
            attempts' = [attempts EXCEPT ![w].phase = "refresh", ![w].session = @ \/ s]
       \/ FinishWith(w, "turn")
    /\ UNCHANGED <<workspace, service>>

\* Mutant: the turn that reaches the maximum is not the last one.
MutantOneTurnTooMany(w, active) ==
    active /\ attempts[w].turn <= MaxTurns /\ attempts[w].session

\* Mutant: the refreshed state is not looked at.
MutantContinuesAnyway(w, active) ==
    attempts[w].turn < MaxTurns /\ attempts[w].session

\* Whether another turn follows.
Continues(w, active) ==
    active /\ attempts[w].turn < MaxTurns /\ attempts[w].session

\* The tracker is asked for the issue's state; one it does not know keeps the
\* state it had.
RefreshIssue(w) ==
    /\ At(w, "refresh")
    /\ \/ FinishWith(w, "tracker")
       \/ \E active \in BOOLEAN :
            attempts' = [attempts EXCEPT
                ![w].active = active,
                ![w].phase = IF Continues(w, active) THEN "prompt" ELSE "after_run",
                ![w].turn = IF Continues(w, active) THEN @ + 1 ELSE @]
    /\ UNCHANGED <<workspace, service>>

\* The after_run hook, whose failure is ignored; without the directory it does
\* not start.
AfterRun(w) ==
    /\ At(w, "after_run")
    /\ \/ attempts' = [attempts EXCEPT ![w].phase = "exit",
                                       ![w].afters = IF @ < 2 THEN @ + 1 ELSE @]
       \/ HookCrashes(w)
    /\ UNCHANGED <<workspace, service>>

\* Mutant: a worker that crashed reports nothing.
MutantReportsUnlessCrashed(w) ==
    /\ At(w, "exit") /\ attempts[w].error # "crash"
    /\ attempts' = [attempts EXCEPT ![w] = Free]
    /\ tracked' = FALSE
    /\ UNCHANGED <<loop, workspace>>

\* The thread reports its exit, which untracks whatever attempt is tracked.
Report(w) ==
    /\ At(w, "exit")
    /\ attempts' = [attempts EXCEPT ![w] = Free]
    /\ tracked' = FALSE
    /\ UNCHANGED <<loop, workspace>>

RunAttempt(w) ==
    \/ EnsureWorkspace(w) \/ ReuseWorkspace(w) \/ AfterCreateStarts(w) \/ AfterCreateEnds(w)
    \/ BeforeRun(w) \/ BuildPrompt(w) \/ LaunchTurn(w) \/ TurnEnds(w) \/ RefreshIssue(w)
    \/ AfterRun(w) \/ Report(w)

-----------------------------------------------------------------------------
(* The event loop, the process and its surroundings.                       *)

\* Mutant: the issue is dispatched whether or not it has an entry.
MutantDispatchBesideTracked(w) ==
    /\ loop = "idle" /\ At(w, "free")
    /\ attempts' = [attempts EXCEPT ![w].phase = "ensure"]
    /\ tracked' = TRUE
    /\ UNCHANGED <<loop, workspace>>

Dispatch(w) ==
    /\ loop = "idle" /\ ~tracked /\ At(w, "free")
    /\ attempts' = [attempts EXCEPT ![w].phase = "ensure"]
    /\ tracked' = TRUE
    /\ UNCHANGED <<loop, workspace>>

\* terminate_running_issue: the attempt stalled, or the issue left the active
\* states, or it was closed and its directory is to go.
Terminate ==
    /\ loop = "idle" /\ tracked
    /\ tracked' = FALSE
    /\ loop' \in {"idle", "removing"}
    /\ UNCHANGED <<attempts, workspace>>

\* remove_workspace, after the before_remove hook.  The tree is removed, or an
\* OSError ends the removal half way, or a hook whose output is no text ends
\* the loop.
RemoveWorkspace ==
    /\ loop = "removing"
    /\ \/ /\ place \in {"dir", "absent"}
          /\ place' = "absent" /\ prepared' = FALSE
          /\ attempts' = [w \in Workers |-> [attempts[w] EXCEPT !.home = FALSE]]
          /\ loop' = "idle"
       \/ /\ place = "file" \/ RemovalMayFail
          /\ prepared' \in {prepared, FALSE}
          /\ loop' = "idle"
          /\ UNCHANGED <<attempts, place>>
       \/ /\ loop' = "crashed"
          /\ UNCHANGED <<attempts, workspace>>
    /\ UNCHANGED tracked

\* The process ends and starts again: worker threads are daemons.  At startup
\* the directory of a closed issue is removed.
Restart ==
    /\ MayRestart
    /\ attempts' = [w \in Workers |-> Free]
    /\ tracked' = FALSE
    /\ loop' \in {"idle", "removing"}
    /\ UNCHANGED workspace

Next == \/ \E w \in Workers : RunAttempt(w) \/ Dispatch(w)
        \/ Terminate \/ RemoveWorkspace \/ Restart

Spec == Init /\ [][Next]_vars

\* Every step of an attempt ends: turns and hooks have their timeouts, and so
\* has the tracker.
FairSpec == Spec /\ \A w \in Workers : WF_vars(RunAttempt(w))

-----------------------------------------------------------------------------
(* Properties.                                                             *)

\* The types of the variables.
TypeOK ==
    /\ attempts \in [Workers -> Attempt]
    /\ tracked \in BOOLEAN /\ loop \in {"idle", "removing", "crashed"}
    /\ place \in {"absent", "dir", "file"}
    /\ prepared \in BOOLEAN

\* However many attempts find a directory at the same time, one of them at most
\* is told that it created it, and then nobody has prepared it yet: created_now
\* is mkdir's own answer.
SetUpOnce ==
    /\ \A v, w \in Workers : attempts[v].home /\ attempts[w].home => v = w
    /\ \A w \in Workers : At(w, "creating") /\ attempts[w].home => ~prepared

\* An attempt whose before_run passed runs after_run exactly once before it
\* reports, and no other attempt does, unless a hook crashed the worker.
HooksBracketTurns ==
    \A w \in Workers : At(w, "exit") /\ attempts[w].error # "crash" =>
        attempts[w].afters = IF attempts[w].before THEN 1 ELSE 0

\* No turn starts once the attempt knows that the issue is no longer active.
TurnsOnlyWhileActive ==
    \A w \in Workers : attempts[w].phase \in {"prompt", "launch", "turn"} => attempts[w].active

\* Every attempt ends and reports, whatever fails in it and whoever else works
\* in its directory.
AttemptEnds == \A w \in Workers : ~At(w, "free") ~> At(w, "free")

\* hooks.py: a failure of after_create is fatal, "aborting workspace creation".
\* So no turn is launched in a directory whose set-up did not complete.
LaunchedOnlyInPrepared ==
    [][\A w \in Workers : At(w, "launch") /\ At(w, "turn")' => prepared]_vars

-----------------------------------------------------------------------------
(* The attempts of one issue, as the orchestrator has them.                *)

Runs == INSTANCE IssueRuns
    WITH Issues <- {"issue"}, Threads <- Workers,
         held <- [i \in {"issue"} |-> {w \in Workers : ~At(w, "free")}],
         tracked <- IF tracked THEN {"issue"} ELSE {}

\* The attempts that meet in the directory are those the event loop may start, let go
\* and hear from: none is started beside a tracked one, each reports once.
ImplementsIssueRuns == Runs!Spec

=============================================================================
