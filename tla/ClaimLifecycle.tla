--------------------------- MODULE ClaimLifecycle ---------------------------
(***************************************************************************)
(* What the orchestrator promises of an issue's claim: the states and      *)
(* transitions an observer of `running` and `retry_attempts` may see, and  *)
(* what each worker exit the loop handles does to them.  Every step        *)
(* changes the claim of one issue at most, because one thread owns the     *)
(* state, until the process is over.                                       *)
(***************************************************************************)
EXTENDS Integers, FiniteSets

CONSTANTS Issues, AttemptCap, Limits, None

VARIABLES
    claim,   \* for each issue, its phase and the attempt it runs or waits for
    report,  \* the worker exit that is handled next, None when something else is
    over,    \* whether the process is over
    limit    \* max_concurrent_agents

Unclaimed      == [phase |-> "unclaimed", attempt |-> 0]
Running(a)     == [phase |-> "running", attempt |-> a]
RetryQueued(a) == [phase |-> "retry", attempt |-> a]

Attempts == 0 .. AttemptCap
Following(a) == IF a < AttemptCap THEN a + 1 ELSE AttemptCap

Reports == [issue : Issues, ok : BOOLEAN] \cup {None}

Busy == {i \in Issues : claim[i].phase = "running"}
SlotFree == Cardinality(Busy) < limit

\* Which report the next step finds, if any, is up to the workers.
Becomes(i, c) ==
    /\ claim' = [claim EXCEPT ![i] = c]
    /\ report' \in Reports
    /\ UNCHANGED <<over, limit>>

Init ==
    /\ claim = [i \in Issues |-> Unclaimed]
    /\ report = None
    /\ over = FALSE
    /\ limit \in Limits

\* A first dispatch, attempt None: it starts, or is queued to start again.
Dispatch(i) ==
    /\ claim[i] = Unclaimed
    /\ SlotFree
    /\ Becomes(i, Running(0)) \/ Becomes(i, RetryQueued(1))

\* The run is let go for having stalled: the next attempt is queued.
Stall(i) ==
    /\ claim[i].phase = "running"
    /\ Becomes(i, RetryQueued(Following(claim[i].attempt)))

\* The retry runs the attempt it was queued for.
Resume(i) ==
    /\ claim[i].phase = "retry"
    /\ SlotFree
    /\ Becomes(i, Running(claim[i].attempt))

\* The retry could not run: the next attempt is queued.
Requeue(i) ==
    /\ claim[i].phase = "retry"
    /\ Becomes(i, RetryQueued(Following(claim[i].attempt)))

\* The issue is closed, inactive or gone.
Release(i) == claim[i] # Unclaimed /\ Becomes(i, Unclaimed)

Reload ==
    /\ limit' \in Limits
    /\ report' \in Reports
    /\ UNCHANGED <<claim, over>>

\* A worker's exit: a clean one queues the continuation, attempt 1, a failed one the
\* next attempt.
Exit(i, ok) ==
    /\ report = [issue |-> i, ok |-> ok]
    /\ claim[i].phase = "running"
    /\ Becomes(i, RetryQueued(IF ok THEN 1 ELSE Following(claim[i].attempt)))

\* The exit of a run whose issue is not running any more.
ExitIgnored(i, ok) ==
    /\ report = [issue |-> i, ok |-> ok]
    /\ claim[i].phase # "running"
    /\ Becomes(i, claim[i])

\* The process is over, and nothing is claimed any more.
Over ==
    /\ claim' = [i \in Issues |-> Unclaimed]
    /\ report' = None
    /\ over' = TRUE
    /\ UNCHANGED limit

Next ==
    \/ /\ report = None
       /\ \/ Reload
          \/ \E i \in Issues : Dispatch(i) \/ Stall(i) \/ Resume(i) \/ Requeue(i) \/ Release(i)
    \/ \E i \in Issues, ok \in BOOLEAN : Exit(i, ok) \/ ExitIgnored(i, ok)
    \/ Over

Spec == Init /\ [][~over /\ Next]_<<claim, report, over, limit>>
=============================================================================
