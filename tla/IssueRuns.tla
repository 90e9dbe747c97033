----------------------------- MODULE IssueRuns ------------------------------
(***************************************************************************)
(* Who works on an issue: what the event loop and the worker threads       *)
(* promise each other.  One thread at most is tracked, in `running`; those *)
(* let go live on, and each reports once.  A report names its issue only,  *)
(* so whichever thread is tracked is no longer, whoever reports.           *)
(*                                                                         *)
(* Orchestrator provides this, for every issue; AgentRunner builds on it,  *)
(* for the threads that meet in one directory.                             *)
(***************************************************************************)
CONSTANTS Issues, Threads

VARIABLES
    held,     \* for each issue, the threads whose report was not yet handled
    tracked   \* the issues with an entry in `running`

Init == held = [i \in Issues |-> {}] /\ tracked = {}

\* A thread that works on nothing is started on an issue that is not tracked.
Dispatch(i, w) ==
    /\ i \notin tracked
    /\ \A j \in Issues : w \notin held[j]
    /\ held' = [held EXCEPT ![i] = @ \cup {w}]
    /\ tracked' = tracked \cup {i}

\* The issue's thread is let go and lives on.
LetGo(i) ==
    /\ i \in tracked
    /\ tracked' = tracked \ {i}
    /\ UNCHANGED held

\* A thread's report is handled.
Report(i, w) ==
    /\ w \in held[i]
    /\ held' = [held EXCEPT ![i] = @ \ {w}]
    /\ tracked' = tracked \ {i}

\* The process is over, and its threads with it.
Over == held' = [i \in Issues |-> {}] /\ tracked' = {}

Next ==
    \/ \E i \in Issues : LetGo(i) \/ \E w \in Threads : Dispatch(i, w) \/ Report(i, w)
    \/ Over

Spec == Init /\ [][Next]_<<held, tracked>>
=============================================================================
