--------------------------- MODULE MCOrchestrator ---------------------------
(* Orchestrator on small instances for TLC.                                *)
EXTENDS Orchestrator

CONSTANTS i1, i2

MCStates   == {"todo", "done", "backlog"}
MCActive   == {"todo"}
MCTerminal == {"done"}
MCRank     == [i \in Issues |-> IF i = i1 THEN 1 ELSE 2]

In(s)     == [state |-> s, labelled |-> TRUE, blocked |-> FALSE, keyed |-> TRUE]
Unkeyed   == [In("todo") EXCEPT !.keyed = FALSE]
Unrouted  == [In("todo") EXCEPT !.labelled = FALSE]
Blocked   == [In("todo") EXCEPT !.blocked = TRUE]

\* Issues open and close again and again.
Restless      == {In("todo"), In("done")}
RestlessMoves == Restless \X Restless

\* Issues may do anything.
Free      == {In("todo"), Blocked, Unrouted, Unkeyed, In("backlog"), In("done")}
FreeMoves == (Free \cup {None}) \X (Free \cup {None})

\* All issues are active, for ever.
Active      == {In("todo")}
ActiveMoves == {}

Base == [max |-> 2, perState |-> [s \in MCStates |-> None], root |-> "r1",
         dispatchable |-> TRUE, stall |-> TRUE]
Calm == [Base EXCEPT !.stall = FALSE]

\* The limit drops and rises while stalls are detected.
StallConfigs == {Base, [Base EXCEPT !.max = 1]}
\* A reload moves the root, takes every slot away, or breaks the preflight.
LiveConfigs  == {[Base EXCEPT !.max = 1], [Base EXCEPT !.max = 0, !.root = "r2"],
                 [Base EXCEPT !.max = 1, !.dispatchable = FALSE]}
\* At most one run in state todo.
StateLimitConfigs == {[Calm EXCEPT !.perState["todo"] = 1]}
\* The workspace root moves.
RootConfigs == {Calm, [Calm EXCEPT !.root = "r2"]}
=============================================================================
