----------------------------- MODULE TurnRunner -----------------------------
(***************************************************************************)
(* One headless turn: run_turn of turn_runner.py, the launch it makes      *)
(* (agent_launcher.py) and the events it parses (stream_parser.py).        *)
(*                                                                         *)
(* Four actors share two pipes and a queue: the driver (the worker thread  *)
(* that called run_turn), the thread that pumps stdout, the thread that    *)
(* drains stderr, and the agent itself, which may say anything, hang, or   *)
(* leave a child behind that keeps the pipes open.  The kernel's pipes     *)
(* have room for so much; who writes into a full one waits.                *)
(*                                                                         *)
(* Time is abstracted: a deadline may pass at any moment once the driver   *)
(* has set it, and in a tame turn it lies beyond the agent's own end.      *)
(***************************************************************************)
EXTENDS Integers, Sequences, SequencesExt

CONSTANTS
    PromptSize,      \* the prompt, in units of what one write puts in a pipe
    StdinRoom,       \* the room of the agent's stdin pipe, in the same units
    StdoutRoom,      \* the lines its stdout pipe has room for
    StderrRoom,      \* the lines its stderr pipe has room for
    MaxLines,        \* bound: the lines an agent writes to stdout
    MaxComplaints,   \* bound: the lines it writes to stderr
    None             \* absence

ASSUME SizeAssumption ==
    /\ PromptSize \in Nat /\ StdinRoom \in Nat \ {0}
    /\ StdoutRoom \in Nat \ {0} /\ StderrRoom \in Nat \ {0}
    /\ MaxLines \in Nat /\ MaxComplaints \in Nat

\* A line as parse_event tells lines apart: the init event, a result that
\* reports success or failure, and any other, malformed ones included.  A
\* garbled line is no text at all in the encoding of the pipe's reader.
Results == {"success", "failure"}
Lines   == {"init", "other", "garbled"} \cup Results
Eof     == "eof"
Complaint == "complaint"

Errors == {"invalid_workspace_cwd", "claude_not_found", "startup_timeout",
           "turn_timeout", "process_exit", "turn_failed", "none"}

\* Exit statuses: those of an agent's own end, and that of SIGKILL.
Codes  == {0, 1}
Killed == -9

ASSUME NoneAssumption == None \notin Lines \cup Errors \cup {Complaint} /\ None \notin Codes \cup {Killed}

VARIABLES
    setting,    \* what kind of agent and launcher this turn has
    driver,     \* where run_turn stands
    process,    \* the subprocess as the kernel has it
    agent,      \* who writes to the pipes: the agent or a child it left
    status,     \* the exit status of the subprocess
    saying,     \* what the agent is committed to write before anything else
    toWrite,    \* what is left of the prompt
    stdin, stdout, stderr,      \* what the pipes hold
    complaints, \* how many lines the agent wrote to stderr
    pump, drain,                \* the two reader threads
    lines,      \* the queue between the pump and the driver
    initDue, turnDue,           \* whether the deadlines have passed
    started, result, cut, exitCode,     \* the observations of _DriveResult
    error,      \* the verdict of the turn: TurnResult.error
    emitted,    \* history: every line that went into stdout
    forwarded   \* history: every event given to on_event

agentVars == <<agent, status, saying, complaints, emitted>>
readVars  == <<started, result, forwarded>>
dueVars   == <<initDue, turnDue>>
vars == <<setting, driver, process, agentVars, toWrite, stdin, stdout, stderr,
          pump, drain, lines, dueVars, readVars, cut, exitCode, error>>

\* forks: the command line keeps its shell as the agent's parent, so that a
\* kill does not reach the agent.  tame: the agent ends by itself in time and
\* writes nothing but text.
Setting == [forks : BOOLEAN, tame : BOOLEAN]

Init ==
    /\ setting \in Setting
    /\ driver = "launch" /\ process = "none" /\ agent = "none"
    /\ status = None /\ saying = None
    /\ toWrite = PromptSize /\ stdin = 0 /\ stdout = << >> /\ stderr = 0
    /\ complaints = 0 /\ emitted = << >> /\ forwarded = << >>
    /\ pump = "idle" /\ drain = "idle" /\ lines = << >>
    /\ initDue = FALSE /\ turnDue = FALSE
    /\ started = FALSE /\ result = None /\ cut = None
    /\ exitCode = None /\ error = None

-----------------------------------------------------------------------------
(* The driver.                                                             *)

\* Mutant: a launch that fails is swallowed, the turn has no verdict.
MutantLaunchFailsSilently ==
    /\ driver = "launch"
    /\ driver' = "done"
    /\ UNCHANGED <<setting, process, agentVars, toWrite, stdin, stdout, stderr, pump,
                   drain, lines, dueVars, readVars, cut, exitCode, error>>

\* The workspace is no directory, or the launcher cannot be started.
LaunchFails ==
    /\ driver = "launch"
    /\ error' \in {"invalid_workspace_cwd", "claude_not_found"}
    /\ driver' = "done"
    /\ UNCHANGED <<setting, process, agentVars, toWrite, stdin, stdout, stderr,
                   pump, drain, lines, dueVars, readVars, cut, exitCode>>

Launch ==
    /\ driver = "launch"
    /\ process' = "alive" /\ agent' = "alive"
    /\ driver' = "prompt"
    /\ UNCHANGED <<setting, status, saying, complaints, emitted, toWrite, stdin,
                   stdout, stderr, pump, drain, lines, dueVars, readVars, cut,
                   exitCode, error>>

\* No reader thread runs and no deadline is set while the prompt is written.
WritePrompt ==
    /\ driver = "prompt"
    /\ toWrite > 0 /\ stdin < StdinRoom /\ agent = "alive"
    /\ toWrite' = toWrite - 1
    /\ stdin' = stdin + 1
    /\ UNCHANGED <<setting, driver, process, agentVars, stdout, stderr, pump, drain,
                   lines, dueVars, readVars, cut, exitCode, error>>

\* The whole prompt is written, or nobody is left to read it (BrokenPipeError).
PromptDone ==
    /\ driver = "prompt"
    /\ toWrite = 0 \/ agent = "gone"
    /\ driver' = "check"
    /\ pump' = "running" /\ drain' = "running"
    /\ UNCHANGED <<setting, process, agentVars, toWrite, stdin, stdout, stderr, lines,
                   dueVars, readVars, cut, exitCode, error>>

\* The head of the loop: the deadlines first, whatever waits in the queue.
CheckDeadlines ==
    /\ driver = "check"
    /\ cut' = IF turnDue THEN "turn_timeout"
              ELSE IF initDue /\ ~started THEN "startup_timeout" ELSE None
    /\ driver' = IF cut' = None THEN "get" ELSE "kill"
    /\ UNCHANGED <<setting, process, agentVars, toWrite, stdin, stdout, stderr, pump,
                   drain, lines, dueVars, readVars, exitCode, error>>

\* lines.get runs out of time.
GetTimesOut ==
    /\ driver = "get" /\ lines = << >>
    /\ turnDue \/ (initDue /\ ~started)
    /\ driver' = "check"
    /\ UNCHANGED <<setting, process, agentVars, toWrite, stdin, stdout, stderr, pump,
                   drain, lines, dueVars, readVars, cut, exitCode, error>>

\* Mutant: only a result that reports success ends the reading.
MutantReadsPastFailure ==
    /\ driver = "get" /\ lines # << >>
    /\ lines' = Tail(lines)
    /\ \/ /\ Head(lines) = Eof
          /\ driver' = "wait"
          /\ UNCHANGED readVars
       \/ /\ Head(lines) # Eof
          /\ forwarded' = Append(forwarded, Head(lines))
          /\ started' = (started \/ Head(lines) = "init")
          /\ result' = IF Head(lines) \in Results THEN Head(lines) ELSE result
          /\ driver' = IF Head(lines) = "success" THEN "wait" ELSE "check"
    /\ UNCHANGED <<setting, process, agentVars, toWrite, stdin, stdout, stderr, pump,
                   drain, dueVars, cut, exitCode, error>>

\* lines.get returns the next line, or the end of the stream.
HandleItem ==
    /\ driver = "get" /\ lines # << >>
    /\ lines' = Tail(lines)
    /\ \/ /\ Head(lines) = Eof
          /\ driver' = "wait"
          /\ UNCHANGED readVars
       \/ /\ Head(lines) # Eof
          /\ forwarded' = Append(forwarded, Head(lines))
          /\ started' = (started \/ Head(lines) = "init")
          /\ result' = IF Head(lines) \in Results THEN Head(lines) ELSE result
          /\ driver' = IF Head(lines) \in Results THEN "wait" ELSE "check"
    /\ UNCHANGED <<setting, process, agentVars, toWrite, stdin, stdout, stderr, pump,
                   drain, dueVars, cut, exitCode, error>>

\* The subprocess exits within the grace period and is reaped.
Reap ==
    /\ driver = "wait" /\ process = "exited"
    /\ process' = "reaped" /\ exitCode' = status
    /\ driver' = "join"
    /\ UNCHANGED <<setting, agentVars, toWrite, stdin, stdout, stderr, pump, drain,
                   lines, dueVars, readVars, cut, error>>

\* Mutant: a subprocess that overstays is left alone.
MutantGraceLetsGo ==
    /\ driver = "wait" /\ process = "alive"
    /\ driver' = "join"
    /\ UNCHANGED <<setting, process, agentVars, toWrite, stdin, stdout, stderr, pump,
                   drain, lines, dueVars, readVars, cut, exitCode, error>>

\* It overstays the grace period.
GraceExpires ==
    /\ driver = "wait" /\ process = "alive"
    /\ driver' = "kill"
    /\ UNCHANGED <<setting, process, agentVars, toWrite, stdin, stdout, stderr, pump,
                   drain, lines, dueVars, readVars, cut, exitCode, error>>

\* kill and wait.  A subprocess that has exited meanwhile is only reaped; its
\* status is not asked for.  Behind a shell the agent survives the kill.
Kill ==
    /\ driver = "kill"
    /\ process' = "reaped"
    /\ status' = IF process = "alive" THEN Killed ELSE status
    /\ IF process = "alive" /\ ~setting.forks
       THEN agent' = "gone" /\ saying' = None /\ stdin' = 0
       ELSE UNCHANGED <<agent, saying, stdin>>
    /\ driver' = "join"
    /\ UNCHANGED <<setting, complaints, emitted, toWrite, stdout, stderr, pump, drain,
                   lines, dueVars, readVars, cut, exitCode, error>>

\* Mutant: the exit code does not corroborate the result.
MutantVerdictIgnoresExit ==
    CASE cut # None -> cut
      [] cut = None /\ result = None -> "process_exit"
      [] cut = None /\ result = "failure" -> "turn_failed"
      [] cut = None /\ result = "success" -> "none"

\* _classify: the observations become the outcome of the turn.
Verdict ==
    CASE cut # None -> cut
      [] cut = None /\ result = None -> "process_exit"
      [] cut = None /\ result = "failure" -> "turn_failed"
      [] cut = None /\ result = "success" ->
            IF exitCode \in {0, None} THEN "none" ELSE "process_exit"

\* Mutant: the readers are joined without a timeout.
MutantJoinsForever ==
    /\ driver = "join" /\ pump = "ended" /\ drain = "ended"
    /\ error' = Verdict
    /\ driver' = "done"
    /\ UNCHANGED <<setting, process, agentVars, toWrite, stdin, stdout, stderr, pump,
                   drain, lines, dueVars, readVars, cut, exitCode>>

\* The readers are joined for a second each, ended or not.
JoinReaders ==
    /\ driver = "join"
    /\ error' = Verdict
    /\ driver' = "done"
    /\ UNCHANGED <<setting, process, agentVars, toWrite, stdin, stdout, stderr, pump,
                   drain, lines, dueVars, readVars, cut, exitCode>>

Drive == \/ Launch \/ LaunchFails \/ WritePrompt \/ PromptDone \/ CheckDeadlines
         \/ GetTimesOut \/ HandleItem \/ Reap \/ GraceExpires \/ Kill \/ JoinReaders

-----------------------------------------------------------------------------
(* The reader threads.                                                     *)

\* A line goes from the pipe to the queue.  One that cannot be decoded ends
\* the thread, and with it the stream as the driver sees it.
PumpLine ==
    /\ pump = "running" /\ stdout # << >>
    /\ stdout' = Tail(stdout)
    /\ IF Head(stdout) = "garbled"
       THEN lines' = Append(lines, Eof) /\ pump' = "ended"
       ELSE lines' = Append(lines, Head(stdout)) /\ UNCHANGED pump
    /\ UNCHANGED <<setting, driver, process, agentVars, toWrite, stdin, stderr, drain,
                   dueVars, readVars, cut, exitCode, error>>

\* Mutant: the stream is over when the subprocess exits, read or not.
MutantPumpEndsAtExit ==
    /\ pump = "running"
    /\ process # "alive"
    /\ lines' = Append(lines, Eof)
    /\ pump' = "ended"
    /\ UNCHANGED <<setting, driver, process, agentVars, toWrite, stdin, stdout, stderr,
                   drain, dueVars, readVars, cut, exitCode, error>>

\* The stream ends once it is empty and nobody holds its other end.
PumpEnds ==
    /\ pump = "running"
    /\ stdout = << >> /\ agent = "gone"
    /\ lines' = Append(lines, Eof)
    /\ pump' = "ended"
    /\ UNCHANGED <<setting, driver, process, agentVars, toWrite, stdin, stdout, stderr,
                   drain, dueVars, readVars, cut, exitCode, error>>

\* A line of stderr is drained.  One that cannot be decoded ends the thread.
DrainLine ==
    /\ drain = "running" /\ stderr > 0
    /\ stderr' = stderr - 1
    /\ drain' \in {"running"} \cup (IF setting.tame THEN {} ELSE {"ended"})
    /\ UNCHANGED <<setting, driver, process, agentVars, toWrite, stdin, stdout, pump,
                   lines, dueVars, readVars, cut, exitCode, error>>

DrainEnds ==
    /\ drain = "running"
    /\ stderr = 0 /\ agent = "gone"
    /\ drain' = "ended"
    /\ UNCHANGED <<setting, driver, process, agentVars, toWrite, stdin, stdout, stderr,
                   pump, lines, dueVars, readVars, cut, exitCode, error>>

-----------------------------------------------------------------------------
(* The agent.                                                              *)

AgentReadsPrompt ==
    /\ agent = "alive" /\ saying = None /\ stdin > 0
    /\ stdin' = stdin - 1
    /\ UNCHANGED <<setting, driver, process, agentVars, toWrite, stdout, stderr, pump,
                   drain, lines, dueVars, readVars, cut, exitCode, error>>

\* The agent starts a write that it will not give up.
AgentSpeaks ==
    /\ agent = "alive" /\ saying = None
    /\ \/ Len(emitted) < MaxLines /\ saying' \in IF setting.tame THEN Lines \ {"garbled"} ELSE Lines
       \/ complaints < MaxComplaints /\ saying' = Complaint
    /\ UNCHANGED <<setting, driver, process, agent, status, complaints, emitted, toWrite,
                   stdin, stdout, stderr, pump, drain, lines, dueVars, readVars, cut,
                   exitCode, error>>

\* The pipe has room for it.
AgentWrites ==
    /\ agent = "alive" /\ saying # None
    /\ \/ /\ saying = Complaint /\ stderr < StderrRoom
          /\ stderr' = stderr + 1 /\ complaints' = complaints + 1
          /\ UNCHANGED <<stdout, emitted>>
       \/ /\ saying # Complaint /\ Len(stdout) < StdoutRoom
          /\ stdout' = Append(stdout, saying) /\ emitted' = Append(emitted, saying)
          /\ UNCHANGED <<stderr, complaints>>
    /\ saying' = None
    /\ UNCHANGED <<setting, driver, process, agent, status, toWrite, stdin, pump, drain,
                   lines, dueVars, readVars, cut, exitCode, error>>

\* The subprocess exits; behind a shell a child may keep the pipes open.
AgentExits ==
    /\ agent = "alive" /\ saying = None /\ process = "alive"
    /\ process' = "exited"
    /\ status' \in Codes
    /\ agent' \in {"gone"} \cup (IF setting.forks THEN {"alive"} ELSE {})
    /\ stdin' = IF agent' = "gone" THEN 0 ELSE stdin
    /\ UNCHANGED <<setting, driver, saying, complaints, emitted, toWrite, stdout, stderr,
                   pump, drain, lines, dueVars, readVars, cut, exitCode, error>>

\* The child left behind ends.
OrphanExits ==
    /\ agent = "alive" /\ saying = None /\ process \in {"exited", "reaped"}
    /\ agent' = "gone" /\ stdin' = 0
    /\ UNCHANGED <<setting, driver, process, status, saying, complaints, emitted, toWrite,
                   stdout, stderr, pump, drain, lines, dueVars, readVars, cut, exitCode,
                   error>>

AgentRuns == \/ AgentReadsPrompt \/ AgentSpeaks \/ AgentWrites \/ AgentExits \/ OrphanExits

-----------------------------------------------------------------------------
(* Time.  The deadlines are set when the driver starts to read.            *)

Reading == driver \in {"check", "get"}

InitDeadlinePasses ==
    /\ Reading /\ ~setting.tame /\ ~initDue
    /\ initDue' = TRUE
    /\ UNCHANGED <<setting, driver, process, agentVars, toWrite, stdin, stdout, stderr,
                   pump, drain, lines, turnDue, readVars, cut, exitCode, error>>

TurnDeadlinePasses ==
    /\ Reading /\ ~setting.tame /\ ~turnDue
    /\ turnDue' = TRUE
    /\ UNCHANGED <<setting, driver, process, agentVars, toWrite, stdin, stdout, stderr,
                   pump, drain, lines, initDue, readVars, cut, exitCode, error>>

TurnOver == driver = "done" /\ UNCHANGED vars

Next == \/ Drive \/ PumpLine \/ PumpEnds \/ DrainLine \/ DrainEnds \/ AgentRuns
        \/ InitDeadlinePasses \/ TurnDeadlinePasses \/ TurnOver

Spec == Init /\ [][Next]_vars

\* The threads run and time passes; only a tame agent is sure to go on.
FairSpec == /\ Spec
            /\ WF_vars(Drive)
            /\ WF_vars(PumpLine \/ PumpEnds)
            /\ WF_vars(DrainLine \/ DrainEnds)
            /\ WF_vars(TurnDeadlinePasses)
            /\ WF_vars(AgentRuns /\ setting.tame)

-----------------------------------------------------------------------------
(* Properties.                                                             *)

\* The types of the variables; a turn is over exactly when it has a verdict.
TypeOK ==
    /\ setting \in Setting
    /\ driver \in {"launch", "prompt", "check", "get", "wait", "kill", "join", "done"}
    /\ process \in {"none", "alive", "exited", "reaped"}
    /\ agent \in {"none", "alive", "gone"}
    /\ status \in Codes \cup {None, Killed} /\ exitCode \in Codes \cup {None}
    /\ saying \in {None, Complaint} \cup Lines
    /\ toWrite \in 0 .. PromptSize /\ stdin \in 0 .. StdinRoom
    /\ stdout \in Seq(Lines) /\ Len(stdout) <= StdoutRoom
    /\ stderr \in 0 .. StderrRoom /\ complaints \in 0 .. MaxComplaints
    /\ pump \in {"idle", "running", "ended"} /\ drain \in {"idle", "running", "ended"}
    /\ lines \in Seq(Lines \cup {Eof})
    /\ initDue \in BOOLEAN /\ turnDue \in BOOLEAN /\ started \in BOOLEAN
    /\ result \in Results \cup {None} /\ cut \in {None, "startup_timeout", "turn_timeout"}
    /\ error \in Errors \cup {None}
    /\ emitted \in Seq(Lines) /\ forwarded \in Seq(Lines)
    /\ driver = "done" <=> error # None

\* The first result the agent wrote is r; it wrote no result.
FirstResultIs(r) ==
    \E k \in 1 .. Len(emitted) :
        emitted[k] = r /\ \A j \in 1 .. k - 1 : emitted[j] \notin Results
NoResult == \A k \in 1 .. Len(emitted) : emitted[k] \notin Results

\* A turn succeeds only if the first result of the stream reports success and
\* no exit status the driver saw contradicts it: _classify, whatever the order
\* of result, exit, end of stream and deadlines.
SuccessIsReal ==
    error = "none" => FirstResultIs("success") /\ (status = 1 => exitCode = None)

\* The events reach on_event in the order the agent wrote them, none is lost or
\* repeated, and nothing follows the first result.
EventsForwardedInOrder ==
    /\ IsPrefix(forwarded, emitted)
    /\ \A k \in 1 .. Len(forwarded) - 1 : forwarded[k] \notin Results

\* A tame turn is never cut short by the pipes, the threads or the end of the
\* subprocess: its verdict is the one its first result and exit call for.
TameTurnJudgedByResult ==
    driver = "done" /\ setting.tame /\ process # "none" =>
        \/ error = "process_exit" /\ NoResult
        \/ error = "process_exit" /\ FirstResultIs("success") /\ status = 1
        \/ error = "turn_failed" /\ FirstResultIs("failure")
        \/ error = "none" /\ FirstResultIs("success")

\* When run_turn returns, the subprocess is reaped, and no agent works on in
\* the workspace unless a shell hid it from the kill.
NoAgentLeftBehind ==
    driver = "done" /\ process # "none" =>
        process = "reaped" /\ (setting.forks \/ agent = "gone")

\* Every turn ends: a tame one by itself, any other by its deadline, whatever
\* the agent does with its pipes and whoever survives it.
TurnEnds == <>(driver = "done")

=============================================================================
