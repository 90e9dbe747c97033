-------------------------- MODULE TurnRunnerProofs --------------------------
(* Proofs about TurnRunner, for prompts, pipes and streams of any size.    *)
EXTENDS TurnRunner, SequenceTheorems, TLAPS

-----------------------------------------------------------------------------
(* Types.                                                                  *)

\* The strengthening: an exit comes with a status, and a complaint is begun
\* within its bound.
Typed ==
    /\ TypeOK
    /\ process = "exited" => status \in Codes
    /\ saying = Complaint => complaints < MaxComplaints

\* The verdict is one of the errors of a turn.
LEMMA VerdictTyped == TypeOK => Verdict \in Errors
  BY DEF TypeOK, Verdict, Errors, Results

\* The types hold initially.
LEMMA TypedInit == Init => Typed
<1> SUFFICES ASSUME Init PROVE Typed
  OBVIOUS
<1>1. << >> \in Seq(Lines) /\ << >> \in Seq(Lines \cup {Eof}) /\ Len(<< >>) = 0
  OBVIOUS
<1>2. None # Complaint
  BY NoneAssumption
<1>3. /\ stdout \in Seq(Lines) /\ Len(stdout) <= StdoutRoom
      /\ lines \in Seq(Lines \cup {Eof})
      /\ emitted \in Seq(Lines) /\ forwarded \in Seq(Lines)
  BY <1>1, SizeAssumption DEF Init
<1>4. /\ toWrite \in 0 .. PromptSize /\ stdin \in 0 .. StdinRoom
      /\ stderr \in 0 .. StderrRoom /\ complaints \in 0 .. MaxComplaints
  BY SizeAssumption DEF Init
<1> QED BY <1>2, <1>3, <1>4 DEF Init, Typed, TypeOK

\* Taking the first element of a sequence, and adding one at its end.
LEMMA QueueTyped ==
    ASSUME NEW S, NEW q \in Seq(S)
    PROVE  /\ \A x \in S : Append(q, x) \in Seq(S) /\ Len(Append(q, x)) = Len(q) + 1
           /\ q # << >> => /\ Head(q) \in S /\ Tail(q) \in Seq(S)
                           /\ Len(Tail(q)) = Len(q) - 1
<1>1. \A x \in S : Append(q, x) \in Seq(S) /\ Len(Append(q, x)) = Len(q) + 1
  OBVIOUS
<1>2. q # << >> => /\ Head(q) \in S /\ Tail(q) \in Seq(S) /\ Len(Tail(q)) = Len(q) - 1
  BY HeadTailProperties
<1> QED BY <1>1, <1>2

\* The driver's steps before it reads keep the types.
LEMMA TypedLaunch ==
    ASSUME Typed, Launch \/ LaunchFails \/ WritePrompt \/ PromptDone
    PROVE  Typed'
<1>1. CASE Launch
  BY <1>1 DEF Launch, Typed, TypeOK, dueVars, readVars
<1>2. CASE LaunchFails
  BY <1>2, NoneAssumption DEF LaunchFails, Typed, TypeOK, Errors, agentVars, dueVars, readVars
<1>3. CASE WritePrompt
  BY <1>3, SizeAssumption DEF WritePrompt, Typed, TypeOK, agentVars, dueVars, readVars
<1>4. CASE PromptDone
  BY <1>4 DEF PromptDone, Typed, TypeOK, agentVars, dueVars, readVars
<1> QED BY <1>1, <1>2, <1>3, <1>4

\* So do those that read.
LEMMA TypedRead ==
    ASSUME Typed, CheckDeadlines \/ GetTimesOut \/ HandleItem
    PROVE  Typed'
<1>1. CASE CheckDeadlines
  BY <1>1 DEF CheckDeadlines, Typed, TypeOK, agentVars, dueVars, readVars
<1>2. CASE GetTimesOut
  BY <1>2 DEF GetTimesOut, Typed, TypeOK, agentVars, dueVars, readVars
<1>3. CASE HandleItem
  <2>0. lines \in Seq(Lines \cup {Eof}) /\ lines # << >> /\ forwarded \in Seq(Lines)
    BY <1>3 DEF HandleItem, Typed, TypeOK
  <2>1. lines' \in Seq(Lines \cup {Eof})
    BY <1>3, <2>0, QueueTyped DEF HandleItem
  <2>2. Head(lines) # Eof => Head(lines) \in Lines
    BY <2>0, QueueTyped
  <2>3. forwarded' \in Seq(Lines)
    BY <1>3, <2>0, <2>2, QueueTyped DEF HandleItem, readVars
  <2>4. started' \in BOOLEAN /\ result' \in Results \cup {None}
    BY <1>3 DEF HandleItem, readVars, Typed, TypeOK
  <2>5. driver' \in {"wait", "check"} /\ error = None
    BY <1>3 DEF HandleItem, Typed, TypeOK
  <2> QED BY <1>3, <2>1, <2>3, <2>4, <2>5
          DEF HandleItem, Typed, TypeOK, agentVars, dueVars
<1> QED BY <1>1, <1>2, <1>3

\* So do those that end the turn.
LEMMA TypedFinish ==
    ASSUME Typed, Reap \/ GraceExpires \/ Kill \/ JoinReaders
    PROVE  Typed'
<1>1. CASE Reap
  BY <1>1 DEF Reap, Typed, TypeOK, agentVars, dueVars, readVars
<1>2. CASE GraceExpires
  BY <1>2 DEF GraceExpires, Typed, TypeOK, agentVars, dueVars, readVars
<1>3. CASE Kill
  BY <1>3, SizeAssumption, NoneAssumption DEF Kill, Typed, TypeOK, dueVars, readVars
<1>4. CASE JoinReaders
  <2>1. error' \in Errors /\ error' # None
    BY <1>4, VerdictTyped, NoneAssumption DEF JoinReaders, Typed
  <2> QED BY <1>4, <2>1 DEF JoinReaders, Typed, TypeOK, agentVars, dueVars, readVars
<1> QED BY <1>1, <1>2, <1>3, <1>4

\* So do the reader threads.
LEMMA TypedReaders ==
    ASSUME Typed, PumpLine \/ PumpEnds \/ DrainLine \/ DrainEnds
    PROVE  Typed'
<1>0. lines \in Seq(Lines \cup {Eof}) /\ stdout \in Seq(Lines)
  BY DEF Typed, TypeOK
<1>1. CASE PumpLine
  <2>1. Head(stdout) \in Lines /\ stdout' \in Seq(Lines) /\ Len(stdout') <= StdoutRoom
    BY <1>0, <1>1, QueueTyped, SizeAssumption DEF PumpLine, Typed, TypeOK
  <2>2. lines' \in Seq(Lines \cup {Eof})
    <3>1. Append(lines, Eof) \in Seq(Lines \cup {Eof})
      BY <1>0
    <3>2. Append(lines, Head(stdout)) \in Seq(Lines \cup {Eof})
      BY <1>0, <2>1
    <3> QED BY <1>1, <3>1, <3>2 DEF PumpLine
  <2> QED BY <1>1, <2>1, <2>2 DEF PumpLine, Typed, TypeOK, agentVars, dueVars, readVars
<1>2. CASE PumpEnds
  <2>1. lines' \in Seq(Lines \cup {Eof})
    BY <1>0, <1>2, QueueTyped DEF PumpEnds
  <2> QED BY <1>2, <2>1 DEF PumpEnds, Typed, TypeOK, agentVars, dueVars, readVars
<1>3. CASE DrainLine
  BY <1>3, SizeAssumption DEF DrainLine, Typed, TypeOK, agentVars, dueVars, readVars
<1>4. CASE DrainEnds
  BY <1>4 DEF DrainEnds, Typed, TypeOK, agentVars, dueVars, readVars
<1> QED BY <1>1, <1>2, <1>3, <1>4

\* So do the agent and its children.
LEMMA TypedAgent == ASSUME Typed, AgentRuns PROVE Typed'
<1>1. CASE AgentReadsPrompt
  BY <1>1, SizeAssumption DEF AgentReadsPrompt, Typed, TypeOK, agentVars, dueVars, readVars
<1>2. CASE AgentSpeaks
  <2>1. Complaint \notin Lines
    BY DEF Complaint, Lines, Results
  <2>2. saying' \in Lines \cup {Complaint}
    BY <1>2 DEF AgentSpeaks
  <2>3. saying' = Complaint => complaints < MaxComplaints
    BY <1>2, <2>1 DEF AgentSpeaks
  <2> QED BY <1>2, <2>2, <2>3 DEF AgentSpeaks, Typed, TypeOK, dueVars, readVars
<1>3. CASE AgentWrites
  <2>0. stdout \in Seq(Lines) /\ emitted \in Seq(Lines) /\ saying # None
    BY <1>3 DEF AgentWrites, Typed, TypeOK
  <2>1. saying # Complaint => saying \in Lines
    BY <2>0 DEF Typed, TypeOK
  <2>2. stdout' \in Seq(Lines) /\ emitted' \in Seq(Lines) /\ Len(stdout') <= StdoutRoom
    <3>1. CASE saying = Complaint
      BY <1>3, <2>0, <3>1 DEF AgentWrites, Typed, TypeOK
    <3>2. CASE saying # Complaint
      <4>1. /\ stdout' = Append(stdout, saying) /\ emitted' = Append(emitted, saying)
            /\ Len(stdout) < StdoutRoom
        BY <1>3, <3>2 DEF AgentWrites
      <4>2. Append(stdout, saying) \in Seq(Lines) /\ Append(emitted, saying) \in Seq(Lines)
            /\ Len(Append(stdout, saying)) = Len(stdout) + 1 /\ Len(stdout) \in Nat
        BY <2>0, <2>1, <3>2
      <4> QED BY <4>1, <4>2, SizeAssumption
    <3> QED BY <3>1, <3>2
  <2>3. stderr' \in 0 .. StderrRoom /\ complaints' \in 0 .. MaxComplaints
    BY <1>3, SizeAssumption DEF AgentWrites, Typed, TypeOK
  <2> QED BY <1>3, <2>2, <2>3, NoneAssumption DEF AgentWrites, Typed, TypeOK, dueVars, readVars
<1>4. CASE AgentExits
  BY <1>4, SizeAssumption DEF AgentExits, Typed, TypeOK, dueVars, readVars
<1>5. CASE OrphanExits
  BY <1>5, SizeAssumption DEF OrphanExits, Typed, TypeOK, dueVars, readVars
<1> QED BY <1>1, <1>2, <1>3, <1>4, <1>5 DEF AgentRuns

\* Every step keeps the types.
LEMMA TypedStep == Typed /\ [Next]_vars => Typed'
<1> SUFFICES ASSUME Typed, [Next]_vars PROVE Typed'
  OBVIOUS
<1>0. CASE InitDeadlinePasses
  BY <1>0 DEF InitDeadlinePasses, Typed, TypeOK, agentVars, readVars
<1>1. CASE TurnDeadlinePasses
  BY <1>1 DEF TurnDeadlinePasses, Typed, TypeOK, agentVars, readVars
<1>2. CASE UNCHANGED vars
  BY <1>2 DEF vars, Typed, TypeOK, agentVars, dueVars, readVars
<1> QED BY <1>0, <1>1, <1>2, TypedLaunch, TypedRead, TypedFinish, TypedReaders, TypedAgent
        DEF Next, Drive, TurnOver

\* The strengthened type invariant holds in every state.
THEOREM TypedAlways == Spec => []Typed
  BY TypedInit, TypedStep, PTL DEF Spec

\* TypeOK in every state: in particular no turn ends without a verdict, and no
\* verdict is given to a turn that goes on.
THEOREM TypeCorrect == Spec => []TypeOK
<1>1. Typed => TypeOK
  BY DEF Typed
<1> QED BY <1>1, TypedAlways, PTL

-----------------------------------------------------------------------------
(* Nobody is left behind.                                                  *)

\* The strengthening: where the driver stands, the subprocess is in the state
\* that place calls for; an agent outlives it only behind a shell; and nobody reads
\* before the prompt is written.
Fate ==
    /\ driver = "launch" => process = "none"
    /\ driver \in {"prompt", "check", "get", "wait", "kill"} => process \in {"alive", "exited"}
    /\ driver = "join" => process = "reaped"
    /\ driver = "done" => process \in {"none", "reaped"}
    /\ process \in {"exited", "reaped"} /\ ~setting.forks => agent = "gone"
    /\ driver \in {"launch", "prompt"} => pump = "idle"

\* Nothing is launched initially.
LEMMA FateInit == Init => Fate
  BY DEF Init, Fate

\* Every step keeps it: a subprocess is reaped before the readers are joined.
LEMMA FateStep == Fate /\ [Next]_vars => Fate'
<1> SUFFICES ASSUME Fate, [Next]_vars PROVE Fate'
  OBVIOUS
<1> USE DEF Fate, agentVars
<1>1. CASE Launch \/ LaunchFails \/ WritePrompt \/ PromptDone
  BY <1>1 DEF Launch, LaunchFails, WritePrompt, PromptDone
<1>2. CASE CheckDeadlines \/ GetTimesOut \/ HandleItem
  BY <1>2 DEF CheckDeadlines, GetTimesOut, HandleItem
<1>3. CASE Reap \/ GraceExpires \/ JoinReaders
  BY <1>3 DEF Reap, GraceExpires, JoinReaders
<1>4. CASE Kill
  BY <1>4 DEF Kill
<1>5. CASE PumpLine \/ PumpEnds \/ DrainLine \/ DrainEnds
  BY <1>5 DEF PumpLine, PumpEnds, DrainLine, DrainEnds
<1>6. CASE AgentReadsPrompt \/ AgentSpeaks \/ AgentWrites
  BY <1>6 DEF AgentReadsPrompt, AgentSpeaks, AgentWrites
<1>7. CASE AgentExits \/ OrphanExits
  BY <1>7 DEF AgentExits, OrphanExits
<1>8. CASE InitDeadlinePasses \/ TurnDeadlinePasses
  BY <1>8 DEF InitDeadlinePasses, TurnDeadlinePasses
<1>9. CASE UNCHANGED vars
  BY <1>9 DEF vars
<1> QED BY <1>1, <1>2, <1>3, <1>4, <1>5, <1>6, <1>7, <1>8, <1>9
        DEF Next, Drive, AgentRuns, TurnOver

\* Fate in every state.
THEOREM FateAlways == Spec => []Fate
  BY FateInit, FateStep, PTL DEF Spec

\* NoAgentLeftBehind for any prompt, pipes and stream: however a turn ends, its
\* subprocess is reaped, and only a shell can hide the agent from the kill.
THEOREM NobodyLeftBehind == Spec => []NoAgentLeftBehind
<1>1. Fate => NoAgentLeftBehind
  BY DEF Fate, NoAgentLeftBehind
<1> QED BY <1>1, FateAlways, PTL

-----------------------------------------------------------------------------
(* The stream.                                                             *)

\* The lines on their way from the agent to on_event: what was forwarded, what
\* the queue holds and, as long as the pump runs, what the pipe holds make up
\* what was emitted.  The end of the stream is the queue's last item.
Stream ==
    /\ \A k \in 1 .. Len(forwarded) :
          k <= Len(emitted) /\ forwarded[k] = emitted[k]
    /\ \A k \in 1 .. Len(lines) : lines[k] = Eof => k = Len(lines) /\ pump = "ended"
    /\ \A k \in 1 .. Len(lines) : lines[k] # Eof =>
          Len(forwarded) + k <= Len(emitted) /\ lines[k] = emitted[Len(forwarded) + k]
    /\ pump # "ended" =>
          /\ Len(emitted) = Len(forwarded) + Len(lines) + Len(stdout)
          /\ \A k \in 1 .. Len(stdout) : stdout[k] = emitted[Len(forwarded) + Len(lines) + k]

\* Nothing is on its way initially.
LEMMA StreamInit == Init => Stream
<1> SUFFICES ASSUME Init PROVE Stream
  OBVIOUS
<1>1. forwarded = << >> /\ lines = << >> /\ stdout = << >> /\ emitted = << >>
  BY DEF Init
<1>2. Len(<< >>) = 0
  OBVIOUS
<1> QED BY <1>1, <1>2 DEF Stream

\* What Head, Tail and Append do to the elements of a sequence.
LEMMA Elements ==
    ASSUME NEW S, NEW q \in Seq(S)
    PROVE  /\ Len(q) \in Nat
           /\ q # << >> => /\ Len(q) > 0 /\ Head(q) = q[1] /\ Len(Tail(q)) = Len(q) - 1
                           /\ \A k \in 1 .. Len(q) - 1 : Tail(q)[k] = q[k + 1]
           /\ \A x \in S : /\ Len(Append(q, x)) = Len(q) + 1
                           /\ Append(q, x)[Len(q) + 1] = x
                           /\ \A k \in 1 .. Len(q) : Append(q, x)[k] = q[k]
<1>1. Len(q) \in Nat
  OBVIOUS
<1>2. ASSUME q # << >>
      PROVE  /\ Len(q) > 0 /\ Head(q) = q[1] /\ Len(Tail(q)) = Len(q) - 1
             /\ \A k \in 1 .. Len(q) - 1 : Tail(q)[k] = q[k + 1]
  BY <1>2, HeadTailProperties
<1>3. ASSUME NEW x \in S
      PROVE  /\ Len(Append(q, x)) = Len(q) + 1
             /\ Append(q, x)[Len(q) + 1] = x
             /\ \A k \in 1 .. Len(q) : Append(q, x)[k] = q[k]
  OBVIOUS
<1> QED BY <1>1, <1>2, <1>3

\* The four sequences as the type invariant has them.
LEMMA StreamTyped ==
    ASSUME Typed
    PROVE  /\ forwarded \in Seq(Lines) /\ emitted \in Seq(Lines) /\ stdout \in Seq(Lines)
           /\ lines \in Seq(Lines \cup {Eof})
           /\ Len(forwarded) \in Nat /\ Len(emitted) \in Nat /\ Len(stdout) \in Nat
           /\ Len(lines) \in Nat
  BY DEF Typed, TypeOK

\* The driver takes an item: a line moves from the queue to on_event.
LEMMA StreamHandled == ASSUME Typed, Stream, HandleItem PROVE Stream'
<1>0. lines # << >> /\ lines' = Tail(lines) /\ UNCHANGED <<emitted, stdout, pump>>
  BY DEF HandleItem, agentVars
<1>1. /\ Len(lines) > 0 /\ Head(lines) = lines[1] /\ Len(lines') = Len(lines) - 1
      /\ \A k \in 1 .. Len(lines) - 1 : lines'[k] = lines[k + 1]
  BY <1>0, StreamTyped, Elements
<1>2. CASE Head(lines) = Eof
  <2>1. Len(lines) = 1 /\ pump = "ended" /\ forwarded' = forwarded
    <3>1. 1 \in 1 .. Len(lines) /\ lines[1] = Eof
      BY <1>1, <1>2, StreamTyped
    <3>2. 1 = Len(lines) /\ pump = "ended"
      BY <3>1 DEF Stream
    <3> QED BY <1>2, <3>2 DEF HandleItem, readVars
  <2>2. \A k \in 1 .. Len(lines') : FALSE
    BY <1>1, <2>1
  <2> QED BY <1>0, <2>1, <2>2 DEF Stream
<1>3. CASE Head(lines) # Eof
  <2>1. forwarded' = Append(forwarded, Head(lines)) /\ Head(lines) \in Lines
    BY <1>0, <1>3, StreamTyped, QueueTyped DEF HandleItem
  <2>2. /\ Len(forwarded') = Len(forwarded) + 1
        /\ forwarded'[Len(forwarded) + 1] = lines[1]
        /\ \A k \in 1 .. Len(forwarded) : forwarded'[k] = forwarded[k]
    BY <1>1, <2>1, StreamTyped, Elements
  <2>3. Len(forwarded) + 1 <= Len(emitted) /\ lines[1] = emitted[Len(forwarded) + 1]
    BY <1>1, <1>3, StreamTyped DEF Stream
  <2>4. \A k \in 1 .. Len(forwarded') : k <= Len(emitted) /\ forwarded'[k] = emitted[k]
    BY <2>2, <2>3, StreamTyped DEF Stream
  <2>5. \A k \in 1 .. Len(lines') : lines'[k] = lines[k + 1] /\ k + 1 \in 1 .. Len(lines)
    BY <1>1, StreamTyped
  <2>6. \A k \in 1 .. Len(lines') : lines'[k] = Eof => k = Len(lines') /\ pump = "ended"
    BY <1>1, <2>5, StreamTyped DEF Stream
  <2>7. \A k \in 1 .. Len(lines') : lines'[k] # Eof =>
           /\ Len(forwarded') + k <= Len(emitted)
           /\ lines'[k] = emitted[Len(forwarded') + k]
    <3> TAKE k \in 1 .. Len(lines')
    <3> HAVE lines'[k] # Eof
    <3>1. Len(forwarded) + (k + 1) <= Len(emitted) /\ lines[k + 1] = emitted[Len(forwarded) + (k + 1)]
      BY <2>5 DEF Stream
    <3>2. Len(forwarded) + (k + 1) = Len(forwarded') + k
      BY <2>2, StreamTyped, <1>1
    <3> QED BY <2>5, <3>1, <3>2
  <2>8. Len(forwarded') + Len(lines') = Len(forwarded) + Len(lines)
    BY <1>1, <2>2, StreamTyped
  <2> QED BY <1>0, <2>4, <2>6, <2>7, <2>8 DEF Stream
<1> QED BY <1>2, <1>3

\* The pump takes a line, or gives the stream up: it moves from pipe to queue.
LEMMA StreamPumped == ASSUME Typed, Stream, PumpLine PROVE Stream'
<1>0. /\ stdout # << >> /\ stdout' = Tail(stdout) /\ pump = "running"
      /\ UNCHANGED <<emitted, forwarded>>
  BY DEF PumpLine, agentVars, readVars
<1>1. /\ Len(stdout) > 0 /\ Head(stdout) = stdout[1] /\ Head(stdout) \in Lines
      /\ Len(stdout') = Len(stdout) - 1
      /\ \A k \in 1 .. Len(stdout) - 1 : stdout'[k] = stdout[k + 1]
  BY <1>0, StreamTyped, Elements, QueueTyped
<1>2. Eof \notin Lines
  BY DEF Eof, Lines, Results
<1>3. \A k \in 1 .. Len(lines) : lines[k] # Eof
  BY <1>0 DEF Stream
<1>4. CASE Head(stdout) = "garbled"
  <2>1. lines' = Append(lines, Eof) /\ pump' = "ended"
    BY <1>4 DEF PumpLine
  <2>2. /\ Len(lines') = Len(lines) + 1 /\ lines'[Len(lines) + 1] = Eof
        /\ \A k \in 1 .. Len(lines) : lines'[k] = lines[k]
    BY <2>1, StreamTyped, Elements
  <2> QED BY <1>0, <1>3, <2>1, <2>2, StreamTyped DEF Stream
<1>5. CASE Head(stdout) # "garbled"
  <2>1. lines' = Append(lines, Head(stdout)) /\ pump' = pump
    BY <1>5 DEF PumpLine
  <2>2. /\ Len(lines') = Len(lines) + 1 /\ lines'[Len(lines) + 1] = stdout[1]
        /\ \A k \in 1 .. Len(lines) : lines'[k] = lines[k]
    BY <2>1, <1>1, StreamTyped, Elements
  <2>3. stdout[1] = emitted[Len(forwarded) + Len(lines) + 1] /\ stdout[1] # Eof
    <3>1. 1 \in 1 .. Len(stdout)
      BY <1>1, StreamTyped
    <3>2. stdout[1] = emitted[Len(forwarded) + Len(lines) + 1]
      BY <1>0, <3>1 DEF Stream
    <3> QED BY <1>1, <1>2, <3>2
  <2>4. \A k \in 1 .. Len(lines') : /\ lines'[k] # Eof
                                     /\ Len(forwarded) + k <= Len(emitted)
                                     /\ lines'[k] = emitted[Len(forwarded) + k]
    <3> TAKE k \in 1 .. Len(lines')
    <3>1. CASE k \in 1 .. Len(lines)
      <4>1. /\ lines[k] # Eof /\ Len(forwarded) + k <= Len(emitted)
            /\ lines[k] = emitted[Len(forwarded) + k]
        BY <1>3, <3>1 DEF Stream
      <4> QED BY <2>2, <3>1, <4>1
    <3>2. CASE k = Len(lines) + 1
      <4>1. Len(emitted) = Len(forwarded) + Len(lines) + Len(stdout)
        BY <1>0 DEF Stream
      <4>2. Len(forwarded) + k <= Len(emitted) /\ Len(forwarded) + k = Len(forwarded) + Len(lines) + 1
        BY <1>1, <3>2, <4>1, StreamTyped
      <4> QED BY <2>2, <2>3, <3>2, <4>2
    <3> QED BY <2>2, <3>1, <3>2, StreamTyped
  <2>5. Len(emitted) = Len(forwarded) + Len(lines') + Len(stdout')
    BY <1>0, <1>1, <2>2, StreamTyped DEF Stream
  <2>6. \A k \in 1 .. Len(stdout') :
           stdout'[k] = emitted[Len(forwarded) + Len(lines') + k]
    <3> TAKE k \in 1 .. Len(stdout')
    <3>1. k + 1 \in 1 .. Len(stdout) /\ stdout'[k] = stdout[k + 1]
      BY <1>1, StreamTyped
    <3>2. stdout[k + 1] = emitted[Len(forwarded) + Len(lines) + (k + 1)]
      BY <1>0, <3>1 DEF Stream
    <3>3. Len(forwarded) + Len(lines) + (k + 1) = Len(forwarded) + Len(lines') + k
      BY <1>1, <2>2, StreamTyped
    <3> QED BY <3>1, <3>2, <3>3
  <2> QED BY <1>0, <2>1, <2>4, <2>5, <2>6 DEF Stream
<1> QED BY <1>4, <1>5

\* The pump ends: the queue gets its last item.
LEMMA StreamEnds == ASSUME Typed, Stream, PumpEnds PROVE Stream'
<1>1. /\ lines' = Append(lines, Eof) /\ pump = "running" /\ pump' = "ended"
      /\ UNCHANGED <<emitted, forwarded>>
  BY DEF PumpEnds, agentVars, readVars
<1>2. /\ Len(lines') = Len(lines) + 1 /\ lines'[Len(lines) + 1] = Eof
      /\ \A k \in 1 .. Len(lines) : lines'[k] = lines[k]
  BY <1>1, StreamTyped, Elements
<1>3. \A k \in 1 .. Len(lines) : lines[k] # Eof
  BY <1>1 DEF Stream
<1> QED BY <1>1, <1>2, <1>3, StreamTyped DEF Stream

\* The agent writes: what it emits is in the pipe.
LEMMA StreamWritten == ASSUME Typed, Stream, AgentWrites PROVE Stream'
<1>0. UNCHANGED <<lines, forwarded, pump>>
  BY DEF AgentWrites, readVars
<1>1. CASE UNCHANGED <<stdout, emitted>>
  BY <1>0, <1>1 DEF Stream
<1>2. CASE ~UNCHANGED <<stdout, emitted>>
  <2>1. /\ saying \in Lines
        /\ stdout' = Append(stdout, saying) /\ emitted' = Append(emitted, saying)
    BY <1>2 DEF AgentWrites, Typed, TypeOK
  <2>2. /\ Len(stdout') = Len(stdout) + 1 /\ stdout'[Len(stdout) + 1] = saying
        /\ \A k \in 1 .. Len(stdout) : stdout'[k] = stdout[k]
    BY <2>1, StreamTyped, Elements
  <2>3. /\ Len(emitted') = Len(emitted) + 1 /\ emitted'[Len(emitted) + 1] = saying
        /\ \A k \in 1 .. Len(emitted) : emitted'[k] = emitted[k]
    BY <2>1, StreamTyped, Elements
  <2>4. \A k \in 1 .. Len(forwarded) : k <= Len(emitted') /\ forwarded[k] = emitted'[k]
    BY <2>3, StreamTyped DEF Stream
  <2>5. \A k \in 1 .. Len(lines) : lines[k] # Eof =>
           Len(forwarded) + k <= Len(emitted') /\ lines[k] = emitted'[Len(forwarded) + k]
    BY <2>3, StreamTyped DEF Stream
  <2>6. ASSUME pump # "ended"
        PROVE  /\ Len(emitted') = Len(forwarded) + Len(lines) + Len(stdout')
               /\ \A k \in 1 .. Len(stdout') :
                     stdout'[k] = emitted'[Len(forwarded) + Len(lines) + k]
    <3>1. Len(emitted) = Len(forwarded) + Len(lines) + Len(stdout)
      BY <2>6 DEF Stream
    <3>2. ASSUME NEW k \in 1 .. Len(stdout')
          PROVE  stdout'[k] = emitted'[Len(forwarded) + Len(lines) + k]
      <4>1. CASE k \in 1 .. Len(stdout)
        <5>1. stdout[k] = emitted[Len(forwarded) + Len(lines) + k]
          BY <2>6, <4>1 DEF Stream
        <5>2. Len(forwarded) + Len(lines) + k \in 1 .. Len(emitted)
          BY <3>1, <4>1, StreamTyped
        <5> QED BY <2>2, <2>3, <4>1, <5>1, <5>2
      <4>2. CASE k = Len(stdout) + 1
        <5>1. Len(forwarded) + Len(lines) + k = Len(emitted) + 1
          BY <3>1, <4>2, StreamTyped
        <5> QED BY <2>2, <2>3, <4>2, <5>1
      <4> QED BY <2>2, <4>1, <4>2, StreamTyped
    <3> QED BY <2>2, <2>3, <3>1, <3>2, StreamTyped
  <2> QED BY <1>0, <2>4, <2>5, <2>6 DEF Stream
<1> QED BY <1>1, <1>2

\* Every step keeps the stream.
LEMMA StreamStep == Typed /\ Fate /\ Stream /\ [Next]_vars => Stream'
<1> SUFFICES ASSUME Typed, Fate, Stream, [Next]_vars PROVE Stream'
  OBVIOUS
<1>0. ASSUME UNCHANGED <<forwarded, emitted, lines, stdout>>, pump' = "ended" <=> pump = "ended"
      PROVE  Stream'
  BY <1>0 DEF Stream
<1> USE DEF agentVars, readVars
<1>1. CASE Launch \/ LaunchFails \/ WritePrompt
  BY <1>0, <1>1 DEF Launch, LaunchFails, WritePrompt
<1>2. CASE CheckDeadlines \/ GetTimesOut \/ Reap \/ GraceExpires \/ Kill \/ JoinReaders
  BY <1>0, <1>2 DEF CheckDeadlines, GetTimesOut, Reap, GraceExpires, Kill, JoinReaders
<1>3. CASE DrainLine \/ DrainEnds \/ InitDeadlinePasses \/ TurnDeadlinePasses
  BY <1>0, <1>3 DEF DrainLine, DrainEnds, InitDeadlinePasses, TurnDeadlinePasses
<1>4. CASE AgentReadsPrompt \/ AgentSpeaks \/ AgentExits \/ OrphanExits
  BY <1>0, <1>4 DEF AgentReadsPrompt, AgentSpeaks, AgentExits, OrphanExits
<1>5. CASE UNCHANGED vars
  BY <1>0, <1>5 DEF vars
<1>6. CASE PromptDone
  <2>1. pump # "ended" /\ pump' # "ended"
    BY <1>6 DEF PromptDone, Fate
  <2> QED BY <1>0, <1>6, <2>1 DEF PromptDone
<1> QED BY <1>1, <1>2, <1>3, <1>4, <1>5, <1>6, StreamHandled, StreamPumped, StreamEnds,
           StreamWritten DEF Next, Drive, AgentRuns, TurnOver

\* Stream in every state.
THEOREM StreamAlways == Spec => []Stream
  BY StreamInit, StreamStep, TypedAlways, FateAlways, PTL DEF Spec

-----------------------------------------------------------------------------
(* What the driver has judged.                                             *)

\* The strengthening: the result the driver has is the last event it forwarded
\* and the only result among them, and it stopped reading there.  A reaped
\* subprocess's status is final, and so is a verdict of success.
Judged ==
    /\ \A k \in 1 .. Len(forwarded) - 1 : forwarded[k] \notin Results
    /\ result = None => \A k \in 1 .. Len(forwarded) : forwarded[k] \notin Results
    /\ result # None => Len(forwarded) > 0 /\ forwarded[Len(forwarded)] = result
    /\ driver \in {"launch", "prompt", "check", "get"} => result = None
    /\ exitCode # None => driver \in {"join", "done"} /\ exitCode = status
    /\ error = "none" => /\ driver = "done" /\ result = "success"
                         /\ exitCode \in {0, None}

\* Nothing is judged initially.
LEMMA JudgedInit == Init => Judged
<1> SUFFICES ASSUME Init PROVE Judged
  OBVIOUS
<1>1. \A k \in 1 .. Len(forwarded) : FALSE
  BY DEF Init
<1>2. \A k \in 1 .. Len(forwarded) - 1 : FALSE
  BY DEF Init
<1>3. None # "none"
  BY NoneAssumption DEF Errors
<1> QED BY <1>1, <1>2, <1>3 DEF Init, Judged

\* None is neither a result nor a status nor an error.
LEMMA NoneApart == None \notin Results /\ None # 0 /\ None # 1 /\ None # "none"
  BY NoneAssumption DEF Lines, Codes, Errors

\* An event is forwarded only while there is no result yet.
LEMMA JudgedHandled == ASSUME Typed, Judged, HandleItem PROVE Judged'
<1>0. /\ lines # << >> /\ driver = "get" /\ result = None
      /\ UNCHANGED <<exitCode, error, status>>
  BY DEF HandleItem, Judged, agentVars
<1>1. error # "none" /\ exitCode = None
  BY <1>0 DEF Judged
<1>2. CASE Head(lines) = Eof
  BY <1>0, <1>1, <1>2 DEF HandleItem, Judged, readVars
<1>3. CASE Head(lines) # Eof
  <2>1. /\ forwarded' = Append(forwarded, Head(lines)) /\ Head(lines) \in Lines
        /\ result' = IF Head(lines) \in Results THEN Head(lines) ELSE result
        /\ driver' = IF Head(lines) \in Results THEN "wait" ELSE "check"
    BY <1>0, <1>3, StreamTyped, QueueTyped DEF HandleItem
  <2>2. /\ Len(forwarded') = Len(forwarded) + 1
        /\ forwarded'[Len(forwarded) + 1] = Head(lines)
        /\ \A k \in 1 .. Len(forwarded) : forwarded'[k] = forwarded[k]
    BY <2>1, StreamTyped, Elements
  <2>3. \A k \in 1 .. Len(forwarded) : forwarded[k] \notin Results
    BY <1>0 DEF Judged
  <2>4. \A k \in 1 .. Len(forwarded') - 1 : forwarded'[k] \notin Results
    BY <2>2, <2>3, StreamTyped
  <2>5. CASE Head(lines) \in Results
    <3>1. result' = Head(lines) /\ result' # None /\ driver' = "wait"
      BY <2>1, <2>5, NoneApart
    <3>2. Len(forwarded') > 0 /\ forwarded'[Len(forwarded')] = result'
      BY <2>2, <3>1, StreamTyped
    <3> QED BY <1>0, <1>1, <2>4, <3>1, <3>2 DEF Judged
  <2>6. CASE Head(lines) \notin Results
    <3>1. result' = None /\ driver' = "check"
      BY <1>0, <2>1, <2>6
    <3>2. \A k \in 1 .. Len(forwarded') : forwarded'[k] \notin Results
      <4> TAKE k \in 1 .. Len(forwarded')
      <4>1. k \in 1 .. Len(forwarded) \/ k = Len(forwarded) + 1
        BY <2>2, StreamTyped
      <4> QED BY <2>2, <2>3, <2>6, <4>1
    <3> QED BY <1>0, <1>1, <2>4, <3>1, <3>2 DEF Judged
  <2> QED BY <2>5, <2>6
<1> QED BY <1>2, <1>3

\* A verdict of success needs a result that reports it and no bad exit.
LEMMA JudgedJoined == ASSUME Typed, Judged, JoinReaders PROVE Judged'
<1>1. UNCHANGED <<forwarded, result, exitCode, status>> /\ driver' = "done" /\ error' = Verdict
  BY DEF JoinReaders, readVars, agentVars
<1>2. Verdict = "none" => result = "success" /\ exitCode \in {0, None}
  BY DEF Verdict, Typed, TypeOK, Results
<1> QED BY <1>1, <1>2 DEF Judged

\* Every step keeps what was judged.
LEMMA JudgedStep == Typed /\ Fate /\ Judged /\ [Next]_vars => Judged'
<1> SUFFICES ASSUME Typed, Fate, Judged, [Next]_vars PROVE Judged'
  OBVIOUS
<1>a. error # "none" \/ driver = "done"
  BY DEF Judged
<1>b. ASSUME UNCHANGED <<forwarded, result, exitCode, error>>, driver' = driver,
             status' = status \/ exitCode = None
      PROVE  Judged'
  BY <1>b DEF Judged
<1>c. ASSUME UNCHANGED <<forwarded, result, exitCode, error>>, driver # "done", exitCode = None,
             driver' \in {"launch", "prompt", "check", "get"}
                => driver \in {"launch", "prompt", "check", "get"}
      PROVE  Judged'
  BY <1>c DEF Judged
<1>d. driver \notin {"join", "done"} => exitCode = None
  BY DEF Judged
<1> USE DEF agentVars, readVars
<1>1. CASE Launch \/ WritePrompt \/ PromptDone
  BY <1>1, <1>c, <1>d DEF Launch, WritePrompt, PromptDone
<1>2. CASE CheckDeadlines \/ GetTimesOut \/ GraceExpires \/ Kill
  BY <1>2, <1>c, <1>d DEF CheckDeadlines, GetTimesOut, GraceExpires, Kill
<1>3. CASE LaunchFails
  <2>1. error' # "none" /\ driver' = "done" /\ UNCHANGED <<forwarded, result, exitCode, status>>
    BY <1>3 DEF LaunchFails
  <2> QED BY <2>1 DEF Judged
<1>4. CASE Reap
  <2>1. /\ exitCode' = status /\ driver = "wait" /\ driver' = "join"
        /\ UNCHANGED <<forwarded, result, error, status>>
    BY <1>4 DEF Reap
  <2> QED BY <2>1, <1>a DEF Judged
<1>5. CASE PumpLine \/ PumpEnds \/ DrainLine \/ DrainEnds
  BY <1>5, <1>b DEF PumpLine, PumpEnds, DrainLine, DrainEnds
<1>6. CASE AgentReadsPrompt \/ AgentSpeaks \/ AgentWrites \/ OrphanExits
  BY <1>6, <1>b DEF AgentReadsPrompt, AgentSpeaks, AgentWrites, OrphanExits
<1>7. CASE AgentExits
  <2>1. process = "alive" /\ UNCHANGED <<forwarded, result, exitCode, error, driver>>
    BY <1>7 DEF AgentExits
  <2>2. exitCode = None
    BY <2>1, <1>d DEF Fate
  <2> QED BY <2>1, <2>2, <1>b
<1>8. CASE InitDeadlinePasses \/ TurnDeadlinePasses
  BY <1>8, <1>b DEF InitDeadlinePasses, TurnDeadlinePasses
<1>9. CASE UNCHANGED vars
  BY <1>9, <1>b DEF vars
<1> QED BY <1>1, <1>2, <1>3, <1>4, <1>5, <1>6, <1>7, <1>8, <1>9, JudgedHandled, JudgedJoined
        DEF Next, Drive, AgentRuns, TurnOver

\* Judged in every state.
THEOREM JudgedAlways == Spec => []Judged
  BY JudgedInit, JudgedStep, TypedAlways, FateAlways, PTL DEF Spec

\* EventsForwardedInOrder for streams of any length: neither the pipe, nor the
\* queue, nor the threads lose, repeat or reorder an event, and reading stops
\* at the first result.
THEOREM EventsInOrder == Spec => []EventsForwardedInOrder
<1>1. ASSUME Typed, Stream, Judged PROVE EventsForwardedInOrder
  <2>1. Len(forwarded) <= Len(emitted)
    <3>1. CASE Len(forwarded) = 0
      BY <1>1, <3>1, StreamTyped
    <3>2. CASE Len(forwarded) # 0
      <4>1. Len(forwarded) \in 1 .. Len(forwarded)
        BY <1>1, <3>2, StreamTyped
      <4> QED BY <1>1, <4>1 DEF Stream
    <3> QED BY <3>1, <3>2
  <2>2. \A k \in 1 .. Len(forwarded) : forwarded[k] = emitted[k]
    BY <1>1 DEF Stream
  <2>3. SubSeq(forwarded, 1, Len(forwarded)) = SubSeq(emitted, 1, Len(forwarded))
    BY <1>1, <2>1, <2>2, StreamTyped
  <2>4. IsPrefix(forwarded, emitted)
    BY <2>1, <2>3 DEF IsPrefix
  <2> QED BY <1>1, <2>4 DEF Judged, EventsForwardedInOrder
<1> QED BY <1>1, TypedAlways, StreamAlways, JudgedAlways, PTL

\* SuccessIsReal for any turn: whatever the order of result, exit, end of
\* stream and deadlines, a success rests on the stream's first result, and on an
\* exit that does not contradict it.
THEOREM SuccessReal == Spec => []SuccessIsReal
<1>1. ASSUME Typed, Stream, Judged PROVE SuccessIsReal
  <2> SUFFICES ASSUME error = "none"
               PROVE  FirstResultIs("success") /\ (status = 1 => exitCode = None)
    BY DEF SuccessIsReal
  <2>1. result = "success" /\ exitCode \in {0, None} /\ result # None
    BY <1>1, NoneApart DEF Judged, Results
  <2>2. Len(forwarded) > 0 /\ forwarded[Len(forwarded)] = "success"
    BY <1>1, <2>1 DEF Judged
  <2>3. /\ Len(forwarded) \in 1 .. Len(forwarded)
        /\ \A j \in 1 .. Len(forwarded) - 1 : j \in 1 .. Len(forwarded)
    BY <1>1, <2>2, StreamTyped
  <2>4. Len(forwarded) <= Len(emitted) /\ emitted[Len(forwarded)] = "success"
    BY <1>1, <2>2, <2>3 DEF Stream
  <2>5. \A j \in 1 .. Len(forwarded) - 1 : emitted[j] \notin Results
    BY <1>1, <2>3 DEF Stream, Judged
  <2>6. Len(forwarded) \in 1 .. Len(emitted)
    BY <1>1, <2>3, <2>4, StreamTyped
  <2>7. status = 1 => exitCode = None
    BY <1>1, <2>1 DEF Judged
  <2> QED BY <2>4, <2>5, <2>6, <2>7 DEF FirstResultIs
<1> QED BY <1>1, TypedAlways, StreamAlways, JudgedAlways, PTL

-----------------------------------------------------------------------------
(* Tame turns.                                                             *)

\* Once the pump has ended in a tame turn, the queue holds the rest of the
\* stream and its end, or nothing.
WholeStreamQueued ==
    \/ /\ lines # << >> /\ lines[Len(lines)] = Eof
       /\ Len(emitted) = Len(forwarded) + Len(lines) - 1
    \/ lines = << >> /\ Len(emitted) = Len(forwarded)

\* The strengthening: in a tame turn no deadline passes and no line is garbled,
\* so the pump ends only with the stream, and the driver gives up on a result
\* only when the whole stream is forwarded.
Tame ==
    setting.tame =>
      /\ ~initDue /\ ~turnDue /\ cut = None
      /\ saying # "garbled"
      /\ \A k \in 1 .. Len(emitted) : emitted[k] # "garbled"
      /\ pump = "ended" => agent = "gone" /\ WholeStreamQueued
      /\ driver \in {"wait", "kill", "join", "done"} /\ process # "none" /\ result = None
            => pump = "ended" /\ lines = << >>

\* A turn that is over and launched something has the verdict its observations
\* call for.
Verdicts == driver = "done" /\ process # "none" => error = Verdict

\* Both hold initially.
LEMMA TameInit == Init => Tame /\ Verdicts
<1> SUFFICES ASSUME Init PROVE Tame /\ Verdicts
  OBVIOUS
<1>1. \A k \in 1 .. Len(emitted) : FALSE
  BY DEF Init
<1>2. None # "garbled"
  BY NoneAssumption DEF Lines
<1> QED BY <1>1, <1>2 DEF Init, Tame, Verdicts

\* A verdict stands, since nothing it rests on changes after it.
LEMMA VerdictsStep == Typed /\ Fate /\ Verdicts /\ [Next]_vars => Verdicts'
<1> SUFFICES ASSUME Typed, Fate, Verdicts, [Next]_vars PROVE Verdicts'
  OBVIOUS
<1>1. CASE Drive
  <2>1. CASE JoinReaders
    <3>1. Verdict' = Verdict /\ error' = Verdict
      BY <2>1 DEF JoinReaders, Verdict, readVars
    <3> QED BY <3>1 DEF Verdicts
  <2>2. CASE LaunchFails
    <3>1. process' = "none"
      BY <2>2 DEF LaunchFails, Fate
    <3> QED BY <3>1 DEF Verdicts
  <2>3. CASE ~JoinReaders /\ ~LaunchFails
    <3>1. driver' # "done"
      BY <1>1, <2>3 DEF Drive, Launch, WritePrompt, PromptDone, CheckDeadlines,
         GetTimesOut, HandleItem, Reap, GraceExpires, Kill
    <3> QED BY <3>1 DEF Verdicts
  <2> QED BY <2>1, <2>2, <2>3
<1>2. CASE ~Drive
  <2>1. UNCHANGED <<driver, error, cut, result, exitCode>> /\ (process' = process \/ process = "alive")
    BY <1>2 DEF Next, PumpLine, PumpEnds, DrainLine, DrainEnds, AgentRuns, AgentReadsPrompt,
       AgentSpeaks, AgentWrites, AgentExits, OrphanExits, InitDeadlinePasses,
       TurnDeadlinePasses, TurnOver, vars, readVars
  <2>2. Verdict' = Verdict
    BY <2>1 DEF Verdict
  <2> QED BY <2>1, <2>2 DEF Verdicts, Fate
<1> QED BY <1>1, <1>2

\* Handling an item brings the driver closer to the end of the queued stream.
LEMMA TameHandled == ASSUME Typed, Stream, Judged, Tame, HandleItem PROVE Tame'
<1> SUFFICES ASSUME setting.tame PROVE Tame'
  BY DEF HandleItem, Tame
<1>0. /\ lines # << >> /\ lines' = Tail(lines) /\ driver = "get"
      /\ UNCHANGED <<setting, initDue, turnDue, cut, saying, emitted, pump, agent, process>>
  BY DEF HandleItem, agentVars, dueVars
<1>1. /\ Len(lines) > 0 /\ Head(lines) = lines[1] /\ Len(lines') = Len(lines) - 1
      /\ \A k \in 1 .. Len(lines) - 1 : lines'[k] = lines[k + 1]
      /\ 1 \in 1 .. Len(lines) /\ lines' \in Seq(Lines \cup {Eof})
  BY <1>0, StreamTyped, Elements, QueueTyped
<1>2. CASE Head(lines) = Eof
  <2>1. Len(lines) = 1 /\ pump = "ended" /\ UNCHANGED <<forwarded, result>>
    BY <1>1, <1>2 DEF Stream, HandleItem, readVars
  <2>2. lines' = << >>
    BY <1>1, <2>1
  <2>3. agent = "gone" /\ Len(emitted) = Len(forwarded)
    BY <1>0, <2>1, StreamTyped DEF Tame, WholeStreamQueued
  <2> QED BY <1>0, <2>1, <2>2, <2>3 DEF Tame, WholeStreamQueued
<1>3. CASE Head(lines) # Eof
  <2>1. /\ forwarded' = Append(forwarded, Head(lines)) /\ Head(lines) \in Lines
        /\ result' = IF Head(lines) \in Results THEN Head(lines) ELSE result
        /\ driver' = IF Head(lines) \in Results THEN "wait" ELSE "check"
    BY <1>0, <1>3, StreamTyped, QueueTyped DEF HandleItem
  <2>2. Len(forwarded') = Len(forwarded) + 1
    BY <2>1, StreamTyped, Elements
  <2>3. driver' = "wait" => result' # None
    BY <2>1, NoneApart
  <2>4. ASSUME pump = "ended" PROVE agent = "gone" /\ WholeStreamQueued'
    <3>1. /\ agent = "gone" /\ lines[Len(lines)] = Eof
          /\ Len(emitted) = Len(forwarded) + Len(lines) - 1
      BY <1>0, <2>4 DEF Tame, WholeStreamQueued
    <3>2. Len(lines) # 1
      BY <1>1, <1>3, <3>1
    <3>3. lines' # << >> /\ lines'[Len(lines')] = Eof
      BY <1>1, <3>1, <3>2, StreamTyped
    <3>4. Len(emitted) = Len(forwarded') + Len(lines') - 1
      BY <1>1, <2>2, <3>1, StreamTyped
    <3> QED BY <1>0, <3>1, <3>3, <3>4 DEF WholeStreamQueued
  <2>5. driver' \in {"wait", "check"}
    BY <2>1
  <2> QED BY <1>0, <2>3, <2>4, <2>5 DEF Tame
<1> QED BY <1>2, <1>3

\* The pump of a tame turn ends with the stream.
LEMMA TamePumped == ASSUME Typed, Stream, Tame, PumpLine \/ PumpEnds PROVE Tame'
<1> SUFFICES ASSUME setting.tame PROVE Tame'
  BY DEF PumpLine, PumpEnds, Tame
<1>0. /\ pump = "running"
      /\ UNCHANGED <<setting, initDue, turnDue, cut, saying, emitted, agent, driver, process,
                     result, forwarded>>
  BY DEF PumpLine, PumpEnds, agentVars, dueVars, readVars
<1>1. Len(emitted) = Len(forwarded) + Len(lines) + Len(stdout)
  BY <1>0 DEF Stream
<1>2. CASE PumpLine
  <2>1. stdout # << >> /\ Len(stdout) > 0 /\ Head(stdout) = stdout[1] /\ 1 \in 1 .. Len(stdout)
    BY <1>2, StreamTyped, Elements DEF PumpLine
  <2>2. stdout[1] = emitted[Len(forwarded) + Len(lines) + 1]
    BY <1>0, <2>1 DEF Stream
  <2>3. Len(forwarded) + Len(lines) + 1 \in 1 .. Len(emitted)
    BY <1>1, <2>1, StreamTyped
  <2>4. Head(stdout) # "garbled"
    BY <2>1, <2>2, <2>3 DEF Tame
  <2>5. pump' = "running"
    BY <1>0, <1>2, <2>4 DEF PumpLine
  <2> QED BY <1>0, <2>5 DEF Tame
<1>3. CASE PumpEnds
  <2>1. lines' = Append(lines, Eof) /\ stdout = << >> /\ agent = "gone" /\ pump' = "ended"
    BY <1>3 DEF PumpEnds
  <2>2. Len(lines') = Len(lines) + 1 /\ lines'[Len(lines) + 1] = Eof
    BY <2>1, StreamTyped, Elements
  <2>3. Len(emitted) = Len(forwarded) + Len(lines') - 1 /\ lines' # << >>
    <3>1. Len(stdout) = 0
      BY <2>1
    <3>2. Len(lines') # 0
      BY <2>2, StreamTyped
    <3>3. lines' # << >>
      BY <3>2
    <3> QED BY <1>1, <2>2, <3>1, <3>3, StreamTyped
  <2>4. WholeStreamQueued'
    BY <1>0, <2>2, <2>3 DEF WholeStreamQueued
  <2>5. ~(driver \in {"wait", "kill", "join", "done"} /\ process # "none" /\ result = None)
    BY <1>0 DEF Tame
  <2> QED BY <1>0, <2>1, <2>4, <2>5 DEF Tame
<1> QED BY <1>2, <1>3

\* A tame agent writes text, and only while it lives.
LEMMA TameSpoken == ASSUME Typed, Tame, AgentSpeaks \/ AgentWrites PROVE Tame'
<1> SUFFICES ASSUME setting.tame PROVE Tame'
  BY DEF AgentSpeaks, AgentWrites, Tame
<1>0. /\ agent = "alive"
      /\ UNCHANGED <<setting, initDue, turnDue, cut, agent, driver, process, result, forwarded,
                     lines, pump>>
  BY DEF AgentSpeaks, AgentWrites, dueVars, readVars
<1>1. pump # "ended"
  BY <1>0 DEF Tame
<1>2. saying' # "garbled"
  <2>1. None # "garbled" /\ Complaint # "garbled"
    BY NoneAssumption DEF Lines, Complaint
  <2> QED BY <2>1 DEF AgentSpeaks, AgentWrites
<1>3. \A k \in 1 .. Len(emitted') : emitted'[k] # "garbled"
  <2>1. CASE emitted' = emitted
    BY <2>1 DEF Tame
  <2>2. CASE emitted' # emitted
    <3>1. emitted' = Append(emitted, saying) /\ saying \in Lines /\ saying # "garbled"
      BY <2>2 DEF AgentSpeaks, AgentWrites, Typed, TypeOK, Tame
    <3>2. /\ Len(emitted') = Len(emitted) + 1 /\ emitted'[Len(emitted) + 1] = saying
          /\ \A k \in 1 .. Len(emitted) : emitted'[k] = emitted[k]
      BY <3>1, StreamTyped, Elements
    <3>3. \A k \in 1 .. Len(emitted') : k \in 1 .. Len(emitted) \/ k = Len(emitted) + 1
      BY <3>2, StreamTyped
    <3> QED BY <3>1, <3>2, <3>3 DEF Tame
  <2> QED BY <2>1, <2>2
<1> QED BY <1>0, <1>1, <1>2, <1>3 DEF Tame

\* Every step keeps a tame turn tame.
LEMMA TameStep == Typed /\ Fate /\ Stream /\ Judged /\ Tame /\ [Next]_vars => Tame'
<1> SUFFICES ASSUME Typed, Fate, Stream, Judged, Tame, [Next]_vars, setting.tame' PROVE Tame'
  BY DEF Tame
<1>0. setting' = setting
  BY DEF Next, Drive, Launch, LaunchFails, WritePrompt, PromptDone, CheckDeadlines, GetTimesOut,
     HandleItem, Reap, GraceExpires, Kill, JoinReaders, PumpLine, PumpEnds, DrainLine, DrainEnds,
     AgentRuns, AgentReadsPrompt, AgentSpeaks, AgentWrites, AgentExits, OrphanExits,
     InitDeadlinePasses, TurnDeadlinePasses, TurnOver, vars
<1>a. ASSUME UNCHANGED <<initDue, turnDue, cut, emitted, lines, forwarded, result>>,
             saying' \in {saying, None}, pump' = "ended" => pump = "ended" /\ agent' = "gone",
             pump = "ended" => pump' = "ended",
             driver' \in {"wait", "kill", "join", "done"} /\ process' # "none"
                => driver \in {"wait", "kill", "join", "done"} /\ process # "none"
      PROVE  Tame'
  <2>1. None # "garbled"
    BY NoneAssumption DEF Lines
  <2> QED BY <1>0, <1>a, <2>1 DEF Tame, WholeStreamQueued
<1>b. pump = "ended" => agent = "gone"
  BY <1>0 DEF Tame
<1> USE DEF agentVars, readVars, dueVars
<1>1. CASE Launch
  <2>1. pump' # "ended" /\ driver' = "prompt"
    BY <1>1 DEF Launch, Fate
  <2> QED BY <1>1, <1>a, <2>1 DEF Launch, Fate
<1>2. CASE LaunchFails
  BY <1>2, <1>a, <1>b DEF LaunchFails, Fate
<1>3. CASE WritePrompt \/ PromptDone
  BY <1>3, <1>a, <1>b DEF WritePrompt, PromptDone, Fate
<1>4. CASE CheckDeadlines
  <2>1. cut = None /\ cut' = None /\ driver' = "get"
    BY <1>0, <1>4 DEF CheckDeadlines, Tame
  <2> QED BY <1>4, <1>a, <1>b, <2>1 DEF CheckDeadlines
<1>5. CASE GetTimesOut
  BY <1>5, <1>a, <1>b DEF GetTimesOut
<1>6. CASE Reap \/ GraceExpires \/ JoinReaders
  BY <1>6, <1>a, <1>b DEF Reap, GraceExpires, JoinReaders, Fate
<1>7. CASE Kill
  BY <1>7, <1>a, <1>b DEF Kill, Fate
<1>8. CASE DrainLine \/ DrainEnds \/ AgentReadsPrompt
  BY <1>8, <1>a, <1>b DEF DrainLine, DrainEnds, AgentReadsPrompt
<1>9. CASE AgentExits
  BY <1>9, <1>a, <1>b DEF AgentExits
<1>10. CASE OrphanExits
  BY <1>10, <1>a, <1>b DEF OrphanExits
<1>11. CASE InitDeadlinePasses \/ TurnDeadlinePasses
  BY <1>0, <1>11 DEF InitDeadlinePasses, TurnDeadlinePasses
<1>12. CASE UNCHANGED vars
  BY <1>12, <1>a, <1>b DEF vars
<1> QED BY <1>1, <1>2, <1>3, <1>4, <1>5, <1>6, <1>7, <1>8, <1>9, <1>10, <1>11, <1>12,
           TameHandled, TamePumped, TameSpoken DEF Next, Drive, AgentRuns, TurnOver

\* TameTurnJudgedByResult for prompts that may or may not fit, pipes and
\* streams of any size: neither threads nor pipes nor the end of the subprocess
\* change the verdict that a tame agent's first result and exit call for.
THEOREM TameTurnJudged == Spec => []TameTurnJudgedByResult
<1>1. ASSUME Typed, Stream, Judged, Tame, Verdicts PROVE TameTurnJudgedByResult
  <2> SUFFICES ASSUME driver = "done", setting.tame, process # "none"
               PROVE  \/ error = "process_exit" /\ NoResult
                      \/ error = "process_exit" /\ FirstResultIs("success") /\ status = 1
                      \/ error = "turn_failed" /\ FirstResultIs("failure")
                      \/ error = "none" /\ FirstResultIs("success")
    BY DEF TameTurnJudgedByResult
  <2>1. error = Verdict /\ cut = None
    BY <1>1 DEF Verdicts, Tame
  <2>2. CASE result = None
    <3>1. error = "process_exit"
      BY <2>1, <2>2, NoneApart DEF Verdict, Results
    <3>2. Len(emitted) = Len(forwarded)
      BY <1>1, <2>2 DEF Tame, WholeStreamQueued
    <3>3. NoResult
      BY <1>1, <2>2, <3>2 DEF Stream, Judged, NoResult
    <3> QED BY <3>1, <3>3
  <2>3. CASE result # None
    <3>1. Len(forwarded) > 0 /\ forwarded[Len(forwarded)] = result
      BY <1>1, <2>3 DEF Judged
    <3>2. Len(forwarded) \in 1 .. Len(forwarded) /\ Len(forwarded) \in 1 .. Len(emitted)
          /\ emitted[Len(forwarded)] = result
      <4>1. Len(forwarded) \in 1 .. Len(forwarded)
        BY <1>1, <3>1, StreamTyped
      <4>2. Len(forwarded) <= Len(emitted) /\ emitted[Len(forwarded)] = result
        BY <1>1, <3>1, <4>1 DEF Stream
      <4> QED BY <1>1, <4>1, <4>2, StreamTyped
    <3>3. \A j \in 1 .. Len(forwarded) - 1 : emitted[j] \notin Results
      <4> TAKE j \in 1 .. Len(forwarded) - 1
      <4>1. j \in 1 .. Len(forwarded)
        BY <1>1, StreamTyped
      <4> QED BY <1>1, <4>1 DEF Stream, Judged
    <3>4. FirstResultIs(result)
      BY <3>2, <3>3 DEF FirstResultIs
    <3>5. result \in {"success", "failure"}
      BY <1>1, <2>3 DEF Typed, TypeOK, Results
    <3>6. CASE result = "failure"
      <4>1. error = "turn_failed"
        BY <2>1, <2>3, <3>6 DEF Verdict
      <4> QED BY <3>4, <3>6, <4>1
    <3>7. CASE result = "success" /\ exitCode \in {0, None}
      <4>1. error = "none"
        BY <2>1, <2>3, <3>7 DEF Verdict
      <4> QED BY <3>4, <3>7, <4>1
    <3>8. CASE result = "success" /\ exitCode \notin {0, None}
      <4>1. error = "process_exit"
        BY <2>1, <2>3, <3>8 DEF Verdict
      <4>2. status = 1
        BY <1>1, <3>8 DEF Judged, Typed, TypeOK, Codes
      <4> QED BY <3>4, <3>8, <4>1, <4>2
    <3> QED BY <3>5, <3>6, <3>7, <3>8
  <2> QED BY <2>2, <2>3
<1> QED BY <1>1, TameInit, TameStep, VerdictsStep, TypedAlways, FateAlways, StreamAlways,
           JudgedAlways, PTL DEF Spec

-----------------------------------------------------------------------------
(* The end of a turn: what liveness under fairness rests on and safety can  *)
(* say.  Fairness promises that a thread which can go on does; the guards  *)
(* of the actions FairSpec is fair to are repeated here as state           *)
(* predicates, since ENABLED is out of the prover's reach.                 *)

Expired == turnDue \/ (initDue /\ ~started)

DriverCanGoOn ==
    \/ driver \in {"launch", "check", "kill", "join"}
    \/ /\ driver = "prompt"
       /\ toWrite = 0 \/ agent = "gone" \/ (agent = "alive" /\ stdin < StdinRoom)
    \/ driver = "get" /\ (lines # << >> \/ Expired)
    \/ driver = "wait" /\ process \in {"alive", "exited"}

PumpCanGoOn  == pump = "running" /\ (stdout # << >> \/ agent = "gone")
DrainCanGoOn == drain = "running" /\ (stderr > 0 \/ agent = "gone")

TameAgentCanGoOn ==
    /\ setting.tame /\ agent = "alive"
    /\ \/ saying = None /\ process \in {"alive", "exited", "reaped"}
       \/ saying = Complaint /\ stderr < StderrRoom
       \/ saying \notin {None, Complaint} /\ Len(stdout) < StdoutRoom

DeadlineCanPass == Reading /\ ~setting.tame /\ ~turnDue

\* A turn that is not over can go on, by an action fairness speaks of.
NeverStuck ==
    driver # "done" => \/ DriverCanGoOn \/ PumpCanGoOn \/ DrainCanGoOn
                       \/ TameAgentCanGoOn \/ DeadlineCanPass

\* The strengthening: the readers run from the first read on, and end only with
\* the stream; the end of it waits in the queue as long as the driver reads.
Threads ==
    /\ driver \in {"prompt", "check", "get"} => agent \in {"alive", "gone"}
    /\ driver \in {"check", "get"} => pump # "idle" /\ drain # "idle"
    /\ pump = "ended" /\ driver \in {"check", "get"} => lines # << >> /\ lines[Len(lines)] = Eof
    /\ setting.tame /\ drain = "ended" => agent = "gone"
    /\ driver \in {"launch", "prompt"} => drain = "idle"

\* No more of the prompt is in the pipe than was written of it.
PromptHeld == stdin + toWrite <= PromptSize

\* Nothing runs initially.
LEMMA ThreadsInit == Init => Threads /\ PromptHeld
<1>1. Init => PromptHeld
  BY SizeAssumption DEF Init, PromptHeld
<1>2. Init => Threads
  BY DEF Init, Threads
<1> QED BY <1>1, <1>2

\* The prompt moves from the driver to the pipe and from there to the agent.
LEMMA PromptStep == Typed /\ PromptHeld /\ [Next]_vars => PromptHeld'
<1> SUFFICES ASSUME Typed, PromptHeld, [Next]_vars PROVE PromptHeld'
  OBVIOUS
<1>0. stdin \in Nat /\ toWrite \in Nat /\ PromptSize \in Nat
  BY SizeAssumption DEF Typed, TypeOK
<1>1. CASE WritePrompt
  <2>1. toWrite' = toWrite - 1 /\ stdin' = stdin + 1
    BY <1>1 DEF WritePrompt
  <2>2. stdin' + toWrite' = stdin + toWrite
    BY <1>0, <2>1
  <2> QED BY <2>2 DEF PromptHeld
<1>2. CASE AgentReadsPrompt
  <2>1. toWrite' = toWrite /\ stdin' = stdin - 1
    BY <1>2 DEF AgentReadsPrompt
  <2>2. stdin' + toWrite' <= stdin + toWrite /\ stdin' + toWrite' \in Int
    BY <1>0, <2>1
  <2> QED BY <1>0, <2>2 DEF PromptHeld
<1>3. CASE Kill \/ AgentExits \/ OrphanExits
  <2>1. toWrite' = toWrite /\ (stdin' = stdin \/ stdin' = 0)
    BY <1>3 DEF Kill, AgentExits, OrphanExits
  <2>2. stdin' + toWrite' <= stdin + toWrite /\ stdin' + toWrite' \in Int
    BY <1>0, <2>1
  <2> QED BY <1>0, <2>2 DEF PromptHeld
<1>4. CASE ~(WritePrompt \/ AgentReadsPrompt \/ Kill \/ AgentExits \/ OrphanExits)
  <2>1. UNCHANGED <<toWrite, stdin>>
    BY <1>4 DEF Next, Drive, AgentRuns, Launch, LaunchFails, PromptDone, CheckDeadlines,
       GetTimesOut, HandleItem, Reap, GraceExpires, JoinReaders, PumpLine, PumpEnds, DrainLine,
       DrainEnds, AgentSpeaks, AgentWrites, InitDeadlinePasses, TurnDeadlinePasses, TurnOver, vars
  <2> QED BY <2>1 DEF PromptHeld
<1> QED BY <1>1, <1>2, <1>3, <1>4

\* An item is added at the end of the queue; the head is taken and the rest stays.
LEMMA LastItem ==
    ASSUME NEW S, NEW q \in Seq(S)
    PROVE  /\ \A x \in S : Append(q, x) # << >> /\ Append(q, x)[Len(Append(q, x))] = x
           /\ q # << >> /\ Head(q) # q[Len(q)] =>
                 Tail(q) # << >> /\ Tail(q)[Len(Tail(q))] = q[Len(q)]
<1>1. ASSUME NEW x \in S
      PROVE  Append(q, x) # << >> /\ Append(q, x)[Len(Append(q, x))] = x
  <2>1. Len(Append(q, x)) = Len(q) + 1 /\ Len(q) \in Nat
    BY AppendProperties, LenProperties
  <2>2. Append(q, x) # << >>
    BY <2>1, EmptySeq
  <2> QED BY <2>1, <2>2, AppendProperties
<1>2. ASSUME q # << >>, Head(q) # q[Len(q)]
      PROVE  Tail(q) # << >> /\ Tail(q)[Len(Tail(q))] = q[Len(q)]
  <2>1. /\ Len(q) \in Nat /\ Len(q) > 0 /\ Head(q) = q[1] /\ Len(Tail(q)) = Len(q) - 1
        /\ \A k \in 1 .. Len(q) - 1 : Tail(q)[k] = q[k + 1]
    BY <1>2, Elements
  <2>2. Len(q) > 1
    BY <1>2, <2>1
  <2>3. Len(Tail(q)) \in 1 .. Len(q) - 1 /\ Len(Tail(q)) + 1 = Len(q)
    BY <2>1, <2>2
  <2>4. Tail(q)[Len(Tail(q))] = q[Len(q)]
    BY <2>1, <2>3
  <2>5. Tail(q) # << >>
    <3>1. 0 \notin 1 .. Len(q) - 1
      BY <2>1
    <3>2. Len(<< >>) = 0
      BY EmptySeq
    <3> QED BY <2>3, <3>1, <3>2, Zenon
  <2> QED BY <2>4, <2>5
<1> QED BY <1>1, <1>2

\* The driver takes an item and reads on only if it is not the end.
LEMMA ThreadsHandled == ASSUME Typed, Threads, HandleItem PROVE Threads'
<1>0. /\ lines # << >> /\ lines' = Tail(lines) /\ driver = "get"
      /\ UNCHANGED <<setting, agent, pump, drain>>
      /\ driver' = "wait" \/ (driver' = "check" /\ Head(lines) # Eof)
  BY DEF HandleItem, agentVars
<1>1. CASE driver' = "wait"
  BY <1>0, <1>1 DEF Threads
<1>2. CASE driver' = "check" /\ Head(lines) # Eof
  <2>1. pump = "ended" => lines[Len(lines)] = Eof
    BY <1>0 DEF Threads
  <2>2. pump = "ended" => Tail(lines) # << >> /\ Tail(lines)[Len(Tail(lines))] = Eof
    BY <1>0, <1>2, <2>1, LastItem, StreamTyped
  <2> QED BY <1>0, <1>2, <2>2 DEF Threads
<1> QED BY <1>0, <1>1, <1>2

\* Every step keeps the readers at work as long as there is something to read.
LEMMA ThreadsStep == Typed /\ Fate /\ Threads /\ [Next]_vars => Threads'
<1> SUFFICES ASSUME Typed, Fate, Threads, [Next]_vars PROVE Threads'
  OBVIOUS
<1> USE DEF agentVars
<1>1. CASE Launch \/ LaunchFails \/ WritePrompt
  BY <1>1 DEF Launch, LaunchFails, WritePrompt, Threads
<1>2. CASE PromptDone
  BY <1>2 DEF PromptDone, Threads
<1>3. CASE CheckDeadlines \/ GetTimesOut
  BY <1>3 DEF CheckDeadlines, GetTimesOut, Threads
<1>4. CASE Reap \/ GraceExpires \/ JoinReaders
  BY <1>4 DEF Reap, GraceExpires, JoinReaders, Threads
<1>5. CASE Kill
  BY <1>5 DEF Kill, Threads
<1>6. CASE PumpLine
  <2>1. /\ pump = "running" /\ stdout # << >>
        /\ UNCHANGED <<setting, driver, agent, drain>>
        /\ pump' \in {"running", "ended"}
        /\ pump' = "ended" => lines' = Append(lines, Eof)
    BY <1>6 DEF PumpLine
  <2>2. pump' = "ended" => lines' # << >> /\ lines'[Len(lines')] = Eof
    <3>1. Eof \in Lines \cup {Eof}
      OBVIOUS
    <3> QED BY <2>1, <3>1, LastItem, StreamTyped
  <2> QED BY <2>1, <2>2 DEF Threads
<1>7. CASE PumpEnds
  <2>1. /\ UNCHANGED <<setting, driver, agent, drain>> /\ pump' = "ended"
        /\ pump = "running" /\ lines' = Append(lines, Eof)
    BY <1>7 DEF PumpEnds
  <2>2. lines' # << >> /\ lines'[Len(lines')] = Eof
    <3>1. Eof \in Lines \cup {Eof}
      OBVIOUS
    <3> QED BY <2>1, <3>1, LastItem, StreamTyped
  <2> QED BY <2>1, <2>2 DEF Threads
<1>8. CASE DrainLine \/ DrainEnds
  BY <1>8 DEF DrainLine, DrainEnds, Threads
<1>9. CASE AgentReadsPrompt \/ AgentSpeaks \/ AgentWrites
  BY <1>9 DEF AgentReadsPrompt, AgentSpeaks, AgentWrites, Threads
<1>10. CASE AgentExits \/ OrphanExits
  BY <1>10 DEF AgentExits, OrphanExits, Threads
<1>11. CASE InitDeadlinePasses \/ TurnDeadlinePasses
  BY <1>11 DEF InitDeadlinePasses, TurnDeadlinePasses, Threads
<1>12. CASE UNCHANGED vars
  BY <1>12 DEF vars, Threads
<1> QED BY <1>1, <1>2, <1>3, <1>4, <1>5, <1>6, <1>7, <1>8, <1>9, <1>10, <1>11, <1>12,
           ThreadsHandled
        DEF Next, Drive, AgentRuns, TurnOver

\* A turn whose prompt fits the agent's stdin pipe never comes to a stand before
\* its verdict: neither the pipes nor the threads nor the agent can block each
\* other for good, without counting on a deadline if the agent is tame.  For a larger
\* prompt they can: the run prompt_blocks shows how.
THEOREM TurnNeverStuck ==
    ASSUME PromptSize <= StdinRoom
    PROVE  Spec => []NeverStuck
<1>1. ASSUME Typed, Fate, Tame, Threads, PromptHeld PROVE NeverStuck
  <2> SUFFICES ASSUME driver # "done", ~DriverCanGoOn, ~DeadlineCanPass
               PROVE  PumpCanGoOn \/ DrainCanGoOn \/ TameAgentCanGoOn
    BY DEF NeverStuck
  <2>1. driver # "prompt"
    <3> SUFFICES ASSUME driver = "prompt", toWrite # 0, agent # "gone" PROVE FALSE
      BY DEF DriverCanGoOn
    <3>1. agent = "alive"
      BY <1>1 DEF Threads
    <3>2. stdin \in Nat /\ toWrite \in Nat /\ PromptSize \in Nat /\ StdinRoom \in Nat
      BY <1>1, SizeAssumption DEF Typed, TypeOK
    <3>3. stdin < StdinRoom
      BY <1>1, <3>2 DEF PromptHeld
    <3> QED BY <3>1, <3>3 DEF DriverCanGoOn
  <2>2. driver = "get" /\ lines = << >> /\ ~Expired
    BY <1>1, <2>1 DEF DriverCanGoOn, Typed, TypeOK, Fate
  <2>3. setting.tame
    BY <1>1, <2>2 DEF DeadlineCanPass, Reading, Expired
  <2>4. pump = "running" /\ drain \in {"running", "ended"} /\ agent \in {"alive", "gone"}
    BY <1>1, <2>2 DEF Threads, Typed, TypeOK
  <2>5. CASE agent = "gone" \/ stdout # << >>
    BY <2>4, <2>5 DEF PumpCanGoOn
  <2>6. CASE agent = "alive" /\ stdout = << >>
    <3>1. drain = "running"
      BY <1>1, <2>3, <2>4, <2>6 DEF Threads
    <3>2. Len(stdout) < StdoutRoom
      BY <2>6, SizeAssumption, EmptySeq
    <3>3. stderr < StderrRoom \/ stderr > 0
      BY <1>1, SizeAssumption DEF Typed, TypeOK
    <3>4. process \in {"alive", "exited"}
      BY <1>1, <2>2 DEF Fate
    <3> QED BY <2>3, <2>6, <3>1, <3>2, <3>3, <3>4 DEF DrainCanGoOn, TameAgentCanGoOn
  <2> QED BY <2>4, <2>5, <2>6
<1>2. Spec => [](Typed /\ Fate /\ Tame /\ Threads /\ PromptHeld)
  BY TypedAlways, FateAlways, StreamAlways, JudgedAlways, TameInit, TameStep,
     ThreadsInit, ThreadsStep, PromptStep, PTL DEF Spec
<1> QED BY <1>1, <1>2, PTL

\* What is left to do in a turn, with weights: what moves on becomes lighter, and
\* what is begun outweighs what becomes of it.
DriverWork ==
    CASE driver = "launch" -> 90 [] driver = "prompt" -> 80
      [] driver = "check" -> IF Expired THEN 20 ELSE 30
      [] driver = "get" -> 25 [] driver = "wait" -> 15
      [] driver = "kill" -> 10 [] driver = "join" -> 5 [] OTHER -> 0
PromptWork    == 2 * toWrite + stdin
StreamWork    == 40 * (MaxLines - Len(emitted)) + 30 * Len(stdout) + 20 * Len(lines)
ComplaintWork == 3 * (MaxComplaints - complaints) + stderr
SayingWork    == IF saying = None THEN 1 ELSE 0
ReaderWork    == (IF pump = "ended" THEN 0 ELSE 40) + (IF drain = "ended" THEN 0 ELSE 1)
AgentWork     == (IF process \in {"none", "alive"} THEN 1 ELSE 0) + (IF agent = "gone" THEN 0 ELSE 3)
TimeWork      == (IF initDue THEN 0 ELSE 1) + (IF turnDue THEN 0 ELSE 1)

Work == DriverWork + PromptWork + StreamWork + ComplaintWork + SayingWork + ReaderWork
          + AgentWork + TimeWork

\* Every step of anybody leaves less to do, and what is left to do is never negative.
EveryStepCounts == [][Work' \in Nat /\ Work' < Work]_vars

\* The agent writes no more than its bound.
Spoken == Len(emitted) <= MaxLines /\ (saying \in Lines => Len(emitted) < MaxLines)

\* Nothing is said initially.
LEMMA SpokenInit == Init => Spoken
  BY SizeAssumption, EmptySeq, NoneAssumption DEF Init, Spoken

\* A line is begun only below the bound, and written once.
LEMMA SpokenStep == Typed /\ Spoken /\ [Next]_vars => Spoken'
<1> SUFFICES ASSUME Typed, Spoken, [Next]_vars PROVE Spoken'
  OBVIOUS
<1>0. Len(emitted) \in Nat /\ MaxLines \in Nat /\ emitted \in Seq(Lines)
  BY StreamTyped, SizeAssumption
<1>a. Complaint \notin Lines /\ None \notin Lines
  BY NoneAssumption DEF Complaint, Lines, Results
<1>1. CASE AgentSpeaks
  <2>1. emitted' = emitted /\ (saying' \in Lines => Len(emitted) < MaxLines)
    BY <1>1, <1>a DEF AgentSpeaks
  <2> QED BY <2>1 DEF Spoken
<1>2. CASE AgentWrites
  <2>1. saying' = None
    BY <1>2 DEF AgentWrites
  <2>2. CASE emitted' = emitted
    BY <2>1, <2>2, <1>a DEF Spoken
  <2>3. CASE saying \notin {None, Complaint} /\ emitted' = Append(emitted, saying)
    <3>1. saying \in Lines
      BY <2>3 DEF Typed, TypeOK
    <3>2. Len(emitted') = Len(emitted) + 1
      BY <1>0, <2>3, <3>1, QueueTyped
    <3>3. Len(emitted) < MaxLines
      BY <3>1 DEF Spoken
    <3> QED BY <1>0, <1>a, <2>1, <3>2, <3>3 DEF Spoken
  <2>4. saying # None
    BY <1>2 DEF AgentWrites
  <2> QED BY <1>2, <2>2, <2>3, <2>4 DEF AgentWrites
<1>3. CASE Kill \/ AgentExits \/ OrphanExits
  <2>1. emitted' = emitted /\ (saying' = saying \/ saying' = None)
    BY <1>3 DEF Kill, AgentExits, OrphanExits
  <2> QED BY <2>1, <1>a DEF Spoken
<1>4. CASE ~(AgentSpeaks \/ AgentWrites \/ Kill \/ AgentExits \/ OrphanExits)
  <2>1. UNCHANGED <<emitted, saying>>
    BY <1>4 DEF Next, Drive, AgentRuns, Launch, LaunchFails, WritePrompt, PromptDone, CheckDeadlines,
       GetTimesOut, HandleItem, Reap, GraceExpires, JoinReaders, PumpLine, PumpEnds, DrainLine,
       DrainEnds, AgentReadsPrompt, InitDeadlinePasses, TurnDeadlinePasses, TurnOver, vars, agentVars
  <2> QED BY <2>1 DEF Spoken
<1> QED BY <1>1, <1>2, <1>3, <1>4

\* Every part of the work is a natural number.
WorkNatural ==
    /\ DriverWork \in Nat /\ PromptWork \in Nat /\ StreamWork \in Nat
    /\ ComplaintWork \in Nat /\ SayingWork \in Nat /\ ReaderWork \in Nat
    /\ AgentWork \in Nat /\ TimeWork \in Nat

LEMMA WorkTyped == Typed /\ Spoken => WorkNatural
<1> SUFFICES ASSUME Typed, Spoken PROVE WorkNatural
  OBVIOUS
<1>1. DriverWork \in Nat
  BY DEF DriverWork
<1>2. PromptWork \in Nat
  BY SizeAssumption DEF PromptWork, Typed, TypeOK
<1>3. StreamWork \in Nat
  <2>1. MaxLines - Len(emitted) \in Nat
    BY StreamTyped, SizeAssumption DEF Spoken
  <2> QED BY <2>1, StreamTyped DEF StreamWork
<1>4. ComplaintWork \in Nat
  <2>1. MaxComplaints - complaints \in Nat /\ stderr \in Nat
    BY SizeAssumption DEF Typed, TypeOK
  <2> QED BY <2>1 DEF ComplaintWork
<1>5. SayingWork \in Nat /\ ReaderWork \in Nat /\ AgentWork \in Nat /\ TimeWork \in Nat
  BY DEF SayingWork, ReaderWork, AgentWork, TimeWork
<1> QED BY <1>1, <1>2, <1>3, <1>4, <1>5 DEF WorkNatural

\* Every step leaves less to do.  The parts of the work get short names, so that
\* each action is a line of sums: what it adds to and takes from which part.
LEMMA WorkFalls ==
    ASSUME Typed, Spoken, WorkNatural, WorkNatural', Next, ~TurnOver
    PROVE  Work' < Work
<1> DEFINE d == DriverWork  D == DriverWork' s == StreamWork S == StreamWork'
           y == SayingWork  Y == SayingWork' r == ReaderWork R == ReaderWork'
           p == PromptWork  P == PromptWork' c == ComplaintWork C == ComplaintWork'
           a == AgentWork   A == AgentWork' t == TimeWork T == TimeWork'
<1>1. d \in Int /\ s \in Int /\ y \in Int /\ r \in Int /\ p \in Int /\ c \in Int /\ a \in Int /\ t \in Int
  BY DEF WorkNatural
<1>2. D \in Int /\ S \in Int /\ Y \in Int /\ R \in Int /\ P \in Int /\ C \in Int /\ A \in Int /\ T \in Int
  BY DEF WorkNatural
<1>3. Work = d + p + s + c + y + r + a + t /\ Work' = D + P + S + C + Y + R + A + T
  BY DEF Work
<1>4. Typed /\ Len(emitted) \in Nat /\ Len(stdout) \in Nat /\ Len(lines) \in Nat /\ MaxLines \in Nat
      /\ complaints \in Nat /\ stderr \in Nat /\ MaxComplaints \in Nat /\ toWrite \in Nat /\ stdin \in Nat
  BY StreamTyped, SizeAssumption DEF Typed, TypeOK
<1> HIDE DEF d, D, s, S, y, Y, r, R, p, P, c, C, a, A, t, T
\* The parts an action leaves alone.
<1>e. /\ UNCHANGED <<driver, dueVars, started>> => D = d
      /\ UNCHANGED <<toWrite, stdin>> => P = p
      /\ UNCHANGED <<emitted, stdout, lines>> => S = s
      /\ UNCHANGED <<complaints, stderr>> => C = c
      /\ UNCHANGED saying => Y = y
      /\ UNCHANGED <<pump, drain>> => R = r
      /\ UNCHANGED <<process, agent>> => A = a
      /\ UNCHANGED dueVars => T = t
  BY DEF d, D, s, S, y, Y, r, R, p, P, c, C, a, A, t, T, DriverWork, PromptWork, StreamWork, ComplaintWork,
         SayingWork, ReaderWork, AgentWork, TimeWork, Expired, dueVars
<1> USE DEF agentVars, dueVars, readVars
<1>5. CASE Launch
  <2>1. D = d - 10 /\ A <= a + 4 /\ P = p /\ S = s /\ C = c /\ Y = y /\ R = r /\ T = t
    BY <1>5, <1>4, <1>e DEF Launch, d, D, DriverWork, Expired, a, A, AgentWork
  <2> QED BY <1>1, <1>2, <1>3, <2>1
<1>6. CASE LaunchFails
  <2>1. D = d - 90 /\ A = a /\ P = p /\ S = s /\ C = c /\ Y = y /\ R = r /\ T = t
    BY <1>6, <1>4, <1>e DEF LaunchFails, d, D, DriverWork, Expired
  <2> QED BY <1>1, <1>2, <1>3, <2>1
<1>7. CASE WritePrompt
  <2>1. P <= p - 1 /\ D = d /\ A = a /\ S = s /\ C = c /\ Y = y /\ R = r /\ T = t
    BY <1>7, <1>4, <1>e DEF WritePrompt, p, P, PromptWork
  <2> QED BY <1>1, <1>2, <1>3, <2>1
<1>8. CASE PromptDone
  <2>1. P = p /\ A = a /\ S = s /\ C = c /\ Y = y /\ T = t
    BY <1>8, <1>e DEF PromptDone
  <2>2. D <= d - 50
    BY <1>8 DEF PromptDone, d, D, DriverWork
  <2>3. R <= r + 41
    BY DEF r, R, ReaderWork
  <2> QED BY <1>1, <1>2, <1>3, <2>1, <2>2, <2>3
<1>9. CASE CheckDeadlines
  <2>1. P = p /\ A = a /\ S = s /\ C = c /\ Y = y /\ R = r /\ T = t
    BY <1>9, <1>e DEF CheckDeadlines
  <2>2. driver = "check" /\ driver' = IF Expired THEN "kill" ELSE "get"
    BY <1>9, NoneAssumption DEF CheckDeadlines, Expired, Errors
  <2>3. D <= d - 5
    BY <2>2 DEF d, D, DriverWork
  <2> QED BY <1>1, <1>2, <1>3, <2>1, <2>3
<1>10. CASE GetTimesOut
  <2>1. D <= d - 5 /\ P = p /\ A = a /\ S = s /\ C = c /\ Y = y /\ R = r /\ T = t
    BY <1>10, <1>4, <1>e DEF GetTimesOut, d, D, DriverWork, Expired
  <2> QED BY <1>1, <1>2, <1>3, <2>1
<1>11. CASE HandleItem
  <2>1. P = p /\ A = a /\ C = c /\ Y = y /\ R = r /\ T = t
    BY <1>11, <1>e DEF HandleItem
  <2>2. driver = "get" /\ driver' \in {"wait", "check"}
    BY <1>11 DEF HandleItem
  <2>3. D <= d + 5
    BY <2>2 DEF d, D, DriverWork
  <2>4. Len(lines') = Len(lines) - 1 /\ UNCHANGED <<stdout, emitted>>
    BY <1>11, StreamTyped, Elements DEF HandleItem
  <2>5. S = s - 20
    BY <1>4, <2>4 DEF s, S, StreamWork
  <2> QED BY <1>1, <1>2, <1>3, <2>1, <2>3, <2>5
<1>12. CASE Reap
  <2>1. D <= d - 10 /\ A = a /\ P = p /\ S = s /\ C = c /\ Y = y /\ R = r /\ T = t
    BY <1>12, <1>4, <1>e DEF Reap, d, D, DriverWork, Expired, a, A, AgentWork
  <2> QED BY <1>1, <1>2, <1>3, <2>1
<1>13. CASE GraceExpires
  <2>1. D <= d - 5 /\ P = p /\ A = a /\ S = s /\ C = c /\ Y = y /\ R = r /\ T = t
    BY <1>13, <1>4, <1>e DEF GraceExpires, d, D, DriverWork, Expired
  <2> QED BY <1>1, <1>2, <1>3, <2>1
<1>14. CASE Kill
  <2>1. S = s /\ C = c /\ R = r /\ T = t
    BY <1>14, <1>e DEF Kill
  <2>2. D = d - 5
    BY <1>14 DEF Kill, d, D, DriverWork
  <2>3. A <= a
    BY <1>14, <1>4 DEF Kill, a, A, AgentWork, Typed, TypeOK
  <2>4. Y <= y + 1
    BY DEF y, Y, SayingWork
  <2>5. P <= p
    <3>1. toWrite' = toWrite /\ (stdin' = stdin \/ stdin' = 0)
      BY <1>14 DEF Kill
    <3> QED BY <1>4, <3>1 DEF p, P, PromptWork
  <2> QED BY <1>1, <1>2, <1>3, <2>1, <2>2, <2>3, <2>4, <2>5
<1>15. CASE JoinReaders
  <2>1. D <= d - 5 /\ P = p /\ A = a /\ S = s /\ C = c /\ Y = y /\ R = r /\ T = t
    BY <1>15, <1>4, <1>e DEF JoinReaders, d, D, DriverWork, Expired
  <2> QED BY <1>1, <1>2, <1>3, <2>1
<1>16. CASE PumpLine
  <2>1. D = d /\ P = p /\ A = a /\ C = c /\ Y = y /\ T = t
    BY <1>16, <1>e DEF PumpLine
  <2>2. R <= r
    BY <1>16 DEF PumpLine, r, R, ReaderWork
  <2>3. /\ Len(stdout') = Len(stdout) - 1 /\ emitted' = emitted
        /\ \E x \in Lines \cup {Eof} : lines' = Append(lines, x)
    BY <1>16, StreamTyped, Elements DEF PumpLine
  <2>4. Len(lines') = Len(lines) + 1
    BY <2>3, StreamTyped, AppendProperties
  <2>5. S = s - 10
    BY <1>4, <2>3, <2>4 DEF s, S, StreamWork
  <2> QED BY <1>1, <1>2, <1>3, <2>1, <2>2, <2>5
<1>17. CASE PumpEnds
  <2>1. D = d /\ P = p /\ A = a /\ C = c /\ Y = y /\ T = t
    BY <1>17, <1>e DEF PumpEnds
  <2>2. R = r - 40
    BY <1>17 DEF PumpEnds, r, R, ReaderWork
  <2>3. Len(lines') = Len(lines) + 1 /\ UNCHANGED <<stdout, emitted>>
    BY <1>17, StreamTyped, AppendProperties DEF PumpEnds
  <2>4. S = s + 20
    BY <1>4, <2>3 DEF s, S, StreamWork
  <2> QED BY <1>1, <1>2, <1>3, <2>1, <2>2, <2>4
<1>18. CASE DrainLine
  <2>1. D = d /\ P = p /\ A = a /\ S = s /\ Y = y /\ T = t
    BY <1>18, <1>e DEF DrainLine
  <2>2. R <= r
    BY <1>18 DEF DrainLine, r, R, ReaderWork
  <2>3. C = c - 1
    BY <1>18, <1>4 DEF DrainLine, c, C, ComplaintWork
  <2> QED BY <1>1, <1>2, <1>3, <2>1, <2>2, <2>3
<1>19. CASE DrainEnds
  <2>1. R = r - 1 /\ D = d /\ P = p /\ A = a /\ S = s /\ C = c /\ Y = y /\ T = t
    BY <1>19, <1>4, <1>e DEF DrainEnds, r, R, ReaderWork
  <2> QED BY <1>1, <1>2, <1>3, <2>1
<1>20. CASE AgentReadsPrompt
  <2>1. P = p - 1 /\ D = d /\ A = a /\ S = s /\ C = c /\ Y = y /\ R = r /\ T = t
    BY <1>20, <1>4, <1>e DEF AgentReadsPrompt, p, P, PromptWork
  <2> QED BY <1>1, <1>2, <1>3, <2>1
<1>21. CASE AgentSpeaks
  <2>1. D = d /\ P = p /\ A = a /\ S = s /\ C = c /\ R = r /\ T = t
    BY <1>21, <1>e DEF AgentSpeaks
  <2>2. saying = None /\ saying' # None
    BY <1>21, NoneAssumption DEF AgentSpeaks
  <2>3. Y = y - 1
    BY <2>2 DEF y, Y, SayingWork
  <2> QED BY <1>1, <1>2, <1>3, <2>1, <2>3
<1>22. CASE AgentWrites
  <2>1. D = d /\ P = p /\ A = a /\ R = r /\ T = t
    BY <1>22, <1>e DEF AgentWrites
  <2>2. Y = y + 1
    BY <1>22 DEF AgentWrites, y, Y, SayingWork
  <2>3. CASE saying = Complaint
    <3>1. stderr' = stderr + 1 /\ complaints' = complaints + 1 /\ UNCHANGED <<emitted, stdout, lines>>
      BY <1>22, <2>3 DEF AgentWrites
    <3>2. C = c - 2
      BY <1>4, <3>1 DEF c, C, ComplaintWork
    <3>3. S = s
      BY <3>1, <1>e
    <3> QED BY <1>1, <1>2, <1>3, <2>1, <2>2, <3>2, <3>3
  <2>4. CASE saying # Complaint
    <3>1. /\ stdout' = Append(stdout, saying) /\ emitted' = Append(emitted, saying)
          /\ UNCHANGED <<stderr, complaints, lines>> /\ saying \in Lines
      BY <1>22, <1>4, <2>4 DEF AgentWrites, Typed, TypeOK
    <3>2. Len(stdout') = Len(stdout) + 1 /\ Len(emitted') = Len(emitted) + 1
      BY <3>1, StreamTyped, AppendProperties
    <3>3. S = s - 10
      BY <1>4, <3>1, <3>2 DEF s, S, StreamWork
    <3>4. C = c
      BY <3>1, <1>e
    <3> QED BY <1>1, <1>2, <1>3, <2>1, <2>2, <3>3, <3>4
  <2> QED BY <2>3, <2>4
<1>23. CASE AgentExits
  <2>1. D = d /\ S = s /\ C = c /\ Y = y /\ R = r /\ T = t
    BY <1>23, <1>e DEF AgentExits
  <2>2. A <= a - 1
    BY <1>23 DEF AgentExits, a, A, AgentWork
  <2>3. toWrite' = toWrite /\ (stdin' = stdin \/ stdin' = 0)
    BY <1>23 DEF AgentExits
  <2>4. P <= p
    BY <1>4, <2>3 DEF p, P, PromptWork
  <2> QED BY <1>1, <1>2, <1>3, <2>1, <2>2, <2>4
<1>24. CASE OrphanExits
  <2>1. D = d /\ S = s /\ C = c /\ Y = y /\ R = r /\ T = t
    BY <1>24, <1>e DEF OrphanExits
  <2>2. A = a - 3
    BY <1>24 DEF OrphanExits, a, A, AgentWork
  <2>3. P <= p
    BY <1>24, <1>4 DEF OrphanExits, p, P, PromptWork
  <2> QED BY <1>1, <1>2, <1>3, <2>1, <2>2, <2>3
<1>25. CASE InitDeadlinePasses
  <2>1. P = p /\ A = a /\ S = s /\ C = c /\ Y = y /\ R = r
    BY <1>25, <1>e DEF InitDeadlinePasses
  <2>2. T = t - 1
    BY <1>25 DEF InitDeadlinePasses, t, T, TimeWork
  <2>3. D <= d
    BY <1>25 DEF InitDeadlinePasses, Reading, d, D, DriverWork, Expired
  <2> QED BY <1>1, <1>2, <1>3, <2>1, <2>2, <2>3
<1>26. CASE TurnDeadlinePasses
  <2>1. P = p /\ A = a /\ S = s /\ C = c /\ Y = y /\ R = r
    BY <1>26, <1>e DEF TurnDeadlinePasses
  <2>2. T = t - 1
    BY <1>26 DEF TurnDeadlinePasses, t, T, TimeWork
  <2>3. D <= d
    BY <1>26 DEF TurnDeadlinePasses, Reading, d, D, DriverWork, Expired
  <2> QED BY <1>1, <1>2, <1>3, <2>1, <2>2, <2>3
<1> QED BY <1>5, <1>6, <1>7, <1>8, <1>9, <1>10, <1>11, <1>12, <1>13, <1>14, <1>15, <1>16, <1>17,
           <1>18, <1>19, <1>20, <1>21, <1>22, <1>23, <1>24, <1>25, <1>26
        DEF Next, Drive, AgentRuns

\* A turn is finite: whatever the interleaving, every step that is one leaves less
\* to do, and what is left to do is a natural number.  With TurnNeverStuck, a turn
\* whose prompt fits its pipe has after at most Work steps its verdict or a step
\* that fairness promises: the part of TurnEnds that is not about fairness.
THEOREM TurnFinite == Spec => EveryStepCounts
<1>1. Typed /\ Spoken /\ [Next]_vars => Typed' /\ Spoken'
  BY TypedStep, SpokenStep
<1>2. Typed /\ Spoken /\ Typed' /\ Spoken' => WorkNatural /\ WorkNatural'
  BY WorkTyped, PTL
<1>3. Typed /\ Spoken /\ [Next]_vars => [Work' \in Nat /\ Work' < Work]_vars
  <2> SUFFICES ASSUME Typed, Spoken, Next, ~UNCHANGED vars
               PROVE  Work' \in Nat /\ Work' < Work
    OBVIOUS
  <2>1. WorkNatural /\ WorkNatural'
    BY <1>1, <1>2
  <2>2. ~TurnOver
    BY DEF TurnOver
  <2>3. Work' < Work
    BY <2>1, <2>2, WorkFalls
  <2>4. Work' \in Nat
    <3> DEFINE D == DriverWork' S == StreamWork' Y == SayingWork' R == ReaderWork'
               P == PromptWork' C == ComplaintWork' A == AgentWork' T == TimeWork'
    <3>1. D \in Nat /\ P \in Nat /\ S \in Nat /\ C \in Nat /\ Y \in Nat /\ R \in Nat /\ A \in Nat /\ T \in Nat
      BY <2>1 DEF WorkNatural
    <3>2. Work' = D + P + S + C + Y + R + A + T
      BY DEF Work
    <3> HIDE DEF D, P, S, C, Y, R, A, T
    <3> QED BY <3>1, <3>2
  <2> QED BY <2>3, <2>4
<1>4. Spec => [](Typed /\ Spoken)
  BY TypedAlways, SpokenInit, SpokenStep, PTL DEF Spec
<1> QED BY <1>3, <1>4, PTL DEF Spec, EveryStepCounts

\* The driver's steps from a place to the verdict once the deadline has passed.
StepsLeft(place) ==
    CASE place = "get" -> 5 [] place = "check" -> 4 [] place = "wait" -> 3
      [] place = "kill" -> 2 [] place = "join" -> 1 [] place = "done" -> 0 [] OTHER -> 6

\* A deadline that has passed stays so, the driver can go on whatever the pipes, the
\* threads and the agent do, and it is past the places where it could be held up.
DueHolds == turnDue => /\ driver \in {"check", "get", "wait", "kill", "join", "done"}
                       /\ driver # "done" => DriverCanGoOn

\* Each step of the driver brings it nearer to the verdict and no step of anybody
\* else moves it.
DueStep == turnDue => /\ turnDue'
                      /\ Drive => StepsLeft(driver') < StepsLeft(driver)
                      /\ ~Drive => driver' = driver
DeadlineEndsTurn == [][DueStep]_vars

\* The deadline is set where the reading starts.
NotDueYet == driver \in {"launch", "prompt"} => ~turnDue

LEMMA NotDueStep == NotDueYet /\ [Next]_vars => NotDueYet'
<1> SUFFICES ASSUME NotDueYet, [Next]_vars PROVE NotDueYet'
  OBVIOUS
<1>1. CASE Drive
  BY <1>1 DEF Drive, Launch, LaunchFails, WritePrompt, PromptDone, CheckDeadlines, GetTimesOut,
     HandleItem, Reap, GraceExpires, Kill, JoinReaders, NotDueYet, dueVars
<1>2. CASE TurnDeadlinePasses
  BY <1>2 DEF TurnDeadlinePasses, Reading, NotDueYet
<1>3. CASE ~Drive /\ ~TurnDeadlinePasses
  <2>1. UNCHANGED <<driver, turnDue>>
    BY <1>3 DEF Next, AgentRuns, PumpLine, PumpEnds, DrainLine, DrainEnds, AgentReadsPrompt,
       AgentSpeaks, AgentWrites, AgentExits, OrphanExits, InitDeadlinePasses, TurnOver, vars, dueVars
  <2> QED BY <2>1 DEF NotDueYet
<1> QED BY <1>1, <1>2, <1>3

\* Once the turn's deadline has passed the driver reaches its verdict in at most five
\* steps of its own, each of which it can take: no hanging agent, full pipe or
\* overstaying child delays the end of a turn, however much is written.
THEOREM DeadlineEnds == Spec => []DueHolds /\ DeadlineEndsTurn
<1>1. Typed /\ Fate /\ NotDueYet => DueHolds
  BY DEF Typed, TypeOK, Fate, NotDueYet, DueHolds, DriverCanGoOn, Expired
<1>2. NotDueYet /\ [Next]_vars => [DueStep]_vars
  <2> SUFFICES ASSUME NotDueYet, Next, turnDue PROVE DueStep
    BY DEF DueStep
  <2>1. driver \notin {"launch", "prompt"}
    BY DEF NotDueYet
  <2>2. CASE Drive
    <3>1. /\ turnDue'
          /\ \/ driver = "check" /\ driver' = "kill"
             \/ driver = "get" /\ (driver' = "check" \/ driver' = "wait")
             \/ driver = "wait" /\ (driver' = "join" \/ driver' = "kill")
             \/ driver = "kill" /\ driver' = "join"
             \/ driver = "join" /\ driver' = "done"
      BY <2>1, <2>2, NoneAssumption DEF Drive, Launch, LaunchFails, WritePrompt, PromptDone,
         CheckDeadlines, GetTimesOut, HandleItem, Reap, GraceExpires, Kill, JoinReaders, dueVars, Errors
    <3>2. StepsLeft(driver') < StepsLeft(driver)
      BY <3>1 DEF StepsLeft
    <3> QED BY <2>2, <3>1, <3>2 DEF DueStep
  <2>3. CASE ~Drive
    <3>1. turnDue' /\ driver' = driver
      BY <2>3 DEF Next, AgentRuns, PumpLine, PumpEnds, DrainLine, DrainEnds, AgentReadsPrompt,
         AgentSpeaks, AgentWrites, AgentExits, OrphanExits, InitDeadlinePasses, TurnDeadlinePasses,
         TurnOver, vars, dueVars
    <3> QED BY <2>3, <3>1 DEF DueStep
  <2> QED BY <2>2, <2>3
<1>3. Spec => []NotDueYet
  <2>1. Init => NotDueYet
    BY DEF Init, NotDueYet
  <2> QED BY <2>1, NotDueStep, PTL DEF Spec
<1> QED BY <1>1, <1>2, <1>3, TypedAlways, FateAlways, PTL DEF Spec, DeadlineEndsTurn

=============================================================================
