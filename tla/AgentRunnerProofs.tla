-------------------------- MODULE AgentRunnerProofs --------------------------
(* Proofs about AgentRunner, for any number of workers and turns.          *)
EXTENDS AgentRunner, TLAPS

-----------------------------------------------------------------------------
(* Types.                                                                  *)

\* A worker at rest.
LEMMA FreeTyped == Free \in Attempt
<1>1. 1 \in 1 .. MaxTurns /\ 0 \in 0 .. 2
  BY TurnAssumption
<1> QED BY <1>1 DEF Free, Attempt, Phases, Errors

\* An attempt of which one field is replaced is still an attempt.
LEMMA FieldTyped ==
    ASSUME NEW a \in Attempt
    PROVE  /\ \A p \in Phases : [a EXCEPT !.phase = p] \in Attempt
           /\ \A p \in Phases, e \in Errors : [a EXCEPT !.phase = p, !.error = e] \in Attempt
           /\ \A p \in Phases, h \in BOOLEAN : [a EXCEPT !.phase = p, !.home = h] \in Attempt
           /\ \A p \in Phases, b \in BOOLEAN : [a EXCEPT !.phase = p, !.before = b] \in Attempt
           /\ \A p \in Phases, s \in BOOLEAN : [a EXCEPT !.phase = p, !.session = s] \in Attempt
           /\ \A p \in Phases, n \in 0 .. 2 : [a EXCEPT !.phase = p, !.afters = n] \in Attempt
           /\ \A h \in BOOLEAN : [a EXCEPT !.home = h] \in Attempt
           /\ \A x \in BOOLEAN, p \in Phases, t \in 1 .. MaxTurns :
                 [a EXCEPT !.active = x, !.phase = p, !.turn = t] \in Attempt
  BY DEF Attempt

\* The types hold initially.
LEMMA TypedInit == Init => TypeOK
  BY FreeTyped DEF Init, TypeOK

\* Replacing one worker's attempt keeps the type of the function.
LEMMA ReplaceTyped ==
    ASSUME TypeOK, NEW w \in Workers, NEW a \in Attempt,
           attempts' = [attempts EXCEPT ![w] = a]
    PROVE  attempts' \in [Workers -> Attempt]
  BY DEF TypeOK

\* The ways an attempt moves on keep it too.
LEMMA MoveTyped ==
    ASSUME TypeOK, NEW w \in Workers
    PROVE  /\ \A p \in Phases : Goto(w, p) => attempts' \in [Workers -> Attempt]
           /\ \A e \in Errors : Failed(w, e) => attempts' \in [Workers -> Attempt]
           /\ \A e \in Errors : FinishWith(w, e) => attempts' \in [Workers -> Attempt]
           /\ HookCrashes(w) => attempts' \in [Workers -> Attempt]
<1>0. attempts[w] \in Attempt
  BY DEF TypeOK
<1>1. ASSUME NEW p \in Phases, Goto(w, p) PROVE attempts' \in [Workers -> Attempt]
  <2>1. attempts' = [attempts EXCEPT ![w] = [attempts[w] EXCEPT !.phase = p]]
    BY <1>1 DEF Goto
  <2> QED BY <1>0, <2>1, FieldTyped, ReplaceTyped
<1>2. ASSUME NEW p \in Phases, NEW e \in Errors,
             attempts' = [attempts EXCEPT ![w].phase = p, ![w].error = e]
      PROVE  attempts' \in [Workers -> Attempt]
  <2>1. attempts' = [attempts EXCEPT ![w] = [attempts[w] EXCEPT !.phase = p, !.error = e]]
    BY <1>2, <1>0 DEF TypeOK
  <2>2. [attempts[w] EXCEPT !.phase = p, !.error = e] \in Attempt
    BY <1>0, FieldTyped
  <2> QED BY <2>1, <2>2, ReplaceTyped
<1>3. "exit" \in Phases /\ "after_run" \in Phases /\ "crash" \in Errors
  BY DEF Phases, Errors
<1> QED BY <1>1, <1>2, <1>3 DEF Failed, FinishWith, HookCrashes

\* Every step of an attempt keeps them.
LEMMA TypedRun == ASSUME TypeOK, NEW w \in Workers, RunAttempt(w) PROVE TypeOK'
<1>0. attempts[w] \in Attempt
  BY DEF TypeOK
<1>a. Phases = {"free", "ensure", "reuse", "after_create", "creating", "before_run",
                "prompt", "launch", "turn", "refresh", "after_run", "exit"}
  BY DEF Phases
<1>b. Errors = {"none", "workspace", "hook", "prompt", "turn", "tracker", "crash"}
  BY DEF Errors
<1>c. SUFFICES attempts' \in [Workers -> Attempt]
  BY <1>c DEF RunAttempt, EnsureWorkspace, ReuseWorkspace, AfterCreateStarts, AfterCreateEnds,
     BeforeRun, BuildPrompt, LaunchTurn, TurnEnds, RefreshIssue, AfterRun, Report, TypeOK,
     workspace, service
<1>d. \A p \in Phases, h \in BOOLEAN :
         attempts' = [attempts EXCEPT ![w].phase = p, ![w].home = h]
            => attempts' \in [Workers -> Attempt]
  <2> TAKE p \in Phases, h \in BOOLEAN
  <2> HAVE attempts' = [attempts EXCEPT ![w].phase = p, ![w].home = h]
  <2>1. attempts' = [attempts EXCEPT ![w] = [attempts[w] EXCEPT !.phase = p, !.home = h]]
    BY <1>0 DEF TypeOK
  <2>2. [attempts[w] EXCEPT !.phase = p, !.home = h] \in Attempt
    BY <1>0, FieldTyped
  <2> QED BY <2>1, <2>2, ReplaceTyped
<1>1. CASE EnsureWorkspace(w)
  BY <1>1, <1>a, <1>b, <1>d, MoveTyped DEF EnsureWorkspace
<1>2. CASE ReuseWorkspace(w)
  BY <1>2, <1>a, <1>b, MoveTyped DEF ReuseWorkspace
<1>3. CASE AfterCreateStarts(w)
  BY <1>3, <1>a, <1>b, MoveTyped DEF AfterCreateStarts
<1>4. CASE AfterCreateEnds(w)
  BY <1>4, <1>a, <1>b, MoveTyped DEF AfterCreateEnds
<1>5. CASE BeforeRun(w)
  <2>1. CASE attempts' = [attempts EXCEPT ![w].phase = "prompt", ![w].before = TRUE]
    <3>1. attempts' = [attempts EXCEPT
                          ![w] = [attempts[w] EXCEPT !.phase = "prompt", !.before = TRUE]]
      BY <2>1, <1>0 DEF TypeOK
    <3>2. [attempts[w] EXCEPT !.phase = "prompt", !.before = TRUE] \in Attempt
      BY <1>0, <1>a, FieldTyped
    <3> QED BY <3>1, <3>2, ReplaceTyped
  <2> QED BY <1>5, <2>1, <1>b, MoveTyped DEF BeforeRun
<1>6. CASE BuildPrompt(w)
  BY <1>6, <1>a, <1>b, MoveTyped DEF BuildPrompt
<1>7. CASE LaunchTurn(w)
  BY <1>7, <1>a, <1>b, MoveTyped DEF LaunchTurn
<1>8. CASE TurnEnds(w)
  <2>1. ASSUME NEW s \in BOOLEAN,
               attempts' = [attempts EXCEPT ![w].phase = "refresh", ![w].session = @ \/ s]
        PROVE  attempts' \in [Workers -> Attempt]
    <3>1. attempts[w].session \/ s \in BOOLEAN
      OBVIOUS
    <3>2. attempts' = [attempts EXCEPT ![w] = [attempts[w] EXCEPT
                          !.phase = "refresh", !.session = attempts[w].session \/ s]]
      BY <2>1, <1>0 DEF TypeOK
    <3>3. [attempts[w] EXCEPT !.phase = "refresh", !.session = attempts[w].session \/ s]
             \in Attempt
      BY <1>0, <1>a, <3>1, FieldTyped
    <3> QED BY <3>2, <3>3, ReplaceTyped
  <2> QED BY <1>8, <2>1, <1>b, MoveTyped DEF TurnEnds
<1>9. CASE RefreshIssue(w)
  <2>1. ASSUME NEW x \in BOOLEAN, NEW p \in Phases, NEW t \in 1 .. MaxTurns,
               attempts' = [attempts EXCEPT ![w].active = x, ![w].phase = p, ![w].turn = t]
        PROVE  attempts' \in [Workers -> Attempt]
    <3>1. attempts' = [attempts EXCEPT
                          ![w] = [attempts[w] EXCEPT !.active = x, !.phase = p, !.turn = t]]
      BY <2>1, <1>0 DEF TypeOK
    <3>2. [attempts[w] EXCEPT !.active = x, !.phase = p, !.turn = t] \in Attempt
      BY <1>0, FieldTyped
    <3> QED BY <3>1, <3>2, ReplaceTyped
  <2>2. ASSUME NEW x \in BOOLEAN
        PROVE  (IF Continues(w, x) THEN attempts[w].turn + 1 ELSE attempts[w].turn)
                  \in 1 .. MaxTurns
    BY <1>0, TurnAssumption DEF Continues, Attempt
  <2>3. ASSUME NEW x \in BOOLEAN
        PROVE  (IF Continues(w, x) THEN "prompt" ELSE "after_run") \in Phases
    BY <1>a
  <2> QED BY <1>9, <2>1, <2>2, <2>3, <1>b, MoveTyped DEF RefreshIssue
<1>10. CASE AfterRun(w)
  <2>1. CASE attempts' = [attempts EXCEPT ![w].phase = "exit",
                                          ![w].afters = IF @ < 2 THEN @ + 1 ELSE @]
    <3>1. (IF attempts[w].afters < 2 THEN attempts[w].afters + 1 ELSE attempts[w].afters)
             \in 0 .. 2
      BY <1>0 DEF Attempt
    <3>2. attempts' = [attempts EXCEPT ![w] = [attempts[w] EXCEPT !.phase = "exit",
             !.afters = IF attempts[w].afters < 2 THEN attempts[w].afters + 1
                                                  ELSE attempts[w].afters]]
      BY <2>1, <1>0 DEF TypeOK
    <3>3. [attempts[w] EXCEPT !.phase = "exit",
             !.afters = IF attempts[w].afters < 2 THEN attempts[w].afters + 1
                                                  ELSE attempts[w].afters] \in Attempt
      BY <1>0, <1>a, <3>1, FieldTyped
    <3> QED BY <3>2, <3>3, ReplaceTyped
  <2> QED BY <1>10, <2>1, MoveTyped DEF AfterRun
<1>11. CASE Report(w)
  BY <1>11, FreeTyped, ReplaceTyped DEF Report
<1> QED BY <1>1, <1>2, <1>3, <1>4, <1>5, <1>6, <1>7, <1>8, <1>9, <1>10, <1>11 DEF RunAttempt

\* So does every step of the loop and of the process.
LEMMA TypedStep == TypeOK /\ [Next]_vars => TypeOK'
<1> SUFFICES ASSUME TypeOK, [Next]_vars PROVE TypeOK'
  OBVIOUS
<1>1. CASE \E w \in Workers : RunAttempt(w)
  BY <1>1, TypedRun
<1>2. ASSUME NEW w \in Workers, Dispatch(w) PROVE TypeOK'
  BY <1>2, FieldTyped DEF Dispatch, TypeOK, Phases, workspace
<1>3. CASE Terminate
  BY <1>3 DEF Terminate, TypeOK, workspace
<1>4. CASE RemoveWorkspace
  BY <1>4, FieldTyped DEF RemoveWorkspace, TypeOK, workspace
<1>5. CASE Restart
  BY <1>5, FreeTyped DEF Restart, TypeOK, workspace
<1>6. CASE UNCHANGED vars
  BY <1>6 DEF vars, TypeOK
<1> QED BY <1>1, <1>2, <1>3, <1>4, <1>5, <1>6 DEF Next

\* TypeOK in every state; no attempt takes more than max_turns turns.
THEOREM TypeCorrect == Spec => []TypeOK
<1> QED BY TypedInit, TypedStep, PTL DEF Spec

-----------------------------------------------------------------------------
(* Hooks and turns of one attempt.                                         *)

\* What the history of an attempt says at each phase: before before_run has
\* passed no hook is owed, from then on until after_run one is, and the attempt
\* leaves the turns as soon as it learns that the issue is not active.
InStep(a) ==
    /\ a.phase \notin {"after_run", "exit"} => a.active
    /\ a.phase \in {"free", "ensure", "reuse", "after_create", "creating", "before_run"}
          => ~a.before /\ a.afters = 0
    /\ a.phase \in {"prompt", "launch", "turn", "refresh", "after_run"}
          => a.before /\ a.afters = 0
    /\ a.phase = "exit" /\ a.error # "crash" => a.afters = IF a.before THEN 1 ELSE 0

AllInStep == \A w \in Workers : InStep(attempts[w])

\* What a refresh does to the fields of an attempt.
LEMMA RefreshEffect ==
    ASSUME TypeOK, NEW w \in Workers, NEW x \in BOOLEAN,
           attempts' = [attempts EXCEPT
                ![w].active = x,
                ![w].phase = IF Continues(w, x) THEN "prompt" ELSE "after_run",
                ![w].turn = IF Continues(w, x) THEN @ + 1 ELSE @]
    PROVE  /\ attempts'[w].active = x
           /\ attempts'[w].phase \in {"prompt", "after_run"}
           /\ attempts'[w].phase = "prompt" => x
           /\ attempts'[w].before = attempts[w].before
           /\ attempts'[w].afters = attempts[w].afters
           /\ attempts'[w].home = attempts[w].home
           /\ \A v \in Workers \ {w} : attempts'[v] = attempts[v]
<1>1. attempts \in [Workers -> Attempt] /\ attempts[w] \in Attempt
  BY DEF TypeOK
<1> DEFINE p == IF Continues(w, x) THEN "prompt" ELSE "after_run"
           t == IF Continues(w, x) THEN attempts[w].turn + 1 ELSE attempts[w].turn
<1>2. attempts' = [attempts EXCEPT
                      ![w] = [attempts[w] EXCEPT !.active = x, !.phase = p, !.turn = t]]
  BY <1>1
<1> HIDE DEF p, t
<1>3. attempts'[w] = [attempts[w] EXCEPT !.active = x, !.phase = p, !.turn = t]
  BY <1>1, <1>2
<1>4. \A v \in Workers \ {w} : attempts'[v] = attempts[v]
  BY <1>1, <1>2
<1>5. p \in {"prompt", "after_run"} /\ (p = "prompt" => x)
  BY DEF p, Continues
<1> QED BY <1>1, <1>3, <1>4, <1>5 DEF Attempt

\* A refresh that is answered keeps the attempt in step.
LEMMA RefreshInStep ==
    ASSUME TypeOK, NEW w \in Workers, InStep(attempts[w]), attempts[w].phase = "refresh",
           \E x \in BOOLEAN :
               attempts' = [attempts EXCEPT
                   ![w].active = x,
                   ![w].phase = IF Continues(w, x) THEN "prompt" ELSE "after_run",
                   ![w].turn = IF Continues(w, x) THEN @ + 1 ELSE @]
    PROVE  InStep(attempts'[w]) /\ \A v \in Workers \ {w} : attempts'[v] = attempts[v]
<1>1. /\ attempts'[w].phase \in {"prompt", "after_run"}
      /\ attempts'[w].phase = "prompt" => attempts'[w].active
      /\ attempts'[w].before = attempts[w].before
      /\ attempts'[w].afters = attempts[w].afters
      /\ \A v \in Workers \ {w} : attempts'[v] = attempts[v]
  BY RefreshEffect
<1> QED BY <1>1 DEF InStep

\* A step of one attempt keeps it in step and leaves the others alone.
LEMMA RunInStep ==
    ASSUME TypeOK, NEW w \in Workers, InStep(attempts[w]), RunAttempt(w)
    PROVE  InStep(attempts'[w]) /\ \A v \in Workers \ {w} : attempts'[v] = attempts[v]
<1>0. attempts \in [Workers -> Attempt] /\ attempts[w] \in Attempt
  BY DEF TypeOK
<1> USE <1>0 DEF InStep, At, Goto, Failed, FinishWith, HookCrashes, Attempt
<1>1. CASE EnsureWorkspace(w)
  BY <1>1 DEF EnsureWorkspace
<1>2. CASE ReuseWorkspace(w)
  BY <1>2 DEF ReuseWorkspace
<1>3. CASE AfterCreateStarts(w)
  BY <1>3 DEF AfterCreateStarts
<1>4. CASE AfterCreateEnds(w)
  BY <1>4 DEF AfterCreateEnds
<1>5. CASE BeforeRun(w)
  BY <1>5 DEF BeforeRun
<1>6. CASE BuildPrompt(w)
  BY <1>6 DEF BuildPrompt
<1>7. CASE LaunchTurn(w)
  BY <1>7 DEF LaunchTurn
<1>8. CASE TurnEnds(w)
  BY <1>8 DEF TurnEnds
<1>9. CASE RefreshIssue(w)
  <2>1. CASE FinishWith(w, "tracker")
    BY <1>9, <2>1 DEF RefreshIssue
  <2>2. CASE ~FinishWith(w, "tracker")
    BY <1>9, <2>2, RefreshInStep DEF RefreshIssue
  <2> QED BY <2>1, <2>2
<1>10. CASE AfterRun(w)
  BY <1>10 DEF AfterRun
<1>11. CASE Report(w)
  BY <1>11 DEF Report, Free
<1> QED BY <1>1, <1>2, <1>3, <1>4, <1>5, <1>6, <1>7, <1>8, <1>9, <1>10, <1>11 DEF RunAttempt

\* All attempts are in step initially.
LEMMA InStepInit == Init => AllInStep
<1>1. InStep(Free)
  BY DEF InStep, Free
<1> QED BY <1>1 DEF Init, AllInStep

\* And stay so: the loop and the process change no attempt but to start it, to
\* drop it or to take its directory away.
LEMMA InStepStep == TypeOK /\ AllInStep /\ [Next]_vars => AllInStep'
<1> SUFFICES ASSUME TypeOK, AllInStep, [Next]_vars, NEW v \in Workers
             PROVE  InStep(attempts'[v])
  BY DEF AllInStep
<1>0. attempts \in [Workers -> Attempt] /\ attempts[v] \in Attempt /\ InStep(attempts[v])
  BY DEF TypeOK, AllInStep
<1>1. ASSUME NEW w \in Workers, RunAttempt(w) PROVE InStep(attempts'[v])
  BY <1>0, <1>1, RunInStep DEF AllInStep
<1>2. ASSUME NEW w \in Workers, Dispatch(w) PROVE InStep(attempts'[v])
  BY <1>0, <1>2 DEF Dispatch, At, InStep, Attempt
<1>3. CASE Terminate
  BY <1>0, <1>3 DEF Terminate
<1>4. CASE RemoveWorkspace
  <2>1. attempts'[v] \in {attempts[v], [attempts[v] EXCEPT !.home = FALSE]}
    BY <1>4 DEF RemoveWorkspace, workspace
  <2> QED BY <1>0, <2>1 DEF InStep, Attempt
<1>5. CASE Restart
  BY <1>5 DEF Restart, InStep, Free
<1>6. CASE UNCHANGED vars
  BY <1>0, <1>6 DEF vars
<1> QED BY <1>1, <1>2, <1>3, <1>4, <1>5, <1>6 DEF Next

\* HooksBracketTurns for any number of workers and turns: after_run runs exactly
\* once for an attempt that passed before_run, however it ends, and for no other.
THEOREM HooksBracket == Spec => []HooksBracketTurns
<1>1. AllInStep => HooksBracketTurns
  BY DEF AllInStep, InStep, HooksBracketTurns, At
<1> QED BY <1>1, TypeCorrect, InStepInit, InStepStep, PTL DEF Spec

\* TurnsOnlyWhileActive for any number of workers and turns.
THEOREM TurnsStopWithIssue == Spec => []TurnsOnlyWhileActive
<1>1. AllInStep => TurnsOnlyWhileActive
  BY DEF AllInStep, InStep, TurnsOnlyWhileActive
<1> QED BY <1>1, TypeCorrect, InStepInit, InStepStep, PTL DEF Spec

-----------------------------------------------------------------------------
(* One directory, one set-up.                                              *)

\* The strengthening: created_now can only speak of a directory that is there,
\* and nobody has prepared it while its creator has not.
OneCreator ==
    /\ \A v, w \in Workers : attempts[v].home /\ attempts[w].home => v = w
    /\ \A w \in Workers : attempts[w].home =>
          /\ place = "dir"
          /\ attempts[w].phase \in {"after_create", "creating"} => ~prepared

\* There is no creator initially.
LEMMA CreatorInit == Init => OneCreator
  BY DEF Init, OneCreator, Free

\* A step that neither creates nor prepares keeps what created_now says.
LEMMA CreatorKept ==
    ASSUME OneCreator,
           \A w \in Workers : attempts'[w].home =>
               /\ attempts[w].home
               /\ attempts'[w].phase \in {"after_create", "creating"}
                     => attempts[w].phase \in {"after_create", "creating"},
           place' = place, prepared' => prepared
    PROVE  OneCreator'
  BY DEF OneCreator

\* The attempt that sets the directory up goes on to its before_run.
LEMMA CreatorDone ==
    ASSUME OneCreator, attempts \in [Workers -> Attempt], NEW w \in Workers,
           Goto(w, "before_run"), prepared' = (prepared \/ attempts[w].home), place' = place
    PROVE  OneCreator'
<1>1. \A v \in Workers : attempts'[v].home = attempts[v].home
  BY DEF Goto, Attempt
<1>2. \A v \in Workers \ {w} : attempts'[v] = attempts[v]
  BY DEF Goto
<1>3. attempts'[w].phase = "before_run"
  BY DEF Goto, Attempt
<1>4. ASSUME NEW v \in Workers, attempts'[v].home,
             attempts'[v].phase \in {"after_create", "creating"}
      PROVE  ~prepared'
  <2>1. v # w
    BY <1>3, <1>4
  <2> QED BY <1>1, <1>2, <1>4, <2>1 DEF OneCreator
<1> QED BY <1>1, <1>4 DEF OneCreator

\* Every step keeps it: mkdir succeeds only where nothing is, and the removal of
\* the directory takes the claim to have created it away.
LEMMA CreatorStep == TypeOK /\ OneCreator /\ [Next]_vars => OneCreator'
<1> SUFFICES ASSUME TypeOK, OneCreator, [Next]_vars PROVE OneCreator'
  OBVIOUS
<1>0. attempts \in [Workers -> Attempt]
  BY DEF TypeOK
<1>1. ASSUME NEW w \in Workers, EnsureWorkspace(w) PROVE OneCreator'
  <2>1. CASE place = "absent" /\ place' = "dir" /\ prepared' = FALSE
             /\ attempts' = [attempts EXCEPT ![w].phase = "after_create", ![w].home = TRUE]
    <3>1. \A v \in Workers : ~attempts[v].home
      BY <2>1 DEF OneCreator
    <3>2. \A v \in Workers : attempts'[v].home => v = w
      BY <1>0, <2>1, <3>1
    <3> QED BY <2>1, <3>2 DEF OneCreator
  <2>2. CASE (Goto(w, "reuse") \/ Failed(w, "workspace")) /\ UNCHANGED workspace
    BY <1>0, <2>2, CreatorKept DEF Goto, Failed, workspace, Attempt
  <2> QED BY <1>1, <2>1, <2>2 DEF EnsureWorkspace
<1>2. ASSUME NEW w \in Workers, AfterCreateEnds(w) PROVE OneCreator'
  <2>1. CASE Goto(w, "before_run") /\ prepared' = (prepared \/ attempts[w].home)
    BY <1>0, <1>2, <2>1, CreatorDone DEF AfterCreateEnds
  <2>2. CASE (Failed(w, "hook") \/ HookCrashes(w)) /\ UNCHANGED prepared
    BY <1>0, <1>2, <2>2, CreatorKept DEF Failed, HookCrashes, AfterCreateEnds, Attempt
  <2> QED BY <1>2, <2>1, <2>2 DEF AfterCreateEnds
<1>3. ASSUME NEW w \in Workers, ReuseWorkspace(w) PROVE OneCreator'
  BY <1>0, <1>3, CreatorKept DEF ReuseWorkspace, Goto, Failed, workspace, Attempt
<1>4. ASSUME NEW w \in Workers, AfterCreateStarts(w) PROVE OneCreator'
  <2>1. CASE Goto(w, "before_run") /\ prepared' = (prepared \/ attempts[w].home)
    BY <1>0, <1>4, <2>1, CreatorDone DEF AfterCreateStarts
  <2>2. CASE (Goto(w, "creating") \/ Failed(w, "hook")) /\ UNCHANGED prepared
    BY <1>0, <1>4, <2>2, CreatorKept DEF AfterCreateStarts, At, Goto, Failed, Attempt
  <2> QED BY <1>4, <2>1, <2>2 DEF AfterCreateStarts
<1>5. ASSUME NEW w \in Workers, BeforeRun(w) PROVE OneCreator'
  BY <1>0, <1>5, CreatorKept DEF BeforeRun, Failed, HookCrashes, workspace, Attempt
<1>6. ASSUME NEW w \in Workers, BuildPrompt(w) \/ LaunchTurn(w) PROVE OneCreator'
  BY <1>0, <1>6, CreatorKept
     DEF BuildPrompt, LaunchTurn, Goto, FinishWith, workspace, Attempt
<1>7. ASSUME NEW w \in Workers, TurnEnds(w) PROVE OneCreator'
  BY <1>0, <1>7, CreatorKept DEF TurnEnds, FinishWith, workspace, Attempt
<1>8. ASSUME NEW w \in Workers, RefreshIssue(w) PROVE OneCreator'
  <2>1. CASE FinishWith(w, "tracker")
    BY <1>0, <1>8, <2>1, CreatorKept DEF RefreshIssue, FinishWith, workspace, Attempt
  <2>2. ASSUME NEW x \in BOOLEAN,
               attempts' = [attempts EXCEPT
                   ![w].active = x,
                   ![w].phase = IF Continues(w, x) THEN "prompt" ELSE "after_run",
                   ![w].turn = IF Continues(w, x) THEN @ + 1 ELSE @]
        PROVE  OneCreator'
    <3>1. attempts'[w].phase \notin {"after_create", "creating"}
      BY <2>2, RefreshEffect
    <3>2. \A v \in Workers : attempts'[v].home = attempts[v].home
      BY <2>2, RefreshEffect
    <3>3. \A v \in Workers \ {w} : attempts'[v] = attempts[v]
      BY <2>2, RefreshEffect
    <3> QED BY <1>8, <3>1, <3>2, <3>3, CreatorKept DEF RefreshIssue, workspace
  <2> QED BY <1>8, <2>1, <2>2 DEF RefreshIssue
<1>9. ASSUME NEW w \in Workers, AfterRun(w) PROVE OneCreator'
  BY <1>0, <1>9, CreatorKept DEF AfterRun, HookCrashes, workspace, Attempt
<1>10. ASSUME NEW w \in Workers, Report(w) PROVE OneCreator'
  BY <1>0, <1>10, CreatorKept DEF Report, Free, workspace, Attempt
<1>11. ASSUME NEW w \in Workers, Dispatch(w) PROVE OneCreator'
  BY <1>0, <1>11, CreatorKept DEF Dispatch, workspace, Attempt
<1>12. CASE Terminate
  BY <1>12, CreatorKept DEF Terminate, workspace
<1>13. CASE RemoveWorkspace
  <2>1. CASE attempts' = [w \in Workers |-> [attempts[w] EXCEPT !.home = FALSE]]
    <3>1. \A w \in Workers : ~attempts'[w].home
      BY <1>0, <2>1 DEF Attempt
    <3> QED BY <3>1 DEF OneCreator
  <2>2. CASE attempts' = attempts /\ place' = place /\ prepared' \in {prepared, FALSE}
    <3>1. prepared' => prepared
      BY <2>2
    <3> QED BY <2>2, <3>1, CreatorKept
  <2> QED BY <1>13, <2>1, <2>2 DEF RemoveWorkspace, workspace
<1>14. CASE Restart
  BY <1>14 DEF Restart, Free, OneCreator
<1>15. CASE UNCHANGED vars
  BY <1>15, CreatorKept DEF vars
<1>16. CASE \E w \in Workers : RunAttempt(w)
  BY <1>16, <1>1, <1>2, <1>3, <1>4, <1>5, <1>6, <1>7, <1>8, <1>9, <1>10 DEF RunAttempt
<1> QED BY <1>11, <1>12, <1>13, <1>14, <1>15, <1>16 DEF Next

\* SetUpOnce for any number of workers that find the directory at once, removed
\* and made again under them at will.
THEOREM CreatedOnce == Spec => []SetUpOnce
<1>1. OneCreator => SetUpOnce
  BY DEF OneCreator, SetUpOnce, At
<1> QED BY <1>1, TypeCorrect, CreatorInit, CreatorStep, PTL DEF Spec

-----------------------------------------------------------------------------
(* The end of an attempt: what AttemptEnds says without its fairness.      *)

Rank(phase) ==
    CASE phase = "ensure" -> 10 [] phase = "after_create" -> 9
      [] phase \in {"creating", "reuse"} -> 8 [] phase = "before_run" -> 7
      [] phase = "prompt" -> 6 [] phase = "launch" -> 5 [] phase = "turn" -> 4
      [] phase = "refresh" -> 3 [] phase = "after_run" -> 2 [] OTHER -> 1

\* The most steps an attempt can take before it has reported.
StepsLeft(a) == IF a.phase = "free" THEN 0 ELSE 4 * (MaxTurns - a.turn) + Rank(a.phase)

MostSteps == 4 * MaxTurns + 6

\* A step of an attempt brings it nearer to its report, a step of anybody else
\* neither delays nor advances it: it can only begin it, or take all threads away.
AttemptStep(w) ==
    /\ RunAttempt(w) => StepsLeft(attempts'[w]) < StepsLeft(attempts[w])
    /\ ~RunAttempt(w) => \/ StepsLeft(attempts'[w]) = StepsLeft(attempts[w])
                         \/ Dispatch(w)
                         \/ Restart /\ StepsLeft(attempts'[w]) = 0
AttemptsAdvance == [][\A w \in Workers : AttemptStep(w)]_vars

AttemptsShort == \A w \in Workers : StepsLeft(attempts[w]) \in 0 .. MostSteps

\* The number of steps left is a number, as small as the bound says.
LEMMA StepsBounded == TypeOK => AttemptsShort
<1> SUFFICES ASSUME TypeOK, NEW w \in Workers PROVE StepsLeft(attempts[w]) \in 0 .. MostSteps
  BY DEF AttemptsShort
<1>1. attempts[w].turn \in 1 .. MaxTurns /\ MaxTurns \in Nat
  BY TurnAssumption DEF TypeOK, Attempt
<1>2. Rank(attempts[w].phase) \in 1 .. 10
  BY DEF Rank
<1>3. 4 * (MaxTurns - attempts[w].turn) \in 0 .. 4 * MaxTurns - 4
  BY <1>1
<1> QED BY <1>1, <1>2, <1>3 DEF StepsLeft, MostSteps

\* A phase of lower rank, in the same turn, is nearer to the report.
LEMMA LowerRank ==
    ASSUME NEW a \in Attempt, NEW b \in Attempt, b.turn = a.turn,
           Rank(b.phase) < Rank(a.phase), a.phase # "free"
    PROVE  StepsLeft(b) < StepsLeft(a)
<1>1. a.turn \in Nat /\ a.turn <= MaxTurns /\ MaxTurns \in Nat
  BY TurnAssumption DEF Attempt
<1>2. Rank(a.phase) \in Nat /\ Rank(b.phase) \in Nat
  BY DEF Rank
<1> QED BY <1>1, <1>2 DEF StepsLeft

\* Every step of an attempt brings it nearer to its report.
LEMMA RunAdvances ==
    ASSUME TypeOK, TypeOK', NEW w \in Workers, RunAttempt(w)
    PROVE  StepsLeft(attempts'[w]) < StepsLeft(attempts[w])
<1>0. /\ attempts \in [Workers -> Attempt]
      /\ attempts[w] \in Attempt /\ attempts'[w] \in Attempt
  BY DEF TypeOK
<1> DEFINE a == attempts[w]  b == attempts'[w]
<1>a. SUFFICES ASSUME ~RefreshIssue(w), ~Report(w)
               PROVE  a.phase # "free" /\ b.turn = a.turn /\ Rank(b.phase) < Rank(a.phase)
  <2>1. CASE ~RefreshIssue(w) /\ ~Report(w)
    BY <1>0, <1>a, <2>1, LowerRank
  <2>2. CASE Report(w)
    <3>1. a.phase = "exit" /\ b.phase = "free"
      BY <1>0, <2>2 DEF Report, At, Free
    <3>2. a.turn \in Nat /\ MaxTurns \in Nat /\ a.turn <= MaxTurns
      BY <1>0, TurnAssumption DEF Attempt
    <3> QED BY <3>1, <3>2 DEF StepsLeft, Rank
  <2>3. CASE RefreshIssue(w)
    <3>1. a.phase = "refresh"
      BY <2>3 DEF RefreshIssue, At
    <3>2. CASE FinishWith(w, "tracker")
      <4>1. b.phase = "after_run" /\ b.turn = a.turn
        BY <1>0, <3>2 DEF FinishWith, Attempt
      <4>2. Rank(b.phase) < Rank(a.phase)
        BY <3>1, <4>1 DEF Rank
      <4> QED BY <1>0, <3>1, <4>1, <4>2, LowerRank
    <3>3. ASSUME NEW x \in BOOLEAN,
                 attempts' = [attempts EXCEPT
                     ![w].active = x,
                     ![w].phase = IF Continues(w, x) THEN "prompt" ELSE "after_run",
                     ![w].turn = IF Continues(w, x) THEN @ + 1 ELSE @]
          PROVE  StepsLeft(b) < StepsLeft(a)
      <4>1. /\ b.phase = IF Continues(w, x) THEN "prompt" ELSE "after_run"
            /\ b.turn = IF Continues(w, x) THEN a.turn + 1 ELSE a.turn
        <5> DEFINE p == IF Continues(w, x) THEN "prompt" ELSE "after_run"
                   t == IF Continues(w, x) THEN attempts[w].turn + 1 ELSE attempts[w].turn
        <5>1. attempts' = [attempts EXCEPT
                              ![w] = [attempts[w] EXCEPT !.active = x, !.phase = p, !.turn = t]]
          BY <1>0, <3>3
        <5> HIDE DEF p, t
        <5>2. b.phase = p /\ b.turn = t
          BY <1>0, <5>1 DEF Attempt
        <5> QED BY <5>2 DEF p, t
      <4>2. a.turn \in Nat /\ MaxTurns \in Nat /\ a.turn <= MaxTurns
        BY <1>0, TurnAssumption DEF Attempt
      <4>3. CASE Continues(w, x)
        BY <3>1, <4>1, <4>2, <4>3 DEF Continues, StepsLeft, Rank
      <4>4. CASE ~Continues(w, x)
        BY <3>1, <4>1, <4>2, <4>4 DEF StepsLeft, Rank
      <4> QED BY <4>3, <4>4
    <3> QED BY <2>3, <3>2, <3>3 DEF RefreshIssue
  <2> QED BY <2>1, <2>2, <2>3
<1> HIDE DEF a, b
<1>b. \A p, e : /\ Goto(w, p) => b.phase = p /\ b.turn = a.turn
                /\ Failed(w, e) => b.phase = "exit" /\ b.turn = a.turn
                /\ FinishWith(w, e) => b.phase = "after_run" /\ b.turn = a.turn
                /\ HookCrashes(w) => b.phase = "exit" /\ b.turn = a.turn
  BY <1>0 DEF a, b, Goto, Failed, FinishWith, HookCrashes, Attempt
<1>1. CASE EnsureWorkspace(w)
  <2>1. a.phase = "ensure" /\ b.turn = a.turn /\ b.phase \in {"after_create", "reuse", "exit"}
    BY <1>0, <1>1, <1>b DEF EnsureWorkspace, At, a, b, Attempt
  <2> QED BY <2>1 DEF Rank
<1>2. CASE ReuseWorkspace(w)
  <2>1. a.phase = "reuse" /\ b.turn = a.turn /\ b.phase \in {"before_run", "exit"}
    BY <1>2, <1>b DEF ReuseWorkspace, At, a
  <2> QED BY <2>1 DEF Rank
<1>3. CASE AfterCreateStarts(w)
  <2>1. a.phase = "after_create" /\ b.turn = a.turn /\ b.phase \in {"creating", "before_run", "exit"}
    BY <1>3, <1>b DEF AfterCreateStarts, At, a
  <2> QED BY <2>1 DEF Rank
<1>4. CASE AfterCreateEnds(w)
  <2>1. a.phase = "creating" /\ b.turn = a.turn /\ b.phase \in {"before_run", "exit"}
    BY <1>4, <1>b DEF AfterCreateEnds, At, a
  <2> QED BY <2>1 DEF Rank
<1>5. CASE BeforeRun(w)
  <2>1. a.phase = "before_run" /\ b.turn = a.turn /\ b.phase \in {"prompt", "exit"}
    BY <1>0, <1>5, <1>b DEF BeforeRun, At, a, b, Attempt
  <2> QED BY <2>1 DEF Rank
<1>6. CASE BuildPrompt(w)
  <2>1. a.phase = "prompt" /\ b.turn = a.turn /\ b.phase \in {"launch", "after_run"}
    BY <1>6, <1>b DEF BuildPrompt, At, a
  <2> QED BY <2>1 DEF Rank
<1>7. CASE LaunchTurn(w)
  <2>1. a.phase = "launch" /\ b.turn = a.turn /\ b.phase \in {"turn", "after_run"}
    BY <1>7, <1>b DEF LaunchTurn, At, a
  <2> QED BY <2>1 DEF Rank
<1>8. CASE TurnEnds(w)
  <2>1. a.phase = "turn" /\ b.turn = a.turn /\ b.phase \in {"refresh", "after_run"}
    BY <1>0, <1>8, <1>b DEF TurnEnds, At, a, b, Attempt
  <2> QED BY <2>1 DEF Rank
<1>9. CASE AfterRun(w)
  <2>1. a.phase = "after_run" /\ b.turn = a.turn /\ b.phase = "exit"
    BY <1>0, <1>9, <1>b DEF AfterRun, At, a, b, Attempt
  <2> QED BY <2>1 DEF Rank
<1> QED BY <1>a, <1>1, <1>2, <1>3, <1>4, <1>5, <1>6, <1>7, <1>8, <1>9 DEF RunAttempt

\* The steps of everybody else leave an attempt where it is, begin it, or end all.
LEMMA OthersLeaveAlone ==
    ASSUME TypeOK, Next, NEW w \in Workers, ~RunAttempt(w), ~Dispatch(w)
    PROVE  \/ StepsLeft(attempts'[w]) = StepsLeft(attempts[w])
           \/ Restart /\ StepsLeft(attempts'[w]) = 0
<1>0. attempts \in [Workers -> Attempt] /\ attempts[w] \in Attempt
  BY DEF TypeOK
<1>1. ASSUME NEW v \in Workers, RunAttempt(v) \/ Dispatch(v) PROVE attempts'[w] = attempts[w]
  <2>1. v # w
    BY <1>1
  <2>2. CASE Dispatch(v)
    BY <1>0, <2>1, <2>2 DEF Dispatch
  <2>3. CASE RunAttempt(v)
    BY <1>0, <2>1, <2>3 DEF RunAttempt, EnsureWorkspace, ReuseWorkspace, AfterCreateStarts,
       AfterCreateEnds, BeforeRun, BuildPrompt, LaunchTurn, TurnEnds, RefreshIssue, AfterRun,
       Report, Goto, Failed, FinishWith, HookCrashes
  <2> QED BY <1>1, <2>2, <2>3
<1>2. CASE Terminate
  BY <1>2 DEF Terminate
<1>3. CASE RemoveWorkspace
  <2>1. \/ attempts'[w] = attempts[w]
        \/ attempts'[w].phase = attempts[w].phase /\ attempts'[w].turn = attempts[w].turn
    BY <1>0, <1>3 DEF RemoveWorkspace, workspace, Attempt
  <2> QED BY <2>1 DEF StepsLeft
<1>4. CASE Restart
  BY <1>4 DEF Restart, StepsLeft, Free
<1> QED BY <1>1, <1>2, <1>3, <1>4 DEF Next

\* Every attempt reports within 4 * max_turns + 6 steps of its own, whatever fails in
\* it, whoever else works in its directory and whether or not it is still tracked;
\* only the end of the process keeps it from reporting.
THEOREM AttemptsReport == Spec => []AttemptsShort /\ AttemptsAdvance
<1>1. TypeOK /\ TypeOK' /\ [Next]_vars => [\A w \in Workers : AttemptStep(w)]_vars
  BY RunAdvances, OthersLeaveAlone DEF AttemptStep
<1> QED BY <1>1, StepsBounded, TypeCorrect, PTL DEF Spec, AttemptsAdvance

-----------------------------------------------------------------------------
(* What the attempts of the issue look like from the orchestrator.         *)

\* The threads at work, as the contract has them.
AtWork == [i \in {"issue"} |-> {w \in Workers : ~At(w, "free")}]
Tracked == IF tracked THEN {"issue"} ELSE {}

RunsStep == Runs!Next \/ UNCHANGED <<AtWork, Tracked>>

\* Whoever is at rest before a step and after it stays at rest, and whoever works, works.
LEMMA SameAtWork ==
    ASSUME \A w \in Workers : At(w, "free")' <=> At(w, "free")
    PROVE  AtWork' = AtWork
<1> QED BY DEF AtWork

\* An attempt's own steps, all but the last, leave it at work and the others alone.
LEMMA InnerStep ==
    ASSUME TypeOK, NEW w \in Workers, RunAttempt(w), ~Report(w)
    PROVE  UNCHANGED <<AtWork, Tracked>>
<1>0. attempts \in [Workers -> Attempt]
  BY DEF TypeOK
<1>1. ~At(w, "free") /\ ~At(w, "free")' /\ tracked' = tracked
  <2>1. CASE EnsureWorkspace(w) \/ ReuseWorkspace(w) \/ AfterCreateStarts(w)
    BY <1>0, <2>1 DEF EnsureWorkspace, ReuseWorkspace, AfterCreateStarts, At, Goto, Failed,
       service, Attempt
  <2>2. CASE AfterCreateEnds(w) \/ BeforeRun(w)
    BY <1>0, <2>2 DEF AfterCreateEnds, BeforeRun, At, Goto, Failed, HookCrashes, service, Attempt
  <2>3. CASE BuildPrompt(w) \/ LaunchTurn(w) \/ AfterRun(w)
    BY <1>0, <2>3 DEF BuildPrompt, LaunchTurn, AfterRun, At, Goto, FinishWith, HookCrashes,
       service, Attempt
  <2>4. CASE TurnEnds(w)
    BY <1>0, <2>4 DEF TurnEnds, At, FinishWith, service, Attempt
  <2>5. CASE RefreshIssue(w)
    <3>1. attempts[w].phase = "refresh" /\ tracked' = tracked
      BY <2>5 DEF RefreshIssue, At, service
    <3>2. CASE FinishWith(w, "tracker")
      BY <1>0, <3>1, <3>2 DEF FinishWith, At, Attempt
    <3>3. ASSUME NEW x \in BOOLEAN, NEW p \in {"prompt", "after_run"}, NEW t,
                 attempts' = [attempts EXCEPT ![w].active = x, ![w].phase = p, ![w].turn = t]
          PROVE  At(w, "free")' = FALSE
      <4>1. attempts' = [attempts EXCEPT
                            ![w] = [attempts[w] EXCEPT !.active = x, !.phase = p, !.turn = t]]
        BY <1>0, <3>3
      <4>2. attempts'[w].phase = p
        BY <1>0, <4>1 DEF Attempt
      <4> QED BY <4>2 DEF At
    <3>4. ASSUME NEW x \in BOOLEAN,
                 attempts' = [attempts EXCEPT
                     ![w].active = x,
                     ![w].phase = IF Continues(w, x) THEN "prompt" ELSE "after_run",
                     ![w].turn = IF Continues(w, x) THEN @ + 1 ELSE @]
          PROVE  At(w, "free")' = FALSE
      <4> DEFINE p == IF Continues(w, x) THEN "prompt" ELSE "after_run"
                 t == IF Continues(w, x) THEN attempts[w].turn + 1 ELSE attempts[w].turn
      <4>1. attempts' = [attempts EXCEPT ![w].active = x, ![w].phase = p, ![w].turn = t]
        BY <1>0, <3>4
      <4>2. p \in {"prompt", "after_run"}
        OBVIOUS
      <4> HIDE DEF p, t
      <4> QED BY <4>1, <4>2, <3>3
    <3> QED BY <2>5, <3>1, <3>2, <3>4 DEF RefreshIssue, At
  <2> QED BY <2>1, <2>2, <2>3, <2>4, <2>5 DEF RunAttempt
<1>2. \A v \in Workers \ {w} : attempts'[v] = attempts[v]
  BY <1>0 DEF RunAttempt, EnsureWorkspace, ReuseWorkspace, AfterCreateStarts, AfterCreateEnds,
     BeforeRun, BuildPrompt, LaunchTurn, TurnEnds, RefreshIssue, AfterRun, Goto, Failed,
     FinishWith, HookCrashes
<1>3. AtWork' = AtWork
  BY <1>1, <1>2, SameAtWork DEF At
<1> QED BY <1>1, <1>3 DEF Tracked

\* Every step is one of the contract, or none.
LEMMA RunsStepTaken == TypeOK /\ [Next]_vars => RunsStep
<1> SUFFICES ASSUME TypeOK, [Next]_vars PROVE RunsStep
  OBVIOUS
<1>0. attempts \in [Workers -> Attempt] /\ tracked \in BOOLEAN
  BY DEF TypeOK
<1>1. ASSUME NEW w \in Workers, Report(w) PROVE RunsStep
  <2>1. ~At(w, "free") /\ At(w, "free")' /\ \A v \in Workers \ {w} : At(v, "free")' <=> At(v, "free")
    BY <1>0, <1>1 DEF Report, At, Free
  <2>2. w \in AtWork["issue"] /\ AtWork' = [AtWork EXCEPT !["issue"] = @ \ {w}]
    BY <2>1 DEF AtWork
  <2>3. Tracked' = Tracked \ {"issue"}
    BY <1>1 DEF Report, Tracked
  <2>4. Runs!Report("issue", w)
    BY <2>2, <2>3 DEF Runs!Report, AtWork, Tracked
  <2> QED BY <2>4 DEF RunsStep, Runs!Next
<1>2. ASSUME NEW w \in Workers, RunAttempt(w), ~Report(w) PROVE RunsStep
  BY <1>2, InnerStep DEF RunsStep
<1>3. ASSUME NEW w \in Workers, Dispatch(w) PROVE RunsStep
  <2>1. At(w, "free") /\ ~At(w, "free")' /\ \A v \in Workers \ {w} : At(v, "free")' <=> At(v, "free")
    BY <1>0, <1>3 DEF Dispatch, At
  <2>2. w \notin AtWork["issue"] /\ AtWork' = [AtWork EXCEPT !["issue"] = @ \cup {w}]
    BY <2>1 DEF AtWork
  <2>3. "issue" \notin Tracked /\ Tracked' = Tracked \cup {"issue"}
    BY <1>3 DEF Dispatch, Tracked
  <2>4. Runs!Dispatch("issue", w)
    BY <2>2, <2>3 DEF Runs!Dispatch, AtWork, Tracked
  <2> QED BY <2>4 DEF RunsStep, Runs!Next
<1>4. CASE Terminate
  <2>1. AtWork' = AtWork
    BY <1>4, SameAtWork DEF Terminate, workspace, At
  <2>2. "issue" \in Tracked /\ Tracked' = Tracked \ {"issue"}
    BY <1>4 DEF Terminate, Tracked
  <2>3. Runs!LetGo("issue")
    BY <2>1, <2>2 DEF Runs!LetGo, AtWork, Tracked
  <2> QED BY <2>3 DEF RunsStep, Runs!Next
<1>5. CASE RemoveWorkspace
  <2>1. \A w \in Workers : attempts'[w].phase = attempts[w].phase
    BY <1>0, <1>5 DEF RemoveWorkspace, workspace, Attempt
  <2>2. AtWork' = AtWork
    BY <2>1, SameAtWork DEF At
  <2> QED BY <1>5, <2>2 DEF RemoveWorkspace, Tracked, RunsStep
<1>6. CASE Restart
  <2>1. \A w \in Workers : At(w, "free")'
    BY <1>6 DEF Restart, At, Free
  <2>2. AtWork' = [i \in {"issue"} |-> {}] /\ Tracked' = {}
    BY <1>6, <2>1 DEF Restart, AtWork, Tracked
  <2>3. Runs!Over
    BY <2>2 DEF Runs!Over, AtWork, Tracked
  <2> QED BY <2>3 DEF RunsStep, Runs!Next
<1>7. CASE UNCHANGED vars
  <2>1. AtWork' = AtWork
    BY <1>7, SameAtWork DEF vars, At
  <2> QED BY <1>7, <2>1 DEF vars, Tracked, RunsStep
<1> QED BY <1>1, <1>2, <1>3, <1>4, <1>5, <1>6, <1>7 DEF Next

\* The attempts that meet in one directory, for any number of workers and whatever fails
\* in them: the orchestrator's side of the same contract is Orchestrator's theorem
\* RunsProvided.
THEOREM RunsAssumed == Spec => ImplementsIssueRuns
<1>1. Init => Runs!Init
  <2> SUFFICES ASSUME Init PROVE Runs!Init
    OBVIOUS
  <2>1. \A w \in Workers : At(w, "free")
    BY DEF Init, At, Free
  <2> QED BY <2>1 DEF Init, Runs!Init
<1>2. TypeOK /\ [Next]_vars => [Runs!Next]_<<AtWork, Tracked>>
  BY RunsStepTaken DEF RunsStep
<1> QED BY <1>1, <1>2, TypeCorrect, PTL DEF Spec, ImplementsIssueRuns, Runs!Spec, AtWork, Tracked

=============================================================================
