------------------------ MODULE WorkflowReloadProofs ------------------------
(* Proofs about WorkflowReload, for every number of edits.                 *)
EXTENDS WorkflowReload, TLAPS

-----------------------------------------------------------------------------
(* Types.                                                                  *)

\* What an editor writes is a version.
LEMMA WrittenIsVersion ==
    ASSUME NEW n \in 0 .. MaxEdits, NEW f \in [number : {n}, kind : Kinds]
    PROVE  f \in Version
<1>1. f = [number |-> f.number, kind |-> f.kind] /\ f.number = n /\ f.kind \in Kinds
  OBVIOUS
<1>2. f.kind \in AllKinds
  BY <1>1, EditAssumption
<1> QED BY <1>1, <1>2 DEF Version

\* The types hold initially.
LEMMA TypedInit == Init => TypeOK
<1> SUFFICES ASSUME Init PROVE TypeOK
  OBVIOUS
<1>1. 0 \in 0 .. MaxEdits
  BY EditAssumption
<1>2. file \in Version \cup {None}
  BY <1>1, WrittenIsVersion DEF Init
<1> QED BY <1>1, <1>2 DEF Init, TypeOK

\* Every step keeps them; a configuration is adopted only if it is valid.
LEMMA TypedStep == TypeOK /\ [Next]_vars => TypeOK'
<1> SUFFICES ASSUME TypeOK, [Next]_vars PROVE TypeOK'
  OBVIOUS
<1> USE EditAssumption, NoneAssumption DEF TypeOK, Version, AllKinds, disk
<1>1. CASE Poll
  BY <1>1 DEF Poll
<1>2. CASE TakeSignature
  BY <1>2 DEF TakeSignature, Stat
<1>3. CASE Read
  BY <1>3 DEF Read
<1>4. CASE Resolve
  BY <1>4 DEF Resolve, Loaded
<1>5. CASE Edit
  <2>1. edits + 1 \in 0 .. MaxEdits
    BY <1>5 DEF Edit
  <2>2. file' \in Version
    BY <1>5, <2>1, WrittenIsVersion DEF Edit
  <2> QED BY <1>5, <2>1, <2>2 DEF Edit
<1>6. CASE Remove
  BY <1>6 DEF Remove
<1>7. CASE UNCHANGED vars
  BY <1>7 DEF vars
<1>8. Quiet => UNCHANGED vars
  BY DEF Quiet
<1> QED BY <1>1, <1>2, <1>3, <1>4, <1>5, <1>6, <1>7, <1>8 DEF Next, Reloads

\* TypeOK in every state: the store never runs on a configuration that did not
\* load and resolve, whatever the editors write.
THEOREM TypeCorrect == Spec => []TypeOK
<1> QED BY TypedInit, TypedStep, PTL DEF Spec

-----------------------------------------------------------------------------
(* A file is re-read only because it changed.                              *)

\* The strengthening: one edit is still to be accounted for whenever the store
\* is about to read or would find a new signature.
EditsOwed ==
    /\ attempts <= edits + 1
    /\ store = "restat" \/ Stat # signature => attempts <= edits

\* It holds before the initial load.
LEMMA OwedInit == Init => EditsOwed
<1> QED BY EditAssumption DEF Init, EditsOwed

\* An attempt takes the signature it is owed for; every edit owes one more.
LEMMA OwedStep == TypeOK /\ EditsOwed /\ [Next]_vars => EditsOwed'
<1> SUFFICES ASSUME TypeOK, EditsOwed, [Next]_vars PROVE EditsOwed'
  OBVIOUS
<1>0. attempts \in Nat /\ edits \in Nat
  BY EditAssumption DEF TypeOK
<1> USE <1>0 DEF EditsOwed, Stat, disk
<1>1. CASE Poll
  BY <1>1 DEF Poll
<1>2. CASE TakeSignature
  BY <1>2 DEF TakeSignature
<1>3. CASE Read
  BY <1>3 DEF Read
<1>4. CASE Resolve
  BY <1>4 DEF Resolve
<1>5. CASE Edit
  BY <1>5 DEF Edit
<1>6. CASE Remove
  BY <1>6 DEF Remove
<1>7. CASE UNCHANGED vars
  BY <1>7 DEF vars
<1>8. Quiet => UNCHANGED vars
  BY DEF Quiet
<1> QED BY <1>1, <1>2, <1>3, <1>4, <1>5, <1>6, <1>7, <1>8 DEF Next, Reloads

\* RereadOnlyAfterEdit for any number of edits: a poll after a failed reload
\* does not try the same broken file again.
THEOREM RereadsBounded == Spec => []RereadOnlyAfterEdit
<1>1. EditsOwed => RereadOnlyAfterEdit
  BY DEF EditsOwed, RereadOnlyAfterEdit
<1> QED BY <1>1, TypeCorrect, OwedInit, OwedStep, PTL DEF Spec

-----------------------------------------------------------------------------
(* No edit is lost between the looks of a poll.                            *)

\* The strengthening: signatures are those of past versions, so that an edit
\* made after the signature was taken differs from it; and a read under a
\* signature that still stands has seen the file or has failed.
LooksAgree ==
    /\ signature # None => signature <= edits
    /\ store = "resolve" /\ file # None /\ Stat = signature => loaded \in {file, None}
    /\ file # None => file.number <= edits
    /\ NothingMissed

\* It holds before the initial load.
LEMMA AgreeInit == Init => LooksAgree
<1> SUFFICES ASSUME Init PROVE LooksAgree
  OBVIOUS
<1>1. file # None => file.number = 0
  BY DEF Init
<1> QED BY <1>1 DEF Init, LooksAgree, NothingMissed

\* Every step keeps it: an edit after the signature makes the next poll reload,
\* a failed attempt is reported under the signature it failed with.
LEMMA AgreeStep == TypeOK /\ LooksAgree /\ [Next]_vars => LooksAgree'
<1> SUFFICES ASSUME TypeOK, LooksAgree, [Next]_vars PROVE LooksAgree'
  OBVIOUS
<1>0. /\ edits \in Nat /\ None \notin 0 .. MaxEdits /\ None \notin Version
      /\ signature # None => signature \in Nat
      /\ file # None => file.number \in 0 .. MaxEdits
  BY EditAssumption, NoneAssumption DEF TypeOK, Version
<1> USE <1>0 DEF LooksAgree, NothingMissed, Stat, disk
<1>1. CASE Poll
  BY <1>1 DEF Poll
<1>2. CASE TakeSignature
  BY <1>2 DEF TakeSignature
<1>3. CASE Read
  BY <1>3 DEF Read
<1>4. CASE Resolve
  <2>1. file' = file /\ edits' = edits /\ signature' = signature /\ store = "resolve"
    BY <1>4 DEF Resolve
  <2>2. CASE Loaded /\ effective' = loaded /\ store' = "idle"
    BY <2>1, <2>2 DEF Loaded
  <2>3. CASE reported' = {signature} /\ store' = "idle"
    BY <2>1, <2>3
  <2>4. CASE store' = "refused"
    BY <2>1, <2>4
  <2> QED BY <1>4, <2>2, <2>3, <2>4 DEF Resolve
<1>5. CASE Edit
  <2>1. edits + 1 \in 0 .. MaxEdits
    BY <1>5, EditAssumption DEF Edit, TypeOK
  <2>2. file' \in Version
    BY <1>5, <2>1, WrittenIsVersion DEF Edit
  <2>3. file' # None /\ file'.number = edits + 1 /\ edits' = edits + 1
    BY <1>5, <2>2 DEF Edit
  <2>4. signature' = signature /\ (signature # None => signature < edits + 1)
    BY <1>5 DEF Edit
  <2>5. Stat' # signature'
    BY <2>1, <2>3, <2>4
  <2> QED BY <1>5, <2>1, <2>3, <2>4, <2>5 DEF Edit
<1>6. CASE Remove
  BY <1>6 DEF Remove
<1>7. CASE UNCHANGED vars
  BY <1>7 DEF vars
<1>8. Quiet => UNCHANGED vars
  BY DEF Quiet
<1> QED BY <1>1, <1>2, <1>3, <1>4, <1>5, <1>6, <1>7, <1>8 DEF Next, Reloads

\* NothingMissed for any number of edits, wherever they fall between the stat of
\* the poll, that of the reload and the read.
THEOREM NoEditLost == Spec => []NothingMissed
<1>1. LooksAgree => NothingMissed
  BY DEF LooksAgree
<1> QED BY <1>1, TypeCorrect, AgreeInit, AgreeStep, PTL DEF Spec

-----------------------------------------------------------------------------
(* What the store raises for.                                              *)

\* What is on disk was written by an editor, and the poll got past the read of it.
Survives == store # "raised" /\ (file # None => file.kind \in Kinds)

\* The store survives every step of editors that write text.
LEMMA SurvivesStep ==
    ASSUME "garbled" \notin Kinds
    PROVE  Survives /\ [Next]_vars => Survives'
<1> SUFFICES ASSUME Survives, [Next]_vars PROVE Survives'
  OBVIOUS
<1>1. CASE Read
  BY <1>1 DEF Read, Survives, disk
<1>2. CASE Poll \/ TakeSignature \/ Resolve
  BY <1>2 DEF Poll, TakeSignature, Resolve, Survives, disk
<1>3. CASE Edit \/ Remove
  BY <1>3 DEF Edit, Remove, Survives
<1>4. CASE Quiet \/ UNCHANGED vars
  BY <1>4 DEF Quiet, vars, disk, Survives
<1> QED BY <1>1, <1>2, <1>3, <1>4 DEF Next, Reloads

\* A file that is no text is the only thing a reload raises for: where editors write none,
\* "never raises for a bad file" holds, whatever else is wrong with the file, however
\* often it changes or is missing, and wherever an edit falls.  Without the condition the
\* read of a garbled file raises past both handlers of the reload.
THEOREM TextNeverRaises ==
    ASSUME "garbled" \notin Kinds
    PROVE  Spec => []ReloadNeverRaises
<1>1. Init => Survives
  BY DEF Init, Survives
<1>2. Survives => ReloadNeverRaises
  BY DEF Survives, ReloadNeverRaises
<1> QED BY <1>1, <1>2, SurvivesStep, PTL DEF Spec

=============================================================================
