--------------------------- MODULE WorkflowReload ---------------------------
(***************************************************************************)
(* The configuration store of reload.py over the loader of                 *)
(* workflow_loader.py: a WORKFLOW.md that editors change at will, and a    *)
(* store that polls it on every tick, re-reads it when its signature has   *)
(* changed and keeps the last known good configuration when that fails.    *)
(*                                                                         *)
(* The store looks at the file several times during one poll, and an edit  *)
(* may fall between any two looks.                                         *)
(***************************************************************************)
EXTENDS Naturals

CONSTANTS
    MaxEdits,     \* bound: how often the file changes
    FlakyReads,   \* whether reading an existing file may fail
    Kinds,        \* the kinds of content editors write
    None          \* absence: no file, no signature, no configuration

\* A content that loads and resolves, one rejected with a WorkflowConfigError,
\* and one that is not UTF-8.
AllKinds == {"valid", "broken", "garbled"}

ASSUME EditAssumption == MaxEdits \in Nat /\ FlakyReads \in BOOLEAN /\ Kinds \subseteq AllKinds

\* A version of the file.  The number stands for what it says and for its mtime
\* and size: every edit changes them, and no old version comes back with its old
\* ones.
Version == [number : 0 .. MaxEdits, kind : AllKinds]

ASSUME NoneAssumption == None \notin Version /\ None \notin 0 .. MaxEdits

VARIABLES
    file,       \* WORKFLOW.md on disk, None when it is missing
    edits,      \* how often the file has changed
    store,      \* where the store stands
    signature,  \* store._signature: a version's number, None if it cannot stat
    loaded,     \* the version load_workflow read, None if the read failed
    effective,  \* store._effective, None before the first load
    reported,   \* the signature under which the last attempt failed, if it did
    attempts    \* history: how often the store has re-read the file

disk == <<file, edits>>
vars == <<disk, store, signature, loaded, effective, reported, attempts>>

\* _stat_signature
Stat == IF file = None THEN None ELSE file.number

Init ==
    /\ file \in [number : {0}, kind : Kinds] \cup {None}
    /\ edits = 0
    /\ store = "restat" /\ signature = None
    /\ loaded = None /\ effective = None
    /\ reported = {} /\ attempts = 0

-----------------------------------------------------------------------------
(* The store.  The constructor stats and loads as reload does; a failure   *)
(* there is fatal.                                                          *)

\* poll: nothing to do unless the signature differs.
Poll ==
    /\ store = "idle"
    /\ Stat # signature
    /\ store' = "restat"
    /\ UNCHANGED <<disk, signature, loaded, effective, reported, attempts>>

\* Mutant: the signature of the attempt is not remembered.
MutantSignatureNotTaken ==
    /\ store = "restat"
    /\ attempts' = attempts + 1
    /\ store' = "read"
    /\ UNCHANGED <<disk, signature, loaded, effective, reported>>

\* reload takes the signature first, a second look at the file.
TakeSignature ==
    /\ store = "restat"
    /\ signature' = Stat
    /\ attempts' = attempts + 1
    /\ store' = "read"
    /\ UNCHANGED <<disk, loaded, effective, reported>>

\* load_workflow reads the file, a third look.  What is no text raises an error
\* that is not a WorkflowConfigError and ends the poll, and the event loop.
Read ==
    /\ store = "read"
    /\ loaded' \in {file} \cup (IF FlakyReads THEN {None} ELSE {})
    /\ store' = IF loaded' # None /\ loaded'.kind = "garbled" THEN "raised" ELSE "resolve"
    /\ UNCHANGED <<disk, signature, effective, reported, attempts>>

\* Mutant: what could be read is adopted.
MutantLoadedUnchecked == loaded # None

\* load_workflow and resolve_config succeeded.
Loaded == loaded # None /\ loaded.kind = "valid"

\* Mutant: a rejected reload is not reported.
MutantRejectedInSilence ==
    /\ store = "resolve"
    /\ \/ /\ Loaded
          /\ effective' = loaded /\ reported' = {} /\ store' = "idle"
       \/ /\ ~Loaded /\ effective # None
          /\ store' = "idle"
          /\ UNCHANGED <<effective, reported>>
       \/ /\ ~Loaded /\ effective = None
          /\ store' = "refused"
          /\ UNCHANGED <<effective, reported>>
    /\ UNCHANGED <<disk, signature, loaded, attempts>>

\* Mutant: the signature is taken again once the file is loaded.
MutantSignatureRetaken ==
    /\ store = "resolve"
    /\ \/ /\ Loaded
          /\ effective' = loaded /\ reported' = {} /\ store' = "idle"
       \/ /\ ~Loaded /\ effective # None
          /\ reported' = {signature} /\ store' = "idle"
          /\ UNCHANGED effective
       \/ /\ ~Loaded /\ effective = None
          /\ store' = "refused"
          /\ UNCHANGED <<effective, reported>>
    /\ signature' = Stat
    /\ UNCHANGED <<disk, loaded, attempts>>

\* What was read is parsed and resolved, and adopted or rejected as a whole.
Resolve ==
    /\ store = "resolve"
    /\ \/ /\ Loaded
          /\ effective' = loaded /\ reported' = {} /\ store' = "idle"
       \/ /\ ~Loaded /\ effective # None
          /\ reported' = {signature} /\ store' = "idle"
          /\ UNCHANGED effective
       \/ /\ ~Loaded /\ effective = None
          /\ store' = "refused"
          /\ UNCHANGED <<effective, reported>>
    /\ UNCHANGED <<disk, signature, loaded, attempts>>

-----------------------------------------------------------------------------
(* The editors.                                                            *)

\* A new version is written, over the old one or as a new file.
Edit ==
    /\ edits < MaxEdits
    /\ edits' = edits + 1
    /\ file' \in [number : {edits + 1}, kind : Kinds]
    /\ UNCHANGED <<store, signature, loaded, effective, reported, attempts>>

\* The file is removed, or moved out of the way.
Remove ==
    /\ edits < MaxEdits /\ file # None
    /\ edits' = edits + 1
    /\ file' = None
    /\ UNCHANGED <<store, signature, loaded, effective, reported, attempts>>

\* The store waits for its next tick, or is gone.
Quiet ==
    /\ store \in {"raised", "refused"} \/ (store = "idle" /\ Stat = signature)
    /\ UNCHANGED vars

Reloads == Poll \/ TakeSignature \/ Read \/ Resolve
Next == Reloads \/ Edit \/ Remove \/ Quiet

Spec == Init /\ [][Next]_vars

-----------------------------------------------------------------------------
(* Properties.                                                             *)

\* The types of the variables, and no store at work without a configuration
\* that was valid.
TypeOK ==
    /\ file \in Version \cup {None}
    /\ edits \in 0 .. MaxEdits
    /\ store \in {"idle", "restat", "read", "resolve", "raised", "refused"}
    /\ signature \in (0 .. MaxEdits) \cup {None}
    /\ loaded \in Version \cup {None}
    /\ effective \in Version \cup {None}
    /\ reported \subseteq (0 .. MaxEdits) \cup {None}
    /\ attempts \in Nat
    /\ effective # None => effective.kind = "valid"
    /\ store = "idle" => effective # None

\* A file is re-read only because it changed: the comment of reload promises
\* that a broken file is not tried again on every tick.
RereadOnlyAfterEdit == attempts <= edits + 1

\* reload.py says that a reload never raises for a bad file once the store exists.
\* It does for one that is no text; without such files it is proved.
ReloadNeverRaises == store = "raised" => effective = None

\* Between two polls, a file whose signature the store takes for known is in
\* force, or the operator was told why it is not: no edit is lost between the
\* looks of a poll.
NothingMissed ==
    store = "idle" /\ file # None /\ Stat = signature =>
        effective = file \/ Stat \in reported

=============================================================================
