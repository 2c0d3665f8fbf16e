---------------------------- MODULE SignalLedger ----------------------------
(***************************************************************************)
(* The persistent SIGSTOP ledger of sys/procfs.rs: a main file with one    *)
(* (pid, start time) line for each process Freezeit stopped, and a sidecar *)
(* file whose lines upgrade a main line to SignalOnly.  A sidecar line is  *)
(* bound to one generation of the main file, the file's inode.             *)
(*                                                                         *)
(* Each file operation is an action of its own, because the daemon may die *)
(* between two of them and any of them may fail.                           *)
(***************************************************************************)
EXTENDS FiniteSets

CONSTANTS
  Identities,           \* process identities, (pid, start time) pairs
  Inodes,               \* inode numbers the filesystem may give the main file
  None,                 \* no file, or no line of the sidecar
  Invalid               \* a sidecar line that does not parse as SignalOnly

ASSUME InodesAssumption ==
  /\ None \notin Inodes
  /\ Invalid \notin Inodes
  /\ None # Invalid

VARIABLES
  main,                 \* main file: what each identity's lines amount to
  inode,                \* generation of the main file, None when it is absent
  sidecar,              \* sidecar file: the generation each identity claims
  untrusted,            \* the sidecar has a line without a readable identity
  call,                 \* the ledger call in progress and its next file step
  answer                \* what the last finished call returned

vars == <<main, inode, sidecar, untrusted, call, answer>>
disk == <<main, inode, sidecar, untrusted>>

MainLine == {"absent", "Canonical", "ResidualUnknown"}
Step == {"idle", "sidecar", "main", "rebind"}
Answer == {"none", "recorded", "removed", "missing", "promoted", "refused", "error"}

NoCall == [step |-> "idle", id |-> None, records |-> {}, kept |-> {}, result |-> "none"]

TypeOK ==
  /\ main \in [Identities -> MainLine]
  /\ inode \in Inodes \cup {None}
  /\ sidecar \in [Identities -> Inodes \cup {None, Invalid}]
  /\ untrusted \in BOOLEAN
  /\ call \in [step : Step, id : Identities \cup {None}, records : SUBSET Identities,
               kept : SUBSET Identities, result : Answer]
  /\ answer \in Answer

-----------------------------------------------------------------------------
(* Lookups *)

\* Identities with a main line, whatever its encoding.
Owned == {i \in Identities : main[i] # "absent"}

\* The lookup answers SignalOnly: a canonical main line, a sidecar that can be
\* trusted, and a sidecar line of the current generation.
SignalOnly(i) ==
  /\ main[i] = "Canonical"
  /\ inode # None
  /\ ~untrusted
  /\ sidecar[i] = inode

Visible == {i \in Identities : SignalOnly(i)}

Ownership(i) ==
  CASE main[i] = "absent" -> "None"
    [] SignalOnly(i)      -> "SignalOnly"
    [] OTHER              -> "ResidualUnknown"

\* Mutants: the claim of the rewritten identity is carried over, or that of the
\* identity of the call before.
KeptClaimsOfAll(i) == Visible
KeptClaimsStale(i) == (Visible \ {i}) \cup {call.id}

\* Claims of other identities that a rewrite for i carries over: those of the
\* current generation whose main line is canonical.
KeptClaims(i) == Visible \ {i}

-----------------------------------------------------------------------------
(* A ledger left by this or by an earlier version: extended and duplicate
   main lines, sidecar lines that do not parse.  No claim is effective. *)
Init ==
  /\ main \in [Identities -> MainLine]
  /\ inode \in IF Owned = {} THEN {None} ELSE Inodes
  /\ sidecar \in [Identities -> {None, Invalid}]
  /\ untrusted \in BOOLEAN
  /\ call = NoCall
  /\ answer = "none"

Idle == call.step = "idle"

\* The call reads both files, computes their next contents and starts to
\* write.  An unreadable sidecar counts as one that cannot be trusted.
Begin(i, records, result) ==
  /\ Idle
  /\ \E kept \in {KeptClaims(i), {}} :
       call' = [step |-> "sidecar", id |-> i, records |-> records, kept |-> kept,
                result |-> result]
  /\ answer' = "none"
  /\ UNCHANGED disk

\* Mutant: the main file is written with the new record only.
BeginRecordAlone(i) == Begin(i, {i}, "recorded")

\* record_freezeit_signal_stop: the identity gets a canonical main line.
BeginRecord(i) == Begin(i, Owned \cup {i}, "recorded")

\* take_freezeit_signal_stop: the identity's main line is removed; the caller
\* learns whether there was one.
BeginTake(i) == Begin(i, Owned \ {i}, IF i \in Owned THEN "removed" ELSE "missing")

\* Either call fails before it writes: /proc or the main file is unreadable.
ReadFails ==
  /\ Idle
  /\ answer' = "error"
  /\ UNCHANGED <<disk, call>>

Return(result) == call' = NoCall /\ answer' = result

\* Mutant: the sidecar stays until it is written again.
RemoveSidecarLater ==
  /\ call.step = "sidecar"
  /\ call' = [call EXCEPT !.step = "main"]
  /\ UNCHANGED <<disk, answer>>

\* Every claim goes before the main file changes.
RemoveSidecar ==
  /\ call.step = "sidecar"
  /\ sidecar' = [i \in Identities |-> None]
  /\ untrusted' = FALSE
  /\ call' = [call EXCEPT !.step = "main"]
  /\ UNCHANGED <<main, inode, answer>>

\* A file without lines is removed; any other is renamed into place, with an
\* inode that differs from that of the file it replaces.  All lines are
\* written in the two-field form.
ReplaceMain ==
  /\ call.step = "main"
  /\ main' = [i \in Identities |-> IF i \in call.records THEN "Canonical" ELSE "absent"]
  /\ inode' \in IF call.records = {} THEN {None} ELSE Inodes \ {inode}
  /\ IF call.kept = {}
       THEN Return(call.result)
       ELSE call' = [call EXCEPT !.step = "rebind"] /\ UNCHANGED answer
  /\ UNCHANGED <<sidecar, untrusted>>

\* The claims carried over are written again, bound to the new generation.
Rebind ==
  /\ call.step = "rebind"
  /\ sidecar' = [i \in Identities |-> IF i \in call.kept THEN inode ELSE None]
  /\ Return(call.result)
  /\ UNCHANGED <<main, inode, untrusted>>

\* The next file operation fails and the call returns the error.
WriteFails ==
  /\ ~Idle
  /\ Return("error")
  /\ UNCHANGED disk

-----------------------------------------------------------------------------
(* promote_freezeit_signal_stop replaces the sidecar once. *)

\* A claim of another generation, an unparsable line or a sidecar that cannot
\* be trusted refuses the promotion.
Promotable(i) ==
  /\ main[i] = "Canonical"
  /\ inode # None
  /\ ~untrusted
  /\ sidecar[i] \in {None, inode}

Promote(i) ==
  /\ Idle
  /\ Promotable(i)
  /\ sidecar' = [j \in Identities |-> IF j \in Visible \cup {i} THEN inode ELSE None]
  /\ answer' = "promoted"
  /\ UNCHANGED <<main, inode, untrusted, call>>

PromoteRefused(i) ==
  /\ Idle
  /\ ~Promotable(i)
  /\ answer' = "refused"
  /\ UNCHANGED <<disk, call>>

-----------------------------------------------------------------------------
(* The daemon dies; the files stay as they are. *)
Crash ==
  /\ Return("none")
  /\ UNCHANGED disk

Next ==
  \/ \E i \in Identities : BeginRecord(i) \/ BeginTake(i) \/ Promote(i) \/ PromoteRefused(i)
  \/ ReadFails
  \/ RemoveSidecar
  \/ ReplaceMain
  \/ Rebind
  \/ WriteFails
  \/ Crash

Spec == Init /\ [][Next]_vars

-----------------------------------------------------------------------------
(* Properties *)

\* While the main file is being replaced no claim is effective, so that an
\* interrupted rewrite leaves ResidualUnknown only (comment of
\* rewrite_main_ledger_with_rebound_provenance).
NoClaimDuringRewrite == call.step \in {"main", "rebind"} => Visible = {}

\* A rewrite for one process never drops the ownership of another: the record
\* of an identity goes only in a take of that identity.
DropsOnlyTheTaken == \A i \in Owned \ Owned' : call.id = i /\ call.result = "removed"
OthersStayOwned == [][DropsOnlyTheTaken]_vars

\* The claims a lookup may still come to see: those on disk, or during a
\* rewrite those about to be written again.
PendingClaims == IF call.step \in {"main", "rebind"} THEN call.kept ELSE Visible

\* The ledger implements StopOwnership: whatever fails and wherever the daemon
\* dies, only promote_freezeit_signal_stop makes an identity SignalOnly, and a
\* later record or take of the identity ends its claim.
Abstract == INSTANCE StopOwnership WITH owned <- Owned, claims <- PendingClaims
ImplementsStopOwnership == Abstract!Spec
=============================================================================
