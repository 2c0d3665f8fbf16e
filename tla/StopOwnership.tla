--------------------------- MODULE StopOwnership ---------------------------
(***************************************************************************)
(* What the SIGSTOP ledger promises to the controller and to the restart   *)
(* recovery, with no files in it: a set of owned process identities, and   *)
(* the subset of them whose stop is durably known to be SignalOnly.        *)
(*                                                                         *)
(* A claim is the licence to resume a process with SIGCONT alone, so the   *)
(* only step that may create one is Prove: every other step, a failed or   *)
(* an interrupted one included, can only weaken what is claimed.           *)
(***************************************************************************)
CONSTANT Identities     \* process identities, (pid, start time) pairs

VARIABLES
  owned,                \* identities stopped by Freezeit, of any provenance
  claims                \* owned identities claimed to be SignalOnly

vars == <<owned, claims>>

Init ==
  /\ owned \in SUBSET Identities
  /\ claims = {}

\* A stop of i is recorded; whatever was claimed about i is withdrawn.
Own(i) ==
  /\ owned' = owned \cup {i}
  /\ claims' \in SUBSET (claims \ {i})

\* The record of i is removed.
Disown(i) ==
  /\ owned' = owned \ {i}
  /\ claims' \in SUBSET (claims \ {i})

\* A completed direct signal transaction on an owned identity is made durable.
Prove(i) ==
  /\ i \in owned
  /\ UNCHANGED owned
  /\ i \in claims'
  /\ claims' \in SUBSET (claims \cup {i})

\* An interrupted or a failed write forgets claims, never owned identities.
Weaken ==
  /\ UNCHANGED owned
  /\ claims' \in SUBSET claims

Next ==
  \/ \E i \in Identities : Own(i) \/ Disown(i) \/ Prove(i)
  \/ Weaken

Spec == Init /\ [][Next]_vars
=============================================================================
