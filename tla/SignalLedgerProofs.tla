------------------------- MODULE SignalLedgerProofs -------------------------
(***************************************************************************)
(* Proofs about SignalLedger, for every set of identities and of inodes.   *)
(*                                                                         *)
(* The safety argument is the inductive invariant LedgerInv: a rewrite     *)
(* carries only claims that were visible when it began, never one about    *)
(* the identity it is for; from the removal of the sidecar to its last     *)
(* write no claim is on disk, whatever inode the new main file gets.       *)
(***************************************************************************)
EXTENDS SignalLedger, TLAPS

\* What a call in progress knows about the files it is going to replace.
CallInv ==
  /\ call.step = "idle" => call = NoCall
  /\ call.step # "idle" => call.id \in Identities /\ call.kept \subseteq call.records \ {call.id}
  /\ call.step = "sidecar" => call.kept \subseteq Visible
  /\ call.step \in {"sidecar", "main"} =>
       \/ call.result = "recorded" /\ call.records = Owned \cup {call.id}
       \/ call.result \in {"removed", "missing"} /\ call.records = Owned \ {call.id}
  /\ call.step = "sidecar" \/ call.step = "main" => (call.result = "missing" => call.id \notin Owned)
  /\ call.step = "rebind" =>
       /\ inode # None
       /\ \A i \in call.kept : main[i] = "Canonical"

\* Between its removal and its rewrite the sidecar holds no claim.
SidecarInv == call.step \in {"main", "rebind"} => \A i \in Identities : sidecar[i] = None

LedgerInv == TypeOK /\ CallInv /\ SidecarInv

-----------------------------------------------------------------------------
(* The invariant holds initially: no call is in progress. *)
LEMMA InitInv == Init => LedgerInv
  BY InodesAssumption DEF Init, LedgerInv, TypeOK, CallInv, SidecarInv, NoCall, MainLine, Step, Answer, Owned

(* Starting a call leaves the files alone. *)
LEMMA BeginInv ==
  ASSUME LedgerInv, NEW i \in Identities, NEW records \in SUBSET Identities,
         NEW result \in {"recorded", "removed", "missing"},
         Begin(i, records, result),
         \/ result = "recorded" /\ records = Owned \cup {i}
         \/ result \in {"removed", "missing"} /\ records = Owned \ {i},
         result = "missing" => i \notin Owned
  PROVE  LedgerInv'
<1>1. PICK kept \in {KeptClaims(i), {}} :
        call' = [step |-> "sidecar", id |-> i, records |-> records, kept |-> kept, result |-> result]
  BY DEF Begin
<1>2. kept \subseteq Visible \ {i} /\ Visible \subseteq Owned /\ Visible \subseteq Identities
  BY DEF KeptClaims, Visible, SignalOnly, Owned
<1>3. UNCHANGED disk /\ answer' = "none"
  BY DEF Begin
<1>4. Visible' = Visible /\ Owned' = Owned
  BY <1>3 DEF disk, Visible, SignalOnly, Owned
<1>5. TypeOK'
  BY <1>1, <1>2, <1>3 DEF LedgerInv, TypeOK, disk, Step, Answer
<1>6. CallInv'
  <2>1. call'.kept \subseteq call'.records \ {call'.id}
    BY <1>1, <1>2
  <2>2. QED
    BY <1>1, <1>2, <1>4, <2>1 DEF CallInv
<1>7. SidecarInv'
  BY <1>1 DEF SidecarInv
<1>8. QED
  BY <1>5, <1>6, <1>7 DEF LedgerInv

(* Ending a call without touching the files. *)
LEMMA ReturnInv ==
  ASSUME LedgerInv, NEW result \in Answer, Return(result), UNCHANGED disk
  PROVE  LedgerInv'
  BY DEF LedgerInv, TypeOK, CallInv, SidecarInv, Return, NoCall, disk, Step, Answer

LEMMA NextInv == LedgerInv /\ [Next]_vars => LedgerInv'
<1> SUFFICES ASSUME LedgerInv, [Next]_vars PROVE LedgerInv'
  OBVIOUS
<1>1. ASSUME NEW i \in Identities, BeginRecord(i) PROVE LedgerInv'
  <2>1. Owned \cup {i} \in SUBSET Identities
    BY DEF Owned
  <2>2. QED
    BY <1>1, <2>1, BeginInv DEF BeginRecord
<1>2. ASSUME NEW i \in Identities, BeginTake(i) PROVE LedgerInv'
  <2>1. Owned \ {i} \in SUBSET Identities
    BY DEF Owned
  <2>2. CASE i \in Owned
    BY <1>2, <2>1, <2>2, BeginInv DEF BeginTake
  <2>3. CASE i \notin Owned
    BY <1>2, <2>1, <2>3, BeginInv DEF BeginTake
  <2>4. QED
    BY <2>2, <2>3
<1>3. ASSUME NEW i \in Identities, Promote(i) PROVE LedgerInv'
  <2>1. call.step = "idle" /\ UNCHANGED <<main, inode, untrusted, call>>
    BY <1>3 DEF Promote, Idle
  <2>2. TypeOK'
    BY <1>3 DEF Promote, Promotable, LedgerInv, TypeOK, Answer
  <2>3. CallInv' /\ SidecarInv'
    BY <2>1 DEF LedgerInv, CallInv, SidecarInv
  <2>4. QED
    BY <2>2, <2>3 DEF LedgerInv
<1>4. ASSUME NEW i \in Identities, PromoteRefused(i) PROVE LedgerInv'
  BY <1>4 DEF PromoteRefused, Idle, LedgerInv, TypeOK, CallInv, SidecarInv, disk, Answer
<1>5. CASE ReadFails
  BY <1>5 DEF ReadFails, Idle, LedgerInv, TypeOK, CallInv, SidecarInv, disk, Answer
<1>6. CASE RemoveSidecar
  <2>1. TypeOK'
    BY <1>6 DEF RemoveSidecar, LedgerInv, TypeOK, Step
  <2>2. Owned' = Owned
    BY <1>6 DEF RemoveSidecar, Owned
  <2>3. /\ call'.step = "main" /\ call'.id = call.id /\ call'.records = call.records
        /\ call'.kept = call.kept /\ call'.result = call.result
    BY <1>6 DEF RemoveSidecar, LedgerInv, TypeOK
  <2>4. CallInv'
    BY <1>6, <2>2, <2>3 DEF RemoveSidecar, LedgerInv, CallInv
  <2>5. SidecarInv'
    BY <1>6 DEF RemoveSidecar, SidecarInv
  <2>6. QED
    BY <2>1, <2>4, <2>5 DEF LedgerInv
<1>7. CASE ReplaceMain
  <2>1. /\ call.step = "main" /\ call.kept \subseteq call.records /\ call.records \subseteq Identities
        /\ UNCHANGED <<sidecar, untrusted>>
    BY <1>7 DEF ReplaceMain, LedgerInv, TypeOK, CallInv
  <2>2. /\ main' \in [Identities -> MainLine]
        /\ inode' \in Inodes \cup {None}
        /\ \A i \in call.records : main'[i] = "Canonical"
    BY <1>7, <2>1 DEF ReplaceMain, MainLine
  <2>3. CASE call.kept = {}
    BY <1>7, <2>1, <2>2, <2>3
    DEF ReplaceMain, Return, NoCall, LedgerInv, TypeOK, CallInv, SidecarInv, Step, Answer
  <2>4. CASE call.kept # {}
    <3>1. call' = [call EXCEPT !.step = "rebind"] /\ UNCHANGED answer
      BY <1>7, <2>4 DEF ReplaceMain
    <3>2. /\ call'.step = "rebind" /\ call'.id = call.id /\ call'.records = call.records
          /\ call'.kept = call.kept /\ call'.result = call.result
      BY <3>1 DEF LedgerInv, TypeOK
    <3>3. inode' # None
      BY <1>7, <2>1, <2>4, InodesAssumption DEF ReplaceMain
    <3>4. TypeOK'
      BY <2>1, <2>2, <3>1 DEF LedgerInv, TypeOK, Step
    <3>5. CallInv'
      BY <2>1, <2>2, <3>2, <3>3 DEF LedgerInv, CallInv
    <3>6. SidecarInv'
      BY <2>1, <3>2 DEF LedgerInv, SidecarInv
    <3>7. QED
      BY <3>4, <3>5, <3>6 DEF LedgerInv
  <2>5. QED
    BY <2>3, <2>4
<1>8. CASE Rebind
  <2>1. call.step = "rebind" /\ inode \in Inodes \cup {None}
    BY <1>8 DEF Rebind, LedgerInv, TypeOK
  <2>2. QED
    BY <1>8, <2>1 DEF Rebind, Return, NoCall, LedgerInv, TypeOK, CallInv, SidecarInv, Step, Answer
<1>9. CASE WriteFails
  BY <1>9, ReturnInv DEF WriteFails, Answer
<1>10. CASE Crash
  BY <1>10, ReturnInv DEF Crash, Answer
<1>11. CASE UNCHANGED vars
  BY <1>11 DEF vars, LedgerInv, TypeOK, CallInv, SidecarInv, Visible, SignalOnly, Owned
<1>12. QED
  BY <1>1, <1>2, <1>3, <1>4, <1>5, <1>6, <1>7, <1>8, <1>9, <1>10, <1>11 DEF Next

LEMMA Invariance == Spec => []LedgerInv
  BY InitInv, NextInv, PTL DEF Spec

\* Every variable keeps its type, whatever fails and wherever the daemon dies.
THEOREM TypeCorrect == Spec => []TypeOK
  BY Invariance, PTL DEF LedgerInv

\* An interrupted rewrite of the ledger can only leave ResidualUnknown.
THEOREM RewriteIsConservative == Spec => []NoClaimDuringRewrite
<1>1. LedgerInv => NoClaimDuringRewrite
  BY InodesAssumption DEF LedgerInv, SidecarInv, NoClaimDuringRewrite, Visible, SignalOnly
<1>2. QED
  BY <1>1, Invariance, PTL

-----------------------------------------------------------------------------
(* The steps that leave the ownership of every identity as it is. *)
LEMMA OwnedKept ==
  UNCHANGED main => Owned' = Owned
  BY DEF Owned

(* Replacing the main file makes the recorded identities the owned ones. *)
LEMMA ReplaceMainOwned ==
  ASSUME LedgerInv, ReplaceMain
  PROVE  Owned' = call.records
<1>1. call.records \subseteq Identities
  BY DEF LedgerInv, TypeOK
<1>2. QED
  BY <1>1 DEF ReplaceMain, Owned

\* A rewrite for one process never drops the ownership of another one.
THEOREM OthersStayOwnedCorrect == Spec => OthersStayOwned
<1>1. LedgerInv /\ [Next]_vars => [DropsOnlyTheTaken]_vars
  <2> SUFFICES ASSUME LedgerInv, [Next]_vars, NEW i \in Owned \ Owned'
               PROVE  call.id = i /\ call.result = "removed"
    BY DEF DropsOnlyTheTaken
  <2>1. CASE ReplaceMain
    <3>1. Owned' = call.records
      BY <2>1, ReplaceMainOwned
    <3>2. \/ call.result = "recorded" /\ call.records = Owned \cup {call.id}
          \/ call.result \in {"removed", "missing"} /\ call.records = Owned \ {call.id}
      BY <2>1 DEF ReplaceMain, LedgerInv, CallInv
    <3>3. call.result = "missing" => call.id \notin Owned
      BY <2>1 DEF ReplaceMain, LedgerInv, CallInv
    <3>4. QED
      BY <3>1, <3>2, <3>3
  <2>2. CASE ~ReplaceMain
    <3>1. UNCHANGED main
      BY <2>2 DEF Next, vars, disk, BeginRecord, BeginTake, Begin, ReadFails, RemoveSidecar,
                  Rebind, WriteFails, Promote, PromoteRefused, Crash
    <3>2. QED
      BY <3>1, OwnedKept
  <2>3. QED
    BY <2>1, <2>2
<1>2. QED
  BY <1>1, Invariance, PTL DEF Spec, OthersStayOwned

(* A step that leaves the files alone keeps what they claim. *)
LEMMA VisibleKept ==
  UNCHANGED disk => Visible' = Visible /\ Owned' = Owned
  BY DEF disk, Visible, SignalOnly, Owned

\* Every step of the ledger is a step, or a stutter, of what it promises: only
\* a promotion creates a claim.
THEOREM Refinement == Spec => ImplementsStopOwnership
<1>1. Init => Abstract!Init
  BY InodesAssumption
  DEF Init, Abstract!Init, PendingClaims, Visible, SignalOnly, Owned, NoCall
<1>2. LedgerInv /\ [Next]_vars => [Abstract!Next]_Abstract!vars
  <2> SUFFICES ASSUME LedgerInv, [Next]_vars PROVE [Abstract!Next]_Abstract!vars
    OBVIOUS
  <2> USE DEF Abstract!Next, Abstract!vars
  <2>1. ASSUME NEW i \in Identities, BeginRecord(i) \/ BeginTake(i)
        PROVE  UNCHANGED <<Owned, PendingClaims>>
    <3>1. UNCHANGED disk /\ call.step = "idle" /\ call'.step = "sidecar"
      BY <2>1 DEF BeginRecord, BeginTake, Begin, Idle
    <3>2. QED
      BY <3>1, VisibleKept DEF PendingClaims
  <2>2. ASSUME NEW i \in Identities, Promote(i) PROVE Abstract!Prove(i)
    <3>1. /\ UNCHANGED <<main, inode, untrusted, call>> /\ inode # None /\ ~untrusted
          /\ main[i] = "Canonical"
          /\ sidecar' = [j \in Identities |-> IF j \in Visible \cup {i} THEN inode ELSE None]
      BY <2>2 DEF Promote, Promotable
    <3>2. PendingClaims = Visible /\ PendingClaims' = Visible'
      BY <2>2 DEF Promote, Idle, PendingClaims
    <3>3. Visible' = Visible \cup {i}
      BY <3>1 DEF Visible, SignalOnly
    <3>4. i \in Owned /\ Owned' = Owned
      BY <3>1 DEF Owned
    <3>5. QED
      BY <3>2, <3>3, <3>4 DEF Abstract!Prove
  <2>3. ASSUME NEW i \in Identities, PromoteRefused(i)
        PROVE  UNCHANGED <<Owned, PendingClaims>>
    BY <2>3, VisibleKept DEF PromoteRefused, PendingClaims
  <2>4. CASE ReadFails
    BY <2>4, VisibleKept DEF ReadFails, PendingClaims
  <2>5. CASE RemoveSidecar
    <3>1. call.step = "sidecar" /\ call'.step = "main" /\ call'.kept = call.kept
      BY <2>5 DEF RemoveSidecar, LedgerInv, TypeOK
    <3>2. PendingClaims' \subseteq PendingClaims
      BY <3>1 DEF PendingClaims, LedgerInv, CallInv
    <3>3. Owned' = Owned
      BY <2>5, OwnedKept DEF RemoveSidecar
    <3>4. QED
      BY <3>2, <3>3 DEF Abstract!Weaken
  <2>6. CASE ReplaceMain
    <3>1. call.step = "main" /\ PendingClaims = call.kept
      BY <2>6 DEF ReplaceMain, PendingClaims
    <3>2. call.id \in Identities /\ call.kept \subseteq call.records \ {call.id}
      BY <3>1 DEF LedgerInv, CallInv
    <3>3. \/ Owned' = Owned \cup {call.id}
          \/ Owned' = Owned \ {call.id}
      BY <2>6, <3>1, ReplaceMainOwned DEF LedgerInv, CallInv
    <3>4. PendingClaims' \subseteq call.kept
      <4>1. CASE call.kept = {}
        <5>1. sidecar' = sidecar /\ call' = NoCall /\ inode' \in Inodes \cup {None}
          BY <2>6, <4>1 DEF ReplaceMain, Return
        <5>2. Visible' = {}
          BY <3>1, <5>1 DEF LedgerInv, SidecarInv, Visible, SignalOnly
        <5>3. QED
          BY <5>1, <5>2 DEF PendingClaims, NoCall
      <4>2. CASE call.kept # {}
        <5>1. call' = [call EXCEPT !.step = "rebind"]
          BY <2>6, <4>2 DEF ReplaceMain
        <5>2. call'.step = "rebind" /\ call'.kept = call.kept
          BY <5>1 DEF LedgerInv, TypeOK
        <5>3. QED
          BY <5>2 DEF PendingClaims
      <4>3. QED
        BY <4>1, <4>2
    <3>5. PendingClaims' \in SUBSET (PendingClaims \ {call.id})
      BY <3>1, <3>2, <3>4
    <3>6. QED
      BY <3>2, <3>3, <3>5 DEF Abstract!Own, Abstract!Disown
  <2>7. CASE Rebind
    <3>1. /\ call.step = "rebind" /\ call' = NoCall /\ UNCHANGED <<main, inode, untrusted>>
          /\ sidecar' = [i \in Identities |-> IF i \in call.kept THEN inode ELSE None]
      BY <2>7 DEF Rebind, Return
    <3>2. Visible' \subseteq call.kept
      BY <3>1 DEF Visible, SignalOnly
    <3>3. PendingClaims' \in SUBSET PendingClaims
      BY <3>1, <3>2 DEF PendingClaims, NoCall
    <3>4. Owned' = Owned
      BY <3>1, OwnedKept
    <3>5. QED
      BY <3>3, <3>4 DEF Abstract!Weaken
  <2>8. CASE WriteFails \/ Crash
    <3>1. UNCHANGED disk /\ call' = NoCall
      BY <2>8 DEF WriteFails, Crash, Return
    <3>2. Visible' = Visible /\ Owned' = Owned
      BY <3>1, VisibleKept
    <3>3. call.step \in {"main", "rebind"} => Visible = {}
      BY InodesAssumption DEF LedgerInv, SidecarInv, Visible, SignalOnly
    <3>4. PendingClaims' \in SUBSET PendingClaims
      BY <3>1, <3>2, <3>3 DEF PendingClaims, NoCall
    <3>5. QED
      BY <3>2, <3>4 DEF Abstract!Weaken
  <2>9. CASE UNCHANGED vars
    BY <2>9, VisibleKept DEF vars, disk, PendingClaims
  <2>10. QED
    BY <2>1, <2>2, <2>3, <2>4, <2>5, <2>6, <2>7, <2>8, <2>9 DEF Next
<1>3. QED
  BY <1>1, <1>2, Invariance, PTL DEF Spec, ImplementsStopOwnership, Abstract!Spec
=============================================================================
