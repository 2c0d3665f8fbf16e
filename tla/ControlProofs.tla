--------------------------- MODULE ControlProofs ---------------------------
(***************************************************************************)
(* Proofs about Control, for any processes, packages, uids, modes and      *)
(* features of the device and of the world: type correctness, that a uid   *)
(* is never held under two packages, the precedence of residuals, and,     *)
(* where the controller forgets nothing, that all it holds is accounted    *)
(* for, that a restart frees it, and that a pass thaws what it has to.     *)
(*                                                                         *)
(* The argument is about what a pass knows.  Only the pass freezes, and    *)
(* only what it found at its start; so whatever is held of a controlled    *)
(* uid is in its snapshot, and a transaction that was checked against the  *)
(* snapshot was checked against all that is held.                          *)
(***************************************************************************)
EXTENDS Control, FiniteSetTheorems, WellFoundedInduction, TLAPS

KernelTypes ==
  /\ life \in [Procs -> {"unborn", "alive", "dead"}]
  /\ cgroup \subseteq Procs /\ binder \subseteq Procs /\ sigstop \subseteq Procs
  /\ ledger \in [Procs -> Claim]

WorldTypes == policy \in [Uids -> Modes] /\ foreground \subseteq Uids /\ allowed \in BOOLEAN

TrackingTypes ==
  /\ frozen_apps \subseteq Packages /\ frozen_ownership \in [Packages -> Ownership]
  /\ \A k \in frozen_apps : frozen_ownership[k] # "None"

TransientTypes ==
  /\ pending_freezes \in [Packages -> Pending]
  /\ blocked \in [Packages -> SUBSET Procs]
  /\ network \subseteq Uids

LoopTypes ==
  /\ pc \in {"idle", "records", "disabled"}
  /\ left \subseteq Uids /\ queue \subseteq Packages

ViewTypes ==
  /\ snapshot \subseteq Procs /\ running \subseteq snapshot
  /\ foreground_uids \subseteq Uids /\ audit_due \in BOOLEAN

Txs == [kind : TxKind, at : {"none", "apply", "undo"}, pkg : Packages \cup {0},
        todo : SUBSET Procs, done : SUBSET Procs, promote : BOOLEAN, bad : BOOLEAN]

\* Only live processes are held.
HeldInv == Held \subseteq Alive

\* What is held of a controlled uid was there when the pass began.
ViewInv ==
  pc = "records" =>
    /\ \A p \in snapshot : Controlled(Uid(p))
    /\ \A p \in Held : Controlled(Uid(p)) => p \in snapshot

OnePackage(u) == \A p, q \in Here(u) : PackageOf[p] = PackageOf[q]

\* A transaction that freezes is about processes of the snapshot, of a uid
\* with one package; one that promotes began without a residual.
TxInv ==
  /\ tx.at # "none" => tx.pkg \in Packages
  /\ tx.kind # "none" <=> tx.at # "none"
  /\ tx.kind \in Freezes =>
       /\ pc = "records"
       /\ tx.todo \cup tx.done \subseteq Here(UidOf[tx.pkg])
       /\ OnePackage(UidOf[tx.pkg])
  /\ tx.promote =>
       /\ tx.kind \in Freezes
       /\ frozen_ownership[tx.pkg] \notin {"CgroupBinder", "ResidualUnknown"}

Inv == TypeOK /\ HeldInv /\ ViewInv /\ TxInv /\ HeldOfOnePackage

-----------------------------------------------------------------------------
LEMMA TypeParts ==
  ASSUME TypeOK
  PROVE  /\ KernelTypes /\ WorldTypes /\ TrackingTypes /\ TransientTypes
         /\ LoopTypes /\ ViewTypes /\ tx \in Txs
BY DEF TypeOK, KernelTypes, WorldTypes, TrackingTypes, TransientTypes, LoopTypes, ViewTypes, Txs

LEMMA TypesTogether ==
  ASSUME KernelTypes, WorldTypes, TrackingTypes, TransientTypes, LoopTypes, ViewTypes, tx \in Txs
  PROVE  TypeOK
BY DEF TypeOK, KernelTypes, WorldTypes, TrackingTypes, TransientTypes, LoopTypes, ViewTypes, Txs

LEMMA TypePartsNext ==
  ASSUME KernelTypes', WorldTypes', TrackingTypes', TransientTypes', LoopTypes', ViewTypes',
         tx' \in Txs
  PROVE  TypeOK'
BY DEF TypeOK, KernelTypes, WorldTypes, TrackingTypes, TransientTypes, LoopTypes, ViewTypes, Txs

\* A set of names has a first one.
LEMMA MinFact ==
  ASSUME NEW S \in SUBSET Nat, S # {}
  PROVE  Min(S) \in S
<1> DEFINE R == OpToRel(<, Nat)
<1>1. IsWellFoundedOn(R, Nat)
  BY NatLessThanWellFounded
<1>2. \A a, b \in Nat : <<a, b>> \in R <=> a < b
  BY DEF OpToRel
<1> HIDE DEF R
<1>3. PICK x \in S : \A y \in S : ~ (<<y, x>> \in R)
  BY <1>1, WFMin
<1>4. ASSUME NEW y \in S PROVE x <= y
  <2>1. x \in Nat /\ y \in Nat
    OBVIOUS
  <2>2. ~ (<<y, x>> \in R)
    BY <1>3
  <2>3. ~ (y < x)
    BY <1>2, <2>1, <2>2
  <2> QED
    BY <2>1, <2>3
<1> QED
  BY <1>3, <1>4 DEF Min

LEMMA PackageFacts ==
  ASSUME NEW p \in Procs
  PROVE  PackageOf[p] \in Packages /\ Uid(p) \in Uids /\ UidOf[PackageOf[p]] = Uid(p)
BY ControlAssumption DEF Uid

\* The identity of a uid is one of its packages.
LEMMA IdFacts ==
  ASSUME TypeOK, NEW u, Here(u) # {}
  PROVE  Id(u) \in Packages /\ UidOf[Id(u)] = u
<1>1. PackagesIn(Here(u)) # {} /\ PackagesIn(Here(u)) \subseteq Packages
  BY PackageFacts DEF PackagesIn, Here, TypeOK
<1>2. PackagesIn(Here(u)) \in SUBSET Nat
  BY <1>1, ControlAssumption
<1>3. Id(u) \in PackagesIn(Here(u))
  BY <1>1, <1>2, MinFact DEF Id
<1> QED
  BY <1>1, <1>3, PackageFacts DEF PackagesIn, Here, TypeOK

\* A transaction that fits is about one package.
LEMMA FitsFacts ==
  ASSUME TypeOK, NEW u, Fits(Here(u))
  PROVE  OnePackage(u)
<1> SUFFICES ASSUME NEW p \in Here(u), NEW q \in Here(u), PackageOf[p] # PackageOf[q] PROVE FALSE
  BY DEF OnePackage
<1>1. {PackageOf[p], PackageOf[q]} \subseteq PackagesIn(Here(u))
  BY DEF PackagesIn
<1>2. IsFiniteSet(PackagesIn(Here(u)))
  <2>1. PackagesIn(Here(u)) \subseteq Packages
    BY PackageFacts DEF PackagesIn, Here, TypeOK
  <2> QED
    BY <2>1, ControlAssumption, FS_Subset
<1>3. Cardinality({PackageOf[p], PackageOf[q]}) = 2
  <2>1. IsFiniteSet({PackageOf[p]}) /\ Cardinality({PackageOf[p]}) = 1
    BY FS_Singleton
  <2>2. Cardinality({PackageOf[p]} \cup {PackageOf[q]}) = 2
    BY <2>1, FS_AddElement
  <2>3. {PackageOf[p]} \cup {PackageOf[q]} = {PackageOf[p], PackageOf[q]}
    OBVIOUS
  <2> QED
    BY <2>2, <2>3
<1>4. Cardinality(PackagesIn(Here(u))) \in Nat /\ 2 <= Cardinality(PackagesIn(Here(u)))
  BY <1>1, <1>2, <1>3, FS_Subset, FS_CardinalityType
<1> QED
  BY <1>4 DEF Fits, Mixed

LEMMA InitInv == Init => Inv
<1> SUFFICES ASSUME Init PROVE Inv
  OBVIOUS
<1>1. NoTx \in Txs
  BY DEF NoTx, Txs, TxKind
<1>2. TypeOK
  BY <1>1, TypesTogether DEF Init, KernelTypes, WorldTypes, TrackingTypes, TransientTypes, LoopTypes,
     ViewTypes, Ownership, Pending, Claim
<1>3. HeldInv /\ ViewInv /\ HeldOfOnePackage
  BY DEF Init, HeldInv, ViewInv, HeldOfOnePackage, Held
<1>4. TxInv
  BY DEF Init, NoTx, TxInv, Freezes, Stops
<1> QED
  BY <1>2, <1>3, <1>4 DEF Inv

-----------------------------------------------------------------------------
(* What most steps leave alone *)

NoTxFacts == /\ NoTx.at = "none" /\ NoTx.kind = "none" /\ NoTx.promote = FALSE
             /\ NoTx \in Txs

LEMMA NoTxIsOne == NoTxFacts
BY DEF NoTxFacts, NoTx, Txs, TxKind

\* Without a transaction there is nothing to say of one.
LEMMA RestingTx ==
  ASSUME tx' = NoTx
  PROVE  tx' \in Txs /\ TxInv'
BY NoTxIsOne DEF NoTxFacts, TxInv, Freezes, Stops

\* Steps that hold no further process and keep the view.
LEMMA HoldsNoMore ==
  ASSUME Inv, cgroup' \subseteq cgroup, binder' \subseteq binder, sigstop' \subseteq sigstop,
         UNCHANGED life
  PROVE  HeldInv' /\ HeldOfOnePackage'
BY DEF Inv, HeldInv, HeldOfOnePackage, Held, Alive, Uid

LEMMA KeepsView ==
  ASSUME Inv, UNCHANGED <<policy, snapshot>>, pc' \in {pc, "idle", "disabled"}, Held' \subseteq Held
  PROVE  ViewInv'
BY DEF Inv, ViewInv, Controlled

\* Steps that leave the kernel, the policy and the view alone.
LEMMA KernelKept ==
  ASSUME Inv, UNCHANGED <<kernel, world, view>>, pc' \in {pc, "idle", "disabled"},
         TrackingTypes', TransientTypes', LoopTypes', tx' \in Txs, TxInv'
  PROVE  Inv'
<1>1. /\ UNCHANGED <<life, cgroup, binder, sigstop, ledger, policy, foreground, allowed>>
      /\ UNCHANGED <<snapshot, running, foreground_uids, audit_due>>
  BY DEF kernel, world, view
<1>2. KernelTypes' /\ WorldTypes' /\ ViewTypes'
  BY <1>1, TypeParts DEF Inv, KernelTypes, WorldTypes, ViewTypes
<1>3. HeldInv' /\ HeldOfOnePackage'
  BY <1>1, HoldsNoMore
<1>4. ViewInv'
  BY <1>1, KeepsView DEF Held
<1> QED
  BY <1>2, <1>3, <1>4, TypePartsNext DEF Inv

-----------------------------------------------------------------------------
(* What the helpers of the loop do to the memory and to the transaction *)

LEMMA SetPendingType ==
  ASSUME TypeOK, NEW k, NEW state \in Pending, SetPending(k, state)
  PROVE  pending_freezes' \in [Packages -> Pending]
BY TypeParts DEF TransientTypes, SetPending

LEMMA ClearFrozenType ==
  ASSUME TypeOK, NEW ks, ClearFrozen(ks)
  PROVE  TrackingTypes'
BY TypeParts DEF TrackingTypes, ClearFrozen, Ownership

LEMMA TrackFrozenType ==
  ASSUME TypeOK, NEW k \in Packages, NEW ownership \in Ownership \ {"None"},
         TrackFrozen(k, ownership)
  PROVE  TrackingTypes'
BY TypeParts DEF TrackingTypes, TrackFrozen, Ownership

LEMMA ClearTransientType ==
  ASSUME TypeOK, NEW u, ClearTransient(u)
  PROVE  TransientTypes'
BY TypeParts DEF TransientTypes, ClearTransient, Pending

LEMMA DetachType ==
  ASSUME TypeOK, NEW u, Id(u) \in Packages, DetachIfAbnormal(u)
  PROVE  TrackingTypes' /\ frozen_ownership'[Id(u)] = Owner(u)
<1>1. TrackingTypes
  BY TypeParts
<1>2. Owner(u) \in Ownership
  BY <1>1 DEF Owner, Detached, TrackingTypes, Ownership
<1> QED
  BY <1>1, <1>2 DEF DetachIfAbnormal, TrackingTypes

LEMMA UnblockedType ==
  ASSUME TypeOK, NEW u, blocked' = Unblocked(u)
  PROVE  blocked' \in [Packages -> SUBSET Procs]
BY TypeParts DEF TransientTypes, Unblocked

\* A transaction that goes on, in the same pass and with the same ownership.
LEMMA KeepsTx ==
  ASSUME Inv, tx' = tx,
         tx.kind \in Freezes => pc' = pc /\ snapshot' = snapshot,
         tx.promote => frozen_ownership'[tx.pkg] = frozen_ownership[tx.pkg]
  PROVE  TxInv'
<1> USE DEF Inv, TxInv
<1>1. CASE tx.kind \in Freezes
  BY <1>1 DEF Here, OnePackage
<1>2. CASE tx.kind \notin Freezes
  BY <1>2
<1> QED
  BY <1>1, <1>2

\* Outside of the visits of a pass no transaction freezes.
LEMMA OnlyVisitsFreeze ==
  ASSUME Inv, pc # "records"
  PROVE  tx.kind \notin Freezes /\ ~ tx.promote
BY TypeParts DEF Inv, TxInv, Txs

LEMMA LaunchFacts ==
  ASSUME NEW kind \in TxKind \ {"none"}, NEW k \in Packages, NEW S \in SUBSET Procs,
         NEW b \in BOOLEAN, Launch(kind, k, S, b)
  PROVE  /\ tx' \in Txs
         /\ tx'.kind = kind /\ tx'.at = "apply" /\ tx'.pkg = k
         /\ tx'.todo = S /\ tx'.done = {} /\ tx'.promote = b
BY DEF Launch, Txs

\* A transaction begins that freezes: it was checked against the snapshot.
LEMMA LaunchesFreeze ==
  ASSUME Inv, pc = "records", UNCHANGED <<pc, snapshot>>,
         NEW kind \in Freezes, NEW k \in Packages, NEW b \in BOOLEAN,
         Fits(Here(UidOf[k])), Launch(kind, k, Here(UidOf[k]), b),
         b => frozen_ownership'[k] \notin {"CgroupBinder", "ResidualUnknown"}
  PROVE  tx' \in Txs /\ TxInv'
<1>1. kind \in TxKind \ {"none"} /\ Here(UidOf[k]) \in SUBSET Procs
  BY TypeParts DEF Inv, ViewTypes, Here, Freezes, Stops, TxKind
<1>2. /\ tx' \in Txs
      /\ tx'.kind = kind /\ tx'.at = "apply" /\ tx'.pkg = k
      /\ tx'.todo = Here(UidOf[k]) /\ tx'.done = {} /\ tx'.promote = b
  BY <1>1, LaunchFacts
<1>3. OnePackage(UidOf[k])
  BY FitsFacts DEF Inv
<1>4. tx'.todo \cup tx'.done \subseteq Here(UidOf[tx.pkg])' /\ OnePackage(UidOf[tx.pkg])'
  BY <1>2, <1>3 DEF Here, OnePackage
<1> QED
  BY <1>1, <1>2, <1>4 DEF TxInv

LEMMA LaunchesOther ==
  ASSUME NEW kind \in {"kill", "thaw", "wakeup"}, NEW k \in Packages, NEW S \in SUBSET Procs,
         Launch(kind, k, S, FALSE)
  PROVE  tx' \in Txs /\ TxInv'
<1>1. kind \in TxKind \ {"none"} /\ kind \notin Freezes
  BY DEF Freezes, Stops, TxKind
<1>2. /\ tx' \in Txs
      /\ tx'.kind = kind /\ tx'.at = "apply" /\ tx'.pkg = k /\ tx'.promote = FALSE
  BY <1>1, LaunchFacts
<1> QED
  BY <1>1, <1>2 DEF TxInv, TxKind

\* A thaw is tried without a transaction in progress.
LEMMA TriesThaw ==
  ASSUME Inv, tx = NoTx, NEW kind \in {"thaw", "wakeup"}, NEW k \in Packages,
         NEW S \in SUBSET Procs, TryThaw(kind, k, S)
  PROVE  tx' \in Txs /\ TxInv'
<1>1. CASE Launch(kind, k, S, FALSE)
  BY <1>1, LaunchesOther
<1>2. CASE tx' = tx
  BY <1>2, RestingTx
<1> QED
  BY <1>1, <1>2 DEF TryThaw

-----------------------------------------------------------------------------
(* The steps of a pass outside of the visits *)

\* A pass takes its view: what is held of the controlled uids is alive, so the
\* snapshot has it.
LEMMA PassBeginKeeps == ASSUME Inv, PassBegin PROVE Inv'
<1> USE DEF PassBegin
<1>1. /\ pc = "idle" /\ pc' = "records" /\ left' = ControlledUids /\ UNCHANGED <<queue, tx>>
      /\ UNCHANGED <<life, cgroup, binder, sigstop, ledger, policy, foreground, allowed>>
  BY DEF kernel, world
<1>2. /\ KernelTypes /\ WorldTypes /\ TrackingTypes /\ TransientTypes
      /\ LoopTypes /\ ViewTypes /\ tx \in Txs
  BY TypeParts DEF Inv
<1>3. KernelTypes' /\ WorldTypes'
  BY <1>1, <1>2 DEF KernelTypes, WorldTypes
<1>4. TrackingTypes' /\ TransientTypes'
  BY <1>2 DEF DropUncontrolled, TrackingTypes, TransientTypes, Ownership, Pending
<1>5. LoopTypes'
  BY <1>1, <1>2 DEF LoopTypes, ControlledUids
<1>6. ViewTypes'
  BY <1>2 DEF ViewTypes, WorldTypes, ObservedRunning, Discovered, Alive
<1>7. HeldInv' /\ HeldOfOnePackage'
  BY <1>1, HoldsNoMore
<1>8. ViewInv'
  <2>1. \A p \in snapshot' : Controlled(Uid(p))
    BY DEF Discovered, ControlledUids
  <2>2. \A p \in Held : Controlled(Uid(p)) => p \in snapshot'
    BY <1>2, PackageFacts DEF Inv, HeldInv, Discovered, ControlledUids, Alive
  <2> QED
    BY <1>1, <2>1, <2>2 DEF ViewInv, Held, Controlled, Uid
<1>9. tx.kind \notin Freezes /\ ~ tx.promote
  BY <1>1, OnlyVisitsFreeze
<1>10. TxInv'
  BY <1>1, <1>9, KeepsTx
<1> QED
  BY <1>1, <1>2, <1>3, <1>4, <1>5, <1>6, <1>7, <1>8, <1>10, TypePartsNext DEF Inv

\* The view is dropped, nothing else of the kernel or the world changes.
LEMMA PassEndKeeps == ASSUME Inv, PassEnd PROVE Inv'
<1> USE DEF PassEnd
<1>1. /\ pc' = "idle" /\ UNCHANGED <<left, queue, tx, frozen_apps, frozen_ownership>>
      /\ UNCHANGED <<life, cgroup, binder, sigstop, ledger, policy, foreground, allowed>>
      /\ tx' = NoTx
  BY DEF kernel, world, tracking
<1>2. /\ KernelTypes /\ WorldTypes /\ TrackingTypes /\ TransientTypes
      /\ LoopTypes /\ ViewTypes /\ tx \in Txs
  BY TypeParts DEF Inv
<1>3. KernelTypes' /\ WorldTypes' /\ TrackingTypes' /\ LoopTypes'
  BY <1>1, <1>2 DEF KernelTypes, WorldTypes, TrackingTypes, LoopTypes
<1>4. TransientTypes'
  BY <1>2 DEF TransientTypes
<1>5. ViewTypes'
  BY DEF ViewTypes, ViewDropped
<1>6. HeldInv' /\ HeldOfOnePackage'
  BY <1>1, HoldsNoMore
<1>7. ViewInv'
  BY <1>1 DEF ViewInv
<1> QED
  BY <1>1, <1>3, <1>4, <1>5, <1>6, <1>7, RestingTx, TypePartsNext DEF Inv

LEMMA DisabledBeginKeeps == ASSUME Inv, DisabledBegin PROVE Inv'
<1> USE DEF DisabledBegin
<1>1. /\ pc = "idle" /\ pc' = "disabled" /\ queue' = frozen_apps
      /\ UNCHANGED <<left, tx, frozen_apps, frozen_ownership, pending_freezes, blocked, network>>
  BY DEF memory, tracking
<1>2. TrackingTypes /\ TransientTypes /\ LoopTypes /\ tx \in Txs
  BY TypeParts DEF Inv
<1>3. TrackingTypes' /\ TransientTypes' /\ LoopTypes'
  BY <1>1, <1>2 DEF TrackingTypes, TransientTypes, LoopTypes
<1>4. tx.kind \notin Freezes /\ ~ tx.promote
  BY <1>1, OnlyVisitsFreeze
<1>5. TxInv'
  BY <1>1, <1>4, KeepsTx
<1> QED
  BY <1>1, <1>2, <1>3, <1>5, KernelKept

LEMMA DisabledEndKeeps == ASSUME Inv, DisabledEnd PROVE Inv'
<1> USE DEF DisabledEnd
<1>1. TrackingTypes /\ TransientTypes /\ LoopTypes
  BY TypeParts DEF Inv
<1>2. TrackingTypes' /\ LoopTypes'
  BY <1>1 DEF TrackingTypes, LoopTypes, Ownership
<1>3. TransientTypes'
  BY <1>1 DEF TransientTypes, Pending
<1> QED
  BY <1>2, <1>3, RestingTx, KernelKept

LEMMA QueuedThawKeeps == ASSUME Inv, NEW k \in Packages, QueuedThaw(k) PROVE Inv'
<1> USE DEF QueuedThaw
<1>1. TrackingTypes /\ TransientTypes /\ LoopTypes /\ ViewTypes
  BY TypeParts DEF Inv
<1>2. TransientTypes' /\ LoopTypes'
  BY <1>1 DEF TransientTypes, LoopTypes
<1>3. Live(UidOf[k]) \in SUBSET Procs /\ Here(UidOf[k]) \in SUBSET Procs
  BY <1>1 DEF Live, Discovered, Alive, Here, ViewTypes
<1>4. PICK S \in SUBSET Procs :
        \/ S = {} /\ ClearFrozen({k}) /\ UNCHANGED tx
        \/ S # {} /\ TryThaw("thaw", k, S) /\ UNCHANGED tracking
  BY <1>3
<1>5. CASE S = {} /\ ClearFrozen({k}) /\ UNCHANGED tx
  <2>1. TrackingTypes'
    BY <1>5, ClearFrozenType DEF Inv
  <2>2. tx' \in Txs /\ TxInv'
    BY <1>5, RestingTx
  <2> QED
    BY <1>2, <2>1, <2>2, KernelKept
<1>6. CASE S # {} /\ TryThaw("thaw", k, S) /\ UNCHANGED tracking
  <2>1. TrackingTypes'
    BY <1>1, <1>6 DEF tracking, TrackingTypes
  <2>2. tx' \in Txs /\ TxInv'
    BY <1>6, TriesThaw
  <2> QED
    BY <1>2, <2>1, <2>2, KernelKept
<1> QED
  BY <1>4, <1>5, <1>6

LEMMA QueuedThawFailsKeeps == ASSUME Inv, NEW k \in Packages, QueuedThawFails(k) PROVE Inv'
<1> USE DEF QueuedThawFails
<1>1. TrackingTypes /\ TransientTypes /\ LoopTypes
  BY TypeParts DEF Inv
<1>2. UNCHANGED <<frozen_apps, frozen_ownership, pending_freezes, blocked, network>>
  BY DEF memory, tracking
<1>3. TrackingTypes' /\ TransientTypes' /\ LoopTypes'
  BY <1>1, <1>2 DEF TrackingTypes, TransientTypes, LoopTypes
<1> QED
  BY <1>3, RestingTx, KernelKept

-----------------------------------------------------------------------------
(* The visits.  None touches a process: they change the memory of the loop and
   launch transactions. *)

VisitFacts(u) ==
  /\ pc = "records" /\ tx = NoTx /\ left' \subseteq Uids
  /\ UNCHANGED <<kernel, world, pc, view, snapshot>>
  /\ Here(u) # {} => Id(u) \in Packages /\ UidOf[Id(u)] = u /\ Here(u) \in SUBSET Procs

LEMMA VisitIsSo == ASSUME Inv, NEW u, Visit(u) PROVE VisitFacts(u)
<1>1. left' \subseteq Uids
  BY TypeParts DEF Inv, LoopTypes, Visit
<1>2. Here(u) \in SUBSET Procs
  BY TypeParts DEF Inv, ViewTypes, Here
<1> QED
  BY <1>1, <1>2, IdFacts DEF Inv, VisitFacts, Visit, view

\* What a visit must keep.
LEMMA VisitKeeps ==
  ASSUME Inv, NEW u, VisitFacts(u), TrackingTypes',
         pending_freezes' \in [Packages -> Pending], blocked' \in [Packages -> SUBSET Procs],
         network' \subseteq Uids, queue' \subseteq Packages, tx' \in Txs, TxInv'
  PROVE  Inv'
<1>1. TransientTypes'
  BY DEF TransientTypes
<1>2. LoopTypes'
  BY DEF LoopTypes, VisitFacts
<1> QED
  BY <1>1, <1>2, KernelKept DEF VisitFacts

LEMMA NoProcessesKeeps == ASSUME Inv, NEW u, NoProcesses(u) PROVE Inv'
<1> USE DEF NoProcesses
<1>1. VisitFacts(u)
  BY VisitIsSo
<1>2. TransientTypes' /\ TrackingTypes'
  BY ClearTransientType, ClearFrozenType DEF Inv
<1>3. queue' \subseteq Packages
  BY TypeParts DEF Inv, LoopTypes
<1> QED
  BY <1>1, <1>2, <1>3, RestingTx, VisitKeeps DEF TransientTypes, VisitFacts

LEMMA ProtectedRecordKeeps == ASSUME Inv, NEW u, ProtectedRecord(u) PROVE Inv'
<1> USE DEF ProtectedRecord
<1>1. VisitFacts(u)
  BY VisitIsSo
<1>2. TransientTypes'
  BY ClearTransientType DEF Inv
<1>3. TrackingTypes' /\ queue' \subseteq Packages
  BY TypeParts DEF Inv, TrackingTypes, PackagesOf, Ownership
<1> QED
  BY <1>1, <1>2, <1>3, RestingTx, VisitKeeps DEF TransientTypes, VisitFacts

\* What a visit may find unchanged.
LEMMA VisitLeaves ==
  ASSUME Inv
  PROVE  /\ UNCHANGED tracking => TrackingTypes'
         /\ UNCHANGED pending_freezes => pending_freezes' \in [Packages -> Pending]
         /\ UNCHANGED blocked => blocked' \in [Packages -> SUBSET Procs]
         /\ UNCHANGED network => network' \subseteq Uids
         /\ UNCHANGED queue => queue' \subseteq Packages
BY TypeParts DEF Inv, TrackingTypes, TransientTypes, LoopTypes, tracking

LEMMA ManageableIsSo ==
  ASSUME Inv, NEW u, Manageable(u)
  PROVE  VisitFacts(u) /\ Here(u) # {} /\ UNCHANGED queue
BY VisitIsSo DEF Manageable

LEMMA BlockedRecordKeeps == ASSUME Inv, NEW u, BlockedRecord(u) PROVE Inv'
<1> USE DEF BlockedRecord
<1>1. VisitFacts(u) /\ UNCHANGED queue
  BY ManageableIsSo
<1>2. UNCHANGED <<tracking, pending_freezes, blocked, network>>
  BY DEF memory
<1> QED
  BY <1>1, <1>2, VisitLeaves, RestingTx, VisitKeeps DEF VisitFacts

\* A visit that is not refused by an earlier one.
FreshFacts(u) ==
  VisitFacts(u) /\ Here(u) # {} /\ UNCHANGED queue /\ Id(u) \in Packages /\ UidOf[Id(u)] = u
    /\ Here(u) \in SUBSET Procs

LEMMA FreshIsSo == ASSUME Inv, NEW u, Fresh(u) PROVE FreshFacts(u)
BY ManageableIsSo DEF Fresh, FreshFacts, VisitFacts

LEMMA ReadyIsSo == ASSUME Inv, NEW u, Ready(u) PROVE FreshFacts(u)
BY FreshIsSo DEF Ready, Background

LEMMA ForegroundKeeps == ASSUME Inv, NEW u, Foreground(u) PROVE Inv'
<1> USE DEF Foreground
<1>1. FreshFacts(u)
  BY FreshIsSo
<1>2. pending_freezes' \in [Packages -> Pending] /\ blocked' \in [Packages -> SUBSET Procs]
  BY SetPendingType, UnblockedType DEF Inv, Pending
<1>3. tx' \in Txs /\ TxInv'
  <2>1. CASE TryThaw("thaw", Id(u), Here(u))
    BY <1>1, <2>1, TriesThaw DEF FreshFacts, VisitFacts
  <2>2. CASE UNCHANGED tx
    BY <1>1, <2>2, RestingTx DEF FreshFacts, VisitFacts
  <2> QED
    BY <2>1, <2>2
<1> QED
  BY <1>1, <1>2, <1>3, VisitLeaves, VisitKeeps DEF FreshFacts

LEMMA WakeupThawKeeps == ASSUME Inv, NEW u, WakeupThaw(u) PROVE Inv'
<1> USE DEF WakeupThaw
<1>1. FreshFacts(u)
  BY FreshIsSo DEF Background
<1>2. blocked' \in [Packages -> SUBSET Procs]
  BY UnblockedType DEF Inv
<1>3. tx' \in Txs /\ TxInv'
  BY <1>1, TriesThaw DEF FreshFacts, VisitFacts
<1> QED
  BY <1>1, <1>2, <1>3, VisitLeaves, VisitKeeps DEF FreshFacts

LEMMA StaysFrozenKeeps == ASSUME Inv, NEW u, StaysFrozen(u) PROVE Inv'
<1> USE DEF StaysFrozen
<1>1. FreshFacts(u)
  BY FreshIsSo DEF Background
<1>2. blocked' \in [Packages -> SUBSET Procs]
  BY UnblockedType DEF Inv
<1> QED
  BY <1>1, <1>2, VisitLeaves, RestingTx, VisitKeeps DEF FreshFacts, VisitFacts

LEMMA DelayKeeps == ASSUME Inv, NEW u, Delay(u) PROVE Inv'
<1> USE DEF Delay
<1>1. FreshFacts(u)
  BY FreshIsSo DEF Background
<1>2. pending_freezes' \in [Packages -> Pending] /\ blocked' \in [Packages -> SUBSET Procs]
  BY SetPendingType, UnblockedType DEF Inv, Pending
<1> QED
  BY <1>1, <1>2, VisitLeaves, RestingTx, VisitKeeps DEF FreshFacts, VisitFacts

LEMMA PostponeKeeps == ASSUME Inv, NEW u, Postpone(u) PROVE Inv'
<1> USE DEF Postpone
<1>1. FreshFacts(u)
  BY ReadyIsSo
<1>2. TrackingTypes'
  BY <1>1, DetachType DEF Inv, FreshFacts
<1>3. blocked' \in [Packages -> SUBSET Procs]
  BY UnblockedType DEF Inv
<1>4. pending_freezes' \in [Packages -> Pending]
  BY SetPendingType, VisitLeaves DEF Inv, Pending
<1> QED
  BY <1>1, <1>2, <1>3, <1>4, VisitLeaves, RestingTx, VisitKeeps DEF FreshFacts, VisitFacts

\* The one visit that starts to freeze: what it promotes has no residual, and
\* the ownership it goes on with is what the entry then says.
LEMMA FreezeBeginsKeeps == ASSUME Inv, NEW u, FreezeBegins(u) PROVE Inv'
<1> USE DEF FreezeBegins
<1>1. FreshFacts(u)
  BY ReadyIsSo
<1>2. TrackingTypes' /\ frozen_ownership'[Id(u)] = Owner(u)
  BY <1>1, DetachType DEF Inv, FreshFacts
<1>3. blocked' \in [Packages -> SUBSET Procs]
  BY UnblockedType DEF Inv
<1>4. /\ pc = "records" /\ UNCHANGED <<pc, snapshot>> /\ tx = NoTx
      /\ Id(u) \in Packages /\ UidOf[Id(u)] = u /\ Fits(Here(UidOf[Id(u)]))
  BY <1>1 DEF FreshFacts, VisitFacts
<1>5. MayPromote(u) \in BOOLEAN
      /\ (MayPromote(u) => frozen_ownership'[Id(u)] \notin {"CgroupBinder", "ResidualUnknown"})
  BY <1>2 DEF MayPromote
<1>6. ASSUME Launch("signal", Id(u), Here(u), MayPromote(u)) PROVE tx' \in Txs /\ TxInv'
  BY <1>4, <1>5, <1>6, LaunchesFreeze DEF Freezes, Stops
<1>7. ASSUME NEW kind \in Freezes, Launch(kind, Id(u), Here(u), FALSE)
      PROVE  tx' \in Txs /\ TxInv'
  BY <1>4, <1>7, LaunchesFreeze
<1>8. ASSUME Launch("kill", Id(u), Here(u), FALSE) PROVE tx' \in Txs /\ TxInv'
  BY <1>1, <1>8, LaunchesOther DEF FreshFacts
<1>9. tx' \in Txs /\ TxInv'
  BY <1>6, <1>7, <1>8 DEF Freezes, Stops
<1> QED
  BY <1>1, <1>2, <1>3, <1>9, VisitLeaves, VisitKeeps DEF FreshFacts

LEMMA FreezeRefusedKeeps == ASSUME Inv, NEW u, FreezeRefused(u) PROVE Inv'
<1> USE DEF FreezeRefused
<1>1. FreshFacts(u)
  BY ReadyIsSo
<1>2. TrackingTypes'
  BY <1>1, DetachType DEF Inv, FreshFacts
<1>3. blocked' \in [Packages -> SUBSET Procs]
  BY <1>1, TypeParts DEF Inv, TransientTypes, FreshFacts
<1>4. pending_freezes' \in [Packages -> Pending]
  BY SetPendingType DEF Inv, Pending
<1> QED
  BY <1>1, <1>2, <1>3, <1>4, VisitLeaves, RestingTx, VisitKeeps DEF FreshFacts, VisitFacts

LEMMA KillRefusedKeeps == ASSUME Inv, NEW u, KillRefused(u) PROVE Inv'
<1> USE DEF KillRefused
<1>1. FreshFacts(u)
  BY ReadyIsSo
<1>2. TrackingTypes'
  BY <1>1, DetachType DEF Inv, FreshFacts
<1>3. blocked' \in [Packages -> SUBSET Procs]
  BY UnblockedType DEF Inv
<1> QED
  BY <1>1, <1>2, <1>3, VisitLeaves, RestingTx, VisitKeeps DEF FreshFacts, VisitFacts

LEMMA RecordKeeps == ASSUME Inv, NEW u, Record(u) PROVE Inv'
BY NoProcessesKeeps, ProtectedRecordKeeps, BlockedRecordKeeps, ForegroundKeeps, WakeupThawKeeps,
   StaysFrozenKeeps, DelayKeeps, PostponeKeeps, FreezeBeginsKeeps, FreezeRefusedKeeps,
   KillRefusedKeeps
   DEF Record

-----------------------------------------------------------------------------
(* The transaction in progress *)

\* The process a freeze is about is of a uid with one package, and whatever is
\* held of that uid is in the snapshot.
LEMMA HoldsOneMore ==
  ASSUME Inv, NEW p \in Alive, tx.kind \in Freezes, p \in tx.todo,
         UNCHANGED <<life, policy>>, snapshot' = snapshot, pc' = pc \/ pc' = "idle",
         Held' \subseteq Held \cup {p}
  PROVE  HeldInv' /\ ViewInv' /\ HeldOfOnePackage'
<1> USE DEF Inv
<1>1. HeldInv'
  BY DEF HeldInv, Alive
<1>2. /\ p \in Here(UidOf[tx.pkg]) /\ OnePackage(UidOf[tx.pkg]) /\ pc = "records"
      /\ p \in snapshot /\ Uid(p) = UidOf[tx.pkg] /\ Controlled(Uid(p))
  BY DEF TxInv, Here, ViewInv
<1>3. \A q \in Held : Uid(q) = Uid(p) => PackageOf[q] = PackageOf[p]
  BY <1>2 DEF ViewInv, Here, OnePackage
<1>4. HeldOfOnePackage'
  BY <1>3 DEF HeldOfOnePackage, Uid
<1>5. ViewInv'
  BY <1>2 DEF ViewInv, Controlled, Uid
<1> QED
  BY <1>1, <1>4, <1>5

\* What a transaction must keep: it changes neither the world nor the view.
LEMMA TransactionKeeps ==
  ASSUME Inv, TxUnchanged, KernelTypes', TrackingTypes', TransientTypes', tx' \in Txs, TxInv',
         HeldInv', ViewInv', HeldOfOnePackage'
  PROVE  Inv'
<1>1. UNCHANGED <<policy, foreground, allowed, pc, left, queue, snapshot, running,
                  foreground_uids, audit_due>>
  BY DEF TxUnchanged, world, view
<1>2. WorldTypes' /\ LoopTypes' /\ ViewTypes'
  BY <1>1, TypeParts DEF Inv, WorldTypes, LoopTypes, ViewTypes
<1> QED
  BY <1>2, TypePartsNext DEF Inv

\* A transaction that holds no further process.
LEMMA TransactionHoldsNoMore ==
  ASSUME Inv, TxUnchanged, cgroup' \subseteq cgroup, binder' \subseteq binder,
         sigstop' \subseteq sigstop, UNCHANGED life
  PROVE  HeldInv' /\ ViewInv' /\ HeldOfOnePackage'
<1>1. UNCHANGED <<policy, snapshot, pc>>
  BY DEF TxUnchanged, world, view
<1>2. Held' \subseteq Held
  BY DEF Held
<1> QED
  BY <1>1, <1>2, HoldsNoMore, KeepsView

MemoryLeaves == UNCHANGED memory => TrackingTypes' /\ TransientTypes'

LEMMA MemoryIsLeft == ASSUME Inv PROVE MemoryLeaves
BY TypeParts DEF MemoryLeaves, Inv, TrackingTypes, TransientTypes, memory, tracking

\* A step about a process takes it from the open ones to those done.
LEMMA StepKeeps ==
  ASSUME Inv, TxUnchanged, UNCHANGED memory, NEW p \in tx.todo, NEW bad \in BOOLEAN,
         tx' = [Step(p) EXCEPT !.bad = bad]
  PROVE  tx' \in Txs /\ TxInv'
<1>1. tx \in Txs
  BY TypeParts DEF Inv
<1>2. /\ tx' \in Txs
      /\ tx'.kind = tx.kind /\ tx'.at = tx.at /\ tx'.pkg = tx.pkg /\ tx'.promote = tx.promote
      /\ tx'.todo \cup tx'.done = tx.todo \cup tx.done
  BY <1>1 DEF Step, Txs
<1>3. UNCHANGED <<pc, snapshot, frozen_ownership>>
  BY DEF TxUnchanged, view, memory, tracking
<1>4. CASE tx.kind \in Freezes
  BY <1>2, <1>3, <1>4 DEF Inv, TxInv, Here, OnePackage
<1>5. CASE tx.kind \notin Freezes
  BY <1>2, <1>3, <1>5 DEF Inv, TxInv
<1> QED
  BY <1>2, <1>4, <1>5

LEMMA StepIs ==
  ASSUME Inv, NEW p
  PROVE  Step(p) = [Step(p) EXCEPT !.bad = tx.bad] /\ tx.bad \in BOOLEAN
<1>1. tx \in Txs
  BY TypeParts DEF Inv
<1> QED
  BY <1>1 DEF Step, Txs

LEMMA KernelPieces ==
  ASSUME Inv
  PROVE  /\ life \in [Procs -> {"unborn", "alive", "dead"}]
         /\ cgroup \subseteq Procs /\ binder \subseteq Procs /\ sigstop \subseteq Procs
         /\ ledger \in [Procs -> Claim]
         /\ tx.todo \subseteq Procs /\ tx.done \subseteq Procs
BY TypeParts DEF Inv, KernelTypes, Txs

LEMMA FreezeOneKeeps == ASSUME Inv, NEW p \in Procs, FreezeOne(p) PROVE Inv'
<1> USE DEF FreezeOne
<1>1. KernelTypes'
  BY KernelPieces DEF KernelTypes, Claim
<1>2. TrackingTypes' /\ TransientTypes'
  BY MemoryIsLeft DEF MemoryLeaves
<1>3. tx' \in Txs /\ TxInv'
  BY StepIs, StepKeeps
<1>4. HeldInv' /\ ViewInv' /\ HeldOfOnePackage'
  <2>1. p \in Alive /\ p \in tx.todo /\ tx.kind \in Freezes
    BY DEF Validated, Applying
  <2>2. UNCHANGED <<life, policy, snapshot, pc>>
    BY DEF TxUnchanged, world, view
  <2>3. Held' \subseteq Held \cup {p}
    BY DEF Held
  <2> QED
    BY <2>1, <2>2, <2>3, HoldsOneMore
<1> QED
  BY <1>1, <1>2, <1>3, <1>4, TransactionKeeps

\* What was done is to be undone: of the same package, in the same pass.
LEMMA FreezeOneFailsKeeps == ASSUME Inv, NEW p \in Procs, FreezeOneFails(p) PROVE Inv'
<1> USE DEF FreezeOneFails
<1>1. binder' = binder \/ (p \in Alive /\ binder' = binder \cup {p})
  OBVIOUS
<1>2. ledger' = ledger \/ ledger' = [ledger EXCEPT ![p] = "ResidualUnknown"]
  OBVIOUS
<1>3. sigstop' \subseteq sigstop
  OBVIOUS
<1>4. KernelTypes'
  BY <1>1, <1>2, <1>3, KernelPieces DEF KernelTypes, Claim
<1>5. TrackingTypes' /\ TransientTypes'
  BY MemoryIsLeft DEF MemoryLeaves
<1>6. UNCHANGED <<life, policy, snapshot, pc, frozen_ownership>>
  BY DEF TxUnchanged, world, view, memory, tracking
<1>7. tx.kind \in Freezes /\ tx.at = "apply" /\ p \in tx.todo
  BY DEF Applying
<1>8. tx' \in Txs /\ TxInv'
  <2>1. tx \in Txs
    BY TypeParts DEF Inv
  <2>2. /\ tx' \in Txs /\ tx'.at = "undo"
        /\ tx'.kind = tx.kind /\ tx'.pkg = tx.pkg /\ tx'.promote = tx.promote
        /\ tx'.todo \cup tx'.done \subseteq tx.todo \cup tx.done
    BY <2>1 DEF Txs
  <2> QED
    BY <1>6, <1>7, <2>2 DEF Inv, TxInv, Here, OnePackage
<1>9. HeldInv' /\ ViewInv' /\ HeldOfOnePackage'
  <2>1. CASE binder' = binder
    BY <1>3, <2>1, TransactionHoldsNoMore
  <2>2. CASE p \in Alive /\ binder' = binder \cup {p}
    <3>1. Held' \subseteq Held \cup {p}
      BY <1>3, <2>2 DEF Held
    <3> QED
      BY <1>6, <1>7, <2>2, <3>1, HoldsOneMore
  <2> QED
    BY <1>1, <2>1, <2>2
<1> QED
  BY <1>4, <1>5, <1>8, <1>9, TransactionKeeps

\* A process dies, by the daemon or by itself: it is held no longer.
LEMMA DeathKeeps ==
  ASSUME Inv, NEW p \in Procs, life' = [life EXCEPT ![p] = "dead"],
         cgroup' = cgroup \ {p}, binder' = binder \ {p}, sigstop' = sigstop \ {p},
         UNCHANGED <<ledger, policy, snapshot, pc>>
  PROVE  KernelTypes' /\ HeldInv' /\ ViewInv' /\ HeldOfOnePackage'
<1>1. KernelTypes'
  BY KernelPieces DEF KernelTypes
<1>2. Held' = Held \ {p} /\ Alive' = Alive \ {p}
  BY KernelPieces DEF Held, Alive
<1>3. HeldInv' /\ HeldOfOnePackage'
  BY <1>2 DEF Inv, HeldInv, HeldOfOnePackage, Uid
<1>4. ViewInv'
  BY <1>2, KeepsView
<1> QED
  BY <1>1, <1>3, <1>4

LEMMA KillOneKeeps == ASSUME Inv, NEW p \in Procs, KillOne(p) PROVE Inv'
<1> USE DEF KillOne
<1>1. UNCHANGED <<policy, snapshot, pc>>
  BY DEF TxUnchanged, world, view
<1>2. KernelTypes' /\ HeldInv' /\ ViewInv' /\ HeldOfOnePackage'
  BY <1>1, DeathKeeps
<1>3. TrackingTypes' /\ TransientTypes'
  BY MemoryIsLeft DEF MemoryLeaves
<1>4. tx' \in Txs /\ TxInv'
  BY StepIs, StepKeeps
<1> QED
  BY <1>2, <1>3, <1>4, TransactionKeeps

\* The kernel is left alone.
LEMMA KernelLeft ==
  ASSUME Inv, UNCHANGED kernel, TxUnchanged
  PROVE  KernelTypes' /\ HeldInv' /\ ViewInv' /\ HeldOfOnePackage'
<1>1. UNCHANGED <<life, cgroup, binder, sigstop, ledger>>
  BY DEF kernel
<1>2. KernelTypes'
  BY <1>1, KernelPieces DEF KernelTypes
<1> QED
  BY <1>1, <1>2, TransactionHoldsNoMore

LEMMA KillOneFailsKeeps == ASSUME Inv, NEW p \in Procs, KillOneFails(p) PROVE Inv'
<1> USE DEF KillOneFails
<1>1. TrackingTypes' /\ TransientTypes'
  BY MemoryIsLeft DEF MemoryLeaves
<1> QED
  BY <1>1, KernelLeft, RestingTx, TransactionKeeps

LEMMA ThawOneKeeps == ASSUME Inv, NEW p \in Procs, ThawOne(p) PROVE Inv'
<1> USE DEF ThawOne
<1>1. cgroup' \subseteq cgroup /\ binder' \subseteq binder /\ sigstop' \subseteq sigstop
  OBVIOUS
<1>2. KernelTypes'
  BY <1>1, KernelPieces DEF KernelTypes, Claim
<1>3. TrackingTypes' /\ TransientTypes'
  BY MemoryIsLeft DEF MemoryLeaves
<1>4. p \in tx.todo
  BY DEF Thawing
<1>5. PICK bad \in BOOLEAN : tx' = [Step(p) EXCEPT !.bad = bad]
  <2>1. tx' = [Step(p) EXCEPT
                 !.bad = Step(p).bad \/ ~(SignalPlan \/ p \notin CgroupProcs \/ BinderAvailable)]
    OBVIOUS
  <2>2. (Step(p).bad \/ ~(SignalPlan \/ p \notin CgroupProcs \/ BinderAvailable)) \in BOOLEAN
    OBVIOUS
  <2> QED
    BY <2>1, <2>2
<1>6. tx' \in Txs /\ TxInv'
  BY <1>4, <1>5, StepKeeps
<1>7. HeldInv' /\ ViewInv' /\ HeldOfOnePackage'
  BY <1>1, TransactionHoldsNoMore
<1> QED
  BY <1>2, <1>3, <1>6, <1>7, TransactionKeeps

LEMMA ThawOneFailsKeeps == ASSUME Inv, NEW p \in Procs, ThawOneFails(p) PROVE Inv'
<1> USE DEF ThawOneFails
<1>1. cgroup' \subseteq cgroup /\ binder' \subseteq binder /\ sigstop' \subseteq sigstop
  OBVIOUS
<1>2. ledger' = ledger \/ ledger' = [ledger EXCEPT ![p] = "None"]
  OBVIOUS
<1>3. KernelTypes'
  BY <1>1, <1>2, KernelPieces DEF KernelTypes, Claim
<1>4. TrackingTypes' /\ TransientTypes'
  BY MemoryIsLeft DEF MemoryLeaves
<1>5. tx' \in Txs /\ TxInv'
  BY StepKeeps DEF Thawing
<1>6. HeldInv' /\ ViewInv' /\ HeldOfOnePackage'
  BY <1>1, TransactionHoldsNoMore
<1> QED
  BY <1>3, <1>4, <1>5, <1>6, TransactionKeeps

-----------------------------------------------------------------------------
(* The end of a transaction *)

\* While a transaction goes on it has a package.
LEMMA TxPackage == ASSUME Inv, tx.at # "none" PROVE tx.pkg \in Packages
BY DEF Inv, TxInv

LEMMA FrozenKeeps ==
  ASSUME Inv, tx.at # "none", NEW ownership \in Ownership \ {"None"}, Frozen(ownership)
  PROVE  TrackingTypes' /\ TransientTypes' /\ tx' = NoTx /\ TxUnchanged
<1> USE DEF Frozen
<1>1. TrackingTypes'
  BY TxPackage, TrackFrozenType DEF Inv
<1>2. pending_freezes' \in [Packages -> Pending]
  BY SetPendingType DEF Inv, Pending
<1>3. UidOf[tx.pkg] \in Uids
  BY TxPackage, ControlAssumption
<1>4. TransientTypes'
  BY <1>2, <1>3, TypeParts DEF Inv, TransientTypes
<1> QED
  BY <1>1, <1>4

LEMMA FreezerDoneKeeps == ASSUME Inv, FreezerDone PROVE Inv'
<1>1. TrackingTypes' /\ TransientTypes' /\ tx' = NoTx /\ TxUnchanged
  BY FrozenKeeps DEF FreezerDone, AllApplied, Applying, Ownership
<1> QED
  BY <1>1, KernelLeft, RestingTx, TransactionKeeps DEF FreezerDone

LEMMA FallbackDoneKeeps == ASSUME Inv, FallbackDone PROVE Inv'
<1>1. TrackingTypes' /\ TransientTypes' /\ tx' = NoTx /\ TxUnchanged
  BY FrozenKeeps DEF FallbackDone, AllApplied, Applying, Ownership
<1> QED
  BY <1>1, KernelLeft, RestingTx, TransactionKeeps DEF FallbackDone

LEMMA SignalDoneKeeps == ASSUME Inv, SignalDone PROVE Inv'
<1> USE DEF SignalDone
<1>1. PICK promoted \in Promotions :
        /\ ledger' = [p \in Procs |-> IF p \in promoted THEN "SignalOnly" ELSE ledger[p]]
        /\ Frozen(StopOwnership(promoted))
  OBVIOUS
<1>2. TrackingTypes' /\ TransientTypes' /\ tx' = NoTx /\ TxUnchanged
  BY <1>1, FrozenKeeps DEF AllApplied, Applying, StopOwnership, Ownership
<1>3. KernelTypes'
  BY <1>1, KernelPieces DEF KernelTypes, Claim
<1>4. HeldInv' /\ ViewInv' /\ HeldOfOnePackage'
  BY <1>2, TransactionHoldsNoMore
<1> QED
  BY <1>2, <1>3, <1>4, RestingTx, TransactionKeeps

\* The other ends change the tracking and a pending freeze at most.
LEMMA EndKeeps ==
  ASSUME Inv, UNCHANGED <<kernel, blocked, network>>, TxUnchanged, TrackingTypes',
         pending_freezes' \in [Packages -> Pending], tx' \in Txs, TxInv'
  PROVE  Inv'
<1>1. TransientTypes'
  BY TypeParts DEF Inv, TransientTypes
<1> QED
  BY <1>1, KernelLeft, TransactionKeeps

LEMMA KillDoneKeeps == ASSUME Inv, KillDone PROVE Inv'
<1>1. TrackingTypes' /\ pending_freezes' \in [Packages -> Pending]
  BY ClearFrozenType, SetPendingType DEF Inv, KillDone, Pending
<1> QED
  BY <1>1, RestingTx, EndKeeps DEF KillDone

LEMMA ThawDoneKeeps == ASSUME Inv, ThawDone PROVE Inv'
<1>1. TrackingTypes'
  BY ClearFrozenType, VisitLeaves DEF Inv, ThawDone
<1>2. pending_freezes' \in [Packages -> Pending]
  BY SetPendingType, VisitLeaves DEF Inv, ThawDone, Pending
<1> QED
  BY <1>1, <1>2, RestingTx, EndKeeps DEF ThawDone

\* The fallback is about the processes the freezer transaction was about, and
\* promotes nothing.
LEMMA FreezerUndoneKeeps == ASSUME Inv, FreezerUndone PROVE Inv'
<1> USE DEF FreezerUndone
<1>1. tx.at # "none" /\ tx.kind \in Freezes
  BY DEF Undone, Freezes
<1>2. tx.pkg \in Packages /\ pc = "records" /\ UNCHANGED <<pc, snapshot>>
  BY <1>1 DEF Inv, TxInv, TxUnchanged, view
<1>3. TrackingTypes'
  BY <1>2, TrackFrozenType DEF Inv, Ownership
<1>4. pending_freezes' \in [Packages -> Pending]
  BY SetPendingType, VisitLeaves DEF Inv, Pending
<1>5. tx' \in Txs /\ TxInv'
  <2>1. CASE /\ Fits(Here(UidOf[tx.pkg]))
             /\ Launch("fallback", tx.pkg, Here(UidOf[tx.pkg]), FALSE)
    BY <1>2, <2>1, LaunchesFreeze DEF Freezes, Stops
  <2>2. CASE tx' = NoTx
    BY <2>2, RestingTx
  <2> QED
    BY <2>1, <2>2
<1> QED
  BY <1>3, <1>4, <1>5, EndKeeps

LEMMA StopUndoneKeeps == ASSUME Inv, StopUndone PROVE Inv'
<1> USE DEF StopUndone
<1>1. tx.pkg \in Packages
  BY TxPackage DEF Undone
<1>2. TrackingTypes'
  BY <1>1, TrackFrozenType, VisitLeaves DEF Inv, Ownership
<1>3. pending_freezes' \in [Packages -> Pending]
  BY SetPendingType DEF Inv, Pending
<1> QED
  BY <1>2, <1>3, RestingTx, EndKeeps

LEMMA TransactionKeepsInv == ASSUME Inv, Transaction PROVE Inv'
BY FreezeOneKeeps, FreezeOneFailsKeeps, KillOneKeeps, KillOneFailsKeeps, ThawOneKeeps,
   ThawOneFailsKeeps, FreezerDoneKeeps, FallbackDoneKeeps, SignalDoneKeeps, KillDoneKeeps,
   ThawDoneKeeps, FreezerUndoneKeeps, StopUndoneKeeps
   DEF Transaction

LEMMA DaemonKeeps == ASSUME Inv, Daemon PROVE Inv'
BY PassBeginKeeps, PassEndKeeps, DisabledBeginKeeps, DisabledEndKeeps, QueuedThawKeeps,
   QueuedThawFailsKeeps, RecordKeeps, TransactionKeepsInv
   DEF Daemon

-----------------------------------------------------------------------------
(* The world around the daemon *)

\* A step outside of the daemon: only the processes and the ledger change.
LEMMA OutsideKeeps ==
  ASSUME Inv, Outside, KernelTypes', HeldInv', ViewInv', HeldOfOnePackage'
  PROVE  Inv'
<1>1. /\ UNCHANGED <<policy, foreground, allowed, frozen_apps, frozen_ownership>>
      /\ UNCHANGED <<pending_freezes, blocked, network, pc, left, queue, snapshot, running>>
      /\ UNCHANGED <<foreground_uids, audit_due, tx>>
  BY DEF Outside, world, memory, tracking, pass, view
<1>2. /\ WorldTypes' /\ TrackingTypes' /\ TransientTypes' /\ LoopTypes' /\ ViewTypes'
      /\ tx' \in Txs
  BY <1>1, TypeParts DEF Inv, WorldTypes, TrackingTypes, TransientTypes, LoopTypes, ViewTypes
<1>3. TxInv'
  BY <1>1, KeepsTx
<1> QED
  BY <1>2, <1>3, TypePartsNext DEF Inv

LEMMA SpawnKeeps == ASSUME Inv, NEW p \in Procs, Spawn(p) PROVE Inv'
<1> USE DEF Spawn
<1>1. KernelTypes'
  BY KernelPieces DEF KernelTypes
<1>2. Alive \subseteq Alive' /\ Held' = Held
  BY KernelPieces DEF Alive, Held
<1>3. UNCHANGED <<policy, snapshot, pc>>
  BY DEF Outside, world, pass, view
<1>4. HeldInv' /\ HeldOfOnePackage'
  BY <1>2 DEF Inv, HeldInv, HeldOfOnePackage, Uid
<1>5. ViewInv'
  BY <1>2, <1>3, KeepsView
<1> QED
  BY <1>1, <1>4, <1>5, OutsideKeeps

LEMMA ExitKeeps == ASSUME Inv, NEW p \in Procs, Exit(p) PROVE Inv'
<1>1. UNCHANGED <<policy, snapshot, pc>>
  BY DEF Exit, Outside, world, pass, view
<1>2. KernelTypes' /\ HeldInv' /\ ViewInv' /\ HeldOfOnePackage'
  BY <1>1, DeathKeeps DEF Exit
<1> QED
  BY <1>2, OutsideKeeps DEF Exit

\* Others thaw a process, or a claim of the ledger weakens.
LEMMA OutsideHoldsNoMore ==
  ASSUME Inv, Outside, cgroup' \subseteq cgroup, binder' \subseteq binder,
         sigstop' \subseteq sigstop, UNCHANGED life, KernelTypes'
  PROVE  Inv'
<1>1. UNCHANGED <<policy, snapshot, pc>> /\ Held' \subseteq Held
  BY DEF Outside, world, pass, view, Held
<1> QED
  BY <1>1, HoldsNoMore, KeepsView, OutsideKeeps

LEMMA OthersThawKeeps == ASSUME Inv, NEW p \in Procs, OthersThaw(p) PROVE Inv'
<1>1. KernelTypes'
  BY KernelPieces DEF OthersThaw, KernelTypes
<1> QED
  BY <1>1, OutsideHoldsNoMore DEF OthersThaw

LEMMA LedgerWeakensKeeps == ASSUME Inv, NEW p \in Procs, LedgerWeakens(p) PROVE Inv'
<1>1. KernelTypes'
  BY KernelPieces DEF LedgerWeakens, KernelTypes, Claim
<1> QED
  BY <1>1, OutsideHoldsNoMore DEF LedgerWeakens

\* The foreground, the switch and the policy: the daemon has not seen it yet.
\* The policy changes between two passes only, when no view depends on it.
LEMMA WorldChanges ==
  ASSUME Inv, UNCHANGED <<kernel, memory, pass>>, WorldTypes', pc = "idle" \/ UNCHANGED policy
  PROVE  Inv'
<1>1. /\ UNCHANGED <<life, cgroup, binder, sigstop, ledger, frozen_apps, frozen_ownership>>
      /\ UNCHANGED <<pending_freezes, blocked, network, pc, left, queue, snapshot, running>>
      /\ UNCHANGED <<foreground_uids, audit_due, tx>>
  BY DEF kernel, memory, tracking, pass, view
<1>2. /\ KernelTypes' /\ TrackingTypes' /\ TransientTypes' /\ LoopTypes' /\ ViewTypes'
      /\ tx' \in Txs
  BY <1>1, TypeParts DEF Inv, KernelTypes, TrackingTypes, TransientTypes, LoopTypes, ViewTypes
<1>3. HeldInv' /\ HeldOfOnePackage'
  BY <1>1, HoldsNoMore
<1>4. ViewInv'
  <2>1. CASE pc = "idle"
    BY <1>1, <2>1 DEF ViewInv
  <2>2. CASE UNCHANGED policy
    BY <1>1, <2>2, KeepsView DEF Held
  <2> QED
    BY <2>1, <2>2
<1>5. TxInv'
  BY <1>1, KeepsTx
<1> QED
  BY <1>2, <1>3, <1>4, <1>5, TypePartsNext DEF Inv

LEMMA ForegroundChangesKeeps == ASSUME Inv, NEW u \in Uids, ForegroundChanges(u) PROVE Inv'
<1>1. WorldTypes'
  BY TypeParts DEF Inv, ForegroundChanges, WorldTypes
<1> QED
  BY <1>1, WorldChanges DEF ForegroundChanges

LEMMA ControlTogglesKeeps == ASSUME Inv, ControlToggles PROVE Inv'
<1>1. WorldTypes'
  BY TypeParts DEF Inv, ControlToggles, WorldTypes
<1> QED
  BY <1>1, WorldChanges DEF ControlToggles

LEMMA PolicyEditedKeeps == ASSUME Inv, NEW u \in Uids, PolicyEdited(u) PROVE Inv'
<1>1. WorldTypes'
  BY TypeParts DEF Inv, PolicyEdited, WorldTypes
<1> QED
  BY <1>1, WorldChanges DEF PolicyEdited

LEMMA FreezeFallsDueKeeps == ASSUME Inv, NEW k \in Packages, FreezeFallsDue(k) PROVE Inv'
<1> USE DEF FreezeFallsDue
<1>1. UNCHANGED <<pc, left, queue, snapshot, running, foreground_uids, audit_due, tx,
                  frozen_apps, frozen_ownership>>
  BY DEF pass, view, tracking
<1>2. TrackingTypes /\ LoopTypes /\ TransientTypes /\ tx \in Txs
  BY TypeParts DEF Inv
<1>3. TrackingTypes' /\ LoopTypes'
  BY <1>1, <1>2 DEF TrackingTypes, LoopTypes
<1>4. TransientTypes'
  BY <1>2, SetPendingType DEF Inv, TransientTypes, Pending
<1>5. TxInv'
  BY <1>1, KeepsTx
<1> QED
  BY <1>1, <1>2, <1>3, <1>4, <1>5, KernelKept DEF view

-----------------------------------------------------------------------------
(* The death of the daemon *)

\* A torn freeze holds one process more, the one the transaction had come to.
LEMMA TornFacts ==
  ASSUME Inv, NEW torn \in Torn
  PROVE  /\ torn.cgroup \subseteq cgroup
         /\ \/ torn.binder \subseteq binder
            \/ \E p \in tx.todo \cap Alive :
                 tx.kind \in Freezes /\ torn.binder = binder \cup {p}
BY DEF Torn, Applying, Freezes

\* The recovery only thaws: the processes, and the claims of those it resumed.
LEMMA CrashFacts ==
  ASSUME Inv, Crash
  PROVE  \E torn \in Torn :
           /\ cgroup' \subseteq torn.cgroup /\ binder' \subseteq torn.binder
           /\ sigstop' \subseteq sigstop
           /\ \E owned : ledger' = [p \in Procs |-> IF p \in owned THEN "None" ELSE ledger[p]]
BY DEF Crash

LEMMA CrashKeeps == ASSUME Inv, Crash PROVE Inv'
<1>1. PICK torn \in Torn :
        /\ cgroup' \subseteq torn.cgroup /\ binder' \subseteq torn.binder
        /\ sigstop' \subseteq sigstop
        /\ \E owned : ledger' = [p \in Procs |-> IF p \in owned THEN "None" ELSE ledger[p]]
  BY CrashFacts
<1>2. /\ frozen_apps' = {} /\ frozen_ownership' = [k \in Packages |-> "None"]
      /\ pending_freezes' = [k \in Packages |-> "none"] /\ blocked' = [k \in Packages |-> {}]
      /\ network' = {} /\ pc' = "idle" /\ left' = {} /\ queue' = {} /\ tx' = NoTx
      /\ ViewDropped /\ UNCHANGED <<life, policy, foreground, allowed>>
  BY DEF Crash, world
<1>3. KernelTypes'
  <2>1. cgroup' \subseteq Procs /\ binder' \subseteq Procs /\ sigstop' \subseteq Procs
    BY <1>1, TornFacts, KernelPieces
  <2>2. ledger' \in [Procs -> Claim]
    BY <1>1, KernelPieces DEF Claim
  <2> QED
    BY <1>2, <2>1, <2>2, KernelPieces DEF KernelTypes
<1>4. WorldTypes'
  BY <1>2, TypeParts DEF Inv, WorldTypes
<1>5. TrackingTypes' /\ TransientTypes' /\ LoopTypes'
  BY <1>2 DEF TrackingTypes, TransientTypes, LoopTypes, Ownership, Pending
<1>6. ViewTypes'
  BY <1>2 DEF ViewDropped, ViewTypes
<1>7. ViewInv'
  BY <1>2 DEF ViewInv
<1>8. HeldInv' /\ HeldOfOnePackage'
  <2>1. CASE torn.binder \subseteq binder
    BY <1>1, <1>2, <2>1, TornFacts, HoldsNoMore
  <2>2. CASE \E p \in tx.todo \cap Alive : tx.kind \in Freezes /\ torn.binder = binder \cup {p}
    <3>1. PICK p \in tx.todo \cap Alive : tx.kind \in Freezes /\ torn.binder = binder \cup {p}
      BY <2>2
    <3>2. Held' \subseteq Held \cup {p}
      BY <1>1, <3>1, TornFacts DEF Held
    <3>3. p \in Here(UidOf[tx.pkg]) /\ OnePackage(UidOf[tx.pkg]) /\ pc = "records"
          /\ p \in snapshot /\ Uid(p) = UidOf[tx.pkg] /\ Controlled(Uid(p))
      BY <3>1 DEF Inv, TxInv, Here, ViewInv
    <3>4. \A q \in Held : Uid(q) = Uid(p) => PackageOf[q] = PackageOf[p]
      BY <3>3 DEF Inv, ViewInv, Here, OnePackage
    <3>5. HeldOfOnePackage'
      BY <3>2, <3>4 DEF Inv, HeldOfOnePackage, Uid
    <3>6. HeldInv'
      BY <1>2, <3>1, <3>2 DEF Inv, HeldInv, Alive
    <3> QED
      BY <3>5, <3>6
  <2> QED
    BY <2>1, <2>2, TornFacts
<1> QED
  BY <1>2, <1>3, <1>4, <1>5, <1>6, <1>7, <1>8, RestingTx, TypePartsNext DEF Inv

LEMMA WorldKeeps == ASSUME Inv, World PROVE Inv'
BY SpawnKeeps, ExitKeeps, OthersThawKeeps, LedgerWeakensKeeps, ForegroundChangesKeeps,
   PolicyEditedKeeps, ControlTogglesKeeps, FreezeFallsDueKeeps, CrashKeeps
   DEF World

LEMMA NothingKeeps == ASSUME Inv, UNCHANGED vars PROVE Inv'
<1>1. UNCHANGED <<kernel, world, memory, pass>>
  BY DEF vars
<1>2. WorldTypes'
  BY <1>1, TypeParts DEF Inv, world, WorldTypes
<1> QED
  BY <1>1, <1>2, WorldChanges DEF world

-----------------------------------------------------------------------------
(* The invariant and the theorems *)

THEOREM Invariant == Spec => []Inv
<1>1. Init => Inv
  BY InitInv
<1>2. Inv /\ [Next]_vars => Inv'
  BY DaemonKeeps, WorldKeeps, NothingKeeps DEF Next
<1> QED
  BY <1>1, <1>2, PTL DEF Spec

\* The state of the control loop keeps its type: a set of identities, one
\* ownership and one deadline for each, a transaction about one package.
THEOREM TypeCorrect == Spec => []TypeOK
<1>1. Inv => TypeOK
  BY DEF Inv
<1> QED
  BY <1>1, Invariant, PTL

\* The processes of a shared uid are never held under two identities, whatever
\* starts, exits, fails or crashes: a transaction was checked against every
\* process of the uid that can be held.
THEOREM HeldOfOnePackageCorrect == Spec => []HeldOfOnePackage
<1>1. Inv => HeldOfOnePackage
  BY DEF Inv
<1> QED
  BY <1>1, Invariant, PTL

\* Steps of the tracking that turn nothing into a SignalOnly stop.
LEMMA NoNewSignalOnly ==
  ASSUME \A k \in Packages : frozen_ownership'[k] = "SignalOnly" => frozen_ownership[k] = "SignalOnly"
  PROVE  ResidualStays
BY DEF ResidualStays

LEMMA ClearsStay ==
  ASSUME NEW ks, ClearFrozen(ks)
  PROVE  ResidualStays
BY NoNewSignalOnly DEF ClearFrozen

\* An identity that goes on after an audit is SignalOnly only if it was.
LEMMA DetachStays ==
  ASSUME Inv, NEW u, Here(u) # {}, DetachIfAbnormal(u)
  PROVE  ResidualStays
<1>1. Id(u) \in Packages /\ TrackingTypes
  BY IdFacts, TypeParts DEF Inv
<1>2. Owner(u) = "SignalOnly" => frozen_ownership[Id(u)] = "SignalOnly"
  BY DEF Owner, Detached, OwnershipOf
<1>3. \A k \in Packages :
        frozen_ownership'[k] = IF k = Id(u) THEN Owner(u) ELSE frozen_ownership[k]
  BY <1>1 DEF DetachIfAbnormal, TrackingTypes
<1> QED
  BY <1>2, <1>3, NoNewSignalOnly

LEMMA TrackStays ==
  ASSUME Inv, NEW k \in Packages, NEW ownership, TrackFrozen(k, ownership),
         ownership = "SignalOnly" => frozen_ownership[k] \notin {"CgroupBinder", "ResidualUnknown"}
  PROVE  ResidualStays
<1>1. TrackingTypes
  BY TypeParts DEF Inv
<1> QED
  BY <1>1 DEF TrackFrozen, TrackingTypes, ResidualStays

LEMMA RecordStays == ASSUME Inv, NEW u, Record(u) PROVE ResidualStays
<1>1. CASE NoProcesses(u)
  BY <1>1, ClearsStay DEF NoProcesses
<1>2. CASE ProtectedRecord(u)
  BY <1>2, NoNewSignalOnly DEF ProtectedRecord
<1>3. CASE BlockedRecord(u) \/ Foreground(u) \/ WakeupThaw(u) \/ StaysFrozen(u) \/ Delay(u)
  <2>1. UNCHANGED frozen_ownership
    BY <1>3 DEF BlockedRecord, Foreground, WakeupThaw, StaysFrozen, Delay, memory, tracking
  <2> QED
    BY <2>1, NoNewSignalOnly
<1>4. CASE Postpone(u) \/ FreezeBegins(u) \/ FreezeRefused(u) \/ KillRefused(u)
  <2>1. Here(u) # {} /\ DetachIfAbnormal(u)
    BY <1>4, ReadyIsSo DEF Postpone, FreezeBegins, FreezeRefused, KillRefused, FreshFacts
  <2> QED
    BY <2>1, DetachStays
<1> QED
  BY <1>1, <1>2, <1>3, <1>4 DEF Record

LEMMA TransactionStays == ASSUME Inv, Transaction PROVE ResidualStays
<1>1. ASSUME NEW p, FreezeOne(p) \/ FreezeOneFails(p) \/ KillOne(p) \/ KillOneFails(p)
             \/ ThawOne(p) \/ ThawOneFails(p)
      PROVE  ResidualStays
  <2>1. UNCHANGED frozen_ownership
    BY <1>1 DEF FreezeOne, FreezeOneFails, KillOne, KillOneFails, ThawOne, ThawOneFails, memory, tracking
  <2> QED
    BY <2>1, NoNewSignalOnly
<1>2. CASE FreezerDone \/ FallbackDone
  BY <1>2, TxPackage, TrackStays DEF FreezerDone, FallbackDone, Frozen, AllApplied, Applying
<1>3. CASE SignalDone
  <2>1. PICK promoted : TrackFrozen(tx.pkg, StopOwnership(promoted))
    BY <1>3 DEF SignalDone, Frozen
  <2>2. StopOwnership(promoted) = "SignalOnly" => tx.promote
    BY DEF StopOwnership
  <2>3. tx.promote => frozen_ownership[tx.pkg] \notin {"CgroupBinder", "ResidualUnknown"}
    BY DEF Inv, TxInv
  <2>4. tx.pkg \in Packages
    BY <1>3, TxPackage DEF SignalDone, AllApplied, Applying
  <2> QED
    BY <2>1, <2>2, <2>3, <2>4, TrackStays
<1>4. CASE KillDone
  BY <1>4, ClearsStay DEF KillDone
<1>5. CASE ThawDone
  BY <1>5, ClearsStay, NoNewSignalOnly DEF ThawDone, tracking
<1>6. CASE FreezerUndone
  BY <1>6, TxPackage, TrackStays DEF FreezerUndone, Undone
<1>7. CASE StopUndone
  BY <1>7, TxPackage, TrackStays, NoNewSignalOnly DEF StopUndone, Undone, tracking
<1> QED
  BY <1>1, <1>2, <1>3, <1>4, <1>5, <1>6, <1>7 DEF Transaction

LEMMA DaemonStays == ASSUME Inv, Daemon PROVE ResidualStays
<1>1. CASE PassBegin
  BY <1>1, NoNewSignalOnly DEF PassBegin, DropUncontrolled
<1>2. CASE PassEnd \/ DisabledBegin
  BY <1>2, NoNewSignalOnly DEF PassEnd, DisabledBegin, memory, tracking
<1>3. CASE DisabledEnd
  BY <1>3, NoNewSignalOnly DEF DisabledEnd
<1>4. ASSUME NEW k \in Packages, QueuedThaw(k) \/ QueuedThawFails(k) PROVE ResidualStays
  BY <1>4, ClearsStay, NoNewSignalOnly DEF QueuedThaw, QueuedThawFails, memory, tracking
<1> QED
  BY <1>1, <1>2, <1>3, <1>4, RecordStays, TransactionStays DEF Daemon

LEMMA WorldStays == ASSUME World PROVE ResidualStays
<1>1. CASE Crash
  BY <1>1, NoNewSignalOnly DEF Crash
<1>2. CASE ~ Crash
  <2>1. UNCHANGED frozen_ownership
    BY <1>2 DEF World, Spawn, Exit, OthersThaw, LedgerWeakens, ForegroundChanges, PolicyEdited,
       ControlToggles, FreezeFallsDue, Outside, memory, tracking
  <2> QED
    BY <2>1, NoNewSignalOnly
<1> QED
  BY <1>1, <1>2

\* "ResidualUnknown has precedence over later signal success": no sequence of
\* audits, refreezes, fallbacks and promotions turns an identity with a possible
\* residual of the freezer into one that SIGCONT alone resumes.
THEOREM ResidualPrecedenceCorrect == Spec => ResidualPrecedence
<1>1. Inv /\ [Next]_vars => [ResidualStays]_vars
  BY DaemonStays, WorldStays DEF Next
<1> QED
  BY <1>1, Invariant, PTL DEF Spec, ResidualPrecedence

-----------------------------------------------------------------------------
(* What is held is accounted for.                                          *)
(*                                                                         *)
(* The controller forgets what it holds in four ways: an edit takes the app *)
(* out of its control, a disabled pass or a protected record drops what an  *)
(* audit had detached, and a recovery after a crash is incomplete.  Apart   *)
(* from these it never does.                                                *)

\* A uid is protected as a whole or not at all.
ProtectedUids ==
  \A k, j \in Packages : UidOf[k] = UidOf[j] /\ k \in Protected => j \in Protected

\* No edit takes an app out of control.
StaysControlled == On("edits") => 0 \notin Modes

\* What an audit detaches is not dropped by a disabled pass or a protected record.
DetachedStay == On("audit") => ~On("toggle") /\ ProtectedUids

\* The daemon does not die with a failure or a detached identity behind it.
CleanRestarts == On("crashes") => ~On("failures") /\ ~On("audit")

Accountable == StaysControlled /\ DetachedStay /\ CleanRestarts

Known(p) == frozen_ownership[PackageOf[p]] # "None"
Residual(p) == frozen_ownership[PackageOf[p]] \in {"CgroupBinder", "ResidualUnknown"}

\* The transaction in progress is about to account for the process.
Exposed(p) ==
  /\ tx.kind \in Freezes /\ PackageOf[p] = tx.pkg
  /\ IF tx.at = "apply" THEN p \in tx.done ELSE p \in tx.todo \/ tx.bad \/ tx.kind = "freezer"
Freezing(p) == tx.kind = "freezer" /\ PackageOf[p] = tx.pkg

\* What is held is known, and known to be of the freezer if it may be.
TrackInv ==
  /\ \A p \in Held : Known(p) \/ Exposed(p)
  /\ \A p \in cgroup \cup binder : Residual(p) \/ Freezing(p)

\* The same with no transaction to wait for.
Accounted ==
  /\ \A p \in Held : Known(p)
  /\ \A p \in cgroup \cup binder : Residual(p)

\* Only apps under control are held, visited and thawed by a pass.
ControlledInv ==
  /\ \A p \in Held : Controlled(Uid(p))
  /\ pc = "records" => (\A u \in left : Controlled(u)) /\ (\A k \in queue : Controlled(UidOf[k]))
  /\ pc = "idle" => queue = {}

SwitchInv == ~On("toggle") => allowed /\ (pc = "disabled" => ControlledUids = {})

\* Without an audit nothing is known that is not frozen.
AuditOff == ~On("audit") => ~audit_due
NoneDetached ==
  ~On("audit") => \A k \in Packages : frozen_ownership[k] # "None" => k \in frozen_apps

\* A transaction is about its package; one that freezes about every process of
\* the snapshot, the freezer about processes it can freeze.
AboutInv ==
  /\ tx.todo \cap tx.done = {}
  /\ \A p \in tx.todo \cup tx.done : PackageOf[p] = tx.pkg
  /\ tx.kind \in Freezes =>
       /\ \A p \in Here(UidOf[tx.pkg]) : PackageOf[p] = tx.pkg
       /\ tx.pkg \notin Protected
  /\ tx.kind = "freezer" =>
       tx.todo \cup tx.done \subseteq CgroupProcs /\ tx.pkg \notin frozen_apps

\* What can be held at all.
HoldableInv ==
  /\ cgroup \cup binder \subseteq CgroupProcs
  /\ \A p \in Held : PackageOf[p] \notin Protected

\* A thaw or a kill has everything that is held of its package before it, and
\* what could not be thawed makes it bad.
CoverInv ==
  tx.at = "apply" /\ tx.kind \in Thaws \cup {"kill"} =>
    \A p \in Held : PackageOf[p] = tx.pkg => p \in tx.todo \/ (tx.bad /\ tx.kind \in Thaws)

\* A stop has its record.  The recovery trusts a SignalOnly record: without an
\* audit the freezer has no part in such a stop.
LedgerInv ==
  /\ ~On("audit") =>
       \A p \in sigstop : ledger[p] = "SignalOnly" => p \notin cgroup \cup binder
  /\ ~On("failures") => \A p \in sigstop : ledger[p] # "None"

Accounts ==
  /\ TrackInv /\ ControlledInv /\ SwitchInv /\ AuditOff /\ NoneDetached
  /\ AboutInv /\ HoldableInv /\ CoverInv /\ LedgerInv

LEMMA InitAccounts == Init => Accounts
<1> SUFFICES ASSUME Init PROVE Accounts
  OBVIOUS
<1>1. TrackInv /\ ControlledInv /\ SwitchInv /\ HoldableInv /\ LedgerInv
  BY DEF Init, TrackInv, ControlledInv, SwitchInv, HoldableInv, LedgerInv, Held
<1>2. AuditOff /\ NoneDetached
  BY DEF Init, AuditOff, NoneDetached
<1>3. AboutInv /\ CoverInv
  BY DEF Init, NoTx, AboutInv, CoverInv, Freezes, Stops
<1> QED
  BY <1>1, <1>2, <1>3 DEF Accounts

\* Between two passes nothing is in progress that freezes.
LEMMA AccountsMean ==
  ASSUME Inv, Accounts
  PROVE  SignalOnlyIsComplete /\ HeldIsTracked
<1>1. SignalOnlyIsComplete
  BY DEF Accounts, TrackInv, AboutInv, Residual, Freezing, SignalOnlyIsComplete
<1>2. HeldIsTracked
  BY OnlyVisitsFreeze DEF Accounts, TrackInv, Known, Exposed, HeldIsTracked
<1> QED
  BY <1>1, <1>2

-----------------------------------------------------------------------------
(* What most steps leave alone *)

LEMMA HeldFacts ==
  ASSUME Inv, Accounts, NEW p \in Held
  PROVE  /\ p \in Alive /\ p \in Procs /\ PackageOf[p] \in Packages
         /\ UidOf[PackageOf[p]] = Uid(p) /\ Uid(p) \in Uids /\ Controlled(Uid(p))
         /\ pc = "records" => p \in Here(Uid(p))
<1>1. p \in Alive /\ p \in Procs
  BY DEF Inv, HeldInv, Alive
<1>2. Controlled(Uid(p))
  BY DEF Accounts, ControlledInv
<1> QED
  BY <1>1, <1>2, PackageFacts DEF Inv, ViewInv, Here

\* With no transaction that freezes everything is accounted for.
LEMMA AccountedIs ==
  ASSUME Accounts, tx.kind \notin Freezes
  PROVE  Accounted
BY DEF Accounts, TrackInv, Accounted, Exposed, Freezing, Freezes

LEMMA RestingAccounts ==
  ASSUME tx' = NoTx
  PROVE  AboutInv' /\ CoverInv'
BY DEF NoTx, AboutInv, CoverInv, Freezes, Stops

\* A step that leaves the processes alone accounts for them if it keeps the
\* ownership of the packages that are held.
LEMMA StillAccounted ==
  ASSUME Accounted, UNCHANGED <<cgroup, binder, sigstop>>,
         \A p \in Held : /\ Known(p) => Known(p)'
                         /\ Residual(p) => Residual(p)'
  PROVE  Accounted'
BY DEF Accounted, Held

LEMMA AccountedTracks == ASSUME Accounted' PROVE TrackInv'
BY DEF Accounted, TrackInv

\* What depends on the kernel only.
LEMMA KernelAccounts ==
  ASSUME Accounts, UNCHANGED kernel
  PROVE  HoldableInv' /\ LedgerInv'
BY DEF Accounts, HoldableInv, LedgerInv, kernel, Held

\* A step that leaves the kernel and the world alone.
LEMMA LoopAccounts ==
  ASSUME Inv, Accounts, UNCHANGED <<kernel, world, pc>>, left' \subseteq left,
         pc = "records" => \A k \in queue' : Controlled(UidOf[k]),
         pc = "idle" => queue' = {},
         TrackInv', AuditOff', NoneDetached', AboutInv', CoverInv'
  PROVE  Accounts'
<1>1. UNCHANGED <<policy, allowed, cgroup, binder, sigstop>>
  BY DEF kernel, world
<1>2. ControlledInv'
  BY <1>1 DEF Accounts, ControlledInv, Held, Controlled, Uid
<1>3. SwitchInv'
  BY <1>1 DEF Accounts, SwitchInv, ControlledUids, Controlled
<1> QED
  BY <1>2, <1>3, KernelAccounts DEF Accounts

-----------------------------------------------------------------------------
(* The steps of a pass outside of the visits *)

\* An entry that is dropped is of a uid that left control: nothing of it is held.
LEMMA PassBeginAccounts == ASSUME Inv, Accounts, PassBegin PROVE Accounts'
<1> USE DEF PassBegin
<1>1. /\ pc = "idle" /\ pc' = "records" /\ left' = ControlledUids /\ UNCHANGED <<queue, tx>>
      /\ UNCHANGED <<cgroup, binder, sigstop, policy, allowed>>
  BY DEF kernel, world
<1>2. tx.kind \notin Freezes
  BY <1>1, OnlyVisitsFreeze
<1>3. TrackInv'
  <2>1. \A p \in Held : frozen_ownership'[PackageOf[p]] = frozen_ownership[PackageOf[p]]
    BY HeldFacts DEF DropUncontrolled
  <2>2. Accounted'
    BY <1>1, <1>2, <2>1, AccountedIs, StillAccounted DEF Known, Residual
  <2> QED
    BY <2>2, AccountedTracks
<1>4. ControlledInv'
  BY <1>1 DEF Accounts, ControlledInv, ControlledUids, Controlled, Held, Uid
<1>5. SwitchInv'
  BY <1>1 DEF Accounts, SwitchInv
<1>6. AuditOff'
  BY DEF AuditOff
<1>7. NoneDetached'
  BY DEF Accounts, NoneDetached, DropUncontrolled
<1>8. AboutInv' /\ CoverInv'
  BY <1>1, <1>2 DEF Accounts, AboutInv, CoverInv, Held, Freezes
<1> QED
  BY <1>3, <1>4, <1>5, <1>6, <1>7, <1>8, KernelAccounts DEF Accounts

\* The ends of a pass leave what is tracked or drop what is not held.
LEMMA PassEndAccounts == ASSUME Inv, Accounts, PassEnd PROVE Accounts'
<1> USE DEF PassEnd
<1>1. /\ pc' = "idle" /\ queue' = {} /\ UNCHANGED <<frozen_apps, frozen_ownership>>
      /\ UNCHANGED <<cgroup, binder, sigstop, policy, allowed>> /\ tx = NoTx /\ tx' = NoTx
  BY DEF kernel, world, tracking
<1>2. TrackInv'
  BY <1>1 DEF Accounts, TrackInv, Known, Residual, Exposed, Freezing, Held
<1>3. ControlledInv'
  BY <1>1 DEF Accounts, ControlledInv, Controlled, Held, Uid
<1>4. SwitchInv'
  BY <1>1 DEF Accounts, SwitchInv
<1>5. AuditOff' /\ NoneDetached'
  BY <1>1 DEF Accounts, AuditOff, NoneDetached, ViewDropped
<1> QED
  BY <1>1, <1>2, <1>3, <1>4, <1>5, RestingAccounts, KernelAccounts DEF Accounts

LEMMA DisabledBeginAccounts == ASSUME Inv, Accounts, DisabledBegin PROVE Accounts'
<1> USE DEF DisabledBegin
<1>1. /\ pc = "idle" /\ pc' = "disabled" /\ UNCHANGED <<frozen_apps, frozen_ownership, tx>>
      /\ UNCHANGED <<cgroup, binder, sigstop, policy, allowed, audit_due>>
  BY DEF kernel, world, memory, tracking, view
<1>2. TrackInv' /\ CoverInv'
  BY <1>1 DEF Accounts, TrackInv, Known, Residual, Exposed, Freezing, Held, CoverInv
<1>3. ControlledInv'
  BY <1>1 DEF Accounts, ControlledInv, Controlled, Held, Uid
<1>4. SwitchInv'
  BY <1>1 DEF Accounts, SwitchInv, ControlledUids, Controlled
<1>5. AuditOff' /\ NoneDetached'
  BY <1>1 DEF Accounts, AuditOff, NoneDetached
<1>6. AboutInv'
  BY <1>1, OnlyVisitsFreeze DEF Accounts, AboutInv, Freezes
<1> QED
  BY <1>2, <1>3, <1>4, <1>5, <1>6, KernelAccounts DEF Accounts

\* A disabled pass drops what an audit detached.  With an audit, control is
\* never switched off, so that there is no app under control and nothing held.
LEMMA DisabledEndAccounts == ASSUME Inv, Accounts, DetachedStay, DisabledEnd PROVE Accounts'
<1> USE DEF DisabledEnd
<1>1. /\ pc = "disabled" /\ pc' = "idle" /\ queue' = {} /\ tx = NoTx /\ tx' = NoTx
      /\ UNCHANGED <<cgroup, binder, sigstop, policy, allowed, audit_due, frozen_apps>>
  BY DEF kernel, world, view
<1>2. Accounted
  BY <1>1, AccountedIs DEF NoTx, Freezes, Stops
<1>3. \A p \in Held : frozen_ownership'[PackageOf[p]] = frozen_ownership[PackageOf[p]]
  <2>1. CASE On("audit")
    <3>1. ControlledUids = {}
      BY <1>1, <2>1 DEF DetachedStay, Accounts, SwitchInv
    <3> QED
      BY <3>1, HeldFacts DEF ControlledUids
  <2>2. CASE ~ On("audit")
    <3>1. \A p \in Held : PackageOf[p] \in frozen_apps
      BY <1>2, <2>2, HeldFacts DEF Accounted, Known, Accounts, NoneDetached
    <3> QED
      BY <3>1, HeldFacts
  <2> QED
    BY <2>1, <2>2
<1>4. TrackInv'
  <2>1. Accounted'
    BY <1>1, <1>2, <1>3, StillAccounted DEF Known, Residual
  <2> QED
    BY <2>1, AccountedTracks
<1>5. ControlledInv'
  BY <1>1 DEF Accounts, ControlledInv, Controlled, Held, Uid
<1>6. SwitchInv'
  BY <1>1 DEF Accounts, SwitchInv
<1>7. AuditOff' /\ NoneDetached'
  BY <1>1 DEF Accounts, AuditOff, NoneDetached
<1> QED
  BY <1>1, <1>4, <1>5, <1>6, <1>7, RestingAccounts, KernelAccounts DEF Accounts

-----------------------------------------------------------------------------
(* Transactions begin *)

\* What is forgotten is not held, what is kept stays known.
LEMMA ForgetsOnly ==
  ASSUME Inv, Accounts, NEW ks, ClearFrozen(ks), \A p \in Held : PackageOf[p] \notin ks
  PROVE  /\ \A p \in Held : (Known(p) => Known(p)') /\ (Residual(p) => Residual(p)')
         /\ NoneDetached'
<1>1. \A p \in Held : frozen_ownership'[PackageOf[p]] = frozen_ownership[PackageOf[p]]
  BY HeldFacts DEF ClearFrozen
<1>2. NoneDetached'
  BY DEF Accounts, NoneDetached, ClearFrozen
<1> QED
  BY <1>1, <1>2 DEF Known, Residual

\* A thaw or a kill begins with everything that is held of its package.
LEMMA LaunchedAccounts ==
  ASSUME NEW kind \in Thaws \cup {"kill"}, NEW k \in Packages, NEW S \in SUBSET Procs,
         Launch(kind, k, S, FALSE), UNCHANGED <<cgroup, binder, sigstop>>,
         \A p \in S : PackageOf[p] = k,
         \A p \in Held : PackageOf[p] = k => p \in S
  PROVE  AboutInv' /\ CoverInv'
<1>1. kind \in TxKind \ {"none"} /\ kind \notin Freezes
  BY DEF Freezes, Stops, Thaws, TxKind
<1>2. /\ tx'.kind = kind /\ tx'.at = "apply" /\ tx'.pkg = k /\ tx'.todo = S /\ tx'.done = {}
  BY <1>1, LaunchFacts
<1>3. AboutInv'
  BY <1>1, <1>2 DEF AboutInv, Freezes
<1>4. CoverInv'
  BY <1>2 DEF CoverInv, Held
<1> QED
  BY <1>3, <1>4

LEMMA TriedAccounts ==
  ASSUME tx = NoTx, NEW kind \in Thaws, NEW k \in Packages, NEW S \in SUBSET Procs,
         TryThaw(kind, k, S), UNCHANGED <<cgroup, binder, sigstop>>,
         \A p \in Held : PackageOf[p] = k => p \in S
  PROVE  AboutInv' /\ CoverInv'
<1>1. CASE PackagesIn(S) = {k} /\ Launch(kind, k, S, FALSE)
  <2>1. \A p \in S : PackageOf[p] = k
    BY <1>1 DEF PackagesIn
  <2> QED
    BY <1>1, <2>1, LaunchedAccounts
<1>2. CASE tx' = NoTx
  BY <1>2, RestingAccounts
<1> QED
  BY <1>1, <1>2 DEF TryThaw

LEMMA QueuedThawAccounts ==
  ASSUME Inv, Accounts, NEW k \in Packages, QueuedThaw(k)
  PROVE  Accounts'
<1> USE DEF QueuedThaw
<1>1. /\ UNCHANGED <<kernel, world, pc, left, view, audit_due, cgroup, binder, sigstop>>
      /\ tx = NoTx /\ pc \in {"idle", "records", "disabled"} /\ k \in queue /\ queue' \subseteq queue
  BY TypeParts DEF Inv, LoopTypes, view, kernel
<1>2. Accounted
  BY <1>1, AccountedIs DEF NoTx, Freezes, Stops
<1>3. Live(UidOf[k]) \in SUBSET Procs /\ Here(UidOf[k]) \in SUBSET Procs
  BY TypeParts DEF Inv, ViewTypes, Live, Discovered, Alive, Here
<1>4. PICK S \in SUBSET Procs :
        /\ S = IF pc = "disabled" THEN Live(UidOf[k]) ELSE Here(UidOf[k])
        /\ \/ S = {} /\ ClearFrozen({k}) /\ UNCHANGED tx
           \/ S # {} /\ TryThaw("thaw", k, S) /\ UNCHANGED tracking
  BY <1>3
<1>5. \A p \in Held : PackageOf[p] = k => p \in S
  BY <1>1, <1>4, HeldFacts DEF Live, Discovered, Accounts, ControlledInv
<1>6. AuditOff'
  BY <1>1 DEF Accounts, AuditOff
<1>7. TrackInv' /\ NoneDetached' /\ AboutInv' /\ CoverInv'
  <2>1. CASE S = {} /\ ClearFrozen({k}) /\ UNCHANGED tx
    <3>1. /\ \A p \in Held : (Known(p) => Known(p)') /\ (Residual(p) => Residual(p)')
          /\ NoneDetached'
      BY <1>5, <2>1, ForgetsOnly
    <3>2. Accounted'
      BY <1>1, <1>2, <3>1, StillAccounted
    <3> QED
      BY <1>1, <2>1, <3>1, <3>2, AccountedTracks, RestingAccounts
  <2>2. CASE S # {} /\ TryThaw("thaw", k, S) /\ UNCHANGED tracking
    <3>1. AboutInv' /\ CoverInv'
      BY <1>1, <1>5, <2>2, TriedAccounts DEF Thaws
    <3>2. UNCHANGED <<frozen_apps, frozen_ownership>>
      BY <2>2 DEF tracking
    <3>3. Accounted'
      BY <1>1, <1>2, <3>2 DEF Accounted, Known, Residual, Held
    <3>4. NoneDetached'
      BY <3>2 DEF Accounts, NoneDetached
    <3> QED
      BY <3>1, <3>3, <3>4, AccountedTracks
  <2> QED
    BY <1>4, <2>1, <2>2
<1> QED
  BY <1>1, <1>6, <1>7, LoopAccounts DEF Accounts, ControlledInv

LEMMA QueuedThawFailsAccounts ==
  ASSUME Inv, Accounts, NEW k \in Packages, QueuedThawFails(k)
  PROVE  Accounts'
<1> USE DEF QueuedThawFails
<1>1. /\ UNCHANGED <<kernel, world, pc, left, audit_due, cgroup, binder, sigstop>>
      /\ UNCHANGED <<frozen_apps, frozen_ownership>>
      /\ tx = NoTx /\ tx' = NoTx /\ queue' \subseteq queue
  BY DEF view, kernel, memory, tracking
<1>2. TrackInv' /\ NoneDetached' /\ AuditOff'
  BY <1>1 DEF Accounts, TrackInv, Known, Residual, Exposed, Freezing, Held, NoneDetached, AuditOff
<1> QED
  BY <1>1, <1>2, RestingAccounts, LoopAccounts DEF Accounts, ControlledInv

-----------------------------------------------------------------------------
(* The visits *)

LEMMA VisitedFacts ==
  ASSUME Inv, Accounts, NEW u, Visit(u)
  PROVE  /\ UNCHANGED <<kernel, world, pc, cgroup, binder, sigstop, audit_due>>
         /\ left' \subseteq left /\ pc = "records" /\ tx = NoTx /\ queue = {} /\ Accounted
         /\ Controlled(u) /\ AuditOff'
         /\ \A p \in Held : Uid(p) = u => p \in Here(u)
<1> USE DEF Visit
<1>1. UNCHANGED <<cgroup, binder, sigstop, audit_due>> /\ pc = "records" /\ tx = NoTx
  BY DEF kernel, view
<1>2. Accounted
  BY <1>1, AccountedIs DEF NoTx, Freezes, Stops
<1>3. Controlled(u) /\ AuditOff'
  BY <1>1 DEF Accounts, ControlledInv, AuditOff
<1> QED
  BY <1>1, <1>2, <1>3, HeldFacts

\* What a visit must keep: it changes the memory and launches transactions.
LEMMA VisitAccounts ==
  ASSUME Inv, Accounts, NEW u, Visit(u), \A k \in queue' : UidOf[k] = u,
         \A p \in Held : /\ Known(p) => Known(p)'
                         /\ Residual(p) => Residual(p)',
         NoneDetached', AboutInv', CoverInv'
  PROVE  Accounts'
<1>1. TrackInv'
  BY VisitedFacts, StillAccounted, AccountedTracks
<1> QED
  BY <1>1, VisitedFacts, LoopAccounts

LEMMA NoProcessesAccounts == ASSUME Inv, Accounts, NEW u, NoProcesses(u) PROVE Accounts'
<1> USE DEF NoProcesses
<1>1. \A p \in Held : PackageOf[p] \notin PackagesOf(u)
  BY VisitedFacts, HeldFacts DEF PackagesOf
<1>2. /\ \A p \in Held : (Known(p) => Known(p)') /\ (Residual(p) => Residual(p)')
      /\ NoneDetached'
  BY <1>1, ForgetsOnly
<1>3. queue' = {} /\ tx' = NoTx
  BY VisitedFacts
<1> QED
  BY <1>2, <1>3, RestingAccounts, VisitAccounts

\* A record that has become protected drops what an audit detached: of a uid
\* that is protected as a whole nothing was ever held.
LEMMA ProtectedRecordAccounts ==
  ASSUME Inv, Accounts, DetachedStay, NEW u, ProtectedRecord(u)
  PROVE  Accounts'
<1> USE DEF ProtectedRecord
<1>1. \A k \in Packages : frozen_ownership'[k] =
        IF k \in PackagesOf(u) \ frozen_apps THEN "None" ELSE frozen_ownership[k]
  OBVIOUS
<1>2. \A p \in Held : PackageOf[p] \notin PackagesOf(u) \ frozen_apps
  <2>1. CASE On("audit")
    <3>1. IsProtected(Id(u)) /\ Id(u) \in Packages /\ UidOf[Id(u)] = u
      BY VisitedFacts, IdFacts DEF ControlAllowed, Inv
    <3>2. \A k \in PackagesOf(u) : k \in Protected
      BY <2>1, <3>1 DEF IsProtected, DetachedStay, ProtectedUids, PackagesOf
    <3> QED
      BY <3>2 DEF Accounts, HoldableInv
  <2>2. CASE ~ On("audit")
    BY <2>2, VisitedFacts, HeldFacts DEF Accounted, Known, Accounts, NoneDetached
  <2> QED
    BY <2>1, <2>2
<1>3. \A p \in Held : frozen_ownership'[PackageOf[p]] = frozen_ownership[PackageOf[p]]
  BY <1>1, <1>2, HeldFacts
<1>4. NoneDetached'
  BY <1>1 DEF Accounts, NoneDetached
<1>5. \A k \in queue' : UidOf[k] = u
  BY DEF PackagesOf
<1>6. tx' = NoTx
  BY VisitedFacts
<1> QED
  BY <1>3, <1>4, <1>5, <1>6, RestingAccounts, VisitAccounts DEF Known, Residual

\* A visit that leaves the tracking alone.
LEMMA TrackingLeft ==
  ASSUME Inv, Accounts, UNCHANGED tracking
  PROVE  /\ \A p \in Held : (Known(p) => Known(p)') /\ (Residual(p) => Residual(p)')
         /\ NoneDetached'
BY DEF tracking, Known, Residual, Accounts, NoneDetached

LEMMA QuietVisitAccounts ==
  ASSUME Inv, Accounts, NEW u, Manageable(u), UNCHANGED <<tracking, tx>>
  PROVE  Accounts'
<1>1. Visit(u) /\ queue' = {} /\ tx' = NoTx
  BY VisitedFacts DEF Manageable
<1> QED
  BY <1>1, TrackingLeft, RestingAccounts, VisitAccounts

LEMMA ThawVisitAccounts ==
  ASSUME Inv, Accounts, NEW u, Fresh(u), UNCHANGED tracking, NEW kind \in Thaws,
         TryThaw(kind, Id(u), Here(u))
  PROVE  Accounts'
<1>1. Visit(u) /\ queue' = {} /\ FreshFacts(u)
  BY VisitedFacts, FreshIsSo DEF Fresh, Manageable
<1>2. \A p \in Held : PackageOf[p] = Id(u) => p \in Here(u)
  BY <1>1, VisitedFacts, HeldFacts DEF FreshFacts
<1>3. AboutInv' /\ CoverInv'
  BY <1>1, <1>2, VisitedFacts, TriedAccounts DEF FreshFacts
<1> QED
  BY <1>1, <1>3, TrackingLeft, VisitAccounts

\* An identity that goes on after an audit stays known.
LEMMA DetachedAccounts ==
  ASSUME Inv, Accounts, NEW u, Ready(u), DetachIfAbnormal(u)
  PROVE  /\ \A p \in Held : (Known(p) => Known(p)') /\ (Residual(p) => Residual(p)')
         /\ NoneDetached' /\ Id(u) \notin frozen_apps'
<1>1. Id(u) \in Packages /\ TrackingTypes
  BY ReadyIsSo, TypeParts DEF FreshFacts, Inv
<1>2. \A k \in Packages :
        frozen_ownership'[k] = IF k = Id(u) THEN Owner(u) ELSE frozen_ownership[k]
  BY <1>1 DEF DetachIfAbnormal, TrackingTypes
<1>3. /\ Abnormal(u) => Owner(u) \in {"SignalOnly", "ResidualUnknown"}
      /\ frozen_ownership[Id(u)] \in {"CgroupBinder", "ResidualUnknown"} =>
           Owner(u) \in {"CgroupBinder", "ResidualUnknown"}
      /\ ~ Abnormal(u) => Owner(u) = frozen_ownership[Id(u)]
  BY DEF Owner, Detached, OwnershipOf
<1>4. \A p \in Held : (Known(p) => Known(p)') /\ (Residual(p) => Residual(p)')
  BY <1>2, <1>3, HeldFacts DEF Known, Residual
<1>5. NoneDetached'
  <2> SUFFICES ASSUME ~ On("audit"), NEW k \in Packages, frozen_ownership'[k] # "None"
               PROVE  k \in frozen_apps'
    BY DEF NoneDetached
  <2>1. ~ Abnormal(u) /\ Id(u) \notin frozen_apps
    BY DEF Accounts, AuditOff, Abnormal, Ready
  <2> QED
    BY <1>2, <1>3, <2>1 DEF DetachIfAbnormal, Accounts, NoneDetached
<1> QED
  BY <1>4, <1>5 DEF DetachIfAbnormal

\* A decision that starts nothing.
LEMMA DetachVisitAccounts ==
  ASSUME Inv, Accounts, NEW u, Ready(u), DetachIfAbnormal(u), UNCHANGED tx
  PROVE  Accounts'
<1>1. Visit(u) /\ queue' = {} /\ tx' = NoTx
  BY VisitedFacts DEF Ready, Background, Fresh, Manageable
<1> QED
  BY <1>1, DetachedAccounts, RestingAccounts, VisitAccounts

\* What fits is of the package the uid is called by.
LEMMA FittingFacts ==
  ASSUME Inv, NEW u, Here(u) # {}, Fits(Here(u))
  PROVE  \A p \in Here(u) : PackageOf[p] = Id(u)
<1>1. PackagesIn(Here(u)) # {} /\ PackagesIn(Here(u)) \subseteq Packages
  BY PackageFacts, TypeParts DEF PackagesIn, Here, Inv, ViewTypes
<1>2. PackagesIn(Here(u)) \in SUBSET Nat
  BY <1>1, ControlAssumption
<1>3. Id(u) \in PackagesIn(Here(u))
  BY <1>1, <1>2, MinFact DEF Id
<1>4. OnePackage(u)
  BY FitsFacts DEF Inv
<1> QED
  BY <1>3, <1>4 DEF PackagesIn, OnePackage

\* A transaction that freezes begins.
LEMMA FreezeAccounts ==
  ASSUME NEW kind \in Freezes, NEW k \in Packages, NEW b \in BOOLEAN,
         Here(UidOf[k]) \in SUBSET Procs, snapshot' = snapshot,
         Launch(kind, k, Here(UidOf[k]), b),
         \A p \in Here(UidOf[k]) : PackageOf[p] = k,
         k \notin Protected,
         kind = "freezer" => Here(UidOf[k]) \subseteq CgroupProcs /\ k \notin frozen_apps'
  PROVE  AboutInv' /\ CoverInv'
<1>1. kind \in TxKind \ {"none"} /\ kind \notin Thaws \cup {"kill"}
  BY DEF Freezes, Stops, Thaws, TxKind
<1>2. /\ tx'.kind = kind /\ tx'.at = "apply" /\ tx'.pkg = k
      /\ tx'.todo = Here(UidOf[k]) /\ tx'.done = {}
  BY DEF Launch
<1>3. AboutInv'
  BY <1>2 DEF AboutInv, Here
<1> QED
  BY <1>1, <1>2, <1>3 DEF CoverInv

\* The freezer is decided for processes with a cgroup file only.
LEMMA FreezerDecided ==
  ASSUME NEW u, "freezer" \in Decisions(u)
  PROVE  Here(u) \subseteq CgroupProcs
BY DEF Decisions, CanFreeze, CgroupAvailable, FallbackDecision, FallbackStrategy

LEMMA FreezeBeginsAccounts ==
  ASSUME Inv, Accounts, NEW u, FreezeBegins(u)
  PROVE  Accounts'
<1> USE DEF FreezeBegins
<1>1. Visit(u) /\ queue' = {} /\ FreshFacts(u) /\ ~ IsProtected(Id(u))
  BY VisitedFacts, ReadyIsSo DEF Ready, Background, Fresh, Manageable, ControlAllowed
<1>2. /\ Id(u) \in Packages /\ UidOf[Id(u)] = u /\ Id(u) \notin Protected
      /\ Here(UidOf[Id(u)]) \in SUBSET Procs /\ snapshot' = snapshot
      /\ UNCHANGED <<cgroup, binder, sigstop>>
      /\ \A p \in Here(UidOf[Id(u)]) : PackageOf[p] = Id(u)
  BY <1>1, FittingFacts, VisitedFacts DEF FreshFacts, VisitFacts, IsProtected
<1>3. \A p \in Held : PackageOf[p] = Id(u) => p \in Here(u)
  BY <1>1, <1>2, VisitedFacts, HeldFacts
<1>4. Id(u) \notin frozen_apps'
  BY DetachedAccounts
<1>5. ASSUME NEW kind \in Stops, NEW b \in BOOLEAN, Launch(kind, Id(u), Here(u), b)
      PROVE  AboutInv' /\ CoverInv'
  BY <1>2, <1>5, FreezeAccounts DEF Freezes, Stops
<1>6. ASSUME "freezer" \in Decisions(u), Launch("freezer", Id(u), Here(u), FALSE)
      PROVE  AboutInv' /\ CoverInv'
  BY <1>2, <1>4, <1>6, FreezerDecided, FreezeAccounts DEF Freezes
<1>7. ASSUME Launch("kill", Id(u), Here(u), FALSE)
      PROVE  AboutInv' /\ CoverInv'
  BY <1>2, <1>3, <1>7, LaunchedAccounts
<1>8. AboutInv' /\ CoverInv'
  <2>1. MayPromote(u) \in BOOLEAN
    BY DEF MayPromote
  <2> QED
    BY <1>5, <1>6, <1>7, <2>1 DEF Stops
<1> QED
  BY <1>1, <1>8, DetachedAccounts, VisitAccounts

LEMMA RecordAccounts ==
  ASSUME Inv, Accounts, DetachedStay, NEW u, Record(u)
  PROVE  Accounts'
<1>1. CASE NoProcesses(u) \/ ProtectedRecord(u) \/ FreezeBegins(u)
  BY <1>1, NoProcessesAccounts, ProtectedRecordAccounts, FreezeBeginsAccounts
<1>2. CASE BlockedRecord(u) \/ StaysFrozen(u) \/ Delay(u)
  <2>1. Manageable(u) /\ UNCHANGED <<tracking, tx>>
    BY <1>2 DEF BlockedRecord, StaysFrozen, Delay, Background, Fresh, memory
  <2> QED
    BY <2>1, QuietVisitAccounts
<1>3. CASE Foreground(u) \/ WakeupThaw(u)
  <2>1. Fresh(u) /\ UNCHANGED tracking
    BY <1>3 DEF Foreground, WakeupThaw, Background
  <2>2. \/ TryThaw("thaw", Id(u), Here(u)) \/ TryThaw("wakeup", Id(u), Here(u)) \/ UNCHANGED tx
    BY <1>3 DEF Foreground, WakeupThaw
  <2> QED
    BY <2>1, <2>2, ThawVisitAccounts, QuietVisitAccounts DEF Fresh, Thaws
<1>4. CASE Postpone(u) \/ FreezeRefused(u) \/ KillRefused(u)
  <2>1. Ready(u) /\ DetachIfAbnormal(u) /\ UNCHANGED tx
    BY <1>4 DEF Postpone, FreezeRefused, KillRefused
  <2> QED
    BY <2>1, DetachVisitAccounts
<1> QED
  BY <1>1, <1>2, <1>3, <1>4 DEF Record

-----------------------------------------------------------------------------
(* The transaction in progress *)

\* A step of a transaction changes neither the world nor the view.
LEMMA TransactionAccounts ==
  ASSUME Inv, Accounts, TxUnchanged, Held' \subseteq Held \cup {p \in Procs : Controlled(Uid(p))},
         TrackInv', NoneDetached', AboutInv', HoldableInv', CoverInv', LedgerInv'
  PROVE  Accounts'
<1>1. UNCHANGED <<policy, allowed, pc, left, queue, audit_due>>
  BY DEF TxUnchanged, world, view
<1>2. ControlledInv'
  BY <1>1 DEF Accounts, ControlledInv, Controlled, Uid
<1>3. SwitchInv' /\ AuditOff'
  BY <1>1 DEF Accounts, SwitchInv, AuditOff, ControlledUids, Controlled
<1> QED
  BY <1>2, <1>3 DEF Accounts

\* The memory is what it was until the end of the transaction.
LEMMA StepLeaves ==
  ASSUME Accounts, UNCHANGED memory, TxUnchanged
  PROVE  /\ UNCHANGED <<frozen_apps, frozen_ownership, snapshot, pc>>
         /\ NoneDetached'
BY DEF memory, tracking, TxUnchanged, view, Accounts, NoneDetached

LEMMA StepFacts ==
  ASSUME Inv, NEW p \in tx.todo, NEW bad \in BOOLEAN, tx' = [Step(p) EXCEPT !.bad = bad]
  PROVE  /\ tx'.kind = tx.kind /\ tx'.at = tx.at /\ tx'.pkg = tx.pkg /\ tx'.promote = tx.promote
         /\ tx'.todo = tx.todo \ {p} /\ tx'.done = tx.done \cup {p} /\ tx'.bad = bad
<1>1. tx \in Txs
  BY TypeParts DEF Inv
<1> QED
  BY <1>1 DEF Step, Txs

LEMMA StepAbout ==
  ASSUME Inv, Accounts, UNCHANGED memory, TxUnchanged, NEW p \in tx.todo, NEW bad \in BOOLEAN,
         tx' = [Step(p) EXCEPT !.bad = bad]
  PROVE  AboutInv'
<1>1. /\ tx'.kind = tx.kind /\ tx'.pkg = tx.pkg
      /\ tx'.todo = tx.todo \ {p} /\ tx'.done = tx.done \cup {p}
  BY StepFacts
<1> QED
  BY <1>1, StepLeaves DEF Accounts, AboutInv, Here

\* What a freeze is about may be held, and is under control.
LEMMA FreezableFacts ==
  ASSUME Inv, Accounts, tx.kind \in Freezes, NEW p \in tx.todo
  PROVE  /\ PackageOf[p] = tx.pkg /\ PackageOf[p] \notin Protected
         /\ p \in Procs /\ Controlled(Uid(p)) /\ p \notin tx.done
         /\ tx.kind = "freezer" => p \in CgroupProcs
<1>1. p \in Here(UidOf[tx.pkg]) /\ p \in snapshot /\ pc = "records"
  BY DEF Inv, TxInv, Here
<1>2. Controlled(Uid(p)) /\ p \in Procs
  BY <1>1, KernelPieces DEF Inv, ViewInv
<1> QED
  BY <1>1, <1>2 DEF Accounts, AboutInv

\* Without an audit the freezer begins with a package of which nothing is known,
\* hence nothing held: no stop of it has a SignalOnly record.
LEMMA FreezerMeetsNoStop ==
  ASSUME Inv, Accounts, tx.kind = "freezer", tx.at = "apply", NEW p \in tx.todo, ~ On("audit")
  PROVE  p \notin Held
<1>1. tx.kind \in Freezes
  BY DEF Freezes
<1>2. PackageOf[p] = tx.pkg /\ p \notin tx.done /\ tx.pkg \in Packages
  BY <1>1, FreezableFacts, TxPackage
<1>3. ~ Known(p)
  BY <1>2 DEF Accounts, AboutInv, NoneDetached, Known
<1>4. ~ Exposed(p)
  BY <1>2 DEF Exposed
<1> QED
  BY <1>3, <1>4 DEF Accounts, TrackInv

\* Steps that hold one process more at most, that the transaction is about.
LEMMA FreezeStep ==
  ASSUME Inv, Accounts, tx.kind \in Freezes, NEW p \in tx.todo,
         Held' \subseteq Held \cup {p},
         cgroup' \cup binder' \subseteq cgroup \cup binder \cup {p},
         cgroup' \cup binder' \subseteq cgroup \cup binder \/ tx.kind = "freezer"
  PROVE  /\ HoldableInv'
         /\ Held' \subseteq Held \cup {q \in Procs : Controlled(Uid(q))}
<1>1. HoldableInv'
  BY FreezableFacts DEF Accounts, HoldableInv
<1> QED
  BY <1>1, FreezableFacts

LEMMA FreezeOneAccounts ==
  ASSUME Inv, Accounts, NEW p \in Procs, FreezeOne(p)
  PROVE  Accounts'
<1> USE DEF FreezeOne
<1>1. tx.kind \in Freezes /\ tx.at = "apply" /\ p \in tx.todo
  BY DEF Applying
<1>2. /\ tx'.kind = tx.kind /\ tx'.at = tx.at /\ tx'.pkg = tx.pkg
      /\ tx'.todo = tx.todo \ {p} /\ tx'.done = tx.done \cup {p}
  BY <1>1, StepIs, StepFacts
<1>3. UNCHANGED <<frozen_apps, frozen_ownership>> /\ NoneDetached' /\ AboutInv'
  BY <1>1, StepIs, StepLeaves, StepAbout
<1>4. /\ PackageOf[p] = tx.pkg
      /\ HoldableInv' /\ Held' \subseteq Held \cup {q \in Procs : Controlled(Uid(q))}
  <2>1. /\ Held' \subseteq Held \cup {p}
        /\ cgroup' \cup binder' \subseteq cgroup \cup binder \cup {p}
        /\ cgroup' \cup binder' \subseteq cgroup \cup binder \/ tx.kind = "freezer"
    BY DEF Held
  <2> QED
    BY <1>1, <2>1, FreezeStep, FreezableFacts
<1>5. TrackInv'
  <2>1. ASSUME NEW q \in Held' PROVE Known(q)' \/ Exposed(q)'
    <3>1. q \in Held \/ q = p
      BY <2>1 DEF Held
    <3> QED
      BY <1>1, <1>2, <1>3, <1>4, <3>1 DEF Accounts, TrackInv, Known, Exposed
  <2>2. ASSUME NEW q \in cgroup' \cup binder' PROVE Residual(q)' \/ Freezing(q)'
    <3>1. q \in cgroup \cup binder \/ (q = p /\ tx.kind = "freezer")
      BY <2>2
    <3> QED
      BY <1>2, <1>3, <1>4, <3>1 DEF Accounts, TrackInv, Residual, Freezing
  <2> QED
    BY <2>1, <2>2 DEF TrackInv
<1>6. CoverInv'
  BY <1>1, <1>2 DEF CoverInv, Freezes, Stops, Thaws
<1>7. LedgerInv'
  <2>1. CASE tx.kind = "freezer" /\ cgroup' = cgroup \cup {p} /\ binder' = binder \cup {p}
             /\ UNCHANGED <<sigstop, ledger>>
    <3>1. ~ On("audit") => p \notin sigstop
      BY <1>1, <2>1, FreezerMeetsNoStop DEF Held
    <3> QED
      BY <2>1, <3>1 DEF Accounts, LedgerInv
  <2>2. CASE sigstop' = sigstop \cup {p} /\ ledger' = [ledger EXCEPT ![p] = "ResidualUnknown"]
             /\ UNCHANGED <<cgroup, binder>>
    BY <2>2, KernelPieces DEF Accounts, LedgerInv
  <2> QED
    BY <2>1, <2>2
<1> QED
  BY <1>3, <1>4, <1>5, <1>6, <1>7, TransactionAccounts

\* What was done is to be undone and stays exposed until it is.
LEMMA FreezeOneFailsAccounts ==
  ASSUME Inv, Accounts, NEW p \in Procs, FreezeOneFails(p)
  PROVE  Accounts'
<1> USE DEF FreezeOneFails
<1>1. tx.kind \in Freezes /\ tx.at = "apply" /\ p \in tx.todo
  BY DEF Applying
<1>2. /\ tx'.kind = tx.kind /\ tx'.at = "undo" /\ tx'.pkg = tx.pkg
      /\ tx'.todo = tx.done /\ tx'.done = {}
  <2>1. tx \in Txs
    BY TypeParts DEF Inv
  <2> QED
    BY <2>1 DEF Txs
<1>3. UNCHANGED <<frozen_apps, frozen_ownership, snapshot>> /\ NoneDetached'
  BY StepLeaves
<1>4. AboutInv'
  BY <1>2, <1>3 DEF Accounts, AboutInv, Here
<1>5. /\ sigstop' \subseteq sigstop /\ cgroup' = cgroup
      /\ binder' = binder \/ (tx.kind = "freezer" /\ binder' = binder \cup {p})
      /\ ledger' = ledger \/ ledger' = [ledger EXCEPT ![p] = "ResidualUnknown"]
  OBVIOUS
<1>6. PackageOf[p] = tx.pkg
      /\ HoldableInv' /\ Held' \subseteq Held \cup {q \in Procs : Controlled(Uid(q))}
  <2>1. /\ Held' \subseteq Held \cup {p}
        /\ cgroup' \cup binder' \subseteq cgroup \cup binder \cup {p}
        /\ cgroup' \cup binder' \subseteq cgroup \cup binder \/ tx.kind = "freezer"
    BY <1>5 DEF Held
  <2> QED
    BY <1>1, <2>1, FreezeStep, FreezableFacts
<1>7. TrackInv'
  <2>1. ASSUME NEW q \in Held' PROVE Known(q)' \/ Exposed(q)'
    <3>1. q \in Held \/ (q = p /\ tx.kind = "freezer")
      BY <1>5, <2>1 DEF Held
    <3> QED
      BY <1>1, <1>2, <1>3, <1>6, <3>1 DEF Accounts, TrackInv, Known, Exposed
  <2>2. ASSUME NEW q \in cgroup' \cup binder' PROVE Residual(q)' \/ Freezing(q)'
    <3>1. q \in cgroup \cup binder \/ (q = p /\ tx.kind = "freezer")
      BY <1>5, <2>2
    <3> QED
      BY <1>2, <1>3, <1>6, <3>1 DEF Accounts, TrackInv, Residual, Freezing
  <2> QED
    BY <2>1, <2>2 DEF TrackInv
<1>8. CoverInv'
  BY <1>2 DEF CoverInv
<1>9. LedgerInv'
  <2>1. ~ On("audit") /\ tx.kind = "freezer" => p \notin sigstop
    BY <1>1, FreezerMeetsNoStop DEF Held
  <2>2. \A q \in sigstop' : /\ ledger'[q] = "SignalOnly" => ledger[q] = "SignalOnly"
                            /\ ledger[q] # "None" => ledger'[q] # "None"
    BY <1>5, KernelPieces
  <2> QED
    BY <1>5, <2>1, <2>2 DEF Accounts, LedgerInv
<1> QED
  BY <1>3, <1>4, <1>6, <1>7, <1>8, <1>9, TransactionAccounts

\* Steps that only let go of processes.
LEMMA LetsGo ==
  ASSUME Accounts, cgroup' \subseteq cgroup, binder' \subseteq binder, sigstop' \subseteq sigstop
  PROVE  /\ HoldableInv' /\ Held' \subseteq Held
         /\ \A p \in cgroup' \cup binder' : p \in cgroup \cup binder
BY DEF Accounts, HoldableInv, Held

LEMMA LedgerLetsGo ==
  ASSUME Inv, Accounts, cgroup' \subseteq cgroup, binder' \subseteq binder, sigstop' \subseteq sigstop,
         \A p \in sigstop' : /\ ledger'[p] = "SignalOnly" => ledger[p] = "SignalOnly"
                             /\ ~ On("failures") /\ ledger[p] # "None" => ledger'[p] # "None"
  PROVE  LedgerInv'
BY DEF Accounts, LedgerInv

LEMMA KillOneAccounts ==
  ASSUME Inv, Accounts, NEW p \in Procs, KillOne(p)
  PROVE  Accounts'
<1> USE DEF KillOne
<1>1. tx.kind = "kill" /\ tx.at = "apply" /\ p \in tx.todo
  BY DEF Applying
<1>2. /\ tx'.kind = tx.kind /\ tx'.at = tx.at /\ tx'.pkg = tx.pkg /\ tx'.bad = tx.bad
      /\ tx'.todo = tx.todo \ {p}
  BY <1>1, StepIs, StepFacts
<1>3. UNCHANGED <<frozen_apps, frozen_ownership>> /\ NoneDetached' /\ AboutInv'
  BY <1>1, StepIs, StepLeaves, StepAbout
<1>4. /\ HoldableInv' /\ Held' \subseteq Held /\ p \notin Held'
      /\ \A q \in cgroup' \cup binder' : q \in cgroup \cup binder
  BY LetsGo DEF Held
<1>5. TrackInv'
  BY <1>1, <1>2, <1>3, <1>4 DEF Accounts, TrackInv, Known, Exposed, Residual, Freezing, Freezes, Stops
<1>6. CoverInv'
  BY <1>1, <1>2, <1>4 DEF Accounts, CoverInv
<1>7. LedgerInv'
  BY LedgerLetsGo
<1> QED
  BY <1>3, <1>4, <1>5, <1>6, <1>7, TransactionAccounts

LEMMA KillOneFailsAccounts ==
  ASSUME Inv, Accounts, NEW p \in Procs, KillOneFails(p)
  PROVE  Accounts'
<1> USE DEF KillOneFails
<1>1. tx.kind \notin Freezes
  BY DEF Applying, Freezes, Stops
<1>2. UNCHANGED <<frozen_apps, frozen_ownership, cgroup, binder, sigstop>> /\ NoneDetached'
  BY StepLeaves DEF kernel
<1>3. TrackInv'
  <2>1. Accounted'
    BY <1>1, <1>2, AccountedIs DEF Accounted, Known, Residual, Held
  <2> QED
    BY <2>1, AccountedTracks
<1>4. Held' \subseteq Held
  BY <1>2 DEF Held
<1> QED
  BY <1>2, <1>3, <1>4, RestingAccounts, KernelAccounts, TransactionAccounts

\* One process of a thaw or of a roll back: it is held no longer, or the
\* transaction is bad, or its package is known all the same.
LEMMA ThawStep ==
  ASSUME Inv, Accounts, NEW p \in Procs, Thawing(p), UNCHANGED memory, TxUnchanged,
         cgroup' \subseteq cgroup, binder' \subseteq binder, sigstop' \subseteq sigstop,
         NEW bad \in BOOLEAN, tx' = [Step(p) EXCEPT !.bad = bad],
         tx.bad => bad,
         p \in Held' => bad \/ (tx.at = "undo" /\ Known(p)),
         LedgerInv'
  PROVE  Accounts'
<1>1. p \in tx.todo /\ (tx.at = "undo" \/ (tx.at = "apply" /\ tx.kind \in Thaws))
  BY DEF Thawing, Applying
<1>2. /\ tx'.kind = tx.kind /\ tx'.at = tx.at /\ tx'.pkg = tx.pkg /\ tx'.bad = bad
      /\ tx'.todo = tx.todo \ {p}
  BY <1>1, StepFacts
<1>3. UNCHANGED <<frozen_apps, frozen_ownership>> /\ NoneDetached' /\ AboutInv'
  BY <1>1, StepLeaves, StepAbout
<1>4. /\ HoldableInv' /\ Held' \subseteq Held
      /\ \A q \in cgroup' \cup binder' : q \in cgroup \cup binder
  BY LetsGo
<1>5. TrackInv'
  <2>1. ASSUME NEW q \in Held', ~ Known(q)' PROVE Exposed(q)'
    <3>1. Exposed(q) /\ tx.kind \in Freezes /\ ~ Known(q)
      BY <1>3, <1>4, <2>1 DEF Accounts, TrackInv, Known, Exposed
    <3>2. tx.at = "undo"
      BY <1>1, <3>1 DEF Freezes, Stops, Thaws
    <3>3. q = p => bad
      BY <2>1, <3>1
    <3> QED
      BY <1>2, <3>1, <3>2, <3>3 DEF Exposed
  <2>2. \A q \in cgroup' \cup binder' : Residual(q)' \/ Freezing(q)'
    BY <1>2, <1>3, <1>4 DEF Accounts, TrackInv, Residual, Freezing
  <2> QED
    BY <2>1, <2>2 DEF TrackInv
<1>6. CoverInv'
  <2> SUFFICES ASSUME tx.at = "apply", tx.kind \in Thaws \cup {"kill"},
                      NEW q \in Held', PackageOf[q] = tx.pkg
               PROVE  q \in tx.todo \ {p} \/ (bad /\ tx.kind \in Thaws)
    BY <1>2 DEF CoverInv
  <2> QED
    BY <1>1, <1>4 DEF Accounts, CoverInv
<1> QED
  BY <1>3, <1>4, <1>5, <1>6, TransactionAccounts

\* A plan of SIGCONT alone is for processes in which the freezer has no part.
LEMMA PlanIsComplete ==
  ASSUME Inv, Accounts, NEW p \in tx.todo, tx.at = "apply" /\ tx.kind \in Thaws, SignalPlan
  PROVE  p \notin cgroup \cup binder
<1>1. frozen_ownership[tx.pkg] = "SignalOnly" /\ tx.kind # "freezer"
  BY DEF SignalPlan, OwnershipOf, Thaws, Stops
<1>2. PackageOf[p] = tx.pkg
  BY DEF Accounts, AboutInv
<1> QED
  BY <1>1, <1>2 DEF Accounts, TrackInv, Residual, Freezing

LEMMA ThawOneAccounts ==
  ASSUME Inv, Accounts, NEW p \in Procs, ThawOne(p)
  PROVE  Accounts'
<1> USE DEF ThawOne
<1>1. PICK bad \in BOOLEAN : tx' = [Step(p) EXCEPT !.bad = bad] /\ (tx.bad => bad)
  <2>1. tx' = [Step(p) EXCEPT
                 !.bad = Step(p).bad \/ ~(SignalPlan \/ p \notin CgroupProcs \/ BinderAvailable)]
    OBVIOUS
  <2>2. Step(p).bad = tx.bad
    BY TypeParts DEF Inv, Txs, Step
  <2>3. (Step(p).bad \/ ~(SignalPlan \/ p \notin CgroupProcs \/ BinderAvailable)) \in BOOLEAN
    OBVIOUS
  <2> QED
    BY <2>1, <2>2, <2>3
<1>2. cgroup' \subseteq cgroup /\ binder' \subseteq binder /\ sigstop' \subseteq sigstop
  OBVIOUS
<1>3. p \in Held' => tx.at = "undo" /\ Known(p)
  <2> SUFFICES ASSUME p \in Held' PROVE tx.at = "undo" /\ Known(p)
    OBVIOUS
  <2>1. SignalPlan /\ p \in cgroup \cup binder
    BY DEF Held
  <2>2. tx.at = "undo" /\ p \in tx.todo
    BY <2>1, PlanIsComplete DEF Thawing, Applying
  <2>3. tx.kind # "freezer"
    BY <2>1 DEF SignalPlan, Stops, Thaws
  <2> QED
    BY <2>1, <2>2, <2>3 DEF Accounts, TrackInv, Residual, Freezing, Known
<1>4. LedgerInv'
  BY <1>2, KernelPieces, LedgerLetsGo
<1> QED
  BY <1>1, <1>2, <1>3, <1>4, ThawStep

\* A thaw that fails makes the transaction bad.
LEMMA ThawOneFailsAccounts ==
  ASSUME Inv, Accounts, NEW p \in Procs, ThawOneFails(p)
  PROVE  Accounts'
<1> USE DEF ThawOneFails
<1>1. cgroup' \subseteq cgroup /\ binder' \subseteq binder /\ sigstop' \subseteq sigstop
  OBVIOUS
<1>2. /\ ledger' = ledger \/ ledger' = [ledger EXCEPT ![p] = "None"]
      /\ ~ On("failures") => ledger' = ledger
  BY DEF Validated
<1>3. LedgerInv'
  <2>1. \A q \in Procs : /\ ledger'[q] = "SignalOnly" => ledger[q] = "SignalOnly"
                         /\ ~ On("failures") /\ ledger[q] # "None" => ledger'[q] # "None"
    BY <1>2, KernelPieces
  <2>2. sigstop' \subseteq Procs
    BY <1>1, KernelPieces
  <2> QED
    BY <1>1, <2>1, <2>2, LedgerLetsGo
<1> QED
  BY <1>1, <1>3, ThawStep

-----------------------------------------------------------------------------
(* The end of a transaction *)

\* The other ends leave the kernel alone and the transaction is over, or goes
\* on with its fallback.
LEMMA EndAccounts ==
  ASSUME Inv, Accounts, TxUnchanged, UNCHANGED <<life, cgroup, binder, sigstop>>, LedgerInv',
         NoneDetached', Accounted', AboutInv', CoverInv'
  PROVE  Accounts'
<1>1. Held' \subseteq Held /\ HoldableInv'
  BY LetsGo
<1> QED
  BY <1>1, AccountedTracks, TransactionAccounts

\* A tracked identity is known.
LEMMA TrackFacts ==
  ASSUME Inv, Accounts, NEW k \in Packages, NEW ownership \in Ownership \ {"None"},
         TrackFrozen(k, ownership)
  PROVE  /\ frozen_ownership'[k] \in {ownership, "ResidualUnknown"}
         /\ \A j \in Packages : j # k => frozen_ownership'[j] = frozen_ownership[j]
         /\ NoneDetached'
<1>1. TrackingTypes
  BY TypeParts DEF Inv
<1>2. /\ frozen_ownership'[k] \in {ownership, "ResidualUnknown"}
      /\ \A j \in Packages : j # k => frozen_ownership'[j] = frozen_ownership[j]
  BY <1>1 DEF TrackFrozen, TrackingTypes
<1> QED
  BY <1>2 DEF TrackFrozen, Accounts, NoneDetached

\* The package of the transaction is tracked, with an ownership that is right
\* for what is held of it; of the others all was known before.
LEMMA TrackedAccounts ==
  ASSUME Inv, Accounts, tx.at # "none", UNCHANGED <<cgroup, binder, sigstop>>,
         NEW ownership \in Ownership \ {"None"}, TrackFrozen(tx.pkg, ownership),
         ownership = "SignalOnly" =>
           \A p \in cgroup \cup binder : PackageOf[p] # tx.pkg
  PROVE  Accounted' /\ NoneDetached'
<1>1. tx.pkg \in Packages
  BY TxPackage
<1>2. /\ frozen_ownership'[tx.pkg] \in {ownership, "ResidualUnknown"}
      /\ \A j \in Packages : j # tx.pkg => frozen_ownership'[j] = frozen_ownership[j]
      /\ NoneDetached'
  BY <1>1, TrackFacts
<1>3. ASSUME NEW p \in Held PROVE Known(p)'
  <2>1. PackageOf[p] \in Packages
    BY HeldFacts
  <2>2. CASE PackageOf[p] = tx.pkg
    BY <1>2, <2>2 DEF Known
  <2>3. CASE PackageOf[p] # tx.pkg
    BY <1>2, <2>1, <2>3 DEF Known, Accounts, TrackInv, Exposed
  <2> QED
    BY <2>2, <2>3
<1>4. ASSUME NEW p \in cgroup \cup binder PROVE Residual(p)'
  <2>1. PackageOf[p] \in Packages
    BY HeldFacts DEF Held
  <2>2. CASE PackageOf[p] = tx.pkg
    BY <1>2, <1>4, <2>2 DEF Residual, Ownership
  <2>3. CASE PackageOf[p] # tx.pkg
    BY <1>2, <2>1, <2>3 DEF Residual, Accounts, TrackInv, Freezing
  <2> QED
    BY <2>2, <2>3
<1> QED
  BY <1>2, <1>3, <1>4 DEF Accounted, Held

LEMMA FreezerDoneAccounts == ASSUME Inv, Accounts, FreezerDone PROVE Accounts'
<1>1. /\ tx.at # "none" /\ tx' = NoTx /\ TxUnchanged /\ UNCHANGED kernel
      /\ TrackFrozen(tx.pkg, "CgroupBinder")
      /\ UNCHANGED <<life, cgroup, binder, sigstop>>
  BY DEF FreezerDone, AllApplied, Applying, Frozen, kernel
<1>2. Accounted' /\ NoneDetached'
  BY <1>1, TrackedAccounts DEF Ownership
<1> QED
  BY <1>1, <1>2, RestingAccounts, KernelAccounts, EndAccounts

LEMMA FallbackDoneAccounts == ASSUME Inv, Accounts, FallbackDone PROVE Accounts'
<1>1. /\ tx.at # "none" /\ tx' = NoTx /\ TxUnchanged /\ UNCHANGED kernel
      /\ TrackFrozen(tx.pkg, "ResidualUnknown")
      /\ UNCHANGED <<life, cgroup, binder, sigstop>>
  BY DEF FallbackDone, AllApplied, Applying, Frozen, kernel
<1>2. Accounted' /\ NoneDetached'
  BY <1>1, TrackedAccounts DEF Ownership
<1> QED
  BY <1>1, <1>2, RestingAccounts, KernelAccounts, EndAccounts

\* A transaction that promotes is about processes in which the freezer has no part.
LEMMA PromotedAreComplete ==
  ASSUME Inv, Accounts, tx.kind = "signal", tx.promote
  PROVE  \A p \in cgroup \cup binder : PackageOf[p] # tx.pkg
BY DEF Inv, TxInv, Accounts, TrackInv, Residual, Freezing

LEMMA SignalDoneAccounts == ASSUME Inv, Accounts, SignalDone PROVE Accounts'
<1>1. /\ tx.at # "none" /\ tx.kind = "signal" /\ UNCHANGED <<life, cgroup, binder, sigstop>>
  BY DEF SignalDone, AllApplied, Applying
<1>2. PICK promoted \in Promotions :
        /\ ledger' = [p \in Procs |-> IF p \in promoted THEN "SignalOnly" ELSE ledger[p]]
        /\ Frozen(StopOwnership(promoted))
  BY DEF SignalDone
<1>3. tx' = NoTx /\ TxUnchanged /\ TrackFrozen(tx.pkg, StopOwnership(promoted))
  BY <1>2 DEF Frozen
<1>4. Accounted' /\ NoneDetached'
  <2>1. StopOwnership(promoted) \in Ownership \ {"None"}
        /\ (StopOwnership(promoted) = "SignalOnly" => tx.promote)
    BY DEF StopOwnership, Ownership
  <2> QED
    BY <1>1, <1>3, <2>1, PromotedAreComplete, TrackedAccounts
<1>5. LedgerInv'
  <2>1. \A p \in promoted : p \notin cgroup \cup binder
    BY <1>1, <1>2, PromotedAreComplete DEF Promotions, Accounts, AboutInv
  <2> QED
    BY <1>1, <1>2, <2>1, KernelPieces DEF Accounts, LedgerInv
<1> QED
  BY <1>1, <1>3, <1>4, <1>5, RestingAccounts, EndAccounts

\* A kill, or a thaw that is not bad, leaves nothing to be known of its package.
LEMMA AllGone ==
  ASSUME Inv, Accounts, AllApplied(Thaws \cup {"kill"}), ~ tx.bad \/ tx.kind = "kill",
         UNCHANGED <<cgroup, binder, sigstop>>, ClearFrozen({tx.pkg})
  PROVE  Accounted' /\ NoneDetached'
<1>1. tx.kind \notin Freezes /\ \A p \in Held : PackageOf[p] \notin {tx.pkg}
  BY DEF AllApplied, Applying, Accounts, CoverInv, Freezes, Stops, Thaws
<1>2. /\ \A p \in Held : (Known(p) => Known(p)') /\ (Residual(p) => Residual(p)')
      /\ NoneDetached'
  BY <1>1, ForgetsOnly
<1> QED
  BY <1>1, <1>2, AccountedIs, StillAccounted

LEMMA KillDoneAccounts == ASSUME Inv, Accounts, KillDone PROVE Accounts'
<1> USE DEF KillDone
<1>1. UNCHANGED <<life, cgroup, binder, sigstop>> /\ tx' = NoTx
  BY DEF kernel
<1>2. AllApplied(Thaws \cup {"kill"}) /\ tx.kind = "kill"
  BY DEF AllApplied, Applying
<1>3. Accounted' /\ NoneDetached'
  BY <1>1, <1>2, AllGone
<1> QED
  BY <1>1, <1>3, RestingAccounts, KernelAccounts, EndAccounts

LEMMA ThawDoneAccounts == ASSUME Inv, Accounts, ThawDone PROVE Accounts'
<1> USE DEF ThawDone
<1>1. UNCHANGED <<life, cgroup, binder, sigstop>> /\ tx' = NoTx
  BY DEF kernel
<1>2. AllApplied(Thaws \cup {"kill"}) /\ tx.kind \notin Freezes
  BY DEF AllApplied, Applying, Freezes, Stops, Thaws
<1>3. Accounted' /\ NoneDetached'
  <2>1. CASE tx.bad
    <3>1. UNCHANGED tracking /\ Accounted
      BY <1>2, <2>1, AccountedIs
    <3> QED
      BY <1>1, <3>1, TrackingLeft, StillAccounted
  <2>2. CASE ~ tx.bad
    BY <1>1, <1>2, <2>2, AllGone
  <2> QED
    BY <2>1, <2>2
<1> QED
  BY <1>1, <1>3, RestingAccounts, KernelAccounts, EndAccounts

\* The fallback stops the processes the freezer was to freeze.
LEMMA FreezerUndoneAccounts == ASSUME Inv, Accounts, FreezerUndone PROVE Accounts'
<1> USE DEF FreezerUndone
<1>1. UNCHANGED <<life, cgroup, binder, sigstop, snapshot>>
  BY DEF kernel, TxUnchanged, view
<1>2. tx.at # "none" /\ tx.kind \in Freezes /\ tx.pkg \in Packages
  BY TxPackage DEF Undone, Freezes
<1>3. Accounted' /\ NoneDetached'
  BY <1>1, <1>2, TrackedAccounts DEF Ownership
<1>4. AboutInv' /\ CoverInv'
  <2>1. CASE Launch("fallback", tx.pkg, Here(UidOf[tx.pkg]), FALSE)
    <3>1. /\ \A p \in Here(UidOf[tx.pkg]) : PackageOf[p] = tx.pkg
          /\ tx.pkg \notin Protected
      BY <1>2 DEF Accounts, AboutInv
    <3>2. Here(UidOf[tx.pkg]) \in SUBSET Procs
      BY TypeParts DEF Inv, ViewTypes, Here
    <3> QED
      BY <1>1, <1>2, <2>1, <3>1, <3>2, FreezeAccounts DEF Freezes, Stops
  <2>2. CASE tx' = NoTx
    BY <2>2, RestingAccounts
  <2> QED
    BY <2>1, <2>2
<1> QED
  BY <1>1, <1>3, <1>4, KernelAccounts, EndAccounts

\* A stop that was undone without a failure left nothing behind.
LEMMA StopUndoneAccounts == ASSUME Inv, Accounts, StopUndone PROVE Accounts'
<1> USE DEF StopUndone
<1>1. UNCHANGED <<life, cgroup, binder, sigstop>> /\ tx' = NoTx
  BY DEF kernel
<1>2. tx.at = "undo" /\ tx.kind \in Stops /\ tx.kind # "freezer" /\ tx.todo = {}
  BY DEF Undone, Stops
<1>3. Accounted' /\ NoneDetached'
  <2>1. CASE tx.bad
    BY <1>1, <1>2, <2>1, TrackedAccounts DEF Ownership
  <2>2. CASE ~ tx.bad
    <3>1. Accounted
      BY <1>2, <2>2 DEF Accounts, TrackInv, Exposed, Freezing, Accounted
    <3>2. UNCHANGED tracking
      BY <2>2
    <3> QED
      BY <1>1, <3>1, <3>2, TrackingLeft, StillAccounted
  <2> QED
    BY <2>1, <2>2
<1> QED
  BY <1>1, <1>3, RestingAccounts, KernelAccounts, EndAccounts

LEMMA TransactionKeepsAccounts == ASSUME Inv, Accounts, Transaction PROVE Accounts'
BY FreezeOneAccounts, FreezeOneFailsAccounts, KillOneAccounts, KillOneFailsAccounts,
   ThawOneAccounts, ThawOneFailsAccounts, FreezerDoneAccounts, FallbackDoneAccounts,
   SignalDoneAccounts, KillDoneAccounts, ThawDoneAccounts, FreezerUndoneAccounts,
   StopUndoneAccounts
   DEF Transaction

LEMMA DaemonAccounts == ASSUME Inv, Accounts, DetachedStay, Daemon PROVE Accounts'
BY PassBeginAccounts, PassEndAccounts, DisabledBeginAccounts, DisabledEndAccounts,
   QueuedThawAccounts, QueuedThawFailsAccounts, RecordAccounts, TransactionKeepsAccounts
   DEF Daemon

-----------------------------------------------------------------------------
(* The world around the daemon *)

\* The loop does not see it, and no further process is held.
LEMMA OutsideAccounts ==
  ASSUME Inv, Accounts, UNCHANGED <<tracking, pass>>,
         cgroup' \subseteq cgroup, binder' \subseteq binder, sigstop' \subseteq sigstop,
         LedgerInv', SwitchInv',
         \A u \in Uids : Controlled(u) => Controlled(u)'
  PROVE  Accounts'
<1>1. UNCHANGED <<frozen_apps, frozen_ownership, pc, left, queue, snapshot, audit_due, tx>>
  BY DEF tracking, pass, view
<1>2. /\ HoldableInv' /\ Held' \subseteq Held
      /\ \A p \in cgroup' \cup binder' : p \in cgroup \cup binder
  BY LetsGo
<1>3. TrackInv'
  BY <1>1, <1>2 DEF Accounts, TrackInv, Known, Exposed, Residual, Freezing
<1>4. ControlledInv'
  <2>1. \A p \in Held' : Controlled(Uid(p))'
    BY <1>2, HeldFacts DEF Uid
  <2>2. pc = "records" => (\A u \in left : Controlled(u)') /\ (\A k \in queue : Controlled(UidOf[k])')
    BY TypeParts, ControlAssumption DEF Inv, LoopTypes, Accounts, ControlledInv
  <2> QED
    BY <1>1, <2>1, <2>2 DEF Accounts, ControlledInv, Controlled
<1>5. AuditOff' /\ NoneDetached' /\ AboutInv'
  BY <1>1 DEF Accounts, AuditOff, NoneDetached, AboutInv, Here
<1>6. CoverInv'
  BY <1>1, <1>2 DEF Accounts, CoverInv
<1> QED
  BY <1>2, <1>3, <1>4, <1>5, <1>6 DEF Accounts

\* Steps of the world that leave the switch and the policy alone.
LEMMA ProcessAccounts ==
  ASSUME Inv, Accounts, UNCHANGED <<world, tracking, pass>>,
         cgroup' \subseteq cgroup, binder' \subseteq binder, sigstop' \subseteq sigstop,
         LedgerInv'
  PROVE  Accounts'
<1>1. UNCHANGED <<policy, allowed, pc>>
  BY DEF world, pass
<1>2. SwitchInv' /\ \A u \in Uids : Controlled(u) => Controlled(u)'
  BY <1>1 DEF Accounts, SwitchInv, ControlledUids, Controlled
<1> QED
  BY <1>2, OutsideAccounts

LEMMA SpawnAccounts == ASSUME Inv, Accounts, NEW p \in Procs, Spawn(p) PROVE Accounts'
<1>1. LedgerInv'
  BY DEF Spawn, Accounts, LedgerInv
<1> QED
  BY <1>1, ProcessAccounts DEF Spawn, Outside, memory

LEMMA ExitAccounts == ASSUME Inv, Accounts, NEW p \in Procs, Exit(p) PROVE Accounts'
<1>1. LedgerInv'
  BY LedgerLetsGo DEF Exit
<1> QED
  BY <1>1, ProcessAccounts DEF Exit, Outside, memory

LEMMA OthersThawAccounts == ASSUME Inv, Accounts, NEW p \in Procs, OthersThaw(p) PROVE Accounts'
<1>1. cgroup' \subseteq cgroup /\ binder' \subseteq binder /\ sigstop' \subseteq sigstop
  BY DEF OthersThaw
<1>2. LedgerInv'
  BY <1>1, LedgerLetsGo DEF OthersThaw
<1> QED
  BY <1>1, <1>2, ProcessAccounts DEF OthersThaw, Outside, memory

LEMMA LedgerWeakensAccounts ==
  ASSUME Inv, Accounts, NEW p \in Procs, LedgerWeakens(p)
  PROVE  Accounts'
<1>1. LedgerInv'
  BY KernelPieces, LedgerLetsGo DEF LedgerWeakens
<1> QED
  BY <1>1, ProcessAccounts DEF LedgerWeakens, Outside, memory

LEMMA FreezeFallsDueAccounts ==
  ASSUME Inv, Accounts, NEW k \in Packages, FreezeFallsDue(k)
  PROVE  Accounts'
<1>1. UNCHANGED <<cgroup, binder, sigstop>>
  BY DEF FreezeFallsDue, kernel
<1> QED
  BY <1>1, KernelAccounts, ProcessAccounts DEF FreezeFallsDue

LEMMA ForegroundChangesAccounts ==
  ASSUME Inv, Accounts, NEW u \in Uids, ForegroundChanges(u)
  PROVE  Accounts'
<1> USE DEF ForegroundChanges
<1>1. UNCHANGED <<cgroup, binder, sigstop, policy, allowed, pc, tracking, pass>>
  BY DEF kernel, memory, pass
<1>2. SwitchInv' /\ \A v \in Uids : Controlled(v) => Controlled(v)'
  BY <1>1 DEF Accounts, SwitchInv, ControlledUids, Controlled
<1> QED
  BY <1>1, <1>2, KernelAccounts, OutsideAccounts

LEMMA ControlTogglesAccounts == ASSUME Inv, Accounts, ControlToggles PROVE Accounts'
<1> USE DEF ControlToggles
<1>1. UNCHANGED <<cgroup, binder, sigstop, policy, tracking, pass>>
  BY DEF kernel, memory
<1>2. SwitchInv' /\ \A v \in Uids : Controlled(v) => Controlled(v)'
  BY <1>1 DEF SwitchInv, Controlled
<1> QED
  BY <1>1, <1>2, KernelAccounts, OutsideAccounts

\* An edit leaves every app under control.
LEMMA PolicyEditedAccounts ==
  ASSUME Inv, Accounts, StaysControlled, NEW u \in Uids, PolicyEdited(u)
  PROVE  Accounts'
<1> USE DEF PolicyEdited
<1>1. UNCHANGED <<cgroup, binder, sigstop, allowed, tracking, pass, pc>> /\ pc = "idle"
  BY DEF kernel, memory, pass
<1>2. PICK m \in Modes : policy' = [policy EXCEPT ![u] = m]
  OBVIOUS
<1>3. m \in {10, 20, 21, 30, 31}
  BY ControlAssumption DEF StaysControlled
<1>4. \A v \in Uids : Controlled(v) => Controlled(v)'
  BY <1>2, <1>3, TypeParts DEF Inv, WorldTypes, Controlled
<1>5. SwitchInv'
  BY <1>1 DEF Accounts, SwitchInv
<1> QED
  BY <1>1, <1>4, <1>5, KernelAccounts, OutsideAccounts

-----------------------------------------------------------------------------
(* The death of the daemon *)

\* A torn freeze or thaw: what it is about may be frozen in Binder alone.
LEMMA TornBinder ==
  ASSUME Inv, NEW torn \in Torn
  PROVE  /\ torn.cgroup \subseteq cgroup
         /\ \A p \in torn.binder : p \in binder \/
              (/\ tx.kind = "freezer" /\ tx.at = "apply" /\ p \in tx.todo /\ p \in Alive)
BY DEF Torn, Applying

\* The recovery meets every stop with its record, and every freeze as one to
\* clean: the one with a SignalOnly record would be a freeze of a stopped process.
LEMMA CrashFrees ==
  ASSUME Inv, Accounts, CleanRestarts, Crash
  PROVE  Held' = {}
<1>1. ~ On("failures") /\ ~ On("audit")
  BY DEF Crash, CleanRestarts
<1>2. PICK torn \in Torn :
        LET visited == {p \in Alive : Controlled(Uid(p))}
            owned == {p \in visited \cap sigstop : ledger[p] # "None"}
            cleaned == Cleaned(visited, owned, torn.cgroup)
        IN  /\ cgroup' = torn.cgroup \ cleaned /\ binder' = torn.binder \ cleaned
            /\ sigstop' = sigstop \ owned
  BY <1>1 DEF Crash
<1> DEFINE visited == {p \in Alive : Controlled(Uid(p))}
           owned == {p \in visited \cap sigstop : ledger[p] # "None"}
           cleaned == Cleaned(visited, owned, torn.cgroup)
<1>3. /\ cgroup' = torn.cgroup \ cleaned /\ binder' = torn.binder \ cleaned
      /\ sigstop' = sigstop \ owned
  BY <1>2
<1>4. \A p \in Held : p \in visited
  BY HeldFacts
<1>5. sigstop \subseteq owned
  BY <1>1, <1>4 DEF Held, Accounts, LedgerInv
<1>6. torn.cgroup \subseteq cleaned
  BY <1>4, TornBinder DEF Held, Accounts, HoldableInv, Cleaned
<1>7. ASSUME NEW p \in torn.binder PROVE p \in cleaned
  <2>1. CASE p \in binder
    <3>1. p \in visited /\ p \in CgroupProcs
      BY <1>4, <2>1 DEF Held, Accounts, HoldableInv
    <3>2. ~ (p \in owned /\ ledger[p] = "SignalOnly")
      BY <1>1, <2>1 DEF Accounts, LedgerInv
    <3> QED
      BY <3>1, <3>2 DEF Cleaned
  <2>2. CASE tx.kind = "freezer" /\ tx.at = "apply" /\ p \in tx.todo /\ p \in Alive
    <3>1. p \in visited /\ p \in CgroupProcs
      BY <2>2, FreezableFacts DEF Freezes
    <3>2. p \notin owned
      BY <1>1, <2>2, FreezerMeetsNoStop DEF Held
    <3> QED
      BY <3>1, <3>2 DEF Cleaned
  <2> QED
    BY <2>1, <2>2, TornBinder
<1> HIDE DEF visited, owned, cleaned
<1> QED
  BY <1>3, <1>5, <1>6, <1>7 DEF Held

LEMMA CrashAccounts ==
  ASSUME Inv, Accounts, CleanRestarts, Crash
  PROVE  Accounts'
<1>1. Held' = {}
  BY CrashFrees
<1>2. /\ frozen_apps' = {} /\ frozen_ownership' = [k \in Packages |-> "None"]
      /\ pc' = "idle" /\ queue' = {} /\ tx' = NoTx /\ audit_due' = FALSE
      /\ UNCHANGED allowed
  BY DEF Crash, ViewDropped, world
<1>3. cgroup' = {} /\ binder' = {} /\ sigstop' = {}
  BY <1>1 DEF Held
<1>4. TrackInv' /\ HoldableInv' /\ LedgerInv'
  BY <1>1, <1>3 DEF TrackInv, HoldableInv, LedgerInv
<1>5. ControlledInv' /\ SwitchInv'
  BY <1>1, <1>2 DEF ControlledInv, Accounts, SwitchInv
<1>6. AuditOff' /\ NoneDetached'
  BY <1>2 DEF AuditOff, NoneDetached
<1> QED
  BY <1>2, <1>4, <1>5, <1>6, RestingAccounts DEF Accounts

LEMMA WorldAccounts == ASSUME Inv, Accounts, Accountable, World PROVE Accounts'
BY SpawnAccounts, ExitAccounts, OthersThawAccounts, LedgerWeakensAccounts,
   ForegroundChangesAccounts, PolicyEditedAccounts, ControlTogglesAccounts,
   FreezeFallsDueAccounts, CrashAccounts
   DEF World, Accountable

LEMMA NothingAccounts == ASSUME Inv, Accounts, UNCHANGED vars PROVE Accounts'
<1>1. UNCHANGED <<cgroup, binder, sigstop, kernel, world, tracking, pass>>
  BY DEF vars, kernel, memory
<1> QED
  BY <1>1, KernelAccounts, ProcessAccounts

-----------------------------------------------------------------------------
(* The theorems about what is held *)

THEOREM AccountsCorrect == Accountable => (Spec => []Accounts)
<1> SUFFICES ASSUME Accountable PROVE Spec => []Accounts
  OBVIOUS
<1>1. Init => Accounts
  BY InitAccounts
<1>2. Inv /\ Accounts /\ [Next]_vars => Accounts'
  BY DaemonAccounts, WorldAccounts, NothingAccounts DEF Next, Accountable
<1> QED
  BY <1>1, <1>2, Invariant, PTL DEF Spec

\* A SIGCONT alone never has to free what the cgroup or Binder freezer holds:
\* whatever fails, is undone, falls back, is audited, edited, killed or thawed
\* by others.  Accountable names what the code does forget by itself.
THEOREM SignalOnlyIsCompleteCorrect == Accountable => (Spec => []SignalOnlyIsComplete)
<1>1. Inv /\ Accounts => SignalOnlyIsComplete
  BY AccountsMean
<1> QED
  BY <1>1, AccountsCorrect, Invariant, PTL

\* Between two passes no process is held that the controller does not know of.
THEOREM HeldIsTrackedCorrect == Accountable => (Spec => []HeldIsTracked)
<1>1. Inv /\ Accounts => HeldIsTracked
  BY AccountsMean
<1> QED
  BY <1>1, AccountsCorrect, Invariant, PTL

\* A daemon that dies at any step of a pass, inside the freeze or thaw of one
\* process too, is followed by a recovery that frees every app under control.
THEOREM RestartFreesCorrect == Accountable => (Spec => RestartFrees)
<1> SUFFICES ASSUME Accountable PROVE Spec => RestartFrees
  OBVIOUS
<1>1. Inv /\ Accounts /\ [Next]_vars => [RestartFreed]_vars
  BY CrashFrees DEF RestartFreed, Accountable
<1> QED
  BY <1>1, AccountsCorrect, Invariant, PTL DEF Spec, RestartFrees

-----------------------------------------------------------------------------
(* What a pass promises, it does.                                          *)
(*                                                                         *)
(* A thaw is refused for a uid shared by several packages, it may fail, and *)
(* an audit takes identities off the list a pass goes through.  Without     *)
(* these a pass has thawed, at its end, all it had to.                      *)

NoSharedUids == \A k, j \in Packages : UidOf[k] = UidOf[j] => k = j

Exact == StaysControlled /\ NoSharedUids /\ ~ On("failures") /\ ~ On("audit")

\* The transaction in progress is about to thaw the process.
Awaits(p) == tx.at = "apply" /\ tx.kind \in Thaws /\ p \in tx.todo

UnblockedInv == \A k \in Packages : blocked[k] = {}

\* A disabled pass has everything that is held before it.
DisabledInv ==
  pc = "disabled" => \A p \in Held : PackageOf[p] \in queue \/ Awaits(p)

\* A pass has every app it found in the foreground before it, and freezes none.
ForegroundInv ==
  pc = "records" =>
    /\ \A p \in Held : Uid(p) \in foreground_uids => Uid(p) \in left \/ Awaits(p)
    /\ tx.kind \in Freezes => UidOf[tx.pkg] \notin foreground_uids

Serves == UnblockedInv /\ DisabledInv /\ ForegroundInv

LEMMA ExactIsAccountable == ASSUME Exact PROVE Accountable
BY DEF Exact, Accountable, DetachedStay, CleanRestarts

LEMMA InitServes == Init => Serves
BY DEF Init, NoTx, Serves, UnblockedInv, DisabledInv, ForegroundInv

\* Without shared uids the processes of a uid are of one package.
LEMMA UnsharedFacts ==
  ASSUME Inv, NoSharedUids, NEW u, Here(u) # {}
  PROVE  /\ \A p \in Here(u) : PackageOf[p] = Id(u)
         /\ PackagesIn(Here(u)) = {Id(u)} /\ ~ Mixed(Here(u))
<1>1. Id(u) \in Packages /\ UidOf[Id(u)] = u
  BY IdFacts DEF Inv
<1>2. \A p \in Here(u) : PackageOf[p] = Id(u)
  BY <1>1, PackageFacts, TypeParts DEF Inv, ViewTypes, Here, NoSharedUids
<1>3. PackagesIn(Here(u)) = {Id(u)}
  BY <1>2 DEF PackagesIn
<1>4. Cardinality({Id(u)}) = 1
  BY FS_Singleton
<1> QED
  BY <1>2, <1>3, <1>4 DEF Mixed

\* While no record is visited and no pass begins or ends.
LEMMA StillServes ==
  ASSUME Inv, Accounts, Serves, UNCHANGED <<pc, left, queue, foreground_uids, blocked>>,
         \A p \in Held' : \/ p \in Held /\ (Awaits(p) => Awaits(p)')
                          \/ tx.kind \in Freezes /\ PackageOf[p] = tx.pkg /\ p \in Procs,
         tx'.kind \in Freezes => tx.kind \in Freezes /\ tx'.pkg = tx.pkg
  PROVE  Serves'
<1>1. UnblockedInv'
  BY DEF Serves, UnblockedInv
<1>2. DisabledInv'
  BY DEF Serves, DisabledInv, Inv, TxInv
<1>3. ForegroundInv'
  <2> SUFFICES ASSUME pc = "records"
               PROVE  /\ \A p \in Held' : Uid(p) \in foreground_uids => Uid(p) \in left \/ Awaits(p)'
                      /\ tx'.kind \in Freezes => UidOf[tx'.pkg] \notin foreground_uids
    BY DEF ForegroundInv, Uid
  <2>1. tx'.kind \in Freezes => UidOf[tx'.pkg] \notin foreground_uids
    BY DEF Serves, ForegroundInv
  <2>2. ASSUME NEW p \in Held', Uid(p) \in foreground_uids PROVE Uid(p) \in left \/ Awaits(p)'
    <3>1. CASE p \in Held /\ (Awaits(p) => Awaits(p)')
      BY <2>2, <3>1 DEF Serves, ForegroundInv
    <3>2. CASE tx.kind \in Freezes /\ PackageOf[p] = tx.pkg /\ p \in Procs
      BY <2>2, <3>2, PackageFacts DEF Serves, ForegroundInv
    <3> QED
      BY <3>1, <3>2
  <2> QED
    BY <2>1, <2>2
<1> QED
  BY <1>1, <1>2, <1>3 DEF Serves

-----------------------------------------------------------------------------
(* The steps of a pass outside of the visits *)

LEMMA PassBeginServes == ASSUME Inv, Accounts, Serves, PassBegin PROVE Serves'
<1> USE DEF PassBegin
<1>1. /\ pc = "idle" /\ pc' = "records" /\ left' = ControlledUids /\ tx' = tx
      /\ UNCHANGED <<cgroup, binder, sigstop>>
  BY DEF kernel
<1>2. \A p \in Held' : Uid(p) \in left'
  BY <1>1, HeldFacts DEF Held, ControlledUids
<1>3. UnblockedInv'
  BY DEF Serves, UnblockedInv, DropUncontrolled
<1>4. DisabledInv' /\ ForegroundInv'
  BY <1>1, <1>2, OnlyVisitsFreeze DEF DisabledInv, ForegroundInv, Uid
<1> QED
  BY <1>3, <1>4 DEF Serves

LEMMA DisabledBeginServes == ASSUME Inv, Accounts, Serves, Exact, DisabledBegin PROVE Serves'
<1> USE DEF DisabledBegin
<1>1. /\ pc = "idle" /\ pc' = "disabled" /\ queue' = frozen_apps
      /\ UNCHANGED <<cgroup, binder, sigstop, blocked>>
  BY DEF kernel, memory
<1>2. \A p \in Held : PackageOf[p] \in frozen_apps
  BY <1>1, OnlyVisitsFreeze, AccountedIs, HeldFacts DEF Accounted, Known, Exact, Accounts, NoneDetached
<1>3. UnblockedInv'
  BY <1>1 DEF Serves, UnblockedInv
<1>4. DisabledInv' /\ ForegroundInv'
  BY <1>1, <1>2 DEF DisabledInv, ForegroundInv, Held
<1> QED
  BY <1>3, <1>4 DEF Serves

\* The ends of a pass.
LEMMA EndsServe == ASSUME Inv, Accounts, Serves, PassEnd \/ DisabledEnd PROVE Serves'
<1>1. pc' = "idle" /\ (blocked' = blocked \/ blocked' = [k \in Packages |-> {}])
  BY DEF PassEnd, DisabledEnd
<1>2. UnblockedInv'
  BY <1>1 DEF Serves, UnblockedInv
<1> QED
  BY <1>1, <1>2 DEF Serves, DisabledInv, ForegroundInv

\* What comes off the queue is not held or is about to be thawed: it is refused
\* for no shared uid.
LEMMA QueuedThawServes ==
  ASSUME Inv, Accounts, Serves, Exact, NEW k \in Packages, QueuedThaw(k)
  PROVE  Serves'
<1> USE DEF QueuedThaw
<1>1. /\ UNCHANGED <<pc, left, foreground_uids, blocked, cgroup, binder, sigstop>>
      /\ tx = NoTx /\ queue' = queue \ {k}
  BY DEF view, kernel
<1>2. UnblockedInv'
  BY <1>1 DEF Serves, UnblockedInv
<1>3. \A p \in Held : ~ Awaits(p)
  BY <1>1 DEF Awaits, NoTx
<1>4. tx'.kind \notin Freezes
  BY <1>1 DEF TryThaw, Launch, NoTx, Freezes, Stops
<1>5. ForegroundInv'
  BY <1>1, <1>3, <1>4 DEF Serves, ForegroundInv, Held, Uid
<1>6. DisabledInv'
  <2> SUFFICES ASSUME pc = "disabled", NEW p \in Held, PackageOf[p] = k PROVE Awaits(p)'
    BY <1>1, <1>3 DEF Serves, DisabledInv, Held
  <2>1. p \in Live(UidOf[k])
    BY HeldFacts DEF Live, Discovered
  <2>2. TryThaw("thaw", k, Live(UidOf[k]))
    BY <2>1
  <2>3. PackagesIn(Live(UidOf[k])) = {k}
    <3>1. \A q \in Live(UidOf[k]) : PackageOf[q] = k
      BY PackageFacts DEF Live, Discovered, Alive, Exact, NoSharedUids
    <3> QED
      BY <2>1, <3>1 DEF PackagesIn
  <2>4. Launch("thaw", k, Live(UidOf[k]), FALSE)
    BY <2>2, <2>3 DEF TryThaw
  <2> QED
    BY <2>1, <2>4 DEF Launch, Awaits, Thaws
<1> QED
  BY <1>2, <1>5, <1>6 DEF Serves

-----------------------------------------------------------------------------
(* The visits *)

\* A visit owes its app a thaw if it was found in the foreground.
LEMMA VisitServes ==
  ASSUME Inv, Accounts, Serves, NEW u, Visit(u), UnblockedInv',
         \A p \in Held : Uid(p) = u /\ u \in foreground_uids => Awaits(p)',
         tx'.kind \in Freezes => UidOf[tx'.pkg] = u /\ u \notin foreground_uids
  PROVE  Serves'
<1>1. /\ pc = "records" /\ tx = NoTx /\ left' = left \ {u}
      /\ UNCHANGED <<pc, foreground_uids, cgroup, binder, sigstop>>
  BY DEF Visit, view, kernel
<1>2. \A p \in Held : ~ Awaits(p)
  BY <1>1 DEF Awaits, NoTx
<1>3. ForegroundInv'
  BY <1>1, <1>2 DEF Serves, ForegroundInv, Held, Uid
<1>4. DisabledInv'
  BY <1>1 DEF DisabledInv
<1> QED
  BY <1>3, <1>4 DEF Serves

\* A visit without a transaction is of an app in the background or not held.
LEMMA QuietVisitServes ==
  ASSUME Inv, Accounts, Serves, NEW u, Visit(u), UnblockedInv', tx' = tx,
         \A p \in Held : Uid(p) = u => u \notin foreground_uids
  PROVE  Serves'
<1>1. tx'.kind \notin Freezes
  BY DEF Visit, NoTx, Freezes, Stops
<1> QED
  BY <1>1, VisitServes

LEMMA NoProcessesServes == ASSUME Inv, Accounts, Serves, NEW u, NoProcesses(u) PROVE Serves'
<1> USE DEF NoProcesses
<1>1. UnblockedInv'
  BY DEF ClearTransient, Serves, UnblockedInv
<1> QED
  BY <1>1, VisitedFacts, QuietVisitServes

LEMMA ProtectedRecordServes ==
  ASSUME Inv, Accounts, Serves, Exact, NEW u, ProtectedRecord(u)
  PROVE  Serves'
<1> USE DEF ProtectedRecord
<1>1. UnblockedInv'
  BY DEF ClearTransient, Serves, UnblockedInv
<1>2. Id(u) \in Protected
  BY VisitedFacts DEF ControlAllowed, IsProtected
<1>3. \A p \in Held : Uid(p) # u
  BY <1>2, VisitedFacts, UnsharedFacts DEF Exact, Accounts, HoldableInv
<1> QED
  BY <1>1, <1>3, QuietVisitServes

LEMMA FreshServes ==
  ASSUME Inv, Serves, NEW u, blocked' = Unblocked(u)
  PROVE  UnblockedInv'
BY TypeParts DEF Inv, TransientTypes, Serves, UnblockedInv, Unblocked

\* An app in the foreground: what is held of it is tracked, and is launched.
LEMMA ForegroundServes ==
  ASSUME Inv, Accounts, Serves, Exact, NEW u, Foreground(u)
  PROVE  Serves'
<1> USE DEF Foreground
<1>1. Visit(u) /\ FreshFacts(u) /\ Accounted
  BY FreshIsSo, VisitedFacts DEF Fresh, Manageable
<1>2. UnblockedInv'
  BY FreshServes
<1>3. PackagesIn(Here(u)) = {Id(u)} /\ \A p \in Here(u) : PackageOf[p] = Id(u)
  BY <1>1, UnsharedFacts DEF FreshFacts, Exact
<1>4. CASE Id(u) \in frozen_apps
  <2>1. Launch("thaw", Id(u), Here(u), FALSE)
    BY <1>3, <1>4 DEF TryThaw
  <2>2. \A p \in Here(u) : Awaits(p)'
    BY <2>1 DEF Launch, Awaits, Thaws
  <2>3. tx'.kind \notin Freezes
    BY <2>1 DEF Launch, Freezes, Stops
  <2> QED
    BY <1>1, <1>2, <2>2, <2>3, VisitedFacts, VisitServes
<1>5. CASE Id(u) \notin frozen_apps
  <2>1. \A p \in Held : Uid(p) # u
    BY <1>1, <1>3, <1>5, VisitedFacts, HeldFacts DEF Accounted, Known, Exact, Accounts, NoneDetached
  <2> QED
    BY <1>1, <1>2, <1>5, <2>1, QuietVisitServes
<1> QED
  BY <1>4, <1>5

LEMMA BackgroundServes ==
  ASSUME Inv, Accounts, Serves, NEW u, Background(u), UnblockedInv',
         tx'.kind \in Freezes => tx'.pkg = Id(u)
  PROVE  Serves'
<1>1. Visit(u) /\ FreshFacts(u) /\ u \notin foreground_uids
  BY FreshIsSo DEF Background, Fresh, Manageable
<1> QED
  BY <1>1, VisitServes DEF FreshFacts

LEMMA RecordServes == ASSUME Inv, Accounts, Serves, Exact, NEW u, Record(u) PROVE Serves'
<1>1. CASE NoProcesses(u) \/ ProtectedRecord(u) \/ Foreground(u)
  BY <1>1, NoProcessesServes, ProtectedRecordServes, ForegroundServes
<1>2. CASE BlockedRecord(u)
  BY <1>2, ManageableIsSo DEF BlockedRecord, Serves, UnblockedInv, VisitFacts
<1>3. CASE FreezeRefused(u)
  <2>1. Background(u) /\ Here(u) # {} /\ tx' = NoTx
    BY <1>3, ReadyIsSo DEF FreezeRefused, Ready, FreshFacts, VisitFacts
  <2>2. ~ Mixed(Here(u))
    BY <2>1, UnsharedFacts DEF Exact
  <2>3. UnblockedInv'
    BY <1>3, <2>2, TypeParts DEF FreezeRefused, Inv, TransientTypes, Serves, UnblockedInv
  <2> QED
    BY <2>1, <2>3, BackgroundServes DEF NoTx, Freezes, Stops
<1>4. CASE WakeupThaw(u) \/ StaysFrozen(u) \/ Delay(u) \/ Postpone(u) \/ FreezeBegins(u) \/ KillRefused(u)
  <2>1. Background(u) /\ blocked' = Unblocked(u)
    BY <1>4 DEF WakeupThaw, StaysFrozen, Delay, Postpone, FreezeBegins, KillRefused, Ready
  <2>2. tx = NoTx
    BY <2>1 DEF Background, Fresh, Manageable, Visit
  <2>3. tx' = tx \/ tx'.pkg = Id(u)
    BY <1>4 DEF WakeupThaw, StaysFrozen, Delay, Postpone, FreezeBegins, KillRefused, TryThaw, Launch
  <2> QED
    BY <2>1, <2>2, <2>3, FreshServes, BackgroundServes DEF NoTx, Freezes, Stops
<1> QED
  BY <1>1, <1>2, <1>3, <1>4 DEF Record

-----------------------------------------------------------------------------
(* The transaction in progress, and the world *)

TxSteps(p) ==
  FreezeOne(p) \/ FreezeOneFails(p) \/ KillOne(p) \/ KillOneFails(p) \/ ThawOne(p) \/ ThawOneFails(p)

LEMMA TxLeaves ==
  ASSUME TxUnchanged
  PROVE  UNCHANGED <<pc, left, queue, foreground_uids>>
BY DEF TxUnchanged, view

LEMMA StepLeavesBlocked ==
  ASSUME NEW p, TxSteps(p)
  PROVE  UNCHANGED blocked /\ TxUnchanged
BY DEF TxSteps, FreezeOne, FreezeOneFails, KillOne, KillOneFails, ThawOne, ThawOneFails, memory

LEMMA NotAwaited ==
  ASSUME tx.kind \in Freezes \/ tx.kind = "kill"
  PROVE  \A p : ~ Awaits(p)
BY DEF Awaits, Freezes, Stops, Thaws

LEMMA FreezeOneServes ==
  ASSUME Inv, Accounts, Serves, NEW p \in Procs, FreezeOne(p) \/ FreezeOneFails(p)
  PROVE  Serves'
<1>1. tx.kind \in Freezes /\ p \in tx.todo
  BY DEF FreezeOne, FreezeOneFails, Applying
<1>2. Held' \subseteq Held \cup {p}
  BY DEF FreezeOne, FreezeOneFails, Held
<1>3. tx'.kind = tx.kind /\ tx'.pkg = tx.pkg
  BY TypeParts DEF Inv, Txs, FreezeOne, FreezeOneFails, Step
<1>4. PackageOf[p] = tx.pkg
  BY <1>1, FreezableFacts
<1> QED
  BY <1>1, <1>2, <1>3, <1>4, NotAwaited, TxLeaves, StepLeavesBlocked, StillServes DEF TxSteps

LEMMA KillServes ==
  ASSUME Inv, Accounts, Serves, NEW p \in Procs, KillOne(p) \/ KillOneFails(p)
  PROVE  Serves'
<1>1. tx.kind = "kill"
  BY DEF KillOne, KillOneFails, Applying
<1>2. Held' \subseteq Held
  BY DEF KillOne, KillOneFails, Held, kernel
<1>3. tx' = NoTx \/ tx'.kind = tx.kind
  BY TypeParts DEF Inv, Txs, KillOne, KillOneFails, Step
<1>4. tx'.kind \notin Freezes
  BY <1>1, <1>3 DEF NoTx, Freezes, Stops
<1> QED
  BY <1>1, <1>2, <1>4, NotAwaited, TxLeaves, StepLeavesBlocked, StillServes DEF TxSteps

\* Without failures a process that was to be thawed is held no longer, or dead.
LEMMA ThawServes ==
  ASSUME Inv, Accounts, Serves, Exact, NEW p \in Procs, ThawOne(p) \/ ThawOneFails(p)
  PROVE  Serves'
<1>1. p \in tx.todo
  BY DEF ThawOne, ThawOneFails, Thawing
<1>2. /\ tx'.kind = tx.kind /\ tx'.at = tx.at /\ tx'.pkg = tx.pkg
      /\ tx'.todo = tx.todo \ {p}
  BY TypeParts DEF Inv, Txs, ThawOne, ThawOneFails, Step
<1>3. Held' \subseteq Held
  BY DEF ThawOne, ThawOneFails, Held
<1>4. Awaits(p) => p \notin Held'
  <2>1. CASE ThawOne(p)
    BY <1>1, <2>1, PlanIsComplete DEF ThawOne, Awaits, Held
  <2>2. CASE ThawOneFails(p)
    BY <1>3, <2>2 DEF ThawOneFails, Validated, Exact, Inv, HeldInv
  <2> QED
    BY <2>1, <2>2
<1>5. \A q \in Held' : Awaits(q) => Awaits(q)'
  BY <1>2, <1>4 DEF Awaits
<1> QED
  BY <1>2, <1>3, <1>5, TxLeaves, StepLeavesBlocked, StillServes DEF TxSteps

\* At its end a transaction has left nothing that awaits it.
LEMMA EndServes ==
  ASSUME Inv, Accounts, Serves, TxUnchanged, UNCHANGED <<cgroup, binder, sigstop, blocked>>,
         tx.todo = {},
         tx'.kind \in Freezes => tx.kind \in Freezes /\ tx'.pkg = tx.pkg
  PROVE  Serves'
<1>1. Held' = Held /\ \A p : ~ Awaits(p)
  BY DEF Held, Awaits
<1> QED
  BY <1>1, TxLeaves, StillServes

LEMMA EndsOfTxServe ==
  ASSUME Inv, Accounts, Serves,
         \/ FreezerDone \/ FallbackDone \/ SignalDone \/ KillDone \/ ThawDone
         \/ FreezerUndone \/ StopUndone
  PROVE  Serves'
<1>1. TxUnchanged /\ UNCHANGED <<cgroup, binder, sigstop, blocked>> /\ tx.todo = {}
  BY DEF FreezerDone, FallbackDone, SignalDone, KillDone, ThawDone, FreezerUndone, StopUndone,
     Frozen, AllApplied, Undone, kernel
<1>2. tx' = NoTx \/ (FreezerUndone /\ tx'.pkg = tx.pkg)
  BY DEF FreezerDone, FallbackDone, SignalDone, KillDone, ThawDone, FreezerUndone, StopUndone,
     Frozen, Launch
<1>3. FreezerUndone => tx.kind \in Freezes
  BY DEF FreezerUndone, Undone, Freezes
<1>4. tx'.kind \in Freezes => tx.kind \in Freezes /\ tx'.pkg = tx.pkg
  BY <1>2, <1>3 DEF NoTx, Freezes, Stops
<1> QED
  BY <1>1, <1>4, EndServes

LEMMA DaemonServes == ASSUME Inv, Accounts, Serves, Exact, Daemon PROVE Serves'
<1>1. ASSUME NEW k \in Packages, QueuedThawFails(k) PROVE Serves'
  BY <1>1 DEF QueuedThawFails, Exact
<1>2. CASE Transaction
  BY <1>2, FreezeOneServes, KillServes, ThawServes, EndsOfTxServe DEF Transaction
<1> QED
  BY <1>1, <1>2, PassBeginServes, EndsServe, DisabledBeginServes, QueuedThawServes, RecordServes
     DEF Daemon

LEMMA WorldServes == ASSUME Inv, Accounts, Serves, World PROVE Serves'
<1>1. CASE Crash
  BY <1>1 DEF Crash, Serves, UnblockedInv, DisabledInv, ForegroundInv
<1>2. CASE ~ Crash
  <2>1. Held' \subseteq Held
    BY <1>2 DEF World, Spawn, Exit, OthersThaw, LedgerWeakens, ForegroundChanges, PolicyEdited,
       ControlToggles, FreezeFallsDue, kernel, Held
  <2>2. UNCHANGED <<pass, blocked>>
    BY <1>2 DEF World, Spawn, Exit, OthersThaw, LedgerWeakens, ForegroundChanges, PolicyEdited,
       ControlToggles, FreezeFallsDue, Outside, memory
  <2>3. UNCHANGED <<pc, left, queue, foreground_uids, blocked, tx>>
    BY <2>2 DEF pass, view
  <2> QED
    BY <2>1, <2>3, StillServes DEF Awaits
<1> QED
  BY <1>1, <1>2

LEMMA NothingServes == ASSUME Inv, Accounts, Serves, UNCHANGED vars PROVE Serves'
<1>1. UNCHANGED <<cgroup, binder, sigstop, pc, left, queue, foreground_uids, blocked, tx>>
  BY DEF vars, kernel, memory, pass, view
<1> QED
  BY <1>1, StillServes DEF Awaits, Held

-----------------------------------------------------------------------------
(* The theorems about what a pass does *)

THEOREM ServesCorrect == Exact => (Spec => []Serves)
<1> SUFFICES ASSUME Exact PROVE Spec => []Serves
  OBVIOUS
<1>1. Init => Serves
  BY InitServes
<1>2. Inv /\ Accounts /\ Serves /\ [Next]_vars => Serves'
  BY DaemonServes, WorldServes, NothingServes DEF Next
<1>3. Accountable
  BY ExactIsAccountable
<1> QED
  BY <1>1, <1>2, <1>3, AccountsCorrect, Invariant, PTL DEF Spec

\* How a pass ends: by itself or with the daemon.
LEMMA PassEnds ==
  ASSUME Next, pc # "idle", pc' = "idle"
  PROVE  \/ PassEnd \/ DisabledEnd \/ Crash
<1>1. ASSUME NEW p, TxSteps(p) PROVE pc' = pc
  BY <1>1, StepLeavesBlocked, TxLeaves
<1>2. CASE Transaction
  <2>1. CASE \E p : TxSteps(p)
    BY <1>1, <2>1
  <2>2. CASE \/ FreezerDone \/ FallbackDone \/ SignalDone \/ KillDone \/ ThawDone
             \/ FreezerUndone \/ StopUndone
    <3>1. TxUnchanged
      BY <2>2 DEF FreezerDone, FallbackDone, SignalDone, KillDone, ThawDone, FreezerUndone,
         StopUndone, Frozen
    <3> QED
      BY <3>1, TxLeaves
  <2> QED
    BY <1>2, <2>1, <2>2 DEF Transaction, TxSteps
<1>3. ASSUME NEW u, Record(u) PROVE pc' = pc
  <2>1. Visit(u)
    BY <1>3 DEF Record, NoProcesses, ProtectedRecord, BlockedRecord, Foreground, WakeupThaw,
       StaysFrozen, Delay, Postpone, FreezeBegins, FreezeRefused, KillRefused, Ready, Background,
       Fresh, Manageable
  <2> QED
    BY <2>1 DEF Visit
<1>4. ASSUME NEW k, QueuedThaw(k) \/ QueuedThawFails(k) PROVE pc' = pc
  BY <1>4 DEF QueuedThaw, QueuedThawFails
<1>5. CASE World
  BY <1>5 DEF World, Spawn, Exit, OthersThaw, LedgerWeakens, ForegroundChanges, PolicyEdited,
     ControlToggles, FreezeFallsDue, Outside, pass
<1> QED
  BY <1>2, <1>3, <1>4, <1>5 DEF Next, Daemon, PassBegin, DisabledBegin

\* A pass ends with every app it found in the foreground running, whatever it
\* was stopped with, whatever processes start, exit or are thawed by others
\* during the pass, and whatever way the pass ends.
THEOREM ForegroundRunsCorrect == Exact => (Spec => ForegroundRuns)
<1> SUFFICES ASSUME Exact PROVE Spec => ForegroundRuns
  OBVIOUS
<1>1. Accountable
  BY ExactIsAccountable
<1>2. ASSUME Inv, Accounts, Serves, Next PROVE ForegroundFreed
  <2> SUFFICES ASSUME pc = "records", pc' = "idle"
               PROVE  \A p \in snapshot \cap Alive : Uid(p) \in foreground_uids => p \notin Held'
    BY DEF ForegroundFreed
  <2>1. CASE PassEnd
    <3>1. Held' = Held /\ left = {} /\ tx = NoTx
      BY <2>1 DEF PassEnd, kernel, Held
    <3> QED
      BY <1>2, <3>1 DEF Serves, ForegroundInv, Awaits, NoTx
  <2>2. CASE DisabledEnd
    BY <2>2 DEF DisabledEnd
  <2>3. CASE Crash
    BY <1>1, <1>2, <2>3, CrashFrees DEF Accountable
  <2>4. PassEnd \/ DisabledEnd \/ Crash
    BY <1>2, PassEnds
  <2> QED
    BY <2>1, <2>2, <2>3, <2>4
<1>3. Inv /\ Accounts /\ Serves /\ [Next]_vars => [ForegroundFreed]_vars
  BY <1>2
<1> QED
  BY <1>1, <1>3, ServesCorrect, AccountsCorrect, Invariant, PTL DEF Spec, ForegroundRuns

\* A pass that finds control disabled ends with nothing held.
THEOREM DisabledThawsCorrect == Exact => (Spec => DisabledThaws)
<1> SUFFICES ASSUME Exact PROVE Spec => DisabledThaws
  OBVIOUS
<1>1. Accountable
  BY ExactIsAccountable
<1>2. ASSUME Inv, Accounts, Serves, Next PROVE DisabledFreed
  <2> SUFFICES ASSUME pc = "disabled", pc' = "idle" PROVE Held' = {}
    BY DEF DisabledFreed
  <2>1. CASE DisabledEnd
    <3>1. Held' = Held /\ queue = {} /\ tx = NoTx
      BY <2>1 DEF DisabledEnd, kernel, Held
    <3> QED
      BY <1>2, <3>1 DEF Serves, DisabledInv, Awaits, NoTx
  <2>2. CASE PassEnd
    BY <2>2 DEF PassEnd
  <2>3. CASE Crash
    BY <1>1, <1>2, <2>3, CrashFrees DEF Accountable
  <2>4. PassEnd \/ DisabledEnd \/ Crash
    BY <1>2, PassEnds
  <2> QED
    BY <2>1, <2>2, <2>3, <2>4
<1>3. Inv /\ Accounts /\ Serves /\ [Next]_vars => [DisabledFreed]_vars
  BY <1>2
<1> QED
  BY <1>1, <1>3, ServesCorrect, AccountsCorrect, Invariant, PTL DEF Spec, DisabledThaws

=============================================================================
