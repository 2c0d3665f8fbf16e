SPECIFICATION RecoverySpec
CONSTANTS
  Identities = {p1, p2}
  Inodes = {n1, n2, n3}
  None = None
  Invalid = Invalid
SYMMETRY Symmetry
INVARIANTS RecoveryTypeOK HeldStaysOwned NoClaimDuringRewrite
PROPERTIES CompletedStopsAreResumed OthersStayOwned ImplementsStopOwnership
