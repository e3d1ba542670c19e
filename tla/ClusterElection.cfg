SPECIFICATION Spec
CONSTANTS
  m0 = m0  m1 = m1  m2 = m2  s1 = s1  s2 = s2
  Masters <- mcMasters
  Failed <- mcFailed
  Replicas <- mcReplicas
  MasterOf <- mcMasterOf
  Limits <- mcRetryOrCrash
SYMMETRY Symmetry
CHECK_DEADLOCK FALSE
INVARIANTS ElectionSafety OneVotePerEpoch
