SPECIFICATION FairSpec
CONSTANTS
  None = None
  MaxChanges = 3
  MaxFaults = 1
  MaxLag = 2
INVARIANTS TypeOK PruneKeptWithSecret PruneRestored
PROPERTIES KustomizationGoes WorkloadGoes
CHECK_DEADLOCK FALSE
