CONSTANTS
  ks = ks
  hr = hr
  sec = sec
  c1 = c1
  t1 = t1
  w1 = w1
  w2 = w2
  i1 = i1
  i2 = i2
  None = None
  Drifted = Drifted
  Workloads = {w1}
  Templates = {t1}
  Clusters = {c1}
  Names = {ks, sec}
  KindOf <- MCKindOf
  Sources = {"ks_sec"}
  Inputs = {i1}
  Attrs = {"a1"}
  Outcome <- MCOutcome
  Fields <- MCFields
  WorkloadSpecs <- UsualSpecs
  Touched = {ks}
  ApiErrors = {"timeout"}
  MaxLag = 2
  MaxChanges = 2
  MaxFaults = 1
SPECIFICATION Spec
INVARIANTS NoLostWakeUp ReadyWhenSettled OneFailureHeals
CHECK_DEADLOCK FALSE
