CONSTANTS
  ks = ks
  hr = hr
  sec = sec
  c1 = c1
  t1 = t1
  w1 = w1
  w2 = w2
  i1 = i1
  i2 = i2
  None = None
  Drifted = Drifted
  Workloads = {w1, w2}
  Templates = {t1}
  Clusters = {c1}
  Names = {hr}
  KindOf <- MCKindOf
  Sources = {"hr"}
  Inputs = {i1}
  Attrs = {"a1"}
  Outcome <- MCOutcome
  Fields <- MCFields
  WorkloadSpecs <- OddSpecs
  Touched = {hr}
  ApiErrors = {"timeout"}
  MaxLag = 2
  MaxChanges = 1
  MaxFaults = 0
SPECIFICATION Spec
INVARIANTS TypeOK NoLostWakeUp ReadyWhenSettled
CHECK_DEADLOCK FALSE
