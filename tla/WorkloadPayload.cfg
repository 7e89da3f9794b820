CONSTANTS
  ks = ks
  hr = hr
  sec = sec
  c1 = c1
  t1 = t1
  w1 = w1
  w2 = w2
  i1 = i1
  i2 = i2
  None = None
  Drifted = Drifted
  Workloads = {w1}
  Templates = {t1}
  Clusters = {c1}
  Names = {sec}
  KindOf <- MCKindOf
  Sources = {"sec"}
  Inputs = {i1}
  Attrs = {"a1", "a2"}
  Outcome <- MCOutcome
  Fields <- MCFields
  WorkloadSpecs <- UsualSpecs
  Touched = {}
  ApiErrors = {"timeout"}
  MaxLag = 2
  MaxChanges = 1
  MaxFaults = 0
SPECIFICATION Spec
INVARIANT PayloadInSync
CHECK_DEADLOCK FALSE
