CONSTANTS
  w1 = w1
  c1 = c1
  c2 = c2
  u1 = u1
  u2 = u2
  u3 = u3
  o1 = o1
  o2 = o2
  ta = ta
  tb = tb
  tc = tc
  i1 = i1
  r1 = r1
  r2 = r2
  None = None
  Failed = Failed
  Workloads = {w1}
  Clusters = {c1, c2}
  Uids = {u1, u3}
  NameOf <- MCNameOf
  OrgOf <- MCOrgOf
  Orgs = {o1, o2}
  Inputs = {i1}
  Templates = {ta, tc}
  RefName <- MCRefName
  Manifests <- MovingManifests
  Sources <- PlainSource
  InitialSources <- GoodSources
  Requests = {r1, r2}
  MaxEdits = 0
  MaxRestarts = 0
SPECIFICATION Spec
INVARIANTS TypeOK InputsFit
PROPERTY ReferencesImmutable
SYMMETRY RequestSymmetry
