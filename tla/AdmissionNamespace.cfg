CONSTANTS
  w1 = w1
  c1 = c1
  c2 = c2
  u1 = u1
  u2 = u2
  u3 = u3
  o1 = o1
  o2 = o2
  ta = ta
  tb = tb
  tc = tc
  i1 = i1
  r1 = r1
  r2 = r2
  None = None
  Failed = Failed
  Workloads = {w1}
  Clusters = {c1}
  Uids = {u1}
  NameOf <- MCNameOf
  OrgOf <- MCOrgOf
  Orgs = {o1, o2}
  Inputs = {i1}
  Templates = {ta, tb}
  RefName <- MCRefName
  Manifests <- TemplateManifests
  Sources <- PlainSource
  InitialSources <- PlainSource
  Requests = {r1}
  MaxEdits = 0
  MaxRestarts = 0
SPECIFICATION Spec
PROPERTY TemplateRefImmutable
SYMMETRY RequestSymmetry
