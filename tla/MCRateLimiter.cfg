CONSTANTS
  Clusters = {c1, c2}
  NoCluster = nocluster
  Handlers = {h1, h2}
  Limit = 2
  MaxTime = 4
SPECIFICATION Spec
SYMMETRY Symmetry
INVARIANTS TypeOK Spacing BucketMatchesHistory
PROPERTIES ImplementsQuota
