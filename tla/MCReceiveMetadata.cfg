CONSTANTS
  Mounts <- MCMounts
  Requests <- MCRequests
  Limit = 2
SPECIFICATION Spec
INVARIANTS MetadataRefused
