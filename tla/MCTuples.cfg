CONSTANTS
  Width = 2
  PoolSize = 2
  Addresses = {s1, s2, s3}
  Scalars = {1}
SYMMETRY AnyAddress
SPECIFICATION Spec
INVARIANTS
  OneOwner
  TreeKept
