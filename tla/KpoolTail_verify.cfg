CONSTANTS
  Reqs = {r1}
  Blocks = {b1}
  NoBlock = NoBlock
  NoKey = NoKey
  KPool = 4
  MaxNextN = 4
  MaxPos = 8
SPECIFICATION Spec
INVARIANT PoolsExact
