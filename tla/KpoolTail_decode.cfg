CONSTANTS
  Reqs = {r1, r2}
  Blocks = {b1, b2}
  NoBlock = NoBlock
  NoKey = NoKey
  KPool = 2
  MaxNextN = 2
  MaxPos = 5
SPECIFICATION Spec
INVARIANTS TypeOK PoolsExact
SYMMETRY Symmetry
