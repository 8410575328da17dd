SPECIFICATION PoolsSpec
CONSTANTS
  FeeNum = 1
  FeeScale = 10
  MinLiquidity = 1
  Coins = 22
  Sizes = {4, 11}
  MaxCalls = 4
  MinTick <- LowTick
  MaxTick = 2
  SqrtPrice <- RootTwo
  Q = 16
  Ranges <- SomeRanges
  WordSize = 2
  FeePips = 3000
  PipScale = 1000000
  Liquidities = {24}
  Swapped = {2, 30}
  Starts = {8, 13, 16}
  Limits = {9, 16, 31}
  MaxV3Calls = 6
INVARIANTS
  Backed
  QuoteAccepted
  TotalsAgree
  
  
  
PROPERTIES
  ShareValueKept
CHECK_DEADLOCK FALSE
