SPECIFICATION Spec
CONSTANTS
  fire = fire
  payer = payer
  c1 = c1
  c2 = c2
  Dens <- MCDens
  Users <- MCUsers
  Slots <- MCSlots
  SearchDens <- MCDens
  RagDens <- MCRagDens
  HardDen <- MCHardDen
  HardGlobal <- MCHardGlobal
  FreeDen <- MCFree
  DailyUsd = 2
  FreeUsd = 2
  Floor <- MCFloor
  CreditsPerTick = 2
  Estimate <- MCEstimate
  MaxCalls = 1
  MaxTicks = 1
  MaxBalance = 0
  MaxLost = 1
  ChatBound = 0
SYMMETRY MCSymmetry
INVARIANTS TypeOK ToolSpendUnderUsdCeiling
