SPECIFICATION Spec
CONSTANTS
  fire = fire
  payer = payer
  c1 = c1
  c2 = c2
  Dens <- MCDens
  Users <- MCUsers
  Slots <- MCSlots
  SearchDens <- MCDens
  RagDens <- MCNoDens
  HardDen <- MCHardDen
  HardGlobal <- MCHardGlobal
  FreeDen <- MCFree
  DailyUsd = 1
  FreeUsd = 1
  Floor <- MCFloor
  CreditsPerTick = 2
  Estimate <- MCEstimate
  MaxCalls = 1
  MaxTicks = 1
  MaxBalance = 2
  MaxLost = 1
  ChatBound = 3
INVARIANT UsdCeilingHolds
