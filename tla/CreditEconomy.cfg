SPECIFICATION Spec
CONSTANTS
  u1 = u1
  o1 = o1
  o2 = o2
  t1 = t1
  t2 = t2
  d1 = d1
  d2 = d2
  den = den
  Users <- MCUsers
  Orders <- MCOrders
  Calls <- MCCalls
  Debits <- MCDebits
  Struck <- MCStruck
  RowIds <- MCRowIds
  Refs <- MCRefs
  NoRef = den
  Packs <- MCPacks
  Amounts <- MCAmounts
SYMMETRY MCSymmetry
INVARIANTS BalanceIsBoughtLessBurned
PROPERTY EconomyIsAtomic
CHECK_DEADLOCK FALSE
