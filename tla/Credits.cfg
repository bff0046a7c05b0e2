SPECIFICATION Spec
CONSTANTS
  u1 = u1
  u2 = u2
  d1 = d1
  d2 = d2
  d3 = d3
  g1 = g1
  g2 = g2
  den = den
  Users <- MCUsers
  Debits <- MCDebits
  Grants <- MCGrants
  RowIds <- MCRowIds
  Refs <- MCRefs
  NoRef = den
  Amounts <- MCAmounts
  Struck <- MCStruck
SYMMETRY MCSymmetry
INVARIANTS TypeOK NoOverdraft LedgerExplainsBalance EveryDebitHasItsRow AnswersMatchTheLedger
PROPERTY DebitsAreAtomic
CHECK_DEADLOCK FALSE
