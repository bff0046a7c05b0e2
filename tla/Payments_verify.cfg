SPECIFICATION Spec
CONSTANTS
  u1 = u1
  u2 = u2
  o1 = o1
  o2 = o2
  t1 = t1
  t2 = t2
  Users <- MCUsers
  Orders <- MCOrders
  Calls <- MCCalls
  RowIds <- MCCalls
  Refs <- MCOrders
  Packs <- MCPacks
PROPERTY BothPathsVerify
CHECK_DEADLOCK FALSE
