SPECIFICATION Spec
CONSTANTS
  h1 = h1
  h2 = h2
  a = a
  b = b
  c = c
  x1 = x1
  x2 = x2
  None = None
  Slots <- MCSlots
  Seats <- MCSeats
  Sockets <- MCSockets
  MaxSeats = 1
INVARIANT NoHalfOpenSpend
