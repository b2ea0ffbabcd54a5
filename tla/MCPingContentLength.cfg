CONSTANTS
  c1 = c1
  c2 = c2
  Clients = {c1, c2}
  Polite = {c1}
  Requests <- MCRequests
  ReadSize = 2
  Nobody = Nobody
SPECIFICATION ServerSpec
INVARIANT ContentLengthHonoured
CHECK_DEADLOCK FALSE
