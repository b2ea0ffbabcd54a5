CONSTANTS
  c1 = c1
  c2 = c2
  Clients = {c1, c2}
  Polite = {c1}
  Requests <- MCRequests
  ReadSize = 2
  Nobody = Nobody
SPECIFICATION ServerSpec
INVARIANTS
  ServerTypeOK
  HeaderFoundAtOnce
  EndedOnlyByAQuitter
  ResetOnlyWithABody
PROPERTY AnsweredUnlessBlocked
\* A server without clients waits in accept.
CHECK_DEADLOCK FALSE
