\* Two clients, one of which may try again, and the server's start meet an
\* uninitialized queue client.
CONSTANTS
  r1 = r1
  r2 = r2
  r3 = r3
  x = x
  y = y
  None = None
  Startup = Startup
  Requests = {r1, r2, r3}
  Clients = {x, y}
  Owner <- TwoClients
  Programs <- MCPrograms
  MaxLosses = 2
SPECIFICATION ApiSpec
CHECK_DEADLOCK FALSE
INVARIANTS
  OneConnection
  SharedPromise
  NoLeak
  ApiTypeOK
  NobodyMisled
  RetriesCounted
PROPERTIES
  Answered
  EveryoneHears
