SPECIFICATION FairLockSpec
CONSTANTS
  Clients = {c1, c2, c3, c4}
  Repositories = {r1, r2}
  NoClient = NoClient
  NoRepository = NoRepository
INVARIANT NoWaiterIsStranded
PROPERTY WaitersGetIn
