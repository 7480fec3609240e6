CONSTANTS
  Requests = {r1, r2, r3}
  Users = {u1, u2}
  NoUser = NoUser
  GlobalConcurrent = 2
  PerUserConcurrentMax = 1
SPECIFICATION FairSpec
INVARIANTS LimitsBind NothingLeaks
PROPERTY HandshakeEnds
