\* Federated logins and logouts, and the rate limiter, in the scenes of MCAll.
SPECIFICATION EndpointsSpec
CONSTANTS
  Logins = {1, 2, 3, 4, 5}
  Claims <- MCClaims
  Deliveries = {1, 2}
  Fronts = {1}
  Scenes <- MCAll
  NoSid = "none"
  NoSub = "nosub"
  MaxAge = 1
  MaxFuture = 1
  TicksPerSec = 2
  SidTtl = 1
  SidCapacity = 2
  Batch = 1
  QueueSlack = 0
  JtiCapacity = 1
  Threads = {1, 2}
  Targets <- MCTargets
  NoGroup = "none"
  MaxRequests = 2
  WindowMs = 4
  MinSweepMs = 1
  HardCap = 4
  GroupCap = 2
  MsPerSec = 3
INVARIANTS LogoutReaches EndedForCause LogoutDone  LimitsHold
CHECK_DEADLOCK FALSE
