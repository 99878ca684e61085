SPECIFICATION FairSpec
CONSTANTS
  Pools = {p1}
  Networks = {n1}
  Cfgs = {c1}
  NoPool = NoPool
  NoNetwork = NoNetwork
  NetworkOf <- MCNetworkOf
  SameName <- MCNetworkOf
  Held = {}
  Uids = {1, 2, 3, 4, 5, 6}
  MaxEvictions = 1
  MaxLate = 2
  Envs <- MCEnvs
INVARIANTS TypeOK NothingOutlivesInOrder
PROPERTIES AgentKeptInOrder PauseTakesEffectInOrder DeletionCompletesInOrder GoodPodKeptUnpaused
CHECK_DEADLOCK FALSE
