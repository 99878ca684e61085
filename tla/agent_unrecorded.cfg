SPECIFICATION FairSpec
CONSTANTS
  Pools = {p1}
  Networks = {n1}
  Cfgs = {c1}
  NoPool = NoPool
  NoNetwork = NoNetwork
  NetworkOf <- MCNetworkOf
  SameName <- MCNetworkOf
  Held = {}
  Uids = {1, 2, 3, 4, 5, 6}
  MaxEvictions = 0
  MaxLate = 0
  Envs = {{"upgrade", "busy"}}
PROPERTY AgentKept
CHECK_DEADLOCK FALSE
