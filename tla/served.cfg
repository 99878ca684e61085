CONSTANTS
  NoIP = NoIP NoMac = NoMac Mark = Mark NoVM = NoVM NoNet = NoNet
  n1 = n1 a3 = a3
  VMs = {v1} Nets = {n1} Macs = {v1} IPs = {a1, a2, a3}
  PoolRange <- AllIPs
  Revoked <- OneRevoked
  Desired <- OneNic
  Env = {"crash", "lagCfg", "lagGuest"}
  Scenarios <- Given
SPECIFICATION MCFairSpec
PROPERTIES EventuallyServed
CHECK_DEADLOCK FALSE
