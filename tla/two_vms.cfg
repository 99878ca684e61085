CONSTANTS
  NoIP = NoIP NoMac = NoMac Mark = Mark NoVM = NoVM NoNet = NoNet
  n1 = n1 a3 = a3
  VMs = {v1, v2} Nets = {n1} Macs = {v1, v2} IPs = {a1, a3}
  PoolRange <- AllIPs
  Revoked <- OneRevoked
  Desired <- OneNic
  Env = {"crash"}
  Scenarios <- Given
SPECIFICATION MCSpec
SYMMETRY AnyVMs
INVARIANTS TypeOK CalmInv Recorded Exclusive NotFree
PROPERTIES ImplementsService
CHECK_DEADLOCK FALSE
