CONSTANTS
  NoIP = NoIP NoMac = NoMac Mark = Mark NoVM = NoVM NoNet = NoNet
  n1 = n1 a3 = a3
  VMs = {v1, v2} Nets = {n1} Macs = {v1, v2} IPs = {a1, a2, a3}
  PoolRange <- AllIPs
  Revoked <- OneRevoked
  Desired <- OneNic
  Env = {}
  Scenarios <- Several
SPECIFICATION MCSpec
SYMMETRY AnyVMs
INVARIANTS NotFreeUnlessGivenUp ReplacedInOrder StaticHonoured AllServed Settled KeptInStep
PROPERTIES ImplementsService
CHECK_DEADLOCK FALSE
