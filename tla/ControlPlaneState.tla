-------------------------- MODULE ControlPlaneState --------------------------
(***************************************************************************)
(* Constants, objects, memory and workers that the three controllers of    *)
(* vm-dhcp-controller (vm, vmnetcfg and ippool) share.                     *)
(***************************************************************************)
EXTENDS Allocators, ApiObject, FiniteSets, Naturals

CONSTANTS
  VMs,       \* virtual machines; a VirtualMachineNetworkConfig has its VM's name
  Nets,      \* networks; each has one IPPool
  PoolRange, \* [Nets -> SUBSET IPs]: spec.ipv4Config.pool start..end
  Revoked,   \* [Nets -> SUBSET IPs]: server, router and excluded addresses in it
  Desired,   \* [VMs -> SUBSET SUBSET Nic]: the interface sets a VM may be given
  Mark,      \* "EXCLUDED" or "RESERVED" in status.ipv4.allocated
  NoVM,      \* the vmnetcfg worker is on no object
  NoNet,     \* the ippool worker is on no object
  Env        \* what the environment does in this instance, see EnvEvents

EnvEvents ==
  {"agent",      \* the controller deploys agents (no --no-agent), over pods and
                 \* NADs that others handle too
   "crash",      \* the controller process restarts
   "pausePool", "pauseCfg",  \* users pause and resume pools and vmnetcfgs
   "change",     \* users change the interfaces of a VM
   "remove",     \* VMs are removed
   "hasty",      \* ... and all that before the controllers have caught up with
                 \* what the user did before
   "static",     \* users create vmnetcfgs with static addresses
   "lagPool",    \* a pool pass may start before the informer has its last write
   "lagCfg",     \* the same for a vmnetcfg pass
   "lagGuest",   \* a vmnetcfg pass may read an IPPool from before its own write
   "giveUp"}     \* the informer lags longer than retry.DefaultBackoff

Nic == [net : Nets, mac : Macs, ip : IPs \cup {NoIP}]

ASSUME EnvAssumption == Env \subseteq EnvEvents
ASSUME ConstantsAssumption ==
  /\ NoMac \notin Macs /\ Mark \notin Macs /\ Mark # NoMac
  /\ NoVM \notin VMs /\ NoNet \notin Nets
  /\ IsFiniteSet(IPs)
  /\ PoolRange \in [Nets -> SUBSET IPs] /\ Revoked \in [Nets -> SUBSET IPs]
  /\ Desired \in [VMs -> SUBSET SUBSET Nic]
\* MAC addresses are not shared between virtual machines.
ASSUME DistinctMacs ==
  \A v, w \in VMs : \A a \in Desired[v], b \in Desired[w] : \A x \in a, y \in b :
    x.mac = y.mac => v = w

Cond == {"Unknown", "True", "False"}

\* An entry of a vmnetcfg's status.networkConfigs. The Stale state exists only
\* inside Sync, whose successful result drops the stale entries.
Rec == [net : Nets, mac : Macs, ip : IPs, state : {"Allocated", "Pending"}]

\* An IPPool. "agent": status.agentPodRef is set.
Pool == [paused : BOOLEAN, ready : Cond, stopped : Cond, agent : BOOLEAN,
         used : Nat, alloc : [IPs -> Macs \cup {NoMac, Mark}]]
NewPool == [paused |-> FALSE, ready |-> "Unknown", stopped |-> "Unknown",
            agent |-> FALSE, used |-> 0, alloc |-> [ip \in IPs |-> NoMac]]

\* A VirtualMachineNetworkConfig; "final": it carries the OnRemove finalizer.
\* The lists of the API type are sets: their order is that of a random map walk.
Cfg == [exists : BOOLEAN, nics : SUBSET Nic, paused : BOOLEAN,
        deleting : BOOLEAN, final : BOOLEAN, recs : SUBSET Rec,
        allocated : Cond, inSynced : Cond, disabled : Cond]
NewCfg(nics) ==
  [exists |-> TRUE, nics |-> nics, paused |-> FALSE, deleting |-> FALSE,
   final |-> FALSE, recs |-> {}, allocated |-> "Unknown",
   inSynced |-> "Unknown", disabled |-> "Unknown"]
NoCfg == [NewCfg({}) EXCEPT !.exists = FALSE]

VARIABLES
  vm,        \* [VMs -> [alive, nics]]: the VirtualMachine objects
  pool,      \* [Nets -> ApiObjects(Pool)]
  cfg,       \* [VMs -> ApiObjects(Cfg)]
  labelled,  \* networks whose NAD has the labels that name its IPPool
  ipam,      \* [Nets -> Subnets]
  macs,      \* [Nets -> MACSets]
  poolQ, cfgQ, vmQ,  \* the work queues of the three controllers
  pw,        \* the ippool worker: next handler, network, object
  cw         \* the vmnetcfg worker, see CfgWork

objects == <<vm, pool, cfg, labelled>>
memory == <<ipam, macs>>
queues == <<poolQ, cfgQ, vmQ>>
vars == <<objects, memory, queues, pw, cw>>

PoolWork == [pc : {"idle", "deploy", "build", "monitor", "change"},
             n : Nets \cup {NoNet}, obj : Pool]
IdlePool == [pc |-> "idle", n |-> NoNet, obj |-> NewPool]

\* "todo": interfaces Allocate has not visited; "clean": records cleanup has not
\* visited; "cur": the record whose entry in the IPPool is being written, its
\* part in memory being done; "acc": the status Allocate has collected.
CfgWork == [pc : {"idle", "allocate", "sync", "change", "remove"},
            v : VMs \cup {NoVM}, obj : Cfg, todo : SUBSET Nic,
            clean : SUBSET Rec, cur : SUBSET Rec, acc : SUBSET Rec]
IdleCfg == [pc |-> "idle", v |-> NoVM, obj |-> NoCfg, todo |-> {},
            clean |-> {}, cur |-> {}, acc |-> {}]

\* Stored objects, caches, queues and workers have values of their types, and a worker
\* is idle exactly when it has no key.
TypeOK ==
  /\ vm \in [VMs -> [alive : BOOLEAN, nics : SUBSET Nic]]
  /\ pool \in [Nets -> ApiObjects(Pool)]
  /\ cfg \in [VMs -> ApiObjects(Cfg)]
  /\ labelled \subseteq Nets
  /\ ipam \in [Nets -> Subnets] /\ macs \in [Nets -> MACSets]
  /\ poolQ \subseteq Nets /\ cfgQ \subseteq VMs /\ vmQ \subseteq VMs
  /\ pw \in PoolWork /\ (pw.pc = "idle" <=> pw.n = NoNet)
  /\ cw \in CfgWork /\ (cw.pc = "idle" <=> cw.v = NoVM)

Init ==
  /\ vm = [v \in VMs |-> [alive |-> FALSE, nics |-> {}]]
  /\ pool = [n \in Nets |-> Listed(NewPool)]
  /\ cfg = [v \in VMs |-> Listed(NoCfg)]
  /\ labelled = {}
  /\ ipam = [n \in Nets |-> NoSubnet] /\ macs = [n \in Nets |-> NoMACSet]
  /\ poolQ = Nets /\ cfgQ = {} /\ vmQ = {}
  /\ pw = IdlePool /\ cw = IdleCfg

Also(q, k, cond) == IF cond THEN q \cup {k} ELSE q
=============================================================================
