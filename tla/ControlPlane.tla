----------------------------- MODULE ControlPlane -----------------------------
(***************************************************************************)
(* The control plane of vm-dhcp-controller: the vm, vmnetcfg and ippool    *)
(* controllers, one worker goroutine each, over shared objects and caches, *)
(* in an environment of users, lagging informers and restarts.             *)
(***************************************************************************)
EXTENDS IPPoolController, VmNetCfgController, VmController

-----------------------------------------------------------------------------
\* Users. An Update or Delete of theirs is based on the stored version.

\* The vmnetcfg has one allocated address for each of the VM's interfaces and
\* nothing else.
Served(v) ==
  LET c == cfg[v].api IN
  /\ c.exists /\ c.nics = prepareVmNetCfg(vm[v].nics) /\ c.allocated = "True"
  /\ {<<r.net, r.mac, r.state>> : r \in c.recs}
       = {<<nc.net, nc.mac, "Allocated">> : nc \in c.nics}

GiveVM(v) ==
  /\ ~vm[v].alive
  /\ "hasty" \in Env \/ (~cfg[v].api.exists /\ ~cfg[v].inf.exists)
  /\ \E nics \in Desired[v] : vm' = [vm EXCEPT ![v] = [alive |-> TRUE, nics |-> nics]]
  /\ vmQ' = vmQ \cup {v}
  /\ UNCHANGED <<pool, cfg, labelled, memory, poolQ, cfgQ, pw, cw>>

ChangeVM(v) ==
  /\ "change" \in Env /\ vm[v].alive
  /\ "hasty" \in Env \/ Served(v)
  /\ \E nics \in Desired[v] \ {vm[v].nics} : vm' = [vm EXCEPT ![v].nics = nics]
  /\ vmQ' = vmQ \cup {v}
  /\ UNCHANGED <<pool, cfg, labelled, memory, poolQ, cfgQ, pw, cw>>

\* The garbage collector deletes the vmnetcfg with its owner. Without a finalizer
\* the object is gone at once.
RemoveVM(v) ==
  LET s == cfg[v] IN
  /\ "remove" \in Env /\ vm[v].alive
  /\ "hasty" \in Env \/ (s.api.final /\ Served(v))
  /\ vm' = [vm EXCEPT ![v] = [alive |-> FALSE, nics |-> {}]]
  /\ vmQ' = vmQ \cup {v}
  /\ cfg' = IF ~s.api.exists THEN cfg
            ELSE [cfg EXCEPT ![v] = Written(s,
                    IF s.api.final THEN [s.api EXCEPT !.deleting = TRUE] ELSE NoCfg, "other")]
  /\ UNCHANGED <<pool, labelled, memory, poolQ, cfgQ, pw, cw>>

\* A vmnetcfg written by hand, with the addresses the user wants.
CreateCfg(v) ==
  /\ "static" \in Env /\ ~vm[v].alive /\ ~cfg[v].api.exists
  /\ \E nics \in Desired[v] :
       cfg' = [cfg EXCEPT ![v] = Written(@, NewCfg(nics), "other")]
  /\ UNCHANGED <<vm, pool, labelled, memory, queues, pw, cw>>

PauseCfg(v) ==
  LET c == cfg[v].api IN
  /\ "pauseCfg" \in Env /\ c.exists
  /\ "hasty" \in Env \/ (IF c.paused THEN c.disabled = "True" ELSE Served(v))
  /\ cfg' = [cfg EXCEPT ![v] = Written(cfg[v], [c EXCEPT !.paused = ~c.paused], "other")]
  /\ UNCHANGED <<vm, pool, labelled, memory, queues, pw, cw>>

PausePool(n) ==
  LET p == pool[n].api IN
  /\ "pausePool" \in Env
  /\ pool' = [pool EXCEPT ![n] = Written(pool[n], [p EXCEPT !.paused = ~p.paused], "other")]
  /\ UNCHANGED <<vm, cfg, labelled, memory, queues, pw, cw>>

-----------------------------------------------------------------------------
\* The informers and the process.

DeliverPool(n) ==
  /\ "informer" \notin pool[n].fresh
  /\ pool' = [pool EXCEPT ![n] = Delivered(@)]
  /\ poolQ' = poolQ \cup {n}
  /\ UNCHANGED <<vm, cfg, labelled, memory, cfgQ, vmQ, pw, cw>>

DeliverCfg(v) ==
  /\ "informer" \notin cfg[v].fresh
  /\ cfg' = [cfg EXCEPT ![v] = Delivered(@)]
  /\ cfgQ' = cfgQ \cup {v}
  /\ UNCHANGED <<vm, pool, labelled, memory, poolQ, vmQ, pw, cw>>

\* The process, or the leader, is replaced: the caches are empty, the informers
\* list every object, and every object is reconciled.
Crash ==
  /\ "crash" \in Env
  /\ pool' = [n \in Nets |-> Listed(pool[n].api)]
  /\ cfg' = [v \in VMs |-> Listed(cfg[v].api)]
  /\ ipam' = [n \in Nets |-> NoSubnet] /\ macs' = [n \in Nets |-> NoMACSet]
  /\ poolQ' = Nets
  /\ cfgQ' = {v \in VMs : cfg[v].api.exists} /\ vmQ' = {v \in VMs : vm[v].alive}
  /\ pw' = IdlePool /\ cw' = IdleCfg
  /\ UNCHANGED <<vm, labelled>>

-----------------------------------------------------------------------------
UserStep ==
  \/ \E v \in VMs : GiveVM(v) \/ ChangeVM(v) \/ RemoveVM(v) \/ CreateCfg(v) \/ PauseCfg(v)
  \/ \E n \in Nets : PausePool(n)
Deliver == (\E n \in Nets : DeliverPool(n)) \/ (\E v \in VMs : DeliverCfg(v))
PoolController == PoolStep \/ \E n \in Nets : StartPool(n)
CfgController == CfgStep \/ \E v \in VMs : StartCfg(v)
VMController == \E v \in VMs : VMOnChange(v)

Next ==
  \/ UserStep \/ Deliver \/ Crash
  \/ PoolController \/ CfgController \/ VMController

Spec == Init /\ [][Next]_vars

\* Every goroutine goes on, every watch event arrives, and the work queues are
\* first in, first out: a key that waits is served although others return. The random
\* order of a map's elements is, now and then, the order of the list in the spec.
Fairness ==
  /\ WF_vars(PoolStep) /\ WF_vars(CfgStep)
  /\ \A n \in Nets : WF_vars(DeliverPool(n)) /\ SF_vars(StartPool(n))
  /\ \A v \in VMs : WF_vars(DeliverCfg(v)) /\ SF_vars(StartCfg(v))
  /\ \A v \in VMs : WF_vars(VMOnChange(v)) /\ SF_vars(VMUnchanged(v))

FairSpec == Spec /\ Fairness

-----------------------------------------------------------------------------
RecordedIPs(p) == {ip \in IPs : p.alloc[ip] \in Macs}

\* The addresses a vmnetcfg's status gives to interfaces it still wants.
Held(v) ==
  LET c == cfg[v].api IN
  {r \in c.recs : /\ c.exists /\ ~c.deleting /\ ~c.paused
                  /\ r.state = "Allocated" /\ r.mac \in MacsOf(c.nics)}

\* Every address a vmnetcfg holds is recorded for its interface in the IPPool's
\* status, the source of truth that BuildCache rebuilds the caches from and the
\* agent takes its leases from.
Recorded ==
  \A v \in VMs : \A r \in Held(v) : pool[r.net].api.alloc[r.ip] = r.mac

\* No address is given to two interfaces: AllocateIP refuses a used address, and
\* no interleaving of rebuilds and releases makes it free for another vmnetcfg.
Exclusive ==
  \A v, w \in VMs : \A r \in Held(v), q \in Held(w) :
    r.net = q.net /\ r.ip = q.ip => r.mac = q.mac

\* An address that an IPPool's status records for an interface is never one that
\* AllocateIP could hand out, whatever rebuilt the caches and from which copy;
\* except while cleanup, done with the caches, is at the entry of that address.
NotFree ==
  \A n \in Nets : \A ip \in ipam[n].free \cap RecordedIPs(pool[n].api) :
    cw.pc # "allocate" /\ \E r \in cw.cur : r.net = n /\ r.ip = ip

\* The two-step update of a vmnetcfg avoids allocate-before-deallocate: the pools
\* never record addresses for interfaces the VM never had at the same time.
DeallocateFirst ==
  \A v \in VMs : \E nics \in Desired[v] \cup {{}} :
    \A n \in Nets : \A ip \in RecordedIPs(pool[n].api) :
      LET m == pool[n].api.alloc[ip] IN
        (\E other \in Desired[v] : m \in MacsOf(other)) => m \in MacsOf(nics)

\* What IPPools record and vmnetcfgs hold, as AddressService has it.
Ledger == [n \in Nets |-> [ip \in IPs |->
             IF pool[n].api.alloc[ip] \in Macs THEN pool[n].api.alloc[ip] ELSE NoMac]]
HeldByAll == UNION {{<<r.net, r.ip, r.mac>> : r \in Held(v)} : v \in VMs}
Service == INSTANCE AddressService WITH ledger <- Ledger, held <- HeldByAll

\* What the three controllers do to IPPools and vmnetcfgs, with all restarts, rebuilds
\* and refused writes in between, is what an AddressService does.
ImplementsService == Service!Spec

\* Nothing is queued, running or on its way.
AtRest ==
  /\ poolQ = {} /\ cfgQ = {} /\ vmQ = {} /\ pw.pc = "idle" /\ cw.pc = "idle"
  /\ \A n \in Nets : "informer" \in pool[n].fresh
  /\ \A v \in VMs : "informer" \in cfg[v].fresh

\* At rest the caches of a pool are built and say what its status says.
CachesAgree ==
  AtRest => \A n \in Nets : LET p == pool[n].api IN
    ~p.paused =>
      /\ p.ready = "True" /\ ipam[n].exists
      /\ ipam[n].used = RecordedIPs(p) /\ p.used = Cardinality(ipam[n].used)
      /\ \A m \in Macs : LET mine == {ip \in IPs : p.alloc[ip] = m}
                         IN mine = {macs[n].ip[m]} \ {NoIP}

\* At rest every VM is served.
AllServed == AtRest => \A v \in VMs : vm[v].alive => Served(v)

\* At rest every address recorded in a pool is that of some vmnetcfg: a VM that
\* is gone, or an interface it no longer has, keeps none.
NoLeak ==
  AtRest => \A n \in Nets : \A ip \in RecordedIPs(pool[n].api) :
    \E v \in VMs : \E r \in cfg[v].api.recs :
      r.net = n /\ r.ip = ip /\ r.mac = pool[n].api.alloc[ip]

\* A static address of the spec is the one the interface gets.
StaticHonoured ==
  \A v \in VMs : \A r \in cfg[v].api.recs : \A nc \in cfg[v].api.nics :
    nc.mac = r.mac /\ nc.ip # NoIP => r.ip = nc.ip

\* Once restarts stop, every VM gets its addresses, whatever the last restart has
\* interrupted.
EventuallyServed == <>[][~Crash]_vars => \A v \in VMs : vm[v].alive ~> Served(v)

\* Once users stop changing a VM, its last interfaces reach the vmnetcfg's spec.
ChangesApplied ==
  <>[][\A v \in VMs : ~ChangeVM(v)]_vars =>
    \A v \in VMs : <>[](vm[v].alive => cfg[v].api.nics = prepareVmNetCfg(vm[v].nics))
=============================================================================
