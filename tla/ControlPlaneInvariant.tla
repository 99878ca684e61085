------------------------ MODULE ControlPlaneInvariant ------------------------
(***************************************************************************)
(* Why addresses stay recorded and exclusive as long as none is released:  *)
(* an inductive invariant of the control plane in a calm environment.      *)
(* Allocation, restarts, agents, pauses of pools, hand-written vmnetcfgs   *)
(* and lagging copies are all in it; CalmProofs has the proof.             *)
(* And why static addresses are honoured there: AsAsked.                   *)
(***************************************************************************)
EXTENDS ControlPlane

\* Interfaces are neither changed, removed nor paused, and an ippool pass starts
\* with the status the last one wrote.
Calm == Env \cap {"change", "remove", "hasty", "pauseCfg", "lagPool"} = {}

\* Every entry of "p" for an interface is in "q".
Within(p, q) == \A ip \in IPs : p.alloc[ip] \in Macs => q.alloc[ip] = p.alloc[ip]

\* The copies of an IPPool. One that is not ready lacks no entry: entries are only
\* made by writers whose fresh copy was ready, and readiness is only changed by
\* the worker, which waits for its own writes to come back.
PoolCopies(n) ==
  LET s == pool[n]
      mine == pw.n = n
  IN /\ "informer" \in s.fresh => s.inf = s.api
     /\ "worker" \in s.fresh => mine /\ pw.obj = s.api
     /\ "worker" \notin s.unseen => s.inf.ready = s.api.ready
     /\ Within(s.inf, s.api)
     /\ s.inf.ready # "True" => Within(s.api, s.inf)
     /\ mine => Within(pw.obj, s.api)
     /\ mine /\ pw.pc \in {"deploy", "build"} /\ pw.obj.ready # "True" =>
          s.api.ready # "True" /\ Within(s.api, pw.obj)

\* The caches of a network, if there are any, know of every entry of its pool and
\* contradict none. "ips" are the addresses that may be given out.
CachesMatch(p, subnet, set, ips) ==
  /\ RecordedIPs(p) \subseteq ips
  /\ subnet.exists = set.exists
  /\ IF subnet.exists THEN RecordedIPs(p) \subseteq subnet.used
                      ELSE subnet.free = {} /\ subnet.used = {}
  /\ subnet.free \cup subnet.used \subseteq ips
  /\ subnet.free \cap subnet.used = {}
  /\ \A m \in Macs : set.ip[m] # NoIP => /\ set.ip[m] \in subnet.used
                                         /\ p.alloc[set.ip[m]] \in Macs => p.alloc[set.ip[m]] = m
  /\ \A m, k \in Macs : set.ip[m] # NoIP /\ set.ip[m] = set.ip[k] => m = k
CachesSound(n) == CachesMatch(pool[n].api, ipam[n], macs[n], PoolRange[n] \ Revoked[n])

\* An allocation on its way to the pool: as long as its copy of the pool is fresh
\* the entry it will write is free or its own, and the caches have it.
PendingSound ==
  cw.pc = "allocate" => \A r \in cw.cur :
    LET s == pool[r.net] IN
    "guest" \in s.fresh =>
      /\ "informer" \in s.fresh /\ s.api.ready = "True"
      /\ r.ip \in PoolRange[r.net] \ Revoked[r.net]
      /\ s.api.alloc[r.ip] \in Macs => s.api.alloc[r.ip] = r.mac
      /\ ipam[r.net].exists => /\ r.ip \in ipam[r.net].used
                               /\ macs[r.net].ip[r.mac] = r.ip

\* A copy of a vmnetcfg gives nothing to clean up, and its records are in the pools.
RecsSound(recs, nics) ==
  \A r \in recs : r.mac \in MacsOf(nics) /\ pool[r.net].api.alloc[r.ip] = r.mac
Plain(c) == ~c.paused /\ ~c.deleting /\ RecsSound(c.recs, c.nics)

CfgCopies(v) ==
  LET s == cfg[v] IN
  /\ "informer" \in s.fresh => s.inf = s.api
  /\ "worker" \in s.fresh => cw.v = v /\ cw.obj = s.api
  /\ Plain(s.api) /\ Plain(s.inf)
  /\ vm[v].alive /\ s.api.exists => s.api.nics = prepareVmNetCfg(vm[v].nics)

PassSound ==
  /\ Plain(cw.obj) /\ RecsSound(cw.acc, cw.obj.nics)
  /\ cw.todo \subseteq cw.obj.nics /\ cw.clean = {}
  /\ cw.cur # {} => cw.pc = "allocate"
  /\ \A r \in cw.cur : r.mac \in MacsOf(cw.obj.nics)

\* The inductive invariant: the caches hold every address the pools record, every
\* record of a vmnetcfg is one of them, and no copy a handler works on hides one.
Sound ==
  /\ \A n \in Nets : PoolCopies(n) /\ CachesSound(n)
  /\ \A v \in VMs : CfgCopies(v)
  /\ PendingSound /\ PassSound
CalmInv == Calm => Sound
-----------------------------------------------------------------------------
\* Whose addresses are asked for: specs stay what users wrote, with or without the
\* addresses, and no copy of one has an interface the stored one lacks.
Wishes(v) == {{}} \cup Desired[v] \cup {prepareVmNetCfg(nics) : nics \in Desired[v]}
SpecsKept(v) ==
  LET c == cfg[v] IN
  /\ vm[v].alive => vm[v].nics \in Desired[v]
  /\ c.api.nics \in Wishes(v) /\ (~c.api.exists => c.api.nics = {})
  /\ c.inf.nics \subseteq c.api.nics
  /\ cw.v = v => cw.obj.nics \subseteq c.api.nics

\* Some vmnetcfg has an interface "m" that is to have this address, or any.
Asked(m, ip) == \E v \in VMs : \E nc \in cfg[v].api.nics : nc.mac = m /\ nc.ip \in {NoIP, ip}

\* Pools, caches and the allocation under way give interfaces what they asked for.
Granted ==
  /\ \A n \in Nets : \A ip \in RecordedIPs(pool[n].api) : Asked(pool[n].api.alloc[ip], ip)
  /\ \A n \in Nets, m \in Macs : macs[n].ip[m] # NoIP => Asked(m, macs[n].ip[m])
  /\ \A r \in cw.cur : Asked(r.mac, r.ip)

AsAsked == (\A v \in VMs : SpecsKept(v)) /\ Granted
=============================================================================
