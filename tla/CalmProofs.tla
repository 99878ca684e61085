----------------------------- MODULE CalmProofs -----------------------------
(***************************************************************************)
(* Sound (ControlPlaneInvariant) is kept by every step in a calm           *)
(* environment: those of the vmnetcfg controller, of the ippool and vm     *)
(* controllers, and of users, informers and restarts. So addresses stay    *)
(* recorded, exclusive and out of the free list, the control plane         *)
(* implements AddressService, and static addresses are honoured.           *)
(***************************************************************************)
EXTENDS ControlPlaneLemmas

\* Most leaves are first-order: Zenon is tried first, the SMT solver after it.
USE ZenonT(2), SMTT(20), ZenonT(20)

-----------------------------------------------------------------------------
\* The vmnetcfg controller.

\* A handler ends, or the pass, with an object that has its interfaces and sound
\* records: nothing will be cleaned up.
LEMMA CfgHandledSound ==
  ASSUME TypeOK, TypeOK', Sound, cw.pc # "idle",
         NEW new \in Cfg, NEW failed \in BOOLEAN, NEW next,
         Plain(new), new.exists = cw.obj.exists, new.nics = cw.obj.nics,
         Handled(new, failed, next) \/ CfgPassEnds(new, failed),
         UNCHANGED <<vm, memory, pw>>,
         \A n \in Nets : /\ pool'[n].api = pool[n].api /\ pool'[n].inf = pool[n].inf
                         /\ pool'[n].unseen = pool[n].unseen
                         /\ \A h \in {"informer", "worker"} :
                              h \in pool'[n].fresh <=> h \in pool[n].fresh
  PROVE  Sound'
<1>0. PICK v \in VMs : v = cw.v
  BY DEF TypeOK, CfgWork
<1>1. (\A n \in Nets : PoolCopies(n))' /\ (\A n \in Nets : CachesSound(n))'
  BY GuestOnly
<1>2. \A r \in Rec : pool'[r.net].api.alloc[r.ip] = pool[r.net].api.alloc[r.ip]
  BY DEF Rec
<1>3. /\ cfg[v] \in ApiObjects(Cfg) /\ cw.obj \in Cfg /\ NoVM \notin VMs
      /\ new.recs \subseteq Rec /\ cfg[v].fresh \subseteq Holder
  BY ConstantsAssumption DEF TypeOK, CfgWork, ApiObjects, Cfg
<1>4. \A w \in VMs : cfg[w].api.recs \subseteq Rec /\ cfg[w].inf.recs \subseteq Rec
  BY DEF TypeOK, ApiObjects, Cfg
<1>5. ToClean(next, new) = {}
  BY DEF ToClean, StaleRecs, Plain, RecsSound
<1>6. \/ /\ cw'.v = v /\ cw'.obj = new /\ cw'.clean = {}
         /\ cw'.cur = {} /\ cw'.acc = {} /\ cw'.todo = {}
      \/ /\ cw'.v = NoVM /\ cw'.obj = NoCfg /\ cw'.clean = {} /\ "worker" \notin cfg'[v].fresh
         /\ cw'.cur = {} /\ cw'.acc = {} /\ cw'.todo = {}
  <2>1. CASE Handled(new, failed, next)
    BY <1>0, <1>5, <2>1, HandledWork
  <2>2. CASE CfgPassEnds(new, failed)
    <3>1. "worker" \notin cfg'[v].fresh
      BY <1>0, <1>3, <2>2 DEF CfgPassEnds, Dropped, TypeOK
    <3> QED BY <2>2, <3>1, HandledWork
  <2> QED BY <2>1, <2>2
<1>7. cw'.cur = {} /\ cw'.acc = {} /\ cw'.todo = {}
  BY <1>6, SMTT(60), ZenonT(60)
<1>8. \/ /\ "worker" \in cfg[v].fresh /\ cfg'[v].api = new /\ cfg'[v].inf = cfg[v].inf
         /\ cfg'[v].fresh \subseteq {"worker"}
      \/ /\ cfg'[v].api = cfg[v].api /\ cfg'[v].inf = cfg[v].inf
         /\ cfg'[v].fresh \in {cfg[v].fresh, cfg[v].fresh \ {"worker"}}
         /\ "worker" \in cfg'[v].fresh => new = cw.obj
  <2> DEFINE t == Saved(cfg[v], new, new # cw.obj)
  <2>1. cfg'[v] = t \/ cfg'[v] = Dropped(t, "worker")
    BY <1>0, StateTypes DEF Handled, CfgPassEnds
  <2>2. \/ /\ "worker" \in cfg[v].fresh /\ t.api = new /\ t.inf = cfg[v].inf
           /\ t.fresh = {"worker"}
        \/ t = cfg[v] /\ (new # cw.obj => "worker" \notin cfg[v].fresh)
    BY DEF Saved, Written
  <2> HIDE DEF t
  <2>3. cfg'[v].api = t.api /\ cfg'[v].inf = t.inf /\ cfg'[v].fresh \in {t.fresh, t.fresh \ {"worker"}}
    BY <2>1, DroppedFacts
  <2> QED BY <2>2, <2>3
<1>9. \A w \in VMs \ {v} : cfg'[w] = cfg[w] /\ cw'.v # w
  <2>1. \A w \in VMs \ {v} : cfg'[w] = cfg[w]
    BY <1>0, StateTypes DEF Handled, CfgPassEnds
  <2> QED BY <1>3, <1>6, <2>1
<1>10. Plain(NoCfg)' /\ Plain(new)'
  BY <1>2, <1>3, SMTT(60), ZenonT(60) DEF Plain, RecsSound, NoCfg, NewCfg
<1>11. PassSound'
  BY <1>6, <1>7, <1>10 DEF PassSound, RecsSound, Plain
<1>12. PendingSound'
  BY <1>7, SMTT(60), ZenonT(60) DEF PendingSound
<1>13. CfgCopies(v)'
  <2>1. CfgCopies(v)
    BY SMTT(60), ZenonT(60) DEF Sound
  <2>2. Plain(cfg[v].inf)' /\ Plain(cfg[v].api)'
    <3>1. Plain(cfg[v].inf) /\ Plain(cfg[v].api)
      BY <2>1 DEF CfgCopies
    <3>2. \A c \in {cfg[v].inf, cfg[v].api} : Plain(c)'
      BY <1>2, <1>4, <3>1 DEF Plain, RecsSound
    <3>3. cfg'[v].inf = cfg[v].inf /\ cfg'[v].api \in {new, cfg[v].api}
      BY <1>8
    <3>4. Plain(cfg[v].inf)'
      BY <3>2, <3>3 DEF Plain, RecsSound
    <3>5. CASE cfg'[v].api = cfg[v].api
      BY <3>2, <3>4, <3>5 DEF Plain, RecsSound
    <3>6. CASE cfg'[v].api = new
      BY <1>10, <3>4, <3>6 DEF Plain, RecsSound
    <3> QED BY <3>3, <3>4, <3>5, <3>6
  <2>3. "informer" \in cfg'[v].fresh => cfg'[v].inf = cfg'[v].api
    BY <1>8, <2>1 DEF CfgCopies
  <2>4. "worker" \in cfg'[v].fresh => cw'.v = v /\ cw'.obj = cfg'[v].api
    BY <1>0, <1>6, <1>8, <2>1 DEF CfgCopies
  <2>5. vm'[v].alive /\ cfg'[v].api.exists => cfg'[v].api.nics = prepareVmNetCfg(vm'[v].nics)
    BY <1>0, <1>8, <2>1 DEF CfgCopies
  <2> QED BY <2>2, <2>3, <2>4, <2>5 DEF CfgCopies
<1>14. ASSUME NEW w \in VMs \ {v} PROVE CfgCopies(w)'
  <2>1. CfgCopies(w) /\ cfg'[w] = cfg[w]
    BY <1>9, SMTT(60), ZenonT(60) DEF Sound
  <2>2. Plain(cfg[w].inf)' /\ Plain(cfg[w].api)'
    BY <1>2, <1>4, <2>1 DEF CfgCopies, Plain, RecsSound
  <2> QED BY <1>0, <2>1, <2>2 DEF CfgCopies
<1> QED BY <1>1, <1>11, <1>12, <1>13, <1>14 DEF Sound

\* The vmnetcfg worker takes what its informer has, and its copies are as sound as that.
LEMMA StartCfgSound ==
  ASSUME TypeOK, TypeOK', Sound, NEW v \in VMs, StartCfg(v)
  PROVE  Sound'
<1>1. UNCHANGED <<vm, pool, memory, pw>> /\ cw.v = NoVM /\ NoVM \notin VMs
  BY ConstantsAssumption DEF StartCfg, TypeOK
<1>2. (\A n \in Nets : PoolCopies(n))' /\ (\A n \in Nets : CachesSound(n))'
  BY <1>1, GuestOnly
<1>3. CASE ~cfg[v].inf.exists
  <2>1. UNCHANGED <<cw, cfg>>
    BY <1>3, SMTT(60), ZenonT(60) DEF StartCfg
  <2>2. PassSound' /\ PendingSound'
    BY <1>1, <2>1, SMTT(60), ZenonT(60) DEF Sound, PassSound, PendingSound, Plain, RecsSound, memory
  <2>3. ASSUME NEW w \in VMs PROVE CfgCopies(w)'
    BY <1>1, <2>1 DEF Sound, CfgCopies, Plain, RecsSound
  <2> QED BY <1>2, <2>2, <2>3 DEF Sound
<1>4. CASE cfg[v].inf.exists
  <2>1. cw' = [IdleCfg EXCEPT !.pc = "allocate", !.v = v, !.obj = cfg[v].inf,
                              !.todo = cfg[v].inf.nics]
        /\ cfg' = [cfg EXCEPT ![v] = Taken(@, "worker")]
    BY <1>4 DEF StartCfg
  <2>2. /\ cw'.v = v /\ cw'.obj = cfg[v].inf /\ cw'.todo = cfg[v].inf.nics
        /\ cw'.cur = {} /\ cw'.acc = {} /\ cw'.clean = {}
    BY <2>1 DEF IdleCfg
  <2>3. CfgCopies(v)
    BY DEF Sound
  <2>4. PassSound' /\ PendingSound'
    BY <1>1, <2>2, <2>3 DEF PassSound, PendingSound, Plain, RecsSound, CfgCopies
  <2>5. /\ cfg'[v].api = cfg[v].api /\ cfg'[v].inf = cfg[v].inf
        /\ "informer" \in cfg'[v].fresh <=> "informer" \in cfg[v].fresh
        /\ "worker" \in cfg'[v].fresh => "informer" \in cfg[v].fresh
        /\ \A w \in VMs \ {v} : cfg'[w] = cfg[w]
    BY <2>1, SMTT(60), ZenonT(60) DEF Taken, TypeOK
  <2>6. CfgCopies(v)'
    BY <1>1, <2>2, <2>3, <2>5, SMTT(60), ZenonT(60) DEF CfgCopies, Plain, RecsSound
  <2>7. ASSUME NEW w \in VMs \ {v} PROVE CfgCopies(w)'
    <3>1. CfgCopies(w) /\ cfg'[w] = cfg[w] /\ cw.v # w /\ cw'.v # w
      BY <1>1, <2>2, <2>5 DEF Sound
    <3> QED BY <1>1, <3>1 DEF CfgCopies, Plain, RecsSound
  <2> QED BY <1>2, <2>4, <2>6, <2>7 DEF Sound
<1> QED BY <1>3, <1>4

\* Allocate has found or made an address in memory.
LEMMA AllocatedSound ==
  ASSUME TypeOK, TypeOK', Sound, NEW nc \in cw.todo, NEW ip \in IPs,
         Allocating(nc), PoolUsable(nc.net), AllocatedInMemory(nc, ip),
         UNCHANGED <<vm, cfg, pw>>,
         (\A n \in Nets : CachesSound(n))',
         ipam'[nc.net].exists, ip \in ipam'[nc.net].used, macs'[nc.net].ip[nc.mac] = ip
  PROVE  Sound'
<1> DEFINE n == nc.net
           rec == [net |-> n, mac |-> nc.mac, ip |-> ip, state |-> "Allocated"]
<1>1. n \in Nets /\ nc.mac \in Macs /\ rec \in Rec /\ nc \in cw.obj.nics /\ cw \in CfgWork
  BY SMTT(60), ZenonT(60) DEF TypeOK, CfgWork, Nic, Rec, Sound, PassSound
<1>2. /\ rec.net = n /\ rec.mac = nc.mac /\ rec.ip = ip /\ nc.mac \in MacsOf(cw.obj.nics)
      /\ cw.pc = "allocate" /\ cw.cur = {}
  BY <1>1 DEF MacsOf, Allocating
<1>3. \A m \in Nets : /\ pool'[m].api = pool[m].api /\ pool'[m].inf = pool[m].inf
                      /\ pool'[m].unseen = pool[m].unseen
                      /\ \A h \in {"informer", "worker"} :
                           h \in pool'[m].fresh <=> h \in pool[m].fresh
  BY <1>1, AllocatedPools
<1>4. (\A m \in Nets : PoolCopies(m))'
  BY <1>3, GuestOnly
<1>5. \A r \in Rec : pool'[r.net].api.alloc[r.ip] = pool[r.net].api.alloc[r.ip]
  BY <1>3 DEF Rec
<1>6. \/ /\ pool[n].inf.alloc[ip] = nc.mac
         /\ cw' = [cw EXCEPT !.todo = cw.todo \ {nc}, !.acc = cw.acc \cup {rec}]
      \/ /\ cw' = [cw EXCEPT !.todo = cw.todo \ {nc}, !.cur = {rec}]
         /\ pool' = [pool EXCEPT ![n] = Taken(@, "guest")]
  BY DEF AllocatedInMemory
<1> HIDE DEF rec
<1>7. /\ cw'.obj = cw.obj /\ cw'.todo \subseteq cw.todo /\ cw'.pc = cw.pc /\ cw'.v = cw.v
      /\ cw'.clean = cw.clean
      /\ \/ cw'.acc = cw.acc \cup {rec} /\ pool[n].inf.alloc[ip] = nc.mac /\ cw'.cur = {}
         \/ /\ cw'.acc = cw.acc /\ cw'.cur = {rec}
            /\ pool' = [pool EXCEPT ![n] = Taken(@, "guest")]
  BY <1>1, <1>2, <1>6, ZenonT(60) DEF CfgWork
<1>8. pool[n].inf.alloc[ip] = nc.mac => pool[n].api.alloc[ip] = nc.mac
  BY <1>1, SMTT(60), ZenonT(60) DEF Sound, PoolCopies, Within
<1>9. PassSound'
  <2>1. cw.obj.recs \subseteq Rec /\ cw.acc \subseteq Rec
    BY <1>1, SMTT(60), ZenonT(60) DEF CfgWork, Cfg
  <2>2. Plain(cw.obj)'
    BY <1>5, <1>7, <2>1, SMTT(60), ZenonT(60) DEF Sound, PassSound, Plain, RecsSound
  <2>3. RecsSound(cw.acc, cw.obj.nics)'
    <3>1. RecsSound(cw.acc, cw.obj.nics)
      BY DEF Sound, PassSound
    <3>2. cw'.acc \subseteq cw.acc \cup {rec} /\ cw'.obj.nics = cw.obj.nics
          /\ (rec \in cw'.acc => rec \in cw.acc \/ pool[n].api.alloc[ip] = nc.mac)
      BY <1>7, <1>8
    <3>3. ASSUME NEW r \in cw'.acc
          PROVE  r.mac \in MacsOf(cw.obj.nics) /\ pool[r.net].api.alloc[r.ip] = r.mac /\ r \in Rec
      <4>1. CASE r \in cw.acc
        BY <2>1, <3>1, <4>1 DEF RecsSound
      <4>2. CASE r = rec /\ r \notin cw.acc
        BY <1>1, <1>2, <3>2, <3>3, <4>2
      <4> QED BY <3>2, <3>3, <4>1, <4>2
    <3>4. MacsOf(cw.obj.nics)' = MacsOf(cw.obj.nics)
      BY <3>2 DEF MacsOf
    <3> QED BY <1>5, <3>3, <3>4 DEF RecsSound
  <2> QED BY <1>2, <1>7, <2>2, <2>3 DEF Sound, PassSound
<1>10. PendingSound'
  <2>1. CASE cw'.cur = {}
    BY <2>1, SMTT(60), ZenonT(60) DEF PendingSound
  <2>2. CASE cw'.cur = {rec} /\ pool' = [pool EXCEPT ![n] = Taken(@, "guest")]
    <3>0. CachesMatch(pool'[n].api, ipam'[n], macs'[n], PoolRange[n] \ Revoked[n])
      BY <1>1 DEF CachesSound
    <3>1. "guest" \in pool'[n].fresh => "informer" \in pool[n].fresh
      BY <1>1, <2>2 DEF Taken, TypeOK
    <3>2. "informer" \in pool[n].fresh => pool[n].api.ready = "True"
      BY <1>1, SMTT(60), ZenonT(60) DEF Sound, PoolCopies, PoolUsable
    <3>3. ip \in PoolRange[n] \ Revoked[n]
      BY <3>0, AgreedIPs
    <3>4. pool'[n].api.alloc[ip] \in Macs => pool'[n].api.alloc[ip] = nc.mac
      <4>1. ip # NoIP
        BY NoIPAssumption, SMTT(60), ZenonT(60)
      <4>2. macs'[n].ip[nc.mac] = ip /\ nc.mac \in Macs
        BY <1>1
      <4> HIDE DEF n
      <4> QED BY <3>0, <4>1, <4>2, AgreedMac
    <3>5. "guest" \in pool'[n].fresh => "informer" \in pool'[n].fresh /\ pool'[n].api.ready = "True"
      BY <1>1, <1>3, <3>1, <3>2
    <3> QED BY <1>1, <1>2, <2>2, <3>3, <3>4, <3>5, SMTT(60), ZenonT(60) DEF PendingSound
  <2> QED BY <1>7, <2>1, <2>2
<1>11. ASSUME NEW v \in VMs PROVE CfgCopies(v)'
  <2>1. cfg[v].api.recs \subseteq Rec /\ cfg[v].inf.recs \subseteq Rec
    BY SMTT(60), ZenonT(60) DEF TypeOK, ApiObjects, Cfg
  <2>2. CfgCopies(v)
    BY ZenonT(60) DEF Sound
  <2>3. Plain(cfg[v].api)' /\ Plain(cfg[v].inf)'
    <3>1. Plain(cfg[v].api) /\ Plain(cfg[v].inf)
      BY <2>2 DEF CfgCopies
    <3> QED BY <1>5, <1>7, <2>1, <3>1, SMTT(60), ZenonT(60) DEF Plain, RecsSound
  <2> QED BY <1>5, <1>7, <2>2, <2>3, SMTT(60), ZenonT(60) DEF CfgCopies
<1> QED BY <1>4, <1>9, <1>10, <1>11, SMTT(60), ZenonT(60) DEF Sound

\* Allocate finds the address of an interface in the MAC cache, or AllocateIP returns
\* a free one, which no pool records and no MAC address has.
LEMMA AllocateGivesSound ==
  ASSUME TypeOK, TypeOK', Sound, NEW nc \in cw.todo, AllocateRecovers(nc) \/ AllocateNew(nc)
  PROVE  Sound'
<1>1. PICK n \in Nets : n = nc.net /\ nc \in Nic
  BY DEF TypeOK, CfgWork, Nic
<1>2. PICK ip \in IPs :
        /\ AllocatedInMemory(nc, ip) /\ ipam'[n].exists /\ ip \in ipam'[n].used
        /\ macs'[n].ip[nc.mac] = ip /\ UNCHANGED <<vm, cfg, pw>>
        /\ Allocating(nc) /\ PoolUsable(n)
        /\ CachesMatch(pool[n].api, ipam'[n], macs'[n], PoolRange[n] \ Revoked[n])
        /\ \A m \in Nets \ {n} : ipam'[m] = ipam[m] /\ macs'[m] = macs[m]
  <2>1. CachesSound(n)
    BY DEF Sound
  <2> QED BY <1>1, <2>1, AllocateGives DEF CachesSound
<1>3. \A m \in Nets : pool'[m].api = pool[m].api
  BY <1>1, <1>2, AllocatedPools
<1>4. CachesSound(n)'
  BY <1>2, <1>3 DEF CachesSound
<1>5. ASSUME NEW m \in Nets \ {n} PROVE CachesSound(m)'
  <2>1. CachesSound(m)
    BY DEF Sound
  <2> QED BY <1>2, <1>3, <2>1, CachesKept
<1>6. (\A m \in Nets : CachesSound(m))'
  BY <1>4, <1>5
<1> QED BY <1>1, <1>2, <1>6, AllocatedSound

\* The update of the IPPool goes through only if the copy is fresh, and then the
\* entry it makes is new or the same again.
LEMMA AllocateRecordsSound ==
  ASSUME TypeOK, TypeOK', Sound, AllocateRecords
  PROVE  Sound'
<1>1. PICK r \in cw.cur :
        IF "guest" \in pool[r.net].fresh
        THEN /\ pool' = [pool EXCEPT ![r.net] =
                           Written(pool[r.net], [pool[r.net].api EXCEPT !.alloc[r.ip] = r.mac], "guest")]
             /\ cw' = [cw EXCEPT !.cur = {}, !.acc = @ \cup {r}]
             /\ UNCHANGED <<cfg, cfgQ>>
        ELSE /\ pool' = [pool EXCEPT ![r.net] = Dropped(pool[r.net], "guest")]
             /\ AllocateFails(TRUE)
  BY DEF AllocateRecords
<1>2. /\ r \in Rec /\ r.net \in Nets /\ r.mac \in Macs /\ r.ip \in IPs /\ cw \in CfgWork
      /\ cw.obj \in Cfg /\ cw.pc = "allocate" /\ UNCHANGED <<vm, memory, pw>>
  BY DEF TypeOK, CfgWork, Rec, AllocateRecords
<1>3. CASE "guest" \notin pool[r.net].fresh
  <2>1. PICK new \in Cfg, failed \in BOOLEAN, next \in {"sync", "change", "remove"} :
          CfgEnds(new, failed, next)
    BY <1>1, <1>3, CfgStepEnds DEF Sound, PassSound, Plain
  <2>2. Plain(new)
    BY <2>1 DEF CfgEnds, Sound, PassSound, Plain, RecsSound
  <2>3. \A n \in Nets : /\ pool'[n].api = pool[n].api /\ pool'[n].inf = pool[n].inf
                        /\ pool'[n].unseen = pool[n].unseen
                        /\ \A h \in {"informer", "worker"} :
                             h \in pool'[n].fresh <=> h \in pool[n].fresh
    <3>1. \A n \in Nets : pool'[n] = pool[n] \/ pool'[n] = Dropped(pool[n], "guest")
      BY <1>1, <1>2, <1>3, StateTypes
    <3> QED BY <3>1, DroppedFacts
  <2> QED BY <1>2, <2>1, <2>2, <2>3, CfgHandledSound DEF CfgEnds
<1>4. CASE "guest" \in pool[r.net].fresh
  <2> DEFINE n == r.net
             s == pool[n]
  <2>1. /\ "informer" \in s.fresh /\ s.api.ready = "True" /\ s.inf = s.api
        /\ r.ip \in PoolRange[n] \ Revoked[n]
        /\ s.api.alloc[r.ip] \in Macs => s.api.alloc[r.ip] = r.mac
        /\ ipam[n].exists => r.ip \in ipam[n].used /\ macs[n].ip[r.mac] = r.ip
    BY <1>2, <1>4, SMTT(60), ZenonT(60) DEF Sound, PendingSound, PoolCopies
  <2>2. s.api \in Pool /\ s.inf \in Pool /\ pool'[n].api \in Pool /\ s.api.alloc \in [IPs -> Macs \cup {NoMac, Mark}]
    BY <1>2 DEF TypeOK, ApiObjects, Pool
  <2>3. /\ pool'[n].inf = s.inf /\ pool'[n].fresh = {} /\ pool'[n].unseen = s.unseen \cup {"guest"}
        /\ pool'[n].api = [s.api EXCEPT !.alloc[r.ip] = r.mac]
        /\ \A m \in Nets \ {n} : pool'[m] = pool[m]
    <3>1. pool' = [pool EXCEPT ![n] = Written(s, [s.api EXCEPT !.alloc[r.ip] = r.mac], "guest")]
      BY <1>1, <1>2, <1>4
    <3>2. /\ pool'[n] = Written(s, [s.api EXCEPT !.alloc[r.ip] = r.mac], "guest")
          /\ \A m \in Nets \ {n} : pool'[m] = pool[m]
      BY <1>2, <3>1, StateTypes
    <3> HIDE DEF s
    <3> QED BY <3>2 DEF Written
  <2>4. /\ pool'[n].api.ready = s.api.ready
        /\ pool'[n].api.alloc = [s.api.alloc EXCEPT ![r.ip] = r.mac]
    BY <2>2, <2>3 DEF Pool
  <2>5. Within(s.api, pool'[n].api)
    BY <2>1, <2>2, <2>4, SMTT(60), ZenonT(60) DEF Within
  <2>6. PoolCopies(n)'
    <3>1. PoolCopies(n)
      BY <1>2, SMTT(60), ZenonT(60) DEF Sound
    <3>2. pw.n = n => pw.obj \in Pool /\ Within(pw.obj, pool'[n].api)
      <4>1. pw.n = n => pw.obj \in Pool
        BY SMTT(60), ZenonT(60) DEF TypeOK, PoolWork
      <4>2. pw.n = n => Within(pw.obj, s.api)
        BY <3>1, SMTT(60), ZenonT(60) DEF PoolCopies
      <4> QED BY <2>2, <2>5, <4>1, <4>2, WithinFacts, SMTT(60), ZenonT(60)
    <3>3. "worker" \notin pool'[n].unseen => s.inf.ready = pool'[n].api.ready
      BY <2>1, <2>4, SMTT(60), ZenonT(60)
    <3>4. pw.n = n /\ pw.pc \in {"deploy", "build"} => pw.obj.ready = "True"
      BY <2>1, <3>1 DEF PoolCopies
    <3>5. pw' = pw
      BY <1>2
    <3> HIDE DEF s, n
    <3>6. /\ pool'[n].inf = s.api /\ pool'[n].fresh = {} /\ s.api.ready = "True"
          /\ Within(pool'[n].inf, pool'[n].api)
      BY <2>1, <2>3, <2>5
    <3> QED BY <3>2, <3>3, <3>4, <3>5, <3>6, <2>1, SMTT(60), ZenonT(60) DEF PoolCopies
  <2>7. ASSUME NEW m \in Nets \ {n} PROVE PoolCopies(m)'
    <3>1. PoolCopies(m) /\ pool'[m] = pool[m] /\ pw' = pw
      BY <1>2, <2>3 DEF Sound
    <3> QED BY <3>1 DEF PoolCopies, Within
  <2>8. CachesSound(n)'
    <3>1. CachesSound(n)
      BY <1>2 DEF Sound
    <3>2. RecordedIPs(pool[n].api)' = RecordedIPs(pool[n].api) \cup {r.ip}
      BY <1>2, <2>2, <2>4, SMTT(60), ZenonT(60) DEF RecordedIPs
    <3>3. \A m \in Macs : macs[n].ip[m] = r.ip => m = r.mac
      <4>1. r.ip # NoIP
        BY <1>2, NoIPAssumption
      <4> QED BY <1>2, <2>1, <3>1, <4>1, ZenonT(60) DEF CachesSound, CachesMatch
    <3>4. \A m \in Macs : macs[n].ip[m] # NoIP => macs[n].ip[m] \in IPs
      BY <1>2, SMTT(60), ZenonT(60) DEF TypeOK, MACSets
    <3>5. ASSUME NEW m \in Macs, macs[n].ip[m] # NoIP,
                 pool'[n].api.alloc[macs[n].ip[m]] \in Macs
          PROVE  pool'[n].api.alloc[macs[n].ip[m]] = m
      <4> DEFINE ip == macs[n].ip[m]
      <4>1. ip \in IPs /\ (s.api.alloc[ip] \in Macs => s.api.alloc[ip] = m)
        BY <3>1, <3>4, <3>5, ZenonT(60) DEF CachesSound, CachesMatch
      <4>2. CASE ip = r.ip
        BY <2>2, <2>4, <3>3, <4>1, <4>2, SMTT(60), ZenonT(60)
      <4>3. CASE ip # r.ip
        <5>1. pool'[n].api.alloc[ip] = s.api.alloc[ip]
          BY <2>2, <2>4, <4>1, <4>3, ZenonT(60)
        <5> QED BY <3>5, <4>1, <5>1, ZenonT(60)
      <4> QED BY <4>2, <4>3, ZenonT(60)
    <3> HIDE DEF n
    <3> QED BY <1>2, <2>1, <3>1, <3>2, <3>5, ZenonT(60) DEF CachesSound, CachesMatch, memory
  <2>9. ASSUME NEW m \in Nets \ {n} PROVE CachesSound(m)'
    <3>1. CachesSound(m) /\ m \in Nets
      BY <1>2, <2>9, ZenonT(60) DEF Sound
    <3>2. ipam'[m] = ipam[m] /\ macs'[m] = macs[m] /\ pool'[m].api = pool[m].api
      BY <1>2, <2>3, <2>9, ZenonT(60) DEF memory
    <3> QED BY <3>1, <3>2, CachesKept, SMTT(60), ZenonT(60)
  <2>10. \A m \in Nets : Within(pool[m].api, pool'[m].api)
    BY <2>3, <2>5, WithinFacts DEF TypeOK, ApiObjects
  <2>11. \A q \in Rec : pool[q.net].api.alloc[q.ip] = q.mac => pool'[q.net].api.alloc[q.ip] = q.mac
    BY <2>10, RecordsKept
  <2>12. /\ cw'.cur = {} /\ cw'.acc = cw.acc \cup {r} /\ cw'.obj = cw.obj /\ cw'.v = cw.v
         /\ cw'.todo = cw.todo /\ cw'.clean = cw.clean /\ cfg' = cfg
    BY <1>1, <1>2, <1>4 DEF CfgWork
  <2>13. PassSound' /\ PendingSound'
    <3>1. cw.acc \subseteq Rec /\ cw.obj.recs \subseteq Rec
      BY <1>2, SMTT(60), ZenonT(60) DEF CfgWork, Cfg
    <3>2. pool'[r.net].api.alloc[r.ip] = r.mac /\ r.mac \in MacsOf(cw.obj.nics)
      BY <1>2, <2>2, <2>4, SMTT(60), ZenonT(60) DEF Sound, PassSound
    <3>3. RecsSound(cw.acc, cw.obj.nics)' /\ Plain(cw.obj)'
      BY <2>11, <2>12, <3>1, <3>2, SMTT(60), ZenonT(60) DEF Sound, PassSound, RecsSound, Plain
    <3> QED BY <2>12, <3>3 DEF PassSound, PendingSound, Sound
  <2>14. ASSUME NEW v \in VMs PROVE CfgCopies(v)'
    <3>1. cfg[v].api.recs \subseteq Rec /\ cfg[v].inf.recs \subseteq Rec
      BY SMTT(60), ZenonT(60) DEF TypeOK, ApiObjects, Cfg
    <3> QED BY <1>2, <2>11, <2>12, <3>1, SMTT(60), ZenonT(60) DEF Sound, CfgCopies, Plain, RecsSound
  <2> QED BY <2>6, <2>7, <2>8, <2>9, <2>13, <2>14, SMTT(60), ZenonT(60) DEF Sound
<1> QED BY <1>3, <1>4, SMTT(60), ZenonT(60)

\* Cleanup does not run, and an allocation under way is sound.
LEMMA NothingToClean ==
  ASSUME Sound
  PROVE  ~Cleanup /\ PendingSound
<1>1. cw.clean = {} /\ (cw.cur # {} => cw.pc = "allocate") /\ PendingSound
  BY DEF Sound, PassSound
<1> QED BY <1>1 DEF Cleanup, CleanupUnrecords, CleanupGivesUp

\* Every step of the vmnetcfg controller keeps the copies and the caches sound.
LEMMA CfgStepSound ==
  ASSUME TypeOK, TypeOK', Sound, CfgController
  PROVE  Sound'
<1>1. /\ cw.obj \in Cfg /\ cw.acc \subseteq Rec /\ cw.obj.recs \subseteq Rec
      /\ Plain(cw.obj) /\ cw.clean = {} /\ (cw.cur # {} => cw.pc = "allocate")
      /\ ~cw.obj.paused /\ ~cw.obj.deleting /\ RecsSound(cw.acc, cw.obj.nics)
      /\ RecsSound(cw.obj.recs, cw.obj.nics)
  BY ZenonT(60) DEF TypeOK, CfgWork, Cfg, Sound, PassSound, Plain
<1>2. ASSUME AllocateRefused \/ AllocateDone \/ Sync \/ CfgOnChange \/ CfgOnRemove
             \/ \E nc \in cw.todo : AllocateNoAddress(nc)
      PROVE  Sound'
  <2>1. UNCHANGED <<vm, pool, memory, pw>> /\ cw.pc # "idle"
    BY <1>2 DEF AllocateRefused, AllocateDone, Sync, CfgOnChange, CfgOnRemove, AllocateNoAddress, Allocating
  <2>2. PICK new \in Cfg, failed \in BOOLEAN, next \in {"sync", "change", "remove"} :
          CfgEnds(new, failed, next)
    BY <1>1, <1>2, CfgStepEnds
  <2>3. Plain(new)
    BY <1>1, <2>2 DEF CfgEnds, Plain, RecsSound
  <2> QED BY <2>1, <2>2, <2>3, CfgHandledSound DEF CfgEnds
<1> QED BY <1>2, NothingToClean, StartCfgSound, AllocateGivesSound, AllocateRecordsSound
        DEF CfgController, CfgStep, Allocate

-----------------------------------------------------------------------------
\* The ippool controller.

\* The copies of the pools after a handler or a pass whose new object has the same
\* entries as its copy.
LEMMA PoolCopiesKept ==
  ASSUME TypeOK, TypeOK', Sound, pw.pc # "idle",
         NEW new \in Pool, NEW changed \in BOOLEAN, NEW failed \in BOOLEAN, NEW next,
         Within(pw.obj, new), Within(new, pw.obj), changed \/ new = pw.obj,
         next \in {"deploy", "build"} => pw.pc = "deploy" /\ new.ready = pw.obj.ready,
         StatusHandled(new, changed, failed, next) \/ PoolPassEnds(new, failed)
  PROVE  /\ (\A n \in Nets : PoolCopies(n))'
         /\ \A n \in Nets : Within(pool[n].api, pool'[n].api) /\ Within(pool'[n].api, pool[n].api)
         /\ \A n \in Nets : "guest" \in pool'[n].fresh =>
              /\ "guest" \in pool[n].fresh /\ pool'[n].api = pool[n].api
              /\ "informer" \in pool[n].fresh => "informer" \in pool'[n].fresh
<1>0. PICK n \in Nets : n = pw.n
  BY DEF TypeOK, PoolWork
<1> DEFINE s == pool[n]
<1>1. n = pw.n /\ pw.obj \in Pool /\ s \in ApiObjects(Pool) /\ NoNet \notin Nets
  BY <1>0, ConstantsAssumption DEF TypeOK, PoolWork
<1>2. s.api \in Pool /\ s.inf \in Pool /\ s.fresh \subseteq Holder
  BY <1>1 DEF ApiObjects
<1>3. PoolCopies(n)
  BY DEF Sound
<1>4. \A m \in Nets \ {n} : pool'[m] = pool[m] /\ pw'.n # m
  BY <1>1 DEF StatusHandled, PoolPassEnds, IdlePool, TypeOK
<1>5. ASSUME NEW m \in Nets \ {n} PROVE PoolCopies(m)'
  BY <1>1, <1>4, SMTT(60), ZenonT(60) DEF Sound, PoolCopies
<1>6. \/ /\ "worker" \in s.fresh /\ pool'[n].api = new /\ pool'[n].inf = s.inf
         /\ pool'[n].fresh \subseteq {"worker"} /\ "worker" \in pool'[n].unseen
      \/ /\ pool'[n].api = s.api /\ pool'[n].inf = s.inf /\ pool'[n].unseen = s.unseen
         /\ pool'[n].fresh \in {s.fresh, s.fresh \ {"worker"}}
  <2>1. PICK b \in BOOLEAN : \/ pool'[n] = Saved(s, new, b)
                            \/ pool'[n] = Dropped(Saved(s, new, b), "worker")
    BY <1>1, StateTypes DEF StatusHandled, PoolPassEnds
  <2> DEFINE t == Saved(s, new, b)
  <2>2. \/ /\ "worker" \in s.fresh /\ t.api = new /\ t.inf = s.inf
           /\ t.fresh = {"worker"} /\ t.unseen = s.unseen \cup {"worker"}
        \/ t = s
    BY SavedFacts
  <2> HIDE DEF t, s
  <2>3. /\ pool'[n].api = t.api /\ pool'[n].inf = t.inf /\ pool'[n].unseen = t.unseen
        /\ pool'[n].fresh \in {t.fresh, t.fresh \ {"worker"}}
    BY <2>1, DroppedFacts DEF t
  <2> QED BY <2>2, <2>3
<1>7. Within(s.api, pool'[n].api) /\ Within(pool'[n].api, s.api)
  BY <1>2, <1>3, <1>6, WithinFacts DEF PoolCopies
<1>8. "worker" \in pool'[n].fresh => pw'.n = n /\ pw'.obj = pool'[n].api
  <2>1. CASE StatusHandled(new, changed, failed, next)
    BY <1>1, <1>2, <1>3, <2>1, StateTypes, SMTT(60), ZenonT(60) DEF StatusHandled, Saved, Written, PoolCopies
  <2>2. CASE PoolPassEnds(new, failed)
    BY <1>1, <2>2 DEF PoolPassEnds, Dropped, TypeOK
  <2> QED BY <2>1, <2>2, SMTT(60), ZenonT(60)
<1>9. Within(s.inf, pool'[n].api) /\ (s.inf.ready # "True" => Within(pool'[n].api, s.inf))
  <2>1. pool'[n].api \in Pool
    BY <1>1 DEF TypeOK, ApiObjects
  <2> QED BY <1>2, <1>3, <1>7, <2>1, WithinFacts DEF PoolCopies
<1>10. pw'.n = n => Within(pw'.obj, pool'[n].api)
  <2>1. pool'[n].api \in Pool /\ Within(new, s.api)
    BY <1>1, <1>2, <1>3, WithinFacts DEF TypeOK, ApiObjects, PoolCopies
  <2>2. pw'.n = n => pw'.obj = new
    BY <1>1 DEF StatusHandled, PoolPassEnds, IdlePool
  <2> QED BY <1>2, <1>7, <2>1, <2>2, WithinFacts, SMTT(60), ZenonT(60)
<1>11. pw'.n = n /\ pw'.pc \in {"deploy", "build"} /\ pw'.obj.ready # "True" =>
         pool'[n].api.ready # "True" /\ Within(pool'[n].api, pw'.obj)
  <2> SUFFICES ASSUME pw'.n = n, pw'.pc \in {"deploy", "build"}, pw'.obj.ready # "True"
               PROVE  pool'[n].api.ready # "True" /\ Within(pool'[n].api, pw'.obj)
    OBVIOUS
  <2>1. StatusHandled(new, changed, failed, next) /\ pw'.obj = new /\ pw'.pc = next
    BY <1>1 DEF StatusHandled, PoolPassEnds, IdlePool
  <2>2. s.api.ready # "True" /\ Within(s.api, pw.obj)
    BY <1>1, <1>3, <2>1 DEF PoolCopies
  <2> QED BY <1>1, <1>2, <1>6, <2>1, <2>2, WithinFacts
<1>12. PoolCopies(n)'
  BY <1>3, <1>6, <1>8, <1>9, <1>10, <1>11 DEF PoolCopies
<1>13. \A m \in Nets : Within(pool[m].api, pool'[m].api) /\ Within(pool'[m].api, pool[m].api)
  BY <1>4, <1>7, WithinFacts DEF TypeOK, ApiObjects
<1>14. \A m \in Nets : "guest" \in pool'[m].fresh =>
              /\ "guest" \in pool[m].fresh /\ pool'[m].api = pool[m].api
              /\ "informer" \in pool[m].fresh => "informer" \in pool'[m].fresh
  BY <1>4, <1>6
<1> QED BY <1>5, <1>12, <1>13, <1>14

\* A pass starts: without lagPool its copy is not ready only if the stored pool is
\* not, and lacks no entry then.
LEMMA StartPoolSound ==
  ASSUME TypeOK, TypeOK', Calm, Sound, NEW n \in Nets, StartPool(n)
  PROVE  Sound'
<1>1. /\ pw.n = NoNet /\ pw'.n = n /\ pw'.obj = pool[n].inf /\ NoNet \notin Nets
      /\ "worker" \notin pool[n].unseen
      /\ UNCHANGED <<vm, cfg, memory, cw>>
  BY ConstantsAssumption DEF StartPool, Calm, TypeOK
<1>2. \A m \in Nets \ {n} : pool'[m] = pool[m]
  BY DEF StartPool, TypeOK
<1>3. /\ pool'[n].api = pool[n].api /\ pool'[n].inf = pool[n].inf
      /\ pool'[n].unseen = pool[n].unseen
      /\ \A h \in {"informer", "guest"} : h \in pool'[n].fresh <=> h \in pool[n].fresh
      /\ "worker" \in pool'[n].fresh => "informer" \in pool[n].fresh
  BY DEF StartPool, TypeOK, Taken
<1>4. PoolCopies(n)'
  BY <1>1, <1>3 DEF Sound, PoolCopies
<1>5. ASSUME NEW m \in Nets \ {n} PROVE PoolCopies(m)'
  BY <1>1, <1>2 DEF Sound, PoolCopies
<1>6. \A m \in Nets : pool'[m].api = pool[m].api /\ pool[m].api \in Pool
  BY <1>2, <1>3, StateTypes
<1>7. \A m \in Nets : Within(pool[m].api, pool'[m].api) /\ Within(pool'[m].api, pool[m].api)
  BY <1>6, WithinFacts
<1>8. \A m \in Nets : "guest" \in pool'[m].fresh =>
           /\ "guest" \in pool[m].fresh /\ pool'[m].api = pool[m].api
           /\ "informer" \in pool[m].fresh => "informer" \in pool'[m].fresh
  BY <1>2, <1>3
<1> QED BY <1>1, <1>4, <1>5, <1>7, <1>8, PoolSideKept

\* BuildCache rebuilds the caches of a pool only from a copy with all its entries,
\* and while no fresh copy of it is on its way back with a new one.
LEMMA BuildCacheSound ==
  ASSUME TypeOK, TypeOK', Sound, BuildCache
  PROVE  Sound'
<1> DEFINE new == [pw.obj EXCEPT !.ready = IF pw.obj.paused THEN "False" ELSE "True"]
           next == IF "agent" \in Env THEN "monitor" ELSE "change"
<1>0. PICK n \in Nets : n = pw.n
  BY DEF TypeOK, PoolWork, BuildCache
<1>1. pw.obj \in Pool /\ new \in Pool /\ pw.obj.paused \in BOOLEAN
  BY PoolUpdates DEF TypeOK, PoolWork, Cond, Pool
<1>2. StatusHandled(new, new # pw.obj, pw.obj.paused, next) /\ pw.pc = "build"
      /\ UNCHANGED <<vm, cfg, cw>>
  BY DEF BuildCache
<1>3. Within(pw.obj, new) /\ Within(new, pw.obj)
  BY <1>1 DEF Within, Pool
<1>4. next \notin {"deploy", "build"}
  OBVIOUS
<1> HIDE DEF new, next
<1>5. /\ (\A m \in Nets : PoolCopies(m))'
      /\ \A m \in Nets : Within(pool[m].api, pool'[m].api) /\ Within(pool'[m].api, pool[m].api)
      /\ \A m \in Nets : "guest" \in pool'[m].fresh =>
           /\ "guest" \in pool[m].fresh /\ pool'[m].api = pool[m].api
           /\ "informer" \in pool[m].fresh => "informer" \in pool'[m].fresh
  BY <1>1, <1>2, <1>3, <1>4, PoolCopiesKept
<1>6. CASE UNCHANGED memory
  BY <1>2, <1>5, <1>6, PoolSideKept
<1>7. CASE /\ ~pw.obj.paused /\ pw.obj.ready # "True"
           /\ ipam' = [ipam EXCEPT ![n] = LoadedSubnet(n, pw.obj)]
           /\ \E set \in LoadedMACSets(pw.obj.alloc) : macs' = [macs EXCEPT ![n] = set]
  <2>1. pool[n].api.ready # "True" /\ Within(pool[n].api, pw.obj) /\ Within(pw.obj, pool[n].api)
    BY <1>0, <1>2, <1>7 DEF Sound, PoolCopies
  <2>2. pool[n].api \in Pool /\ pool'[n].api \in Pool
    BY DEF TypeOK, ApiObjects
  <2>3. Within(pool'[n].api, pw.obj) /\ Within(pw.obj, pool'[n].api)
    BY <1>1, <1>5, <2>1, <2>2, WithinFacts
  <2> DEFINE rec == RecordedIPs(pool'[n].api)
  <2>4. rec = {ip \in IPs : pw.obj.alloc[ip] \in Macs} /\ rec = RecordedIPs(pool[n].api)
    BY <2>1, <2>3, SMTT(60), ZenonT(60) DEF RecordedIPs, Within
  <2>5. rec \subseteq PoolRange[n] \ Revoked[n]
    <3>1. CachesSound(n)
      BY DEF Sound
    <3>2. RecordedIPs(pool[n].api) \subseteq PoolRange[n] \ Revoked[n]
      BY <3>1, AgreedIPs DEF CachesSound
    <3> QED BY <2>4, <3>2
  <2>6. /\ ipam'[n].exists = TRUE /\ ipam'[n].free = (PoolRange[n] \ Revoked[n]) \ rec
        /\ ipam'[n].used = rec
    <3>1. ipam'[n] = LoadedSubnet(n, pw.obj)
      BY <1>7, StateTypes
    <3> QED BY <2>4, <2>5, <3>1 DEF LoadedSubnet, AllocateIP, NewIPSubnet, RevokeIP
  <2>7. macs'[n].exists = TRUE
    BY <1>7 DEF LoadedMACSets, TypeOK
  <2>8. \A m \in Macs : macs'[n].ip[m] # NoIP =>
          macs'[n].ip[m] \in IPs /\ pw.obj.alloc[macs'[n].ip[m]] = m
    <3>1. PICK set \in LoadedMACSets(pw.obj.alloc) : macs'[n] = set
      BY <1>7 DEF TypeOK
    <3>2. DOMAIN pw.obj.alloc = IPs
      BY <1>1 DEF Pool
    <3> QED BY <3>1, <3>2 DEF LoadedMACSets
  <2>9. \A m \in Macs : macs'[n].ip[m] # NoIP =>
          macs'[n].ip[m] \in rec /\ pool'[n].api.alloc[macs'[n].ip[m]] = m
    <3>1. \A ip \in rec : ip \in IPs
      BY DEF RecordedIPs
    <3>2. \A ip \in IPs : pw.obj.alloc[ip] \in Macs => ip \in rec /\ pool'[n].api.alloc[ip] = pw.obj.alloc[ip]
      BY <2>3 DEF Within, RecordedIPs
    <3> QED BY <2>8, <3>2
  <2> HIDE DEF rec
  <2>10. CachesSound(n)'
    <3>1. RecordedIPs(pool[n].api)' = rec
      BY DEF rec, RecordedIPs
    <3>2. ipam'[n].free \cup ipam'[n].used \subseteq PoolRange[n] \ Revoked[n]
      BY <2>5, <2>6
    <3>3. ipam'[n].free \cap ipam'[n].used = {}
      BY <2>6
    <3>4. \A m, k \in Macs : macs'[n].ip[m] # NoIP /\ macs'[n].ip[m] = macs'[n].ip[k] => m = k
      BY <2>9
    <3> QED BY <2>5, <2>6, <2>7, <2>9, <3>1, <3>2, <3>3, <3>4 DEF CachesSound, CachesMatch
  <2>11. ASSUME NEW m \in Nets \ {n} PROVE CachesSound(m)'
    <3>1. ipam'[m] = ipam[m] /\ macs'[m] = macs[m] /\ pool'[m] = pool[m]
      BY <1>0, <1>2, <1>7 DEF StatusHandled, TypeOK
    <3>2. CachesSound(m)
      BY SMTT(60), ZenonT(60) DEF Sound
    <3> QED BY <3>1, <3>2, CachesKept
  <2>12. PendingSound'
    <3> SUFFICES ASSUME cw.pc = "allocate", NEW r \in cw.cur, "guest" \in pool'[r.net].fresh
                 PROVE  /\ "informer" \in pool'[r.net].fresh /\ pool'[r.net].api.ready = "True"
                        /\ r.ip \in PoolRange[r.net] \ Revoked[r.net]
                        /\ pool'[r.net].api.alloc[r.ip] \in Macs => pool'[r.net].api.alloc[r.ip] = r.mac
                        /\ ipam'[r.net].exists => /\ r.ip \in ipam'[r.net].used
                                                  /\ macs'[r.net].ip[r.mac] = r.ip
      BY <1>2 DEF PendingSound
    <3>1. r.net \in Nets
      BY SMTT(60), ZenonT(60) DEF TypeOK, CfgWork, Rec
    <3>2. r.net # n
      BY <1>5, <2>1, <3>1, SMTT(60), ZenonT(60) DEF Sound, PendingSound
    <3>3. ipam'[r.net] = ipam[r.net] /\ macs'[r.net] = macs[r.net]
      BY <1>7, <3>1, <3>2, SMTT(60), ZenonT(60) DEF TypeOK
    <3>4. PendingSound
      BY DEF Sound
    <3> QED BY <1>5, <3>1, <3>3, <3>4, SMTT(60), ZenonT(60) DEF PendingSound
  <2>13. (\A v \in VMs : CfgCopies(v))' /\ PassSound'
    BY <1>2, <1>5, CfgSideKept
  <2> QED BY <1>5, <2>10, <2>11, <2>12, <2>13 DEF Sound
<1> QED BY <1>0, <1>6, <1>7 DEF BuildCache

\* A handler or a pass that keeps the entries and leaves the caches alone.
LEMMA PoolHandledSound ==
  ASSUME TypeOK, TypeOK', Sound, pw.pc # "idle",
         NEW new \in Pool, NEW changed \in BOOLEAN, NEW failed \in BOOLEAN, NEW next,
         Within(pw.obj, new), Within(new, pw.obj), changed \/ new = pw.obj,
         next \in {"deploy", "build"} => pw.pc = "deploy" /\ new.ready = pw.obj.ready,
         StatusHandled(new, changed, failed, next) \/ PoolPassEnds(new, failed),
         UNCHANGED <<vm, cfg, cw, memory>>
  PROVE  Sound'
BY PoolCopiesKept, PoolSideKept

\* OnChange of a paused pool drops the caches of its network.
LEMMA PoolPausedSound ==
  ASSUME TypeOK, TypeOK', Sound, PoolPaused
  PROVE  Sound'
<1>0. PICK n \in Nets : n = pw.n
  BY DEF TypeOK, PoolWork, PoolPaused
<1> DEFINE stop == [pw.obj EXCEPT !.agent = FALSE, !.stopped = "True"]
<1>1. pw.obj \in Pool /\ stop \in Pool /\ pw.pc # "idle" /\ UNCHANGED <<vm, cfg, cw>>
  BY PoolUpdates DEF TypeOK, PoolWork, PoolPaused
<1>2. Within(pw.obj, stop) /\ Within(stop, pw.obj) /\ Within(pw.obj, pw.obj)
  BY <1>1, WithinFacts DEF Within, Pool
<1>3. PICK new \in Pool, failed \in BOOLEAN, changed \in {TRUE}, next \in {"idle"} :
        /\ Within(pw.obj, new) /\ Within(new, pw.obj) /\ PoolPassEnds(new, failed)
        /\ StatusHandled(new, changed, failed, next) \/ PoolPassEnds(new, failed)
        /\ next \notin {"deploy", "build"} /\ changed \in BOOLEAN
  BY <1>1, <1>2 DEF PoolPaused
<1>4. CASE UNCHANGED memory
  BY <1>1, <1>3, <1>4, PoolHandledSound
<1>5. CASE ipam' = [ipam EXCEPT ![n] = NoSubnet] /\ macs' = [macs EXCEPT ![n] = NoMACSet]
  <2>1. /\ (\A m \in Nets : PoolCopies(m))'
        /\ \A m \in Nets : Within(pool[m].api, pool'[m].api) /\ Within(pool'[m].api, pool[m].api)
        /\ \A m \in Nets : "guest" \in pool'[m].fresh =>
             /\ "guest" \in pool[m].fresh /\ pool'[m].api = pool[m].api
             /\ "informer" \in pool[m].fresh => "informer" \in pool'[m].fresh
    BY <1>1, <1>3, PoolCopiesKept
  <2>2. CachesSound(n)'
    <3>1. /\ ipam'[n].exists = FALSE /\ ipam'[n].free = {} /\ ipam'[n].used = {}
          /\ macs'[n].exists = FALSE /\ \A m \in Macs : macs'[n].ip[m] = NoIP
      BY <1>5 DEF NoSubnet, NoMACSet, TypeOK
    <3>2. RecordedIPs(pool[n].api)' \subseteq PoolRange[n] \ Revoked[n]
      <4>1. RecordedIPs(pool[n].api) \subseteq PoolRange[n] \ Revoked[n]
        <5>1. CachesSound(n)
          BY DEF Sound
        <5> QED BY <5>1, AgreedIPs DEF CachesSound
      <4> QED BY <2>1, <4>1, SMTT(60), ZenonT(60) DEF RecordedIPs, Within
    <3> QED BY <3>1, <3>2, ZenonT(60) DEF CachesSound, CachesMatch
  <2>3. ASSUME NEW m \in Nets \ {n} PROVE CachesSound(m)'
    <3>1. ipam'[m] = ipam[m] /\ macs'[m] = macs[m] /\ pool'[m] = pool[m]
      BY <1>0, <1>3, <1>5 DEF PoolPassEnds, TypeOK
    <3>2. CachesSound(m)
      BY DEF Sound
    <3> QED BY <3>1, <3>2, CachesKept, SMTT(60), ZenonT(60)
  <2>4. PendingSound'
    <3>1. \A r \in cw.cur : r.net \in Nets
      BY DEF TypeOK, CfgWork, Rec
    <3>2. \A m \in Nets : ipam'[m].exists => ipam'[m] = ipam[m] /\ macs'[m] = macs[m]
      BY <1>5 DEF NoSubnet, TypeOK
    <3>3. PendingSound
      BY DEF Sound
    <3> SUFFICES ASSUME cw.pc = "allocate", NEW r \in cw.cur, "guest" \in pool'[r.net].fresh
                 PROVE  /\ "informer" \in pool'[r.net].fresh /\ pool'[r.net].api.ready = "True"
                        /\ r.ip \in PoolRange[r.net] \ Revoked[r.net]
                        /\ pool'[r.net].api.alloc[r.ip] \in Macs => pool'[r.net].api.alloc[r.ip] = r.mac
                        /\ ipam'[r.net].exists => /\ r.ip \in ipam'[r.net].used
                                                 /\ macs'[r.net].ip[r.mac] = r.ip
      BY <1>1 DEF PendingSound
    <3>4. /\ "guest" \in pool[r.net].fresh /\ pool'[r.net].api = pool[r.net].api
          /\ "informer" \in pool[r.net].fresh => "informer" \in pool'[r.net].fresh
      BY <2>1, <3>1
    <3>5. ipam'[r.net].exists => ipam'[r.net] = ipam[r.net] /\ macs'[r.net] = macs[r.net]
      BY <3>1, <3>2
    <3> QED BY <3>3, <3>4, <3>5 DEF PendingSound
  <2>5. (\A v \in VMs : CfgCopies(v))' /\ PassSound'
    BY <1>1, <2>1, CfgSideKept
  <2> QED BY <2>1, <2>2, <2>3, <2>4, <2>5 DEF Sound
<1> QED BY <1>0, <1>4, <1>5 DEF PoolPaused

\* What the ippool worker stores has the entries of its copy, and those may be given out.
LEMMA WorkerCopySound ==
  ASSUME TypeOK, Sound
  PROVE  /\ \A n \in Nets : "worker" \in pool[n].fresh => pool[n].api = pw.obj
         /\ pw.pc # "idle" => RecordedIPs(pw.obj) \subseteq PoolRange[pw.n] \ Revoked[pw.n]
<1>1. ASSUME pw.pc # "idle" PROVE RecordedIPs(pw.obj) \subseteq PoolRange[pw.n] \ Revoked[pw.n]
  <2>1. PICK n \in Nets : n = pw.n
    BY <1>1, StateTypes
  <2>2. Within(pw.obj, pool[n].api) /\ RecordedIPs(pool[n].api) \subseteq PoolRange[n] \ Revoked[n]
    <3>1. PoolCopies(n) /\ CachesSound(n)
      BY DEF Sound
    <3> QED BY <2>1, <3>1, AgreedIPs DEF CachesSound, PoolCopies
  <2> QED BY <2>1, <2>2 DEF Within, RecordedIPs
<1> QED BY <1>1 DEF Sound, PoolCopies

\* Every step of the ippool controller keeps the copies and the caches sound.
LEMMA PoolStepSound ==
  ASSUME TypeOK, TypeOK', Calm, Sound, PoolController
  PROVE  Sound'
<1>1. CASE PoolStep /\ UNCHANGED memory
  <2>1. pw.pc # "idle"
    BY <1>1 DEF PoolStep, PoolOnChange, DeployAgent, BuildCache, MonitorAgent, PoolLabelsFail, PoolPaused,
                PoolNotInitialized, PoolUsage
  <2>2. /\ UNCHANGED <<vm, cfg, cw>>
        /\ \E new \in Pool, changed, failed \in BOOLEAN, next \in {"build", "monitor", "change"} :
             PoolEnds(new, changed, failed, next)
    BY <1>1, <2>1, WorkerCopySound, PoolStepEnds
  <2>3. PICK new \in Pool, changed, failed \in BOOLEAN, next \in {"build", "monitor", "change"} :
          PoolEnds(new, changed, failed, next)
    BY <2>2
  <2> QED BY <1>1, <2>1, <2>2, <2>3, PoolHandledSound DEF PoolEnds
<1>2. ASSUME PoolStep PROVE BuildCache \/ PoolPaused \/ UNCHANGED memory
  BY <1>2 DEF PoolStep, PoolOnChange, DeployAgent, MonitorAgent, PoolLabelsFail, PoolNotInitialized, PoolUsage
<1> QED BY <1>1, <1>2, StartPoolSound, BuildCacheSound, PoolPausedSound DEF PoolController

-----------------------------------------------------------------------------
\* The vm controller, users, informers and restarts.

\* A step that changes only vmnetcfgs and VMs, not the copy the worker has.
LEMMA CfgWriteSound ==
  ASSUME TypeOK, TypeOK', Sound, UNCHANGED <<pool, memory, pw, cw>>,
         \A v \in VMs :
           /\ Plain(cfg'[v].api) /\ (cfg'[v].inf = cfg[v].inf \/ cfg'[v].inf = cfg[v].api)
           /\ "informer" \in cfg'[v].fresh => cfg'[v].inf = cfg'[v].api
           /\ "worker" \in cfg'[v].fresh => "worker" \in cfg[v].fresh /\ cfg'[v].api = cfg[v].api
           /\ vm'[v].alive /\ cfg'[v].api.exists => cfg'[v].api.nics = prepareVmNetCfg(vm'[v].nics)
  PROVE  Sound'
<1>1. (\A n \in Nets : PoolCopies(n))' /\ (\A n \in Nets : CachesSound(n))'
  BY GuestOnly, SMTT(60), ZenonT(60)
<1>2. PassSound' /\ PendingSound'
  BY DEF Sound, PassSound, PendingSound, Plain, RecsSound, memory
<1>3. ASSUME NEW v \in VMs PROVE CfgCopies(v)'
  <2>1. CfgCopies(v)
    BY SMTT(60), ZenonT(60) DEF Sound
  <2>2. Plain(cfg[v].api)'
    BY SMTT(60), ZenonT(60) DEF Plain, RecsSound
  <2>3. Plain(cfg[v].inf)'
    BY <2>1, SMTT(60), ZenonT(60) DEF Plain, RecsSound, CfgCopies
  <2> QED BY <2>1, <2>2, <2>3 DEF CfgCopies
<1> QED BY <1>1, <1>2, <1>3, SMTT(60), ZenonT(60) DEF Sound

\* What CfgWriteSound asks for holds of a vmnetcfg and VM that do not change.
LEMMA UntouchedSound ==
  ASSUME Sound, NEW v \in VMs
  PROVE  /\ Plain(cfg[v].api) /\ ("informer" \in cfg[v].fresh => cfg[v].inf = cfg[v].api)
         /\ vm[v].alive /\ cfg[v].api.exists => cfg[v].api.nics = prepareVmNetCfg(vm[v].nics)
BY DEF Sound, CfgCopies

\* So does every step of the vm controller,
LEMMA VMStepSound ==
  ASSUME TypeOK, TypeOK', Sound, VMController
  PROVE  Sound'
<1>1. PICK v \in VMs : VMOnChange(v)
  BY DEF VMController
<1>2. UNCHANGED <<vm, pool, memory, pw, cw>>
  BY <1>1 DEF VMOnChange, VMSkipped, VMCreates, VMUnchanged, VMUpdates, objects
<1>3. \A w \in VMs : cfg[w].api \in Cfg
  BY SMTT(60), ZenonT(60) DEF TypeOK, ApiObjects
<1>4. CASE UNCHANGED cfg
  BY <1>2, <1>4, UntouchedSound, CfgWriteSound, SMTT(60), ZenonT(60)
<1>5. ASSUME NEW c \in Cfg, Plain(c), c.exists => c.nics = prepareVmNetCfg(vm[v].nics),
             cfg' = [cfg EXCEPT ![v] = Written(cfg[v], c, "other")]
      PROVE  Sound'
  <2>1. /\ cfg'[v].api = c /\ cfg'[v].inf = cfg[v].inf /\ cfg'[v].fresh = {}
        /\ \A w \in VMs \ {v} : cfg'[w] = cfg[w]
    BY <1>5 DEF Written, TypeOK
  <2> QED BY <1>2, <1>5, <2>1, UntouchedSound, CfgWriteSound, SMTT(60), ZenonT(60)
<1>6. CASE VMCreates(v) /\ cfg' # cfg
  <2> DEFINE new == NewCfg(prepareVmNetCfg(vm[v].nics))
  <2>1. new \in Cfg
    BY ObjectTypes DEF TypeOK
  <2>2. Plain(new) /\ new.nics = prepareVmNetCfg(vm[v].nics)
    BY DEF NewCfg, Plain, RecsSound
  <2>3. cfg' = [cfg EXCEPT ![v] = Written(cfg[v], new, "other")]
    BY <1>6 DEF VMCreates
  <2> HIDE DEF new
  <2> QED BY <1>5, <2>1, <2>2, <2>3
<1>7. CASE VMUpdates(v) /\ cfg' # cfg
  <2> DEFINE nics == prepareVmNetCfg(vm[v].nics)
             c == cfg[v].api
             new == IF cfg[v].inf.inSynced = "False" THEN [c EXCEPT !.nics = nics]
                                                     ELSE [c EXCEPT !.inSynced = "False"]
  <2>1. cfg' = [cfg EXCEPT ![v] = Written(cfg[v], new, "other")] /\ "informer" \in cfg[v].fresh
        /\ vm[v].alive /\ cfg[v].inf.exists
    BY <1>7 DEF VMUpdates
  <2>2. c.exists /\ c.nics = nics /\ Plain(c)
    BY <2>1 DEF Sound, CfgCopies
  <2>3. nics \in SUBSET Nic
    BY ObjectTypes, SMTT(60), ZenonT(60) DEF TypeOK
  <2>4. new \in Cfg
    BY <1>3, <2>3, CfgUpdates DEF Cond
  <2>5. /\ new.nics = nics /\ new.recs = c.recs /\ new.paused = c.paused
        /\ new.deleting = c.deleting
    BY <1>3, <2>2, SMTT(60), ZenonT(60) DEF Cfg
  <2> HIDE DEF new
  <2>6. Plain(new)
    BY <2>2, <2>5 DEF Plain
  <2> QED BY <1>5, <2>1, <2>4, <2>5, <2>6
<1> QED BY <1>1, <1>4, <1>6, <1>7 DEF VMOnChange, VMSkipped, VMUnchanged, objects

\* ... and every step of a calm environment: users, informers and a restart.
LEMMA EnvironmentStepSound ==
  ASSUME TypeOK, TypeOK', Calm, Sound, UserStep \/ Deliver \/ Crash
  PROVE  Sound'
<1>1. \A v \in VMs : /\ ~ChangeVM(v) /\ ~RemoveVM(v) /\ ~PauseCfg(v)
                     /\ GiveVM(v) => ~cfg[v].api.exists
  BY SMTT(60), ZenonT(60) DEF Calm, ChangeVM, RemoveVM, PauseCfg, GiveVM
<1>2. ASSUME NEW v \in VMs, GiveVM(v) PROVE Sound'
  <2>1. UNCHANGED <<pool, cfg, memory, pw, cw>> /\ \A w \in VMs \ {v} : vm'[w] = vm[w]
    BY <1>2, SMTT(60), ZenonT(60) DEF GiveVM, TypeOK
  <2> QED BY <1>1, <1>2, <2>1, UntouchedSound, CfgWriteSound, SMTT(60), ZenonT(60)
<1>3. ASSUME NEW v \in VMs, CreateCfg(v) PROVE Sound'
  <2>1. PICK nics \in Desired[v] : cfg' = [cfg EXCEPT ![v] = Written(cfg[v], NewCfg(nics), "other")]
    BY <1>3 DEF CreateCfg
  <2>2. /\ cfg'[v].api = NewCfg(nics) /\ cfg'[v].inf = cfg[v].inf /\ cfg'[v].fresh = {}
        /\ \A w \in VMs \ {v} : cfg'[w] = cfg[w]
    BY <2>1 DEF Written, TypeOK
  <2>3. Plain(NewCfg(nics))
    BY DEF NewCfg, Plain, RecsSound
  <2>4. UNCHANGED <<vm, pool, memory, pw, cw>> /\ ~vm[v].alive
    BY <1>3 DEF CreateCfg
  <2> QED BY <2>2, <2>3, <2>4, UntouchedSound, CfgWriteSound
<1>4. ASSUME NEW v \in VMs, DeliverCfg(v) PROVE Sound'
  <2>1. /\ cfg'[v].api = cfg[v].api /\ cfg'[v].inf = cfg[v].api
        /\ "worker" \in cfg'[v].fresh => "worker" \in cfg[v].fresh
        /\ \A w \in VMs \ {v} : cfg'[w] = cfg[w]
    BY <1>4 DEF DeliverCfg, Delivered, TypeOK
  <2>2. UNCHANGED <<vm, pool, memory, pw, cw>>
    BY <1>4, SMTT(60), ZenonT(60) DEF DeliverCfg
  <2> QED BY <2>1, <2>2, UntouchedSound, CfgWriteSound, SMTT(60), ZenonT(60)
<1>5. ASSUME NEW n \in Nets, PausePool(n) PROVE Sound'
  <2> DEFINE p == pool[n].api
  <2>1. /\ pool'[n].api = [p EXCEPT !.paused = ~p.paused] /\ pool'[n].inf = pool[n].inf
        /\ pool'[n].fresh = {} /\ pool'[n].unseen = pool[n].unseen
        /\ \A m \in Nets \ {n} : pool'[m] = pool[m]
    BY <1>5 DEF PausePool, Written, TypeOK, ApiObjects
  <2>2. UNCHANGED <<vm, cfg, memory, pw, cw>>
    BY <1>5 DEF PausePool
  <2>3. pool'[n].api.ready = p.ready /\ pool'[n].api.alloc = p.alloc
    BY <2>1 DEF TypeOK, ApiObjects, Pool
  <2>4. \A m \in Nets : Within(pool[m].api, pool'[m].api) /\ Within(pool'[m].api, pool[m].api)
    BY <2>1, <2>3 DEF Within
  <2>5. PoolCopies(n)'
    <3>1. PoolCopies(n)
      BY DEF Sound
    <3>2. \A q : /\ Within(q, pool'[n].api) <=> Within(q, p)
                 /\ Within(pool'[n].api, q) <=> Within(p, q)
      BY <2>3 DEF Within
    <3> HIDE DEF p
    <3> QED BY <2>1, <2>2, <2>3, <3>1, <3>2 DEF PoolCopies, p
  <2>6. ASSUME NEW m \in Nets \ {n} PROVE PoolCopies(m)'
    <3>1. PoolCopies(m) /\ pool'[m] = pool[m] /\ pw' = pw
      BY <2>1, <2>2 DEF Sound
    <3> QED BY <3>1 DEF PoolCopies, Within
  <2>7. (\A m \in Nets : PoolCopies(m))'
    BY <2>5, <2>6
  <2>8. \A m \in Nets : "guest" \in pool'[m].fresh =>
          /\ "guest" \in pool[m].fresh /\ pool'[m].api = pool[m].api
          /\ "informer" \in pool[m].fresh => "informer" \in pool'[m].fresh
    BY <2>1
  <2> QED BY <2>2, <2>4, <2>7, <2>8, PoolSideKept
<1>6. ASSUME NEW n \in Nets, DeliverPool(n) PROVE Sound'
  <2>1. /\ pool'[n].api = pool[n].api /\ pool'[n].inf = pool[n].api /\ pool'[n].unseen = {}
        /\ pool'[n].fresh = pool[n].fresh \cup {"informer"}
        /\ \A m \in Nets \ {n} : pool'[m] = pool[m]
    BY <1>6, SMTT(60), ZenonT(60) DEF DeliverPool, Delivered, TypeOK
  <2>2. UNCHANGED <<vm, cfg, memory, pw, cw>>
    BY <1>6, SMTT(60), ZenonT(60) DEF DeliverPool
  <2>3. \A m \in Nets : pool[m].api \in Pool /\ Within(pool[m].api, pool'[m].api)
                        /\ Within(pool'[m].api, pool[m].api)
    <3>1. \A m \in Nets : pool'[m].api = pool[m].api /\ pool[m].api \in Pool
      BY <2>1 DEF TypeOK, ApiObjects
    <3> QED BY <3>1, WithinFacts, SMTT(60), ZenonT(60)
  <2>4. PoolCopies(n)'
    BY <2>1, <2>2, <2>3, ZenonT(60) DEF Sound, PoolCopies
  <2>5. ASSUME NEW m \in Nets \ {n} PROVE PoolCopies(m)'
    <3>1. PoolCopies(m)
      BY DEF Sound
    <3> QED BY <2>1, <2>2, <3>1, SMTT(60), ZenonT(60) DEF PoolCopies
  <2>6. (\A m \in Nets : PoolCopies(m))'
    BY <2>4, <2>5
  <2>7. \A m \in Nets : "guest" \in pool'[m].fresh =>
          /\ "guest" \in pool[m].fresh /\ pool'[m].api = pool[m].api
          /\ "informer" \in pool[m].fresh => "informer" \in pool'[m].fresh
    BY <2>1
  <2> QED BY <2>2, <2>3, <2>6, <2>7, PoolSideKept, SMTT(60), ZenonT(60)
<1>7. CASE Crash
  <2>1. \A n \in Nets : /\ pool'[n].api = pool[n].api /\ pool'[n].inf = pool[n].api
                        /\ pool'[n].fresh = {"informer"} /\ pool'[n].unseen = {}
    BY <1>7, SMTT(60), ZenonT(60) DEF Crash, Listed
  <2>2. \A v \in VMs : /\ cfg'[v].api = cfg[v].api /\ cfg'[v].inf = cfg[v].api
                       /\ cfg'[v].fresh = {"informer"}
    BY <1>7, SMTT(60), ZenonT(60) DEF Crash, Listed
  <2>3. pw' = IdlePool /\ cw' = IdleCfg /\ vm' = vm
    BY <1>7 DEF Crash
  <2>4. ASSUME NEW n \in Nets PROVE PoolCopies(n)'
    <3>1. Within(pool[n].api, pool[n].api) /\ pw'.n \notin Nets
      BY <2>3, WithinFacts, ConstantsAssumption, SMTT(60), ZenonT(60) DEF TypeOK, ApiObjects, IdlePool
    <3> QED BY <2>1, <3>1, SMTT(60), ZenonT(60) DEF PoolCopies
  <2>5. ASSUME NEW n \in Nets PROVE CachesSound(n)'
    <3>1. /\ ipam'[n].exists = FALSE /\ ipam'[n].free = {} /\ ipam'[n].used = {}
          /\ macs'[n].exists = FALSE /\ \A m \in Macs : macs'[n].ip[m] = NoIP
      BY <1>7 DEF Crash, NoSubnet, NoMACSet
    <3> QED BY <2>1, <3>1, ZenonT(60) DEF Sound, CachesSound, CachesMatch, RecordedIPs
  <2>6. PassSound' /\ PendingSound'
    BY <2>3, SMTT(60), ZenonT(60) DEF PassSound, PendingSound, IdleCfg, Plain, RecsSound, NoCfg, NewCfg
  <2>7. ASSUME NEW v \in VMs PROVE CfgCopies(v)'
    <3>1. cfg[v].api.recs \subseteq Rec
      BY DEF TypeOK, ApiObjects, Cfg
    <3>2. \A r \in Rec : pool'[r.net].api.alloc[r.ip] = pool[r.net].api.alloc[r.ip]
      BY <2>1 DEF Rec
    <3>3. CfgCopies(v)
      BY SMTT(60), ZenonT(60) DEF Sound
    <3>4. Plain(cfg[v].api)' /\ Plain(cfg[v].inf)'
      BY <2>2, <3>1, <3>2, <3>3 DEF CfgCopies, Plain, RecsSound
    <3>5. vm'[v].alive /\ cfg'[v].api.exists =>
            cfg'[v].api.nics = prepareVmNetCfg(vm'[v].nics)
      BY <2>2, <2>3, <3>3 DEF CfgCopies
    <3> QED BY <2>2, <3>4, <3>5, SMTT(60), ZenonT(60) DEF CfgCopies
  <2> QED BY <2>4, <2>5, <2>6, <2>7, SMTT(60), ZenonT(60) DEF Sound
<1> QED BY <1>1, <1>2, <1>3, <1>4, <1>5, <1>6, <1>7 DEF UserStep, Deliver
-----------------------------------------------------------------------------
\* The calm environment.

\* At the start the caches are empty, and so are the pools.
LEMMA InitSound == Init => Sound
<1> SUFFICES ASSUME Init PROVE Sound
  OBVIOUS
<1>1. pw.n \notin Nets /\ cw.v \notin VMs
  BY ConstantsAssumption DEF Init, IdlePool, IdleCfg
<1>2. ASSUME NEW n \in Nets PROVE PoolCopies(n) /\ CachesSound(n)
  <2>1. /\ pool[n].api = NewPool /\ pool[n].inf = NewPool /\ pool[n].fresh = {"informer"}
        /\ \A ip \in IPs : NewPool.alloc[ip] = NoMac
    BY DEF Init, Listed, NewPool
  <2>2. RecordedIPs(pool[n].api) = {}
    BY <2>1, ConstantsAssumption DEF RecordedIPs
  <2>3. PoolCopies(n)
    BY <1>1, <2>1, ConstantsAssumption DEF PoolCopies, Within
  <2>4. CachesSound(n)
    BY <2>2 DEF Init, CachesSound, CachesMatch, NoSubnet, NoMACSet
  <2> QED BY <2>3, <2>4
<1>3. ASSUME NEW v \in VMs PROVE CfgCopies(v)
  BY DEF Init, CfgCopies, Listed, NoCfg, NewCfg, Plain, RecsSound
<1>4. PassSound /\ PendingSound
  BY DEF Init, PassSound, PendingSound, IdleCfg, NoCfg, NewCfg, Plain, RecsSound
<1> QED BY <1>2, <1>3, <1>4 DEF Sound

\* Sound holds throughout, in every calm environment: the caches know of every entry
\* of the pools, whatever restarts, pauses of pools, agents and lagging copies do.
THEOREM CalmCorrect == Spec => []CalmInv
<1>1. Init => CalmInv
  BY InitSound DEF CalmInv
<1>2. TypeOK /\ TypeOK' /\ CalmInv /\ [Next]_vars => CalmInv'
  <2> SUFFICES ASSUME TypeOK, TypeOK', Calm, Sound, [Next]_vars PROVE Sound'
    BY DEF CalmInv, Calm
  <2>1. CASE UNCHANGED vars
    <3>1. UNCHANGED <<vm, pool, cfg, memory, pw, cw>>
      BY <2>1 DEF vars, objects
    <3> QED BY <3>1, UntouchedSound, CfgWriteSound
  <2> QED BY <2>1, PoolStepSound, CfgStepSound, VMStepSound, EnvironmentStepSound DEF Next
<1> QED BY <1>1, <1>2, TypeCorrect, PTL DEF Spec

\* As long as nothing is released, every address a vmnetcfg holds is recorded for its
\* interface in the status of the IPPool (AllocateRecords before AllocateDone, and no
\* later write of the pool from an older copy).
THEOREM AddressesRecorded == Spec => [](Calm => Recorded)
<1>1. CalmInv => (Calm => Recorded)
  BY DEF CalmInv, Sound, CfgCopies, Plain, RecsSound, Recorded, Held
<1> QED BY <1>1, CalmCorrect, PTL

\* ... and so no address is ever given to two interfaces.
THEOREM AddressesExclusive == Spec => [](Calm => Exclusive)
<1>1. Recorded => Exclusive
  BY SMTT(60), ZenonT(60) DEF Recorded, Exclusive
<1> QED BY <1>1, AddressesRecorded, PTL

\* ... and an address the IPPool records is never one that AllocateIP hands out, even
\* right after BuildCache rebuilt the caches from the handler's copy.
THEOREM RecordedNotFree == Spec => [](Calm => NotFree)
<1>1. CalmInv => (Calm => NotFree)
  BY DEF CalmInv, Sound, CachesSound, CachesMatch, NotFree
<1> QED BY <1>1, CalmCorrect, PTL

-----------------------------------------------------------------------------
\* The service.

\* Every step of the control plane is a step of the service, or none.
LEMMA StepImplements ==
  ASSUME TypeOK, TypeOK', Calm, Sound, Recorded', [Next]_vars
  PROVE  [Service!Next]_Service!vars
<1>1. CASE SameEntries
  <2>1. Ledger' = Ledger
    BY <1>1, SameLedger
  <2>2. HeldIsLedger'
    BY HeldRecorded, PTL
  <2> QED BY <2>1, <2>2 DEF Service!Next, Service!Serve, Service!Entries, HeldIsLedger
<1>2. CASE UNCHANGED vars
  <2>1. UNCHANGED pool
    BY <1>2 DEF vars, objects
  <2> QED BY <1>1, <2>1, UntouchedEntries
<1> QED BY <1>1, <1>2, NothingToClean, WorkerCopySound, PoolStepEntries, OtherStepEntries, CfgStepEntries,
           EntersRecords, StateTypes DEF Next

\* The control plane is an AddressService as long as nothing is released: across
\* restarts, rebuilds of the caches, pauses of pools and lagging copies, AllocateRecords
\* never overwrites the entry of another interface, no write of an IPPool loses or
\* invents one, and vmnetcfgs hold recorded addresses only.
THEOREM ServiceImplemented ==
  ASSUME Calm
  PROVE  Spec => ImplementsService
<1>1. Init => Service!Init
  BY InitImplements
<1>2. Calm
  OBVIOUS
<1>3. TypeOK /\ TypeOK' /\ CalmInv /\ (Calm => Recorded)' /\ [Next]_vars => [Service!Next]_Service!vars
  BY <1>2, StepImplements DEF CalmInv, Calm
<1> QED BY <1>1, <1>3, TypeCorrect, CalmCorrect, AddressesRecorded, PTL DEF Spec, ImplementsService, Service!Spec

-----------------------------------------------------------------------------
\* Static addresses.

\* An interface of a VM or of a hand-written vmnetcfg has a MAC address of its own.
OwnMacs == \A v \in VMs : \A nics \in Desired[v] : \A x, y \in nics : x.mac = y.mac => x = y

\* No step takes an interface out of a spec.
SpecsGrow == \A v \in VMs : cfg[v].api.nics \subseteq cfg'[v].api.nics

\* What was asked for still is.
LEMMA AskedKept ==
  ASSUME SpecsGrow, NEW m, NEW ip, Asked(m, ip)
  PROVE  Asked(m, ip)'
<1>1. PICK v \in VMs : \E nc \in cfg[v].api.nics : nc.mac = m /\ nc.ip \in {NoIP, ip}
  BY DEF Asked
<1>2. PICK nc \in cfg[v].api.nics : nc.mac = m /\ nc.ip \in {NoIP, ip}
  BY <1>1
<1>3. nc \in cfg'[v].api.nics
  BY DEF SpecsGrow
<1> QED BY <1>2, <1>3 DEF Asked

\* prepareVmNetCfg drops the addresses, and keeps one interface per MAC address.
LEMMA WishedMacs ==
  ASSUME NEW v \in VMs, NEW nics \in Wishes(v), NEW x \in nics
  PROVE  /\ \E wish \in Desired[v] : \E z \in wish : z.mac = x.mac
         /\ OwnMacs => \A y \in nics : x.mac = y.mac => x = y
<1>1. Desired[v] \subseteq SUBSET Nic
  BY ConstantsAssumption
<1>2. CASE nics \in Desired[v]
  BY <1>2 DEF OwnMacs
<1>3. ASSUME NEW wish \in Desired[v], nics = prepareVmNetCfg(wish)
      PROVE  /\ \E z \in wish : z.mac = x.mac
             /\ OwnMacs => \A y \in nics : x.mac = y.mac => x = y
  <2>1. ASSUME NEW y \in nics PROVE \E z \in wish : z.mac = y.mac /\ y = [z EXCEPT !.ip = NoIP]
    BY <1>1, <1>3, <2>1 DEF prepareVmNetCfg, Nic
  <2> QED BY <2>1 DEF OwnMacs
<1> QED BY <1>2, <1>3 DEF Wishes

\* A handler ends with the interfaces it started with.
LEMMA HandledSpecs ==
  ASSUME TypeOK, Sound, cw.pc # "idle", NEW new, NEW failed, NEW next, new.nics = cw.obj.nics,
         new.exists = cw.obj.exists, Handled(new, failed, next) \/ CfgPassEnds(new, failed)
  PROVE  /\ \A v \in VMs : /\ cfg'[v].api.nics = cfg[v].api.nics /\ cfg'[v].inf = cfg[v].inf
                           /\ cfg'[v].api.exists = cfg[v].api.exists
                           /\ cw'.v = v => cw.v = v /\ cw'.obj.nics = cw.obj.nics
         /\ cw'.cur = {}
<1>1. PICK v \in VMs : v = cw.v
  BY DEF TypeOK, CfgWork
<1>2. PICK t : /\ t = Saved(cfg[v], new, new # cw.obj)
               /\ cfg'[v] = t \/ cfg'[v] = Dropped(t, "worker")
               /\ \A w \in VMs \ {v} : cfg'[w] = cfg[w]
  BY <1>1, StateTypes DEF Handled, CfgPassEnds
<1>3. /\ (t.api = new /\ "worker" \in cfg[v].fresh) \/ t.api = cfg[v].api
      /\ t.inf = cfg[v].inf
  BY <1>2, SavedFacts
<1>4. cfg'[v].api = t.api /\ cfg'[v].inf = t.inf
  BY <1>2, DroppedFacts
<1>5. "worker" \in cfg[v].fresh => cw.obj = cfg[v].api
  BY DEF Sound, CfgCopies
<1>6. /\ (cw'.v = v /\ cw'.obj = new) \/ cw'.v = NoVM
      /\ cw'.cur = {}
  BY <1>1, HandledWork
<1>7. /\ cfg'[v].api.nics = cfg[v].api.nics /\ cfg'[v].inf = cfg[v].inf
      /\ cfg'[v].api.exists = cfg[v].api.exists
  BY <1>3, <1>4, <1>5
<1>8. \A w \in VMs : /\ cfg'[w].api.nics = cfg[w].api.nics /\ cfg'[w].inf = cfg[w].inf
                     /\ cfg'[w].api.exists = cfg[w].api.exists
  BY <1>2, <1>7
<1>9. \A w \in VMs : cw'.v = w => cw.v = w /\ cw'.obj.nics = cw.obj.nics
  BY <1>1, <1>6, ConstantsAssumption
<1> QED BY <1>6, <1>8, <1>9

\* The vmnetcfg controller leaves specs and informers alone, and its next object is the
\* one it has, with another status, or one of the informer's.
SpecsSame ==
  \A v \in VMs : /\ cfg'[v].api.nics = cfg[v].api.nics /\ cfg'[v].inf = cfg[v].inf
                 /\ cfg'[v].api.exists = cfg[v].api.exists
                 /\ cw'.v = v => \/ cw.v = v /\ cw'.obj.nics = cw.obj.nics
                                 \/ cw'.obj.nics = cfg[v].inf.nics

\* Addresses come into the MAC cache and into the allocation under way as asked for.
Grants ==
  /\ \A n \in Nets, m \in Macs :
       macs'[n].ip[m] # NoIP => macs'[n].ip[m] = macs[n].ip[m] \/ Asked(m, macs'[n].ip[m])
  /\ \A r \in cw'.cur : r \in cw.cur \/ Asked(r.mac, r.ip)

\* An object that ends a handler: the one it had, with another status or finalizer.
LEMMA EndedSpecs ==
  ASSUME TypeOK, Sound, UNCHANGED memory,
         \/ AllocateRefused \/ AllocateDone \/ Sync \/ CfgOnChange \/ CfgOnRemove
         \/ (\E nc \in cw.todo : AllocateNoAddress(nc))
         \/ (AllocateRecords /\ AllocateFails(TRUE))
  PROVE  SpecsSame /\ Grants
<1>1. cw.obj \in Cfg /\ ~cw.obj.deleting /\ ~cw.obj.paused
  BY DEF TypeOK, CfgWork, Sound, PassSound, Plain
<1>2. PICK new \in Cfg, failed \in BOOLEAN, next \in {"sync", "change", "remove"} :
        CfgEnds(new, failed, next)
  BY <1>1, CfgStepEnds
<1>3. cw.pc # "idle"
  BY DEF AllocateRefused, AllocateDone, Sync, CfgOnChange, CfgOnRemove, AllocateNoAddress, Allocating,
         AllocateRecords
<1>4. SpecsSame /\ cw'.cur = {}
  BY <1>2, <1>3, HandledSpecs DEF SpecsSame, CfgEnds
<1> QED BY <1>4 DEF Grants, memory

\* Allocate finds an address in the MAC cache, in a record of the status or in the
\* spec, or takes any where none is asked for.
LEMMA AllocatedSpecs ==
  ASSUME TypeOK, Sound, AsAsked, NEW nc \in cw.todo, AllocateRecovers(nc) \/ AllocateNew(nc)
  PROVE  SpecsSame /\ Grants
<1>1. /\ cw \in CfgWork /\ cw.v \in VMs /\ cw.todo \subseteq cw.obj.nics /\ nc \in Nic
      /\ nc.net \in Nets /\ nc.mac \in Macs /\ nc.ip \in IPs \cup {NoIP} /\ cw.obj.recs \subseteq Rec
  <2>1. cw \in CfgWork /\ cw.v \in VMs
    BY DEF TypeOK, CfgWork, AllocateRecovers, AllocateNew, Allocating
  <2>2. cw.todo \subseteq cw.obj.nics
    BY DEF Sound, PassSound
  <2> QED BY <2>1, <2>2 DEF CfgWork, Nic, Cfg
<1>2. nc \in cfg[cw.v].api.nics
  BY <1>1 DEF AsAsked, SpecsKept
<1>3. ASSUME NEW ip, AllocatedInMemory(nc, ip), UNCHANGED cfg, Asked(nc.mac, ip)
      PROVE  SpecsSame /\ \A r \in cw'.cur : Asked(r.mac, r.ip)
  <2> DEFINE rec == [net |-> nc.net, mac |-> nc.mac, ip |-> ip, state |-> "Allocated"]
  <2>1. cw.cur = {}
    BY DEF AllocateRecovers, AllocateNew, Allocating
  <2>2. cw'.v = cw.v /\ cw'.obj = cw.obj /\ cw'.cur \in {{}, {rec}}
    BY <1>1, <1>3, <2>1 DEF AllocatedInMemory, CfgWork
  <2> QED BY <1>3, <2>2 DEF SpecsSame
<1>4. CASE AllocateRecovers(nc)
  <2>1. Asked(nc.mac, macs[nc.net].ip[nc.mac])
    BY <1>1, <1>4 DEF AllocateRecovers, HasMAC, AsAsked, Granted
  <2> QED BY <1>3, <1>4, <2>1 DEF AllocateRecovers, Grants, memory
<1>5. CASE AllocateNew(nc)
  <2>1. PICK designated \in Designated(cw.obj, nc) :
          \E ip \in AllocatableIPs(ipam[nc.net], designated) :
            macs' = [macs EXCEPT ![nc.net] = AddMAC(@, nc.mac, ip)] /\ AllocatedInMemory(nc, ip)
    BY <1>5 DEF AllocateNew
  <2>2. PICK ip \in AllocatableIPs(ipam[nc.net], designated) :
            macs' = [macs EXCEPT ![nc.net] = AddMAC(@, nc.mac, ip)] /\ AllocatedInMemory(nc, ip)
    BY <2>1
  <2>3. designated = NoIP \/ ip = designated
    BY <2>2 DEF AllocatableIPs
  <2>4. ASSUME \E r \in cw.obj.recs : r.mac = nc.mac /\ r.ip = designated PROVE Asked(nc.mac, ip)
    <3>1. PICK r \in cw.obj.recs : r.mac = nc.mac /\ r.ip = designated
      BY <2>4
    <3>2. r \in Rec /\ r.net \in Nets /\ r.ip \in IPs /\ r.mac \in Macs
      BY <1>1 DEF Rec
    <3>3. pool[r.net].api.alloc[r.ip] = r.mac
      BY DEF Sound, PassSound, Plain, RecsSound
    <3>4. Asked(r.mac, r.ip)
      BY <3>2, <3>3 DEF AsAsked, Granted, RecordedIPs
    <3> QED BY <2>3, <3>1, <3>2, <3>4, NoIPAssumption
  <2>5. ASSUME designated = nc.ip PROVE Asked(nc.mac, ip)
    BY <1>1, <1>2, <2>3, <2>5 DEF Asked
  <2>6. Asked(nc.mac, ip)
    BY <2>4, <2>5 DEF Designated, findIPAddressFromNetworkConfigStatusByMACAddress
  <2>7. \A n \in Nets, m \in Macs :
          macs'[n].ip[m] = IF n = nc.net /\ m = nc.mac THEN ip ELSE macs[n].ip[m]
    BY <1>1, <2>2 DEF AddMAC, TypeOK, MACSets
  <2>8. SpecsSame /\ \A r \in cw'.cur : Asked(r.mac, r.ip)
    BY <1>3, <1>5, <2>2, <2>6 DEF AllocateNew
  <2>9. \A n \in Nets, m \in Macs :
          macs'[n].ip[m] # NoIP => macs'[n].ip[m] = macs[n].ip[m] \/ Asked(m, macs'[n].ip[m])
    BY <2>6, <2>7
  <2> QED BY <2>8, <2>9 DEF Grants
<1> QED BY <1>4, <1>5

\* The vmnetcfg controller gives interfaces what they asked for.
LEMMA CfgStepSpecs ==
  ASSUME TypeOK, Sound, AsAsked, CfgController
  PROVE  SpecsSame /\ Grants
<1>1. ~Cleanup
  BY NothingToClean
<1>2. CASE AllocateRecords /\ ~AllocateFails(TRUE)
  <2>1. PICK r \in cw.cur : cw' = [cw EXCEPT !.cur = {}, !.acc = @ \cup {r}] /\ UNCHANGED <<cfg, memory>>
    BY <1>2 DEF AllocateRecords
  <2>2. cw'.v = cw.v /\ cw'.obj = cw.obj /\ cw'.cur = {}
    BY <2>1 DEF TypeOK, CfgWork
  <2> QED BY <2>1, <2>2 DEF SpecsSame, Grants, memory
<1>3. ASSUME NEW v \in VMs, StartCfg(v) PROVE SpecsSame /\ Grants
  <2>1. cw.v = NoVM /\ cw.v \notin VMs /\ UNCHANGED memory
    BY <1>3, ConstantsAssumption DEF StartCfg, TypeOK
  <2>2. CASE UNCHANGED <<cw, cfg>>
    BY <2>1, <2>2 DEF SpecsSame, Grants, memory
  <2>3. CASE /\ cw' = [IdleCfg EXCEPT !.pc = "allocate", !.v = v, !.obj = cfg[v].inf, !.todo = cfg[v].inf.nics]
             /\ cfg' = [cfg EXCEPT ![v] = Taken(@, "worker")]
    <3>1. cw'.v = v /\ cw'.obj = cfg[v].inf /\ cw'.cur = {}
      BY <2>3 DEF IdleCfg
    <3>2. \A w \in VMs : cfg'[w] = cfg[w] \/ cfg'[w] = Taken(cfg[w], "worker")
      BY <2>3, StateTypes
    <3>3. \A w \in VMs : cfg'[w].api = cfg[w].api /\ cfg'[w].inf = cfg[w].inf
      BY <3>2, TakenFacts
    <3> QED BY <2>1, <3>1, <3>3 DEF SpecsSame, Grants, memory
  <2> QED BY <1>3, <2>2, <2>3 DEF StartCfg
<1>4. ASSUME AllocateRefused \/ AllocateDone \/ Sync \/ CfgOnChange \/ CfgOnRemove
             \/ (\E nc \in cw.todo : AllocateNoAddress(nc)) \/ AllocateRecords
      PROVE  UNCHANGED memory
  BY <1>4 DEF AllocateRefused, AllocateDone, AllocateNoAddress, Sync, CfgOnChange, CfgOnRemove,
              AllocateRecords
<1> QED BY <1>1, <1>2, <1>3, <1>4, EndedSpecs, AllocatedSpecs DEF CfgController, CfgStep, Allocate

\* What BuildCache loads is what the pool records.
LEMMA BuildCacheGrants ==
  ASSUME TypeOK, Sound, AsAsked, BuildCache
  PROVE  Grants
<1>1. PICK n \in Nets : n = pw.n
  BY DEF BuildCache, TypeOK, PoolWork
<1>2. pw.obj \in Pool /\ Within(pw.obj, pool[n].api) /\ cw' = cw /\ DOMAIN pw.obj.alloc = IPs
  BY <1>1 DEF BuildCache, TypeOK, PoolWork, Sound, PoolCopies, Pool
<1>3. CASE UNCHANGED memory
  BY <1>2, <1>3 DEF Grants, memory
<1>4. CASE \E set \in LoadedMACSets(pw.obj.alloc) : macs' = [macs EXCEPT ![n] = set]
  <2>1. PICK set \in LoadedMACSets(pw.obj.alloc) : macs' = [macs EXCEPT ![n] = set]
    BY <1>4
  <2>2. macs'[n] = set /\ \A m \in Nets \ {n} : macs'[m] = macs[m]
    BY <2>1 DEF TypeOK
  <2>3. ASSUME NEW m \in Macs, set.ip[m] # NoIP PROVE Asked(m, set.ip[m])
    <3>1. set.ip[m] \in IPs /\ pw.obj.alloc[set.ip[m]] = m
      BY <1>2, <2>1, <2>3 DEF LoadedMACSets
    <3>2. pool[n].api.alloc[set.ip[m]] = m
      BY <1>2, <3>1 DEF Within
    <3> QED BY <3>1, <3>2 DEF AsAsked, Granted, RecordedIPs
  <2> QED BY <1>2, <2>2, <2>3 DEF Grants
<1> QED BY <1>1, <1>3, <1>4 DEF BuildCache

\* The steps of the other actors grant nothing new.
LEMMA OtherGrants ==
  ASSUME TypeOK, Sound, AsAsked, PoolController \/ VMController \/ UserStep \/ Deliver \/ Crash
  PROVE  Grants
<1>1. CASE UNCHANGED <<memory, cw>>
  BY <1>1 DEF Grants, memory
<1>2. CASE PoolPaused
  <2>1. cw' = cw
    BY <1>2 DEF PoolPaused
  <2>2. \A n \in Nets : macs'[n] = macs[n] \/ macs'[n] = NoMACSet
    BY <1>2 DEF PoolPaused, memory, TypeOK
  <2> QED BY <2>1, <2>2 DEF Grants, NoMACSet
<1>3. CASE Crash
  <2>1. cw'.cur = {} /\ \A n \in Nets : macs'[n] = NoMACSet
    BY <1>3 DEF Crash, IdleCfg
  <2> QED BY <2>1 DEF Grants, NoMACSet
<1>4. ASSUME PoolStep, ~BuildCache, ~PoolPaused PROVE UNCHANGED <<memory, cw>>
  BY <1>4 DEF PoolStep, PoolOnChange, DeployAgent, MonitorAgent, PoolLabelsFail, PoolNotInitialized, PoolUsage
<1>5. ASSUME NEW n \in Nets, StartPool(n) \/ PausePool(n) \/ DeliverPool(n) PROVE UNCHANGED <<memory, cw>>
  BY <1>5 DEF StartPool, PausePool, DeliverPool
<1>6. ASSUME NEW v \in VMs,
             GiveVM(v) \/ ChangeVM(v) \/ RemoveVM(v) \/ CreateCfg(v) \/ PauseCfg(v) \/ DeliverCfg(v)
             \/ VMOnChange(v)
      PROVE  UNCHANGED <<memory, cw>>
  BY <1>6 DEF GiveVM, ChangeVM, RemoveVM, CreateCfg, PauseCfg, DeliverCfg, VMOnChange,
              VMSkipped, VMCreates, VMUnchanged, VMUpdates
<1> QED BY <1>1, <1>2, <1>3, <1>4, <1>5, <1>6, BuildCacheGrants DEF PoolController, VMController, UserStep, Deliver

\* A step that writes a spec at most once and copies it at most to the informer.
LEMMA SpecWritten ==
  ASSUME \A v \in VMs : SpecsKept(v), NEW v \in VMs, cw'.v = v => cw.v = v /\ cw'.obj = cw.obj,
         vm'[v].alive => vm'[v].nics \in Desired[v],
         cfg'[v].api.nics \in Wishes(v), ~cfg'[v].api.exists => cfg'[v].api.nics = {},
         cfg[v].api.nics \subseteq cfg'[v].api.nics,
         cfg'[v].inf.nics \in {cfg[v].inf.nics, cfg[v].api.nics}
  PROVE  SpecsKept(v)'
<1>1. SpecsKept(v)
  OBVIOUS
<1>2. cfg'[v].inf.nics \subseteq cfg'[v].api.nics
  BY <1>1 DEF SpecsKept
<1>3. cw'.v = v => cw'.obj.nics \subseteq cfg'[v].api.nics
  BY <1>1 DEF SpecsKept
<1> QED BY <1>2, <1>3 DEF SpecsKept, Wishes

\* ... and so does one that leaves VM and vmnetcfg alone.
LEMMA SpecUntouched ==
  ASSUME \A v \in VMs : SpecsKept(v), NEW v \in VMs, cw'.v = v => cw.v = v /\ cw'.obj = cw.obj,
         vm'[v] = vm[v], cfg'[v].api.nics = cfg[v].api.nics, cfg'[v].api.exists = cfg[v].api.exists,
         cfg'[v].inf \in {cfg[v].inf, cfg[v].api}
  PROVE  SpecsKept(v)' /\ cfg[v].api.nics \subseteq cfg'[v].api.nics
<1>1. SpecsKept(v)
  OBVIOUS
<1>2. /\ vm'[v].alive => vm'[v].nics \in Desired[v]
      /\ cfg'[v].api.nics \in Wishes(v) /\ (~cfg'[v].api.exists => cfg'[v].api.nics = {})
      /\ cfg'[v].inf.nics \in {cfg[v].inf.nics, cfg[v].api.nics}
  BY <1>1 DEF SpecsKept
<1> QED BY <1>2, SpecWritten

\* In a calm environment no step takes an interface out of a spec, and specs stay what
\* users wrote.
LEMMA SpecsStepKept ==
  ASSUME TypeOK, Calm, Sound, AsAsked, [Next]_vars
  PROVE  SpecsGrow /\ \A v \in VMs : SpecsKept(v)'
<1>0. \A v \in VMs : SpecsKept(v)
  BY DEF AsAsked
<1> DEFINE Good(v) == SpecsKept(v)' /\ cfg[v].api.nics \subseteq cfg'[v].api.nics
<1> SUFFICES ASSUME NEW v \in VMs PROVE Good(v)
  BY DEF SpecsGrow
<1>1. CASE UNCHANGED <<vm, cfg, cw>>
  BY <1>0, <1>1, SpecUntouched
<1>2. CASE CfgController
  <2>1. SpecsSame
    BY <1>2, CfgStepSpecs
  <2>2. UNCHANGED vm
    <3>1. ~Cleanup
      <4>1. cw.clean = {} /\ (cw.cur # {} => cw.pc = "allocate")
        BY DEF Sound, PassSound
      <4> QED BY <4>1 DEF Cleanup, CleanupUnrecords, CleanupGivesUp
    <3> QED BY <1>2, <3>1 DEF CfgController, CfgStep, Allocate, AllocateRefused, AllocateDone, AllocateNoAddress,
               AllocateRecovers, AllocateNew, AllocateRecords, Sync, CfgOnChange, CfgOnRemove, StartCfg
  <2> QED BY <1>0, <2>1, <2>2 DEF SpecsSame, SpecsKept, Wishes
<1>3. CASE PoolController
  <2>1. UNCHANGED <<vm, cfg, cw>>
    BY <1>3 DEF PoolController, PoolStep, PoolOnChange, DeployAgent, BuildCache, MonitorAgent, PoolLabelsFail,
                PoolPaused, PoolNotInitialized, PoolUsage, StartPool
  <2> QED BY <1>1, <2>1
<1>4. CASE Crash
  <2>1. cfg'[v].api = cfg[v].api /\ cfg'[v].inf = cfg[v].api /\ vm' = vm /\ cw'.v = NoVM /\ NoVM # v
    BY <1>4, ConstantsAssumption DEF Crash, Listed, IdleCfg
  <2> QED BY <1>0, <2>1, SpecUntouched
<1>5. ASSUME NEW n \in Nets, PausePool(n) \/ DeliverPool(n) PROVE UNCHANGED <<vm, cfg, cw>>
  BY <1>5 DEF PausePool, DeliverPool
<1>6. ASSUME NEW w \in VMs, UNCHANGED <<vm, cw>>, NEW c, c.nics \in Wishes(w), c.exists,
             cfg[w].api.nics \subseteq c.nics, cfg' = [cfg EXCEPT ![w] = Written(@, c, "other")]
      PROVE  Good(v)
  <2>1. v = w => cfg'[v].api = c /\ cfg'[v].inf = cfg[v].inf
    BY <1>6, StateTypes DEF Written
  <2>2. v # w => cfg'[v] = cfg[v]
    BY <1>6, StateTypes
  <2>3. vm[v].alive => vm[v].nics \in Desired[v]
    BY <1>0 DEF SpecsKept
  <2>4. CASE v # w
    BY <1>0, <1>6, <2>2, <2>4, SpecUntouched
  <2>5. CASE v = w
    BY <1>0, <1>6, <2>1, <2>3, <2>5, SpecWritten
  <2> QED BY <2>4, <2>5
<1>7. ASSUME NEW w \in VMs, CreateCfg(w) PROVE Good(v)
  <2>1. PICK nics \in Desired[w] : cfg' = [cfg EXCEPT ![w] = Written(@, NewCfg(nics), "other")]
    BY <1>7 DEF CreateCfg
  <2>2. NewCfg(nics).nics \in Wishes(w) /\ NewCfg(nics).exists
    BY DEF NewCfg, Wishes
  <2>3. cfg[w].api.nics = {} /\ UNCHANGED <<vm, cw>>
    BY <1>0, <1>7 DEF CreateCfg, SpecsKept
  <2> QED BY <1>6, <2>1, <2>2, <2>3
<1>8. ASSUME NEW w \in VMs, VMOnChange(w) PROVE Good(v)
  <2>1. UNCHANGED <<vm, cw>>
    BY <1>8 DEF VMOnChange, VMSkipped, VMCreates, VMUnchanged, VMUpdates, objects
  <2>2. CASE UNCHANGED cfg
    BY <1>1, <2>1, <2>2
  <2> DEFINE nics == prepareVmNetCfg(vm[w].nics)
  <2>3. vm[w].alive => nics \in Wishes(w)
    BY <1>0 DEF SpecsKept, Wishes
  <2>4. CASE VMCreates(w) /\ cfg' # cfg
    <3>1. cfg' = [cfg EXCEPT ![w] = Written(@, NewCfg(nics), "other")] /\ ~cfg[w].api.exists /\ vm[w].alive
      BY <2>4 DEF VMCreates
    <3>2. NewCfg(nics).nics = nics /\ NewCfg(nics).exists
      BY DEF NewCfg
    <3>3. cfg[w].api.nics = {}
      BY <1>0, <3>1 DEF SpecsKept
    <3> HIDE DEF nics
    <3> QED BY <1>6, <2>1, <2>3, <3>1, <3>2, <3>3
  <2>5. CASE VMUpdates(w) /\ cfg' # cfg
    <3> DEFINE c == cfg[w].api
               new == IF cfg[w].inf.inSynced = "False" THEN [c EXCEPT !.nics = nics]
                                                       ELSE [c EXCEPT !.inSynced = "False"]
    <3>1. cfg' = [cfg EXCEPT ![w] = Written(cfg[w], new, "other")] /\ "informer" \in cfg[w].fresh
          /\ vm[w].alive /\ cfg[w].inf.exists
      BY <2>5 DEF VMUpdates
    <3>2. c.exists /\ c.nics = nics /\ c \in Cfg
      BY <3>1 DEF Sound, CfgCopies, TypeOK, ApiObjects
    <3>3. new.nics = nics /\ new.exists
      BY <3>2 DEF Cfg
    <3> HIDE DEF new, nics
    <3> QED BY <1>6, <2>1, <2>3, <3>1, <3>2, <3>3
  <2> QED BY <1>8, <2>2, <2>4, <2>5 DEF VMOnChange, VMSkipped, VMUnchanged, objects
<1>9. ASSUME NEW w \in VMs, DeliverCfg(w) PROVE Good(v)
  <2>1. UNCHANGED <<vm, cw>> /\ cfg'[v].api = cfg[v].api /\ cfg'[v].inf \in {cfg[v].inf, cfg[v].api}
    BY <1>9, StateTypes DEF DeliverCfg, Delivered
  <2> QED BY <1>0, <2>1, SpecUntouched
<1>10. ASSUME NEW w \in VMs, GiveVM(w) PROVE Good(v)
  <2>1. vm'[v].alive => vm'[v].nics \in Desired[v]
    BY <1>0, <1>10 DEF GiveVM, SpecsKept, TypeOK
  <2>2. UNCHANGED <<cfg, cw>>
    BY <1>10 DEF GiveVM
  <2> QED BY <1>0, <2>1, <2>2 DEF SpecsKept, Wishes
<1>11. ASSUME NEW w \in VMs PROVE ~ChangeVM(w) /\ ~RemoveVM(w) /\ ~PauseCfg(w)
  BY DEF Calm, ChangeVM, RemoveVM, PauseCfg
<1>12. CASE UNCHANGED vars
  BY <1>1, <1>12 DEF vars, objects
<1> HIDE DEF Good
<1> QED BY <1>1, <1>2, <1>3, <1>4, <1>5, <1>7, <1>8, <1>9, <1>10, <1>11, <1>12
        DEF Next, UserStep, Deliver, VMController

\* Pools, caches and specs go on as asked for.
LEMMA AsAskedKept ==
  ASSUME TypeOK, TypeOK', Calm, Sound, AsAsked, [Next]_vars
  PROVE  AsAsked'
<1>1. SpecsGrow /\ \A v \in VMs : SpecsKept(v)'
  BY SpecsStepKept
<1>2. Grants
  <2>1. CASE UNCHANGED vars
    BY <2>1 DEF vars, memory, Grants
  <2> QED BY <2>1, CfgStepSpecs, OtherGrants DEF Next
<1>3. SameEntries \/ \E r \in cw.cur : Enters(r)
  <2>1. CASE UNCHANGED vars
    BY <2>1, UntouchedEntries DEF vars, objects
  <2> QED BY <2>1, NothingToClean, WorkerCopySound, PoolStepEntries, OtherStepEntries, CfgStepEntries DEF Next
<1>4. ASSUME NEW m, NEW ip, Asked(m, ip) PROVE Asked(m, ip)'
  BY <1>1, <1>4, AskedKept
<1>5. ASSUME NEW n \in Nets, NEW ip \in IPs, NEW m \in Macs, m = pool'[n].api.alloc[ip] PROVE Asked(m, ip)'
  <2>1. CASE pool[n].api.alloc[ip] = m
    BY <1>4, <2>1 DEF AsAsked, Granted, RecordedIPs
  <2>2. CASE \E r \in cw.cur : r.mac = m /\ r.ip = ip
    BY <1>4, <2>2 DEF AsAsked, Granted
  <2> QED BY <1>3, <1>5, <2>1, <2>2 DEF SameEntries, Within, Enters
<1>6. ASSUME NEW n \in Nets, NEW m \in Macs, NEW ip, ip = macs'[n].ip[m], ip # NoIP PROVE Asked(m, ip)'
  BY <1>2, <1>4, <1>6 DEF Grants, AsAsked, Granted
<1>7. ASSUME NEW r \in cw'.cur PROVE Asked(r.mac, r.ip)'
  BY <1>2, <1>4, <1>7 DEF Grants, AsAsked, Granted
<1>8. (\A n \in Nets : \A ip \in RecordedIPs(pool[n].api) : Asked(pool[n].api.alloc[ip], ip))'
  BY <1>5 DEF RecordedIPs, Asked
<1>9. (\A n \in Nets, m \in Macs : macs[n].ip[m] # NoIP => Asked(m, macs[n].ip[m]))'
  BY <1>6 DEF Asked
<1>10. (\A r \in cw.cur : Asked(r.mac, r.ip))'
  BY <1>7 DEF Asked
<1> QED BY <1>1, <1>8, <1>9, <1>10 DEF AsAsked, Granted

\* A static address in the spec of a vmnetcfg is the one its status reports, as long as
\* nothing is released: the address that a record, the MAC cache or a rebuilt cache
\* gives an interface comes from its spec, whatever is restarted or lags in between.
THEOREM StaticAddressesHonoured ==
  ASSUME OwnMacs
  PROVE  Spec => [](Calm => StaticHonoured)
<1> DEFINE Inv == Calm => AsAsked
<1>1. Init => Inv
  <2> SUFFICES ASSUME Init PROVE AsAsked
    OBVIOUS
  <2>1. \A n \in Nets : RecordedIPs(pool[n].api) = {}
    BY ConstantsAssumption DEF Init, Listed, NewPool, RecordedIPs
  <2>2. (\A n \in Nets, m \in Macs : macs[n].ip[m] = NoIP) /\ cw.cur = {} /\ cw.v = NoVM
    BY DEF Init, NoMACSet, IdleCfg
  <2>3. ASSUME NEW v \in VMs PROVE SpecsKept(v)
    <3>1. cfg[v].api.nics = {} /\ cfg[v].inf.nics = {} /\ ~vm[v].alive /\ v # NoVM
      BY ConstantsAssumption DEF Init, Listed, NoCfg, NewCfg
    <3> QED BY <2>2, <3>1 DEF SpecsKept, Wishes
  <2> QED BY <2>1, <2>2, <2>3 DEF AsAsked, Granted
<1>2. TypeOK /\ TypeOK' /\ CalmInv /\ Inv /\ [Next]_vars => Inv'
  BY AsAskedKept DEF CalmInv, Calm
<1>3. TypeOK /\ CalmInv /\ Inv => (Calm => StaticHonoured)
  <2> SUFFICES ASSUME TypeOK, Sound, AsAsked,
                      NEW v \in VMs, NEW r \in cfg[v].api.recs, NEW nc \in cfg[v].api.nics,
                      nc.mac = r.mac, nc.ip # NoIP
               PROVE  r.ip = nc.ip
    BY DEF CalmInv, StaticHonoured
  <2>1. r.net \in Nets /\ r.ip \in IPs /\ r.mac \in Macs
    BY DEF TypeOK, ApiObjects, Cfg, Rec
  <2>2. pool[r.net].api.alloc[r.ip] = r.mac
    BY DEF Sound, CfgCopies, Plain, RecsSound
  <2>3. Asked(r.mac, r.ip)
    BY <2>1, <2>2 DEF AsAsked, Granted, RecordedIPs
  <2>4. PICK w \in VMs : \E mine \in cfg[w].api.nics : mine.mac = r.mac /\ mine.ip \in {NoIP, r.ip}
    BY <2>3 DEF Asked
  <2>5. cfg[v].api.nics \in Wishes(v) /\ cfg[w].api.nics \in Wishes(w)
    BY DEF AsAsked, SpecsKept
  <2>6. PICK mine \in cfg[w].api.nics : mine.mac = r.mac /\ mine.ip \in {NoIP, r.ip}
    BY <2>4
  <2>7. /\ \E wish \in Desired[v] : \E z \in wish : z.mac = nc.mac
        /\ \E wish \in Desired[w] : \E z \in wish : z.mac = mine.mac
    BY <2>5, WishedMacs
  <2>8. v = w
    BY <2>6, <2>7, DistinctMacs
  <2>9. mine = nc
    BY <2>5, <2>6, <2>8, WishedMacs
  <2> QED BY <2>6, <2>9
<1> QED BY <1>1, <1>2, <1>3, TypeCorrect, CalmCorrect, PTL DEF Spec
=============================================================================
