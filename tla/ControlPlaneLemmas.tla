-------------------------- MODULE ControlPlaneLemmas --------------------------
(*****************************************************************************)
(* Facts about the operators and the invariants of the control plane that    *)
(* the proofs about its steps share, and the types that its steps keep.      *)
(*****************************************************************************)
EXTENDS ControlPlaneInvariant, FiniteSetTheorems, TLAPS

\* Most leaves are first-order: Zenon is tried first, the SMT solver after it.
USE ZenonT(2), SMTT(20), ZenonT(20)

-----------------------------------------------------------------------------
\* What the operators of ApiObject and Allocators return, as facts about types.

\* Every operation on an API object (ApiObject) leaves an API object.
LEMMA ApiObjectTypes ==
  ASSUME NEW Obj, NEW s \in ApiObjects(Obj), NEW obj \in Obj, NEW changed \in BOOLEAN
  PROVE  /\ Listed(obj) \in ApiObjects(Obj) /\ Delivered(s) \in ApiObjects(Obj)
         /\ Saved(s, obj, changed) \in ApiObjects(Obj)
         /\ \A a \in {"worker", "guest", "other"} : Written(s, obj, a) \in ApiObjects(Obj)
         /\ \A w \in {"worker", "guest"} : Taken(s, w) \in ApiObjects(Obj)
         /\ Dropped(s, "worker") \in ApiObjects(Obj) /\ Dropped(s, "guest") \in ApiObjects(Obj)
BY DEF ApiObjects, Holder, Listed, Delivered, Saved, Written, Taken, Dropped

\* The in-memory allocators (pkg/ipam, pkg/cache) stay well-typed.
LEMMA AllocatorTypes ==
  /\ NoSubnet \in Subnets /\ NoMACSet \in MACSets
  /\ \A s \in Subnets : \A ips \in SUBSET IPs : AllocateIP(s, ips) \in Subnets
  /\ \A s \in Subnets : \A ip \in IPs : DeallocateIP(s, ip) \in Subnets
  /\ \A range \in SUBSET IPs : NewIPSubnet(range) \in Subnets
  /\ \A s \in Subnets : \A ips \in SUBSET IPs : RevokeIP(s, ips) \in Subnets
  /\ \A s \in MACSets : \A m \in Macs : \A ip \in IPs : AddMAC(s, m, ip) \in MACSets
  /\ \A s \in MACSets : \A m \in Macs : DeleteMAC(s, m) \in MACSets
  /\ \A alloc : LoadedMACSets(alloc) \subseteq MACSets
BY DEF NoSubnet, Subnets, NoMACSet, MACSets, AllocateIP, DeallocateIP, NewIPSubnet,
       RevokeIP, AddMAC, DeleteMAC, LoadedMACSets

\* The initial objects and idle workers are well-typed.
LEMMA ObjectTypes ==
  /\ NewPool \in Pool /\ NoCfg \in Cfg
  /\ \A nics \in SUBSET Nic : NewCfg(nics) \in Cfg /\ prepareVmNetCfg(nics) \in SUBSET Nic
  /\ IdlePool \in PoolWork /\ IdleCfg \in CfgWork
<1>1. NewPool \in Pool
  BY ConstantsAssumption DEF NewPool, Pool, Cond
<1>2. \A nics \in SUBSET Nic : NewCfg(nics) \in Cfg
  BY DEF NewCfg, Cfg, Cond
<1>3. NoCfg \in Cfg
  BY DEF NoCfg, NewCfg, Cfg, Cond
<1>4. \A nics \in SUBSET Nic : prepareVmNetCfg(nics) \in SUBSET Nic
  BY DEF prepareVmNetCfg, Nic
<1>5. IdlePool \in PoolWork /\ IdleCfg \in CfgWork
  BY <1>1, <1>3 DEF IdlePool, PoolWork, IdleCfg, CfgWork
<1> QED BY <1>1, <1>2, <1>3, <1>4, <1>5

\* A vmnetcfg copy with another status, condition or finalizer is still one.
LEMMA CfgUpdates ==
  ASSUME NEW c \in Cfg
  PROVE  /\ \A b \in BOOLEAN : /\ [c EXCEPT !.final = b] \in Cfg
                               /\ [c EXCEPT !.deleting = b] \in Cfg
                               /\ [c EXCEPT !.paused = b] \in Cfg
         /\ \A x \in Cond : /\ [c EXCEPT !.allocated = x] \in Cfg
                            /\ [c EXCEPT !.inSynced = x] \in Cfg
                            /\ [c EXCEPT !.disabled = x] \in Cfg
                            /\ \A recs \in SUBSET Rec :
                                 /\ [c EXCEPT !.recs = recs, !.allocated = x] \in Cfg
                                 /\ [c EXCEPT !.inSynced = x, !.recs = recs] \in Cfg
                                 /\ [c EXCEPT !.disabled = x, !.recs = recs] \in Cfg
         /\ \A nics \in SUBSET Nic : [c EXCEPT !.nics = nics] \in Cfg
BY ZenonT(60) DEF Cfg

\* A pool copy with another agent, condition, entry or usage is still one.
LEMMA PoolUpdates ==
  ASSUME NEW p \in Pool
  PROVE  /\ \A b \in BOOLEAN : [p EXCEPT !.agent = b] \in Pool /\ [p EXCEPT !.paused = b] \in Pool
         /\ \A x \in Cond : [p EXCEPT !.ready = x] \in Pool
         /\ [p EXCEPT !.agent = FALSE, !.stopped = "True"] \in Pool
         /\ [p EXCEPT !.stopped = "False", !.ready = "False"] \in Pool
         /\ \A ip \in IPs : \A m \in Macs \cup {NoMac} : [p EXCEPT !.alloc[ip] = m] \in Pool
         /\ \A k \in Nat : \A alloc \in [IPs -> Macs \cup {NoMac, Mark}] :
              [p EXCEPT !.stopped = "False", !.used = k, !.alloc = alloc] \in Pool
BY ZenonT(60) DEF Pool, Cond

\* What TypeOK says of the pools, the caches and the workers, for steps that are
\* about states before and after.
LEMMA StateTypes ==
  ASSUME TypeOK
  PROVE  /\ pool \in [Nets -> ApiObjects(Pool)] /\ cfg \in [VMs -> ApiObjects(Cfg)]
         /\ ipam \in [Nets -> Subnets] /\ macs \in [Nets -> MACSets]
         /\ pw \in PoolWork /\ cw \in CfgWork
         /\ pw.pc # "idle" => pw.n \in Nets
         /\ \A n \in Nets : pool[n] \in ApiObjects(Pool) /\ pool[n].api \in Pool /\ pool[n].inf \in Pool
         /\ \A r \in cw.cur : r \in Rec /\ r.net \in Nets /\ r.ip \in IPs /\ r.mac \in Macs
<1>1. \A n \in Nets : pool[n] \in ApiObjects(Pool) /\ pool[n].api \in Pool /\ pool[n].inf \in Pool
  BY DEF TypeOK, ApiObjects
<1>2. \A r \in cw.cur : r \in Rec /\ r.net \in Nets /\ r.ip \in IPs /\ r.mac \in Macs
  BY DEF TypeOK, CfgWork, Rec
<1>3. pw.pc # "idle" => pw.n \in Nets
  BY DEF TypeOK, PoolWork
<1> QED BY <1>1, <1>2, <1>3 DEF TypeOK

\* A copy that is sent is stored if it is fresh; otherwise nothing changes.
LEMMA SavedFacts ==
  \A s, new, changed :
    LET t == Saved(s, new, changed) IN
    \/ /\ changed /\ "worker" \in s.fresh /\ t.api = new /\ t.inf = s.inf
       /\ t.fresh = {"worker"} /\ t.unseen = s.unseen \cup {"worker"}
    \/ t = s /\ (changed => "worker" \notin s.fresh)
BY DEF Saved, Written

\* Dropped: forgetting a worker's copy changes who has a fresh one, and nothing else.
LEMMA DroppedFacts ==
  \A s, who : LET t == Dropped(s, who) IN
    t.api = s.api /\ t.inf = s.inf /\ t.unseen = s.unseen /\ t.fresh = s.fresh \ {who}
BY DEF Dropped

\* Taken: a worker that reads the informer's copy leaves the object and the informer alone.
LEMMA TakenFacts ==
  \A s, who : LET t == Taken(s, who) IN
    /\ t.api = s.api /\ t.inf = s.inf /\ t.unseen = s.unseen
    /\ \A h : h # who => (h \in t.fresh <=> h \in s.fresh)
    /\ who \in t.fresh <=> "informer" \in s.fresh
BY DEF Taken

-----------------------------------------------------------------------------
\* What keeps the parts of Sound.

\* Within is a preorder on pools.
LEMMA WithinFacts ==
  /\ \A p \in Pool : Within(p, p)
  /\ \A p, q, r \in Pool : Within(p, q) /\ Within(q, r) => Within(p, r)
BY DEF Within, Pool

\* Caches that agree with a pool have its entries, which may be given out.
LEMMA AgreedIPs ==
  ASSUME NEW p, NEW subnet, NEW set, NEW ips, CachesMatch(p, subnet, set, ips)
  PROVE  /\ RecordedIPs(p) \subseteq ips /\ subnet.exists = set.exists
         /\ subnet.exists => RecordedIPs(p) \subseteq subnet.used
         /\ subnet.free \cup subnet.used \subseteq ips /\ subnet.free \cap subnet.used = {}
BY DEF CachesMatch

\* What caches that agree with a pool say of a MAC address.
LEMMA AgreedMac ==
  ASSUME NEW p, NEW subnet, NEW set, NEW ips, CachesMatch(p, subnet, set, ips),
         NEW m \in Macs, set.ip[m] # NoIP
  PROVE  /\ set.ip[m] \in subnet.used /\ set.ip[m] \in ips
         /\ p.alloc[set.ip[m]] \in Macs => p.alloc[set.ip[m]] = m
         /\ \A k \in Macs : set.ip[m] = set.ip[k] => m = k
BY DEF CachesMatch

\* Caches agree with every pool that has the same entries for interfaces.
LEMMA AgreementKept ==
  ASSUME NEW p, NEW q, NEW subnet, NEW set \in MACSets, NEW ips,
         CachesMatch(p, subnet, set, ips), Within(p, q), Within(q, p)
  PROVE  CachesMatch(q, subnet, set, ips)
<1>1. \A ip \in IPs : /\ q.alloc[ip] \in Macs <=> p.alloc[ip] \in Macs
                      /\ q.alloc[ip] \in Macs => q.alloc[ip] = p.alloc[ip]
  BY DEF Within
<1>2. RecordedIPs(q) = RecordedIPs(p)
  BY <1>1 DEF RecordedIPs
<1>3. ASSUME NEW m \in Macs, set.ip[m] # NoIP, q.alloc[set.ip[m]] \in Macs
      PROVE  q.alloc[set.ip[m]] = m
  <2>1. PICK ip \in IPs : ip = set.ip[m]
    BY <1>3 DEF MACSets
  <2> QED BY <1>1, <1>3, <2>1, AgreedMac
<1> QED BY <1>2, <1>3 DEF CachesMatch

\* AllocateIP and AddMAC of a free address: no entry has it, and no MAC address.
LEMMA AgreementGrown ==
  ASSUME NEW p, NEW subnet, NEW set \in MACSets, NEW ips, CachesMatch(p, subnet, set, ips),
         subnet.exists, NEW ip \in subnet.free, ip \in IPs, NEW mac \in Macs
  PROVE  CachesMatch(p, AllocateIP(subnet, {ip}), AddMAC(set, mac, ip), ips)
<1> DEFINE grown == AllocateIP(subnet, {ip})
           added == AddMAC(set, mac, ip)
<1>1. /\ grown.exists = subnet.exists /\ grown.free = subnet.free \ {ip}
      /\ grown.used = subnet.used \cup {ip}
  BY DEF AllocateIP
<1>2. /\ added.exists = set.exists /\ added.ip[mac] = ip
      /\ \A m \in Macs \ {mac} : added.ip[m] = set.ip[m]
  BY DEF AddMAC, MACSets
<1>3. p.alloc[ip] \notin Macs
  BY DEF CachesMatch, RecordedIPs
<1>4. \A m \in Macs : set.ip[m] # NoIP => set.ip[m] # ip
  BY DEF CachesMatch
<1> HIDE DEF grown, added
<1>5. ASSUME NEW m \in Macs, added.ip[m] # NoIP
      PROVE  /\ added.ip[m] \in grown.used
             /\ p.alloc[added.ip[m]] \in Macs => p.alloc[added.ip[m]] = m
  <2>1. CASE m = mac
    BY <1>1, <1>2, <1>3, <2>1
  <2>2. CASE m # mac
    <3>1. added.ip[m] = set.ip[m] /\ set.ip[m] # NoIP
      BY <1>2, <1>5, <2>2
    <3>2. set.ip[m] \in subnet.used /\ (p.alloc[set.ip[m]] \in Macs => p.alloc[set.ip[m]] = m)
      BY <3>1, AgreedMac
    <3> QED BY <1>1, <3>1, <3>2
  <2> QED BY <2>1, <2>2
<1>6. ASSUME NEW m \in Macs, NEW k \in Macs, added.ip[m] # NoIP, added.ip[m] = added.ip[k]
      PROVE  m = k
  <2>1. CASE m # mac /\ k # mac
    <3>1. set.ip[m] = set.ip[k] /\ set.ip[m] # NoIP
      BY <1>2, <1>6, <2>1
    <3> QED BY <3>1, AgreedMac
  <2> QED BY <1>2, <1>4, <1>6, <2>1
<1>7. /\ RecordedIPs(p) \subseteq ips /\ grown.exists = added.exists
      /\ grown.exists /\ RecordedIPs(p) \subseteq grown.used
      /\ grown.free \cup grown.used \subseteq ips /\ grown.free \cap grown.used = {}
  BY <1>1, <1>2 DEF CachesMatch
<1>8. CachesMatch(p, grown, added, ips)
  BY <1>5, <1>6, <1>7 DEF CachesMatch
<1> QED BY <1>8 DEF grown, added

\* Nothing changes for the caches of a network, nor for the entries of its pool.
LEMMA CachesKept ==
  ASSUME NEW n \in Nets, CachesSound(n), ipam'[n] = ipam[n], macs'[n] = macs[n],
         pool'[n].api = pool[n].api
  PROVE  CachesSound(n)'
BY DEF CachesSound

\* What pools record they keep recording, if entries only grow.
LEMMA RecordsKept ==
  ASSUME TypeOK, TypeOK', \A n \in Nets : Within(pool[n].api, pool'[n].api)
  PROVE  \A r \in Rec : pool[r.net].api.alloc[r.ip] = r.mac =>
                          pool'[r.net].api.alloc[r.ip] = r.mac
BY DEF Within, Rec

\* ... so the vmnetcfg side of Sound holds after a step that does not touch it.
LEMMA CfgSideKept ==
  ASSUME TypeOK, TypeOK', Sound, UNCHANGED <<vm, cfg, cw>>,
         \A n \in Nets : Within(pool[n].api, pool'[n].api)
  PROVE  (\A v \in VMs : CfgCopies(v))' /\ PassSound'
<1>1. \A r \in Rec : pool[r.net].api.alloc[r.ip] = r.mac =>
                       pool'[r.net].api.alloc[r.ip] = r.mac
  BY RecordsKept
<1>2. cw.obj.recs \subseteq Rec /\ cw.acc \subseteq Rec
  BY DEF TypeOK, CfgWork, Cfg
<1>3. \A v \in VMs : cfg[v].api.recs \subseteq Rec /\ cfg[v].inf.recs \subseteq Rec
  BY DEF TypeOK, ApiObjects, Cfg
<1>4. PassSound'
  BY <1>1, <1>2 DEF Sound, PassSound, Plain, RecsSound
<1>5. ASSUME NEW v \in VMs PROVE CfgCopies(v)'
  BY <1>1, <1>3 DEF Sound, CfgCopies, Plain, RecsSound
<1> QED BY <1>4, <1>5

\* The pool side of Sound after such a step that leaves the caches alone.
LEMMA PoolSideKept ==
  ASSUME TypeOK, TypeOK', Sound, UNCHANGED <<vm, cfg, cw, memory>>,
         (\A n \in Nets : PoolCopies(n))',
         \A n \in Nets : Within(pool[n].api, pool'[n].api) /\ Within(pool'[n].api, pool[n].api),
         \A n \in Nets : "guest" \in pool'[n].fresh =>
           /\ "guest" \in pool[n].fresh /\ pool'[n].api = pool[n].api
           /\ "informer" \in pool[n].fresh => "informer" \in pool'[n].fresh
  PROVE  Sound'
<1>1. (\A v \in VMs : CfgCopies(v))' /\ PassSound'
  BY CfgSideKept, SMTT(60), ZenonT(60)
<1>2. ASSUME NEW n \in Nets PROVE CachesSound(n)'
  <2>1. CachesSound(n) /\ macs[n] \in MACSets
    BY StateTypes DEF Sound
  <2>2. CachesMatch(pool'[n].api, ipam[n], macs[n], PoolRange[n] \ Revoked[n])
    BY <2>1, AgreementKept DEF CachesSound
  <2> QED BY <2>2 DEF CachesSound, memory
<1>3. PendingSound'
  <2>1. \A r \in cw.cur : r \in Rec /\ r.net \in Nets
    BY DEF TypeOK, CfgWork, Rec
  <2>2. PendingSound
    BY DEF Sound
  <2> QED BY <2>1, <2>2 DEF PendingSound, memory
<1> QED BY <1>1, <1>2, <1>3 DEF Sound

\* A step that changes nothing of the pools but whether the guest's copy is fresh.
LEMMA GuestOnly ==
  ASSUME TypeOK, TypeOK', Sound, UNCHANGED pw,
         \A n \in Nets : /\ pool'[n].api = pool[n].api /\ pool'[n].inf = pool[n].inf
                         /\ pool'[n].unseen = pool[n].unseen
                         /\ \A h \in {"informer", "worker"} :
                              h \in pool'[n].fresh <=> h \in pool[n].fresh
  PROVE  /\ (\A n \in Nets : PoolCopies(n))'
         /\ UNCHANGED memory => (\A n \in Nets : CachesSound(n))'
<1>1. ASSUME NEW n \in Nets PROVE PoolCopies(n)'
  BY DEF Sound, PoolCopies
<1>2. ASSUME NEW n \in Nets, UNCHANGED memory PROVE CachesSound(n)'
  <2>1. CachesSound(n)
    BY DEF Sound
  <2> QED BY <1>2, <2>1, CachesKept DEF memory
<1> QED BY <1>1, <1>2

-----------------------------------------------------------------------------
\* Types.

\* The end of a vmnetcfg handler (Handled) and of a vmnetcfg pass (CfgPassEnds).
LEMMA CfgHandledTypes ==
  ASSUME TypeOK, cw.pc # "idle", NEW new \in Cfg, NEW failed \in BOOLEAN,
         NEW next \in {"sync", "change", "remove"},
         Handled(new, failed, next) \/ CfgPassEnds(new, failed)
  PROVE  /\ cfg' \in [VMs -> ApiObjects(Cfg)] /\ cfgQ' \subseteq VMs
         /\ cw' \in CfgWork /\ (cw.pc = "idle" <=> cw.v = NoVM)'
<1> DEFINE v == cw.v
           changed == new # cw.obj
<1>1. v \in VMs /\ NoVM \notin VMs
  BY ConstantsAssumption DEF TypeOK, CfgWork
<1>2. cfg[v] \in ApiObjects(Cfg) /\ changed \in BOOLEAN
  BY <1>1 DEF TypeOK
<1>3. Saved(cfg[v], new, changed) \in ApiObjects(Cfg)
  BY <1>2, ApiObjectTypes
<1>4. Dropped(Saved(cfg[v], new, changed), "worker") \in ApiObjects(Cfg)
  BY <1>3, ApiObjectTypes
<1>5. ToClean(next, new) \subseteq Rec
  BY DEF ToClean, StaleRecs, Cfg
<1>6. cfg' \in [VMs -> ApiObjects(Cfg)] /\ cfgQ' \subseteq VMs
  BY <1>1, <1>3, <1>4 DEF Handled, CfgPassEnds, TypeOK, Also
<1>7. IdleCfg \in CfgWork
  BY ObjectTypes
<1>8. CASE Handled(new, failed, next)
  BY <1>1, <1>5, <1>6, <1>7, <1>8 DEF Handled, CfgWork, IdleCfg
<1>9. CASE CfgPassEnds(new, failed)
  BY <1>6, <1>7, <1>9 DEF CfgPassEnds, IdleCfg
<1> QED BY <1>8, <1>9

\* The end of an ippool handler (StatusHandled) and of an ippool pass.
LEMMA PoolHandledTypes ==
  ASSUME TypeOK, pw.pc # "idle", NEW new \in Pool, NEW failed \in BOOLEAN,
         NEW next \in {"build", "monitor", "change"}, NEW changed \in BOOLEAN,
         StatusHandled(new, changed, failed, next) \/ PoolPassEnds(new, failed)
  PROVE  /\ pool' \in [Nets -> ApiObjects(Pool)] /\ poolQ' \subseteq Nets
         /\ pw' \in PoolWork /\ (pw.pc = "idle" <=> pw.n = NoNet)'
<1> DEFINE n == pw.n
           differs == new # pw.obj
<1>1. n \in Nets /\ NoNet \notin Nets
  BY ConstantsAssumption DEF TypeOK, PoolWork
<1>2. pool[n] \in ApiObjects(Pool) /\ differs \in BOOLEAN
  BY <1>1 DEF TypeOK
<1>3. \A c \in BOOLEAN : Saved(pool[n], new, c) \in ApiObjects(Pool)
  BY <1>2, ApiObjectTypes
<1>4. Dropped(Saved(pool[n], new, differs), "worker") \in ApiObjects(Pool)
  BY <1>2, <1>3, ApiObjectTypes
<1>5. IdlePool \in PoolWork
  BY ObjectTypes
<1>6. CASE StatusHandled(new, changed, failed, next)
  BY <1>1, <1>3, <1>6 DEF StatusHandled, PoolWork, TypeOK, Also
<1>7. CASE PoolPassEnds(new, failed)
  BY <1>1, <1>4, <1>5, <1>7, SMTT(60), ZenonT(60) DEF PoolPassEnds, IdlePool, TypeOK, Also
<1> QED BY <1>6, <1>7

-----------------------------------------------------------------------------
\* TypeOK is inductive: one lemma per controller.

\* The ippool controller.
LEMMA PoolStepTypes ==
  ASSUME TypeOK, PoolController, pw.pc = "change" => UsageStatus(pw.n, pw.obj) \in Pool
  PROVE  TypeOK'
<1> USE DEF TypeOK
<1>1. ASSUME NEW n \in Nets, StartPool(n) PROVE TypeOK'
  <2>1. pool[n] \in ApiObjects(Pool) /\ pool[n].inf \in Pool /\ n # NoNet
    BY ConstantsAssumption, SMTT(60), ZenonT(60) DEF ApiObjects
  <2>2. Taken(pool[n], "worker") \in ApiObjects(Pool)
    BY <2>1, ApiObjectTypes
  <2> QED BY <1>1, <2>1, <2>2 DEF StartPool, PoolWork, memory
<1>2. ASSUME pw.pc # "idle" PROVE pw.n \in Nets /\ pw.obj \in Pool
  BY <1>2 DEF PoolWork
<1>3. CASE DeployAgent
  <2>1. PICK agent, failed, changed \in BOOLEAN :
          StatusHandled([pw.obj EXCEPT !.agent = agent], changed, failed, "build")
    BY <1>3 DEF DeployAgent
  <2>2. [pw.obj EXCEPT !.agent = agent] \in Pool /\ pw.pc # "idle"
    BY <1>2, <1>3, PoolUpdates DEF DeployAgent
  <2> QED BY <1>3, <2>1, <2>2, PoolHandledTypes DEF DeployAgent, memory
<1>4. CASE BuildCache
  <2> DEFINE new == [pw.obj EXCEPT !.ready = IF pw.obj.paused THEN "False" ELSE "True"]
             next == IF "agent" \in Env THEN "monitor" ELSE "change"
  <2>1. new \in Pool /\ pw.pc # "idle" /\ pw.n \in Nets /\ pw.obj \in Pool
    BY <1>2, <1>4, PoolUpdates DEF BuildCache, Cond
  <2>2. StatusHandled(new, new # pw.obj, pw.obj.paused, next)
    BY <1>4 DEF BuildCache
  <2>3. pw.obj.paused \in BOOLEAN /\ next \in {"monitor", "change"}
    BY <2>1 DEF Pool
  <2>4. LoadedSubnet(pw.n, pw.obj) \in Subnets
    <3>1. PoolRange[pw.n] \in SUBSET IPs /\ Revoked[pw.n] \in SUBSET IPs
      BY <2>1, ConstantsAssumption
    <3> QED BY <3>1, AllocatorTypes, ZenonT(60) DEF LoadedSubnet
  <2>5. ipam' \in [Nets -> Subnets] /\ macs' \in [Nets -> MACSets]
    BY <1>4, <2>1, <2>4, AllocatorTypes, SMTT(60), ZenonT(60) DEF BuildCache, memory
  <2>6. UNCHANGED <<vm, cfg, labelled, cfgQ, vmQ, cw>>
    BY <1>4, SMTT(60), ZenonT(60) DEF BuildCache
  <2> HIDE DEF new, next
  <2> QED BY <2>1, <2>2, <2>3, <2>5, <2>6, PoolHandledTypes
<1>5. CASE MonitorAgent
  <2>1. PICK failed, changed \in BOOLEAN : StatusHandled(pw.obj, changed, failed, "change")
    BY <1>5 DEF MonitorAgent
  <2> QED BY <1>2, <1>5, <2>1, PoolHandledTypes, SMTT(60), ZenonT(60) DEF MonitorAgent, memory
<1>6. CASE PoolLabelsFail
  BY <1>2, <1>6, PoolHandledTypes DEF PoolLabelsFail, memory
<1>7. CASE PoolPaused
  <2>1. pw.n \in Nets /\ pw.obj \in Pool /\ pw.pc # "idle"
    BY <1>2, <1>7 DEF PoolPaused
  <2>2. PICK new \in Pool, failed \in BOOLEAN : PoolPassEnds(new, failed)
    BY <1>7, <2>1, PoolUpdates DEF PoolPaused
  <2>3. ipam' \in [Nets -> Subnets] /\ macs' \in [Nets -> MACSets]
    BY <1>7, <2>1, AllocatorTypes DEF PoolPaused, memory
  <2> QED BY <1>7, <2>1, <2>2, <2>3, PoolHandledTypes DEF PoolPaused
<1>8. CASE PoolNotInitialized
  <2> DEFINE new == [pw.obj EXCEPT !.stopped = "False", !.ready = "False"]
  <2>1. pw.n \in Nets /\ pw.obj \in Pool /\ pw.pc # "idle" /\ new \in Pool
    BY <1>2, <1>8, PoolUpdates DEF PoolNotInitialized
  <2>2. PoolPassEnds(new, new = pw.obj) /\ labelled' = labelled \cup {pw.n}
        /\ UNCHANGED <<vm, cfg, memory, cfgQ, vmQ, cw>>
    BY <1>8 DEF PoolNotInitialized
  <2> HIDE DEF new
  <2> QED BY <2>1, <2>2, PoolHandledTypes, ZenonT(60) DEF memory
<1>9. CASE PoolUsage
  <2>1. pw.n \in Nets /\ pw.pc # "idle" /\ UsageStatus(pw.n, pw.obj) \in Pool
    BY <1>2, <1>9 DEF PoolUsage
  <2> QED BY <1>9, <2>1, PoolHandledTypes, ZenonT(60) DEF PoolUsage, memory
<1> HIDE DEF TypeOK
<1> QED BY <1>1, <1>3, <1>4, <1>5, <1>6, <1>7, <1>8, <1>9, ZenonT(60)
        DEF PoolController, PoolStep, PoolOnChange

\* The vmnetcfg controller.
LEMMA CfgStepTypes ==
  ASSUME TypeOK, CfgController
  PROVE  TypeOK'
<1> USE DEF TypeOK
<1>1. ASSUME NEW v \in VMs, StartCfg(v) PROVE TypeOK'
  <2>1. cfg[v] \in ApiObjects(Cfg) /\ cfg[v].inf \in Cfg /\ v # NoVM /\ cfg[v].inf.nics \in SUBSET Nic
    BY ConstantsAssumption DEF ApiObjects, Cfg
  <2>2. Taken(cfg[v], "worker") \in ApiObjects(Cfg)
    BY <2>1, ApiObjectTypes
  <2>3. IdleCfg \in CfgWork
    BY ObjectTypes
  <2>4. cw' \in CfgWork /\ (cw.pc = "idle" <=> cw.v = NoVM)'
    <3>1. CASE cfg[v].inf.exists
      <4>1. cw' = [IdleCfg EXCEPT !.pc = "allocate", !.v = v, !.obj = cfg[v].inf,
                                  !.todo = cfg[v].inf.nics]
        BY <1>1, <3>1 DEF StartCfg
      <4> QED BY <2>1, <2>3, <4>1 DEF CfgWork
    <3>2. CASE ~cfg[v].inf.exists
      BY <1>1, <3>2 DEF StartCfg
    <3> QED BY <3>1, <3>2
  <2>5. cfg' \in [VMs -> ApiObjects(Cfg)] /\ cfgQ' \subseteq VMs
    BY <1>1, <2>2 DEF StartCfg
  <2> QED BY <1>1, <2>4, <2>5 DEF StartCfg, memory
<1>2. ASSUME cw.pc # "idle" PROVE cw.v \in VMs
  BY <1>2 DEF CfgWork
<1>3. /\ cw.obj \in Cfg /\ cw.todo \subseteq Nic /\ cw.clean \subseteq Rec
      /\ cw.cur \subseteq Rec /\ cw.acc \subseteq Rec
  BY DEF CfgWork
\* A step that ends a handler.
<1>4. ASSUME cw.pc # "idle", NEW new \in Cfg, NEW failed \in BOOLEAN,
             NEW next \in {"sync", "change", "remove"},
             Handled(new, failed, next) \/ CfgPassEnds(new, failed),
             pool' \in [Nets -> ApiObjects(Pool)],
             UNCHANGED <<vm, labelled, memory, poolQ, vmQ, pw>>
      PROVE TypeOK'
  BY <1>4, CfgHandledTypes DEF memory
<1>5. ASSUME NEW conflict \in BOOLEAN, AllocateFails(conflict), cw.pc # "idle",
             pool' \in [Nets -> ApiObjects(Pool)],
             UNCHANGED <<vm, labelled, memory, poolQ, vmQ, pw>>
      PROVE TypeOK'
  <2> DEFINE new == [cw.obj EXCEPT !.allocated = IF conflict THEN "True" ELSE "False"]
  <2>1. new \in Cfg
    BY <1>3, CfgUpdates DEF Cond
  <2>2. Handled(new, TRUE, "sync")
    BY <1>5 DEF AllocateFails
  <2> HIDE DEF new
  <2> QED BY <1>4, <1>5, <2>1, <2>2
<1>6. ASSUME NEW conflict \in BOOLEAN, CleanupFails(conflict), cw.pc # "idle", UNCHANGED pool,
             UNCHANGED <<vm, labelled, memory, poolQ, vmQ, pw>>
      PROVE TypeOK'
  <2>1. \A x \in Cond : [cw.obj EXCEPT !.inSynced = x] \in Cfg
    BY <1>3, CfgUpdates
  <2>2. PICK new \in Cfg, next \in {"sync", "change", "remove"} :
          Handled(new, TRUE, next) \/ CfgPassEnds(new, TRUE)
    BY <1>3, <1>6, <2>1 DEF CleanupFails, Cond
  <2> QED BY <1>4, <1>6, <2>2
<1>7. CASE AllocateRefused
  BY <1>5, <1>7 DEF AllocateRefused
<1>8. ASSUME NEW nc \in cw.todo, NEW ip \in IPs, AllocatedInMemory(nc, ip), cw.pc = "allocate"
      PROVE pool' \in [Nets -> ApiObjects(Pool)] /\ cw' \in CfgWork
            /\ (cw.pc = "idle" <=> cw.v = NoVM)'
  <2>1. nc.net \in Nets /\ nc.mac \in Macs /\ pool[nc.net] \in ApiObjects(Pool)
        /\ pool[nc.net].api \in Pool
    BY <1>3 DEF Nic, ApiObjects
  <2>2. Taken(pool[nc.net], "guest") \in ApiObjects(Pool)
    BY <2>1, ApiObjectTypes
  <2>3. [net |-> nc.net, mac |-> nc.mac, ip |-> ip, state |-> "Allocated"] \in Rec
    BY <2>1 DEF Rec
  <2>4. pool' \in [Nets -> ApiObjects(Pool)]
    BY <1>8, <2>2 DEF AllocatedInMemory
  <2> DEFINE rec == [net |-> nc.net, mac |-> nc.mac, ip |-> ip, state |-> "Allocated"]
  <2>5. \/ cw' = [cw EXCEPT !.todo = cw.todo \ {nc}, !.acc = cw.acc \cup {rec}]
        \/ cw' = [cw EXCEPT !.todo = cw.todo \ {nc}, !.cur = {rec}]
    BY <1>8 DEF AllocatedInMemory
  <2>6. rec \in Rec
    BY <2>3
  <2>7. cw.acc \cup {rec} \in SUBSET Rec /\ {rec} \in SUBSET Rec /\ cw.todo \ {nc} \in SUBSET Nic
    BY <1>3, <2>6
  <2> HIDE DEF rec, TypeOK
  <2>8. CASE cw' = [cw EXCEPT !.todo = cw.todo \ {nc}, !.acc = cw.acc \cup {rec}]
    BY <2>4, <2>7, <2>8 DEF CfgWork, TypeOK
  <2>9. CASE cw' = [cw EXCEPT !.todo = cw.todo \ {nc}, !.cur = {rec}]
    BY <2>4, <2>7, <2>9, ZenonT(60) DEF CfgWork, TypeOK
  <2> QED BY <2>5, <2>8, <2>9
<1>9. ASSUME NEW nc \in cw.todo, AllocateRecovers(nc) PROVE TypeOK'
  <2>1. macs[nc.net].ip[nc.mac] \in IPs
    BY <1>3, <1>9, SMTT(60) DEF AllocateRecovers, HasMAC, MACSets, Nic
  <2> QED BY <1>8, <1>9, <2>1 DEF AllocateRecovers, Allocating, memory, queues
<1>10. ASSUME NEW nc \in cw.todo, AllocateNew(nc) PROVE TypeOK'
  <2>1. PICK designated \in Designated(cw.obj, nc) :
          \E ip \in AllocatableIPs(ipam[nc.net], designated) :
            /\ ipam' = [ipam EXCEPT ![nc.net] = AllocateIP(@, {ip})]
            /\ macs' = [macs EXCEPT ![nc.net] = AddMAC(@, nc.mac, ip)]
            /\ AllocatedInMemory(nc, ip)
    BY <1>10 DEF AllocateNew
  <2>2. PICK ip \in AllocatableIPs(ipam[nc.net], designated) :
            /\ ipam' = [ipam EXCEPT ![nc.net] = AllocateIP(@, {ip})]
            /\ macs' = [macs EXCEPT ![nc.net] = AddMAC(@, nc.mac, ip)]
            /\ AllocatedInMemory(nc, ip)
    BY <2>1, ZenonT(60)
  <2>3. nc.net \in Nets /\ nc.mac \in Macs /\ ipam[nc.net] \in Subnets /\ macs[nc.net] \in MACSets
    BY <1>3 DEF Nic
  <2>4. ip \in IPs
    BY <2>3 DEF AllocatableIPs, Subnets
  <2>5. {ip} \in SUBSET IPs
    BY <2>4
  <2>6. AllocateIP(ipam[nc.net], {ip}) \in Subnets
    BY <2>3, <2>5, AllocatorTypes, ZenonT(60)
  <2>7. AddMAC(macs[nc.net], nc.mac, ip) \in MACSets
    BY <2>3, <2>4, AllocatorTypes, ZenonT(60)
  <2> QED BY <1>8, <1>10, <2>2, <2>4, <2>6, <2>7 DEF AllocateNew, Allocating, queues
<1>11. ASSUME NEW nc \in cw.todo, AllocateNoAddress(nc) PROVE TypeOK'
  BY <1>5, <1>11 DEF AllocateNoAddress, Allocating
<1>12. CASE AllocateRecords
  <2>1. PICK r \in cw.cur :
          LET s == pool[r.net] IN
          IF "guest" \in s.fresh
          THEN /\ pool' = [pool EXCEPT ![r.net] =
                             Written(s, [s.api EXCEPT !.alloc[r.ip] = r.mac], "guest")]
               /\ cw' = [cw EXCEPT !.cur = {}, !.acc = @ \cup {r}]
               /\ UNCHANGED <<cfg, cfgQ>>
          ELSE /\ pool' = [pool EXCEPT ![r.net] = Dropped(s, "guest")]
               /\ AllocateFails(TRUE)
    BY <1>12 DEF AllocateRecords
  <2>2. r \in Rec /\ pool[r.net] \in ApiObjects(Pool) /\ r.net \in Nets /\ r.mac \in Macs
        /\ r.ip \in IPs
    BY <1>3, SMTT(60), ZenonT(60) DEF Rec
  <2>3. pool[r.net].api \in Pool
    BY <2>2, SMTT(60), ZenonT(60) DEF ApiObjects
  <2>4. [pool[r.net].api EXCEPT !.alloc[r.ip] = r.mac] \in Pool
    BY <2>2, <2>3, PoolUpdates
  <2>5. Written(pool[r.net], [pool[r.net].api EXCEPT !.alloc[r.ip] = r.mac], "guest")
          \in ApiObjects(Pool) /\ Dropped(pool[r.net], "guest") \in ApiObjects(Pool)
    BY <2>2, <2>3, <2>4, ApiObjectTypes
  <2>6. pool' \in [Nets -> ApiObjects(Pool)]
    BY <2>1, <2>5, ZenonT(60)
  <2>7. CASE "guest" \in pool[r.net].fresh
    <3>1. cw' = [cw EXCEPT !.cur = {}, !.acc = @ \cup {r}] /\ UNCHANGED <<cfg, cfgQ>>
      BY <2>1, <2>7, SMTT(60), ZenonT(60)
    <3>2. cw' \in CfgWork /\ (cw.pc = "idle" <=> cw.v = NoVM)'
      BY <2>2, <3>1 DEF CfgWork
    <3> QED BY <1>12, <2>6, <3>1, <3>2, ZenonT(60) DEF AllocateRecords, memory
  <2>8. CASE "guest" \notin pool[r.net].fresh
    BY <1>5, <1>12, <2>1, <2>6, <2>8 DEF AllocateRecords
  <2> QED BY <2>7, <2>8
<1>13. CASE AllocateDone
  <2> DEFINE new == [cw.obj EXCEPT !.recs = cw.acc, !.allocated = "True"]
  <2>1. new \in Cfg
    BY <1>3, CfgUpdates DEF Cond
  <2>2. Handled(new, FALSE, "sync")
    BY <1>13 DEF AllocateDone
  <2> HIDE DEF new
  <2> QED BY <1>4, <1>13, <2>1, <2>2 DEF AllocateDone
<1>14. ASSUME NEW r \in cw.clean, CleanupReleases(r) PROVE TypeOK'
  <2>1. r \in Rec /\ r.net \in Nets /\ r.mac \in Macs /\ r.ip \in IPs
    BY <1>3, SMTT(60), ZenonT(60) DEF Rec
  <2>2. DeallocateIP(ipam[r.net], r.ip) \in Subnets /\ DeleteMAC(macs[r.net], r.mac) \in MACSets
    BY <2>1, AllocatorTypes, SMTT(60), ZenonT(60)
  <2> QED BY <1>14, <2>1, <2>2 DEF CleanupReleases, CfgWork, objects, queues
<1>15. ASSUME NEW r \in cw.clean, CleanupUnknown(r) PROVE TypeOK'
  BY <1>6, <1>15 DEF CleanupUnknown
<1>16. CASE CleanupUnrecords
  <2>1. PICK r \in cw.cur :
          LET s == pool[r.net] IN
          /\ \/ UNCHANGED pool
             \/ pool' = [pool EXCEPT ![r.net] =
                           Written(s, [s.api EXCEPT !.alloc[r.ip] = NoMac], "guest")]
          /\ cw' = [cw EXCEPT !.cur = {}]
    BY <1>16 DEF CleanupUnrecords
  <2>2. pool[r.net] \in ApiObjects(Pool) /\ r.net \in Nets /\ r.ip \in IPs
    BY <1>3 DEF Rec
  <2>3. pool[r.net].api \in Pool
    BY <2>2 DEF ApiObjects
  <2>4. [pool[r.net].api EXCEPT !.alloc[r.ip] = NoMac] \in Pool
    BY <2>2, <2>3, PoolUpdates
  <2>5. Written(pool[r.net], [pool[r.net].api EXCEPT !.alloc[r.ip] = NoMac], "guest")
          \in ApiObjects(Pool)
    BY <2>2, <2>4, ApiObjectTypes, ZenonT(60)
  <2>6. pool' \in [Nets -> ApiObjects(Pool)]
    BY <2>1, <2>5, ZenonT(60)
  <2>7. cw' \in CfgWork /\ (cw.pc = "idle" <=> cw.v = NoVM)'
    BY <2>1, ZenonT(60) DEF CfgWork
  <2> QED BY <1>16, <2>6, <2>7, ZenonT(60) DEF CleanupUnrecords, memory, queues
<1>17. CASE CleanupGivesUp
  BY <1>6, <1>17, ZenonT(60) DEF CleanupGivesUp
<1>18. CASE Sync
  <2>1. PICK new \in Cfg, failed \in BOOLEAN : Handled(new, failed, "change")
    <3>1. cw.obj.paused \in BOOLEAN /\ cw.obj.recs \ StaleRecs(cw.obj) \in SUBSET Rec
      BY <1>3 DEF Cfg
    <3>2. /\ [cw.obj EXCEPT !.inSynced = "False"] \in Cfg
          /\ [cw.obj EXCEPT !.inSynced = "True", !.recs = @ \ StaleRecs(cw.obj)] \in Cfg
      BY <1>3, <3>1, CfgUpdates DEF Cond
    <3> QED BY <1>3, <1>18, <3>1, <3>2 DEF Sync
  <2> QED BY <1>4, <1>18, <2>1 DEF Sync
<1>19. CASE CfgOnChange
  <2>1. PICK new \in Cfg : Handled(new, FALSE, "remove")
    <3>1. {[r EXCEPT !.state = "Pending"] : r \in cw.obj.recs} \in SUBSET Rec
      BY <1>3, SMTT(60) DEF Cfg, Rec
    <3>2. Disabled(cw.obj) \in Cfg /\ [cw.obj EXCEPT !.disabled = "False"] \in Cfg
      BY <1>3, <3>1, CfgUpdates DEF Disabled, Cond
    <3> QED BY <1>3, <1>19, <3>2, ZenonT(60) DEF CfgOnChange
  <2> QED BY <1>4, <1>19, <2>1 DEF CfgOnChange
<1>20. CASE CfgOnRemove
  <2>1. PICK new \in Cfg : CfgPassEnds(new, FALSE)
    BY <1>3, <1>20, CfgUpdates, ObjectTypes DEF CfgOnRemove
  <2> QED BY <1>4, <1>20, <2>1 DEF CfgOnRemove
<1> QED
  BY <1>1, <1>7, <1>9, <1>10, <1>11, <1>12, <1>13, <1>14, <1>15, <1>16, <1>17, <1>18, <1>19, <1>20
  DEF CfgController, CfgStep, Allocate, Cleanup

\* The vm controller.
LEMMA VMStepTypes ==
  ASSUME TypeOK, VMController
  PROVE  TypeOK'
<1> USE DEF TypeOK
<1>1. PICK v \in VMs : VMOnChange(v)
  BY DEF VMController
<1>2. cfg[v] \in ApiObjects(Cfg) /\ cfg[v].api \in Cfg /\ vm[v].nics \in SUBSET Nic
  BY DEF ApiObjects
<1>3. CASE VMSkipped(v) \/ VMUnchanged(v)
  BY <1>3, SMTT(60), ZenonT(60) DEF VMSkipped, VMUnchanged, objects, memory
<1>4. \A c \in Cfg : Written(cfg[v], c, "other") \in ApiObjects(Cfg)
  BY <1>2, ApiObjectTypes
<1>5. prepareVmNetCfg(vm[v].nics) \in SUBSET Nic
  BY <1>2, ObjectTypes
<1>6. CASE VMCreates(v)
  <2>1. NewCfg(prepareVmNetCfg(vm[v].nics)) \in Cfg
    BY <1>5, ObjectTypes
  <2> QED BY <1>4, <1>6, <2>1 DEF VMCreates, memory
<1>7. CASE VMUpdates(v)
  <2>1. /\ [cfg[v].api EXCEPT !.nics = prepareVmNetCfg(vm[v].nics)] \in Cfg
        /\ [cfg[v].api EXCEPT !.inSynced = "False"] \in Cfg
    BY <1>2, <1>5, CfgUpdates DEF Cond
  <2>2. cfg' \in [VMs -> ApiObjects(Cfg)] /\ vmQ' \subseteq VMs
    BY <1>4, <1>7, <2>1, SMTT(60), ZenonT(60) DEF VMUpdates
  <2> QED BY <1>7, <2>2, SMTT(60), ZenonT(60) DEF VMUpdates, memory
<1> QED BY <1>1, <1>3, <1>6, <1>7, SMTT(60), ZenonT(60) DEF VMOnChange

\* Users, informers and the restart of the process.
LEMMA EnvironmentStepTypes ==
  ASSUME TypeOK, UserStep \/ Deliver \/ Crash
  PROVE  TypeOK'
<1> USE DEF TypeOK
<1>1. ASSUME NEW v \in VMs
      PROVE  /\ cfg[v] \in ApiObjects(Cfg) /\ cfg[v].api \in Cfg
             /\ Delivered(cfg[v]) \in ApiObjects(Cfg) /\ Listed(cfg[v].api) \in ApiObjects(Cfg)
             /\ \A c \in Cfg : Written(cfg[v], c, "other") \in ApiObjects(Cfg)
  <2>1. cfg[v] \in ApiObjects(Cfg) /\ cfg[v].api \in Cfg
    BY DEF ApiObjects
  <2> QED BY <2>1, ApiObjectTypes
<1>2. ASSUME NEW n \in Nets
      PROVE  /\ pool[n] \in ApiObjects(Pool) /\ pool[n].api \in Pool
             /\ Delivered(pool[n]) \in ApiObjects(Pool) /\ Listed(pool[n].api) \in ApiObjects(Pool)
             /\ \A p \in Pool : Written(pool[n], p, "other") \in ApiObjects(Pool)
  <2>1. pool[n] \in ApiObjects(Pool) /\ pool[n].api \in Pool
    BY DEF ApiObjects
  <2> QED BY <2>1, ApiObjectTypes, ZenonT(60)
<1>3. ASSUME NEW v \in VMs PROVE Desired[v] \subseteq SUBSET Nic
  BY ConstantsAssumption, SMTT(60), ZenonT(60)
<1>4. ASSUME NEW v \in VMs, GiveVM(v) PROVE TypeOK'
  BY <1>3, <1>4 DEF GiveVM, memory
<1>5. ASSUME NEW v \in VMs, ChangeVM(v) PROVE TypeOK'
  BY <1>3, <1>5 DEF ChangeVM, memory
<1>6. ASSUME NEW v \in VMs, RemoveVM(v) PROVE TypeOK'
  <2>1. [cfg[v].api EXCEPT !.deleting = TRUE] \in Cfg /\ NoCfg \in Cfg
    BY <1>1, CfgUpdates, ObjectTypes
  <2>2. cfg' \in [VMs -> ApiObjects(Cfg)]
    BY <1>1, <1>6, <2>1, SMTT(60), ZenonT(60) DEF RemoveVM
  <2> QED BY <1>6, <2>2, SMTT(60), ZenonT(60) DEF RemoveVM, memory
<1>7. ASSUME NEW v \in VMs, CreateCfg(v) PROVE TypeOK'
  <2>1. \A nics \in Desired[v] : NewCfg(nics) \in Cfg
    BY <1>3, ObjectTypes
  <2>2. cfg' \in [VMs -> ApiObjects(Cfg)]
    BY <1>1, <1>7, <2>1, SMTT(60), ZenonT(60) DEF CreateCfg
  <2> QED BY <1>7, <2>2, SMTT(60), ZenonT(60) DEF CreateCfg, memory, queues
<1>8. ASSUME NEW v \in VMs, PauseCfg(v) PROVE TypeOK'
  <2>1. [cfg[v].api EXCEPT !.paused = ~cfg[v].api.paused] \in Cfg
    BY <1>1, CfgUpdates
  <2>2. cfg' \in [VMs -> ApiObjects(Cfg)]
    BY <1>1, <1>8, <2>1, SMTT(60), ZenonT(60) DEF PauseCfg
  <2> QED BY <1>8, <2>2, SMTT(60), ZenonT(60) DEF PauseCfg, memory, queues
<1>9. ASSUME NEW n \in Nets, PausePool(n) PROVE TypeOK'
  <2>1. [pool[n].api EXCEPT !.paused = ~pool[n].api.paused] \in Pool
    BY <1>2, PoolUpdates, ZenonT(60)
  <2>2. pool' \in [Nets -> ApiObjects(Pool)]
    BY <1>2, <1>9, <2>1, SMTT(60), ZenonT(60) DEF PausePool
  <2> QED BY <1>9, <2>2, SMTT(60), ZenonT(60) DEF PausePool, memory, queues
<1>10. ASSUME NEW n \in Nets, DeliverPool(n) PROVE TypeOK'
  <2>1. pool' \in [Nets -> ApiObjects(Pool)] /\ poolQ' \subseteq Nets
    BY <1>2, <1>10, SMTT(60), ZenonT(60) DEF DeliverPool
  <2> QED BY <1>10, <2>1, SMTT(60), ZenonT(60) DEF DeliverPool, memory
<1>11. ASSUME NEW v \in VMs, DeliverCfg(v) PROVE TypeOK'
  <2>1. cfg' \in [VMs -> ApiObjects(Cfg)] /\ cfgQ' \subseteq VMs
    BY <1>1, <1>11, SMTT(60), ZenonT(60) DEF DeliverCfg
  <2> QED BY <1>11, <2>1, SMTT(60), ZenonT(60) DEF DeliverCfg, memory
<1>12. CASE Crash
  <2>1. pool' \in [Nets -> ApiObjects(Pool)] /\ cfg' \in [VMs -> ApiObjects(Cfg)]
    BY <1>1, <1>2, <1>12 DEF Crash
  <2>2. ipam' \in [Nets -> Subnets] /\ macs' \in [Nets -> MACSets]
    BY <1>12, AllocatorTypes, ZenonT(60) DEF Crash
  <2>3. /\ pw' \in PoolWork /\ (pw.pc = "idle" <=> pw.n = NoNet)'
        /\ cw' \in CfgWork /\ (cw.pc = "idle" <=> cw.v = NoVM)'
    BY <1>12, ObjectTypes DEF Crash, IdlePool, IdleCfg
  <2> QED BY <1>12, <2>1, <2>2, <2>3 DEF Crash
<1> HIDE DEF TypeOK
<1>13. CASE UserStep
  BY <1>4, <1>5, <1>6, <1>7, <1>8, <1>9, <1>13, ZenonT(60) DEF UserStep
<1>14. CASE Deliver
  BY <1>10, <1>11, <1>14, ZenonT(60) DEF Deliver
<1> QED BY <1>12, <1>13, <1>14, ZenonT(60)

\* The usage that PoolUsage writes is a number: the address range is finite.
LEMMA UsageTypes ==
  ASSUME TypeOK, pw.pc = "change"
  PROVE  UsageStatus(pw.n, pw.obj) \in Pool
<1>1. pw.n \in Nets /\ pw.obj \in Pool
  BY DEF TypeOK, PoolWork
<1>2. ipam[pw.n].used \in SUBSET IPs
  BY <1>1 DEF TypeOK, Subnets
<1>3. GetUsed(ipam[pw.n]) \in Nat
  BY <1>2, ConstantsAssumption, FS_Subset, FS_CardinalityType DEF GetUsed
<1>4. [ip \in IPs |-> IF ip \in Revoked[pw.n] THEN Mark ELSE pw.obj.alloc[ip]]
        \in [IPs -> Macs \cup {NoMac, Mark}]
  BY <1>1, SMTT(60), ZenonT(60) DEF Pool
<1> QED BY <1>1, <1>3, <1>4, PoolUpdates DEF UsageStatus

\* Every object, copy, cache and worker of the control plane keeps its type in every
\* environment, for any number of VMs, networks and addresses; in particular each
\* pass that started ends with its worker idle.
THEOREM TypeCorrect == Spec => []TypeOK
<1>1. Init => TypeOK
  <2> SUFFICES ASSUME Init PROVE TypeOK
    OBVIOUS
  <2>1. Listed(NewPool) \in ApiObjects(Pool) /\ Listed(NoCfg) \in ApiObjects(Cfg)
    BY ObjectTypes DEF Listed, ApiObjects, Holder
  <2> QED BY <2>1, AllocatorTypes, ObjectTypes DEF Init, TypeOK, IdlePool, IdleCfg
<1>2. TypeOK /\ [Next]_vars => TypeOK'
  <2> SUFFICES ASSUME TypeOK, [Next]_vars PROVE TypeOK'
    OBVIOUS
  <2>1. CASE UNCHANGED vars
    BY <2>1 DEF TypeOK, vars, objects, memory, queues
  <2> QED
    BY <2>1, UsageTypes, PoolStepTypes, CfgStepTypes, VMStepTypes, EnvironmentStepTypes DEF Next
<1> QED BY <1>1, <1>2, PTL DEF Spec

-----------------------------------------------------------------------------
\* What IPPools record.

\* The pools record the same addresses for the same interfaces after the step.
SameEntries == \A n \in Nets : Within(pool[n].api, pool'[n].api) /\ Within(pool'[n].api, pool[n].api)

\* A step that stores no pool records nothing.
LEMMA UntouchedEntries ==
  ASSUME TypeOK, TypeOK', \A n \in Nets : pool'[n].api = pool[n].api
  PROVE  SameEntries
BY DEF SameEntries, Within

\* The ippool worker only stores its copy with the entries that copy has, and only
\* when it is the stored version.
LEMMA HandledEntries ==
  ASSUME TypeOK, TypeOK', pw.pc # "idle",
         \A n \in Nets : "worker" \in pool[n].fresh => pool[n].api = pw.obj,
         NEW new \in Pool, NEW changed, NEW failed, NEW next,
         Within(pw.obj, new), Within(new, pw.obj),
         StatusHandled(new, changed, failed, next) \/ PoolPassEnds(new, failed)
  PROVE  SameEntries
<1>1. PICK n \in Nets : n = pw.n
  BY DEF TypeOK, PoolWork
<1>2. /\ \A m \in Nets \ {n} : pool'[m] = pool[m]
      /\ pool'[n].api = pool[n].api \/ (pool'[n].api = new /\ "worker" \in pool[n].fresh)
  <2>1. /\ \A m \in Nets \ {n} : pool'[m] = pool[m]
        /\ \E b : \/ pool'[n] = Saved(pool[n], new, b)
                  \/ pool'[n] = Dropped(Saved(pool[n], new, b), "worker")
    BY <1>1, StateTypes DEF StatusHandled, PoolPassEnds
  <2>2. PICK b : pool'[n] = Saved(pool[n], new, b) \/ pool'[n] = Dropped(Saved(pool[n], new, b), "worker")
    BY <2>1
  <2> DEFINE t == Saved(pool[n], new, b)
  <2>3. t.api = pool[n].api \/ (t.api = new /\ "worker" \in pool[n].fresh)
    BY SavedFacts
  <2> HIDE DEF t
  <2>4. pool'[n].api = t.api
    BY <2>2, DroppedFacts DEF t
  <2> QED BY <2>1, <2>3, <2>4
<1>3. "worker" \in pool[n].fresh => pool[n].api = pw.obj
  OBVIOUS
<1>4. ASSUME NEW m \in Nets PROVE Within(pool[m].api, pool'[m].api) /\ Within(pool'[m].api, pool[m].api)
  BY <1>2, <1>3 DEF Within
<1> QED BY <1>4 DEF SameEntries

\* OnChange marks no address that its copy records for an interface.
LEMMA UsageEntries ==
  ASSUME TypeOK, pw.pc # "idle", RecordedIPs(pw.obj) \subseteq PoolRange[pw.n] \ Revoked[pw.n],
         UsageStatus(pw.n, pw.obj) \in Pool
  PROVE  Within(pw.obj, UsageStatus(pw.n, pw.obj)) /\ Within(UsageStatus(pw.n, pw.obj), pw.obj)
<1>1. PICK n \in Nets, p \in Pool : n = pw.n /\ p = pw.obj
  BY StateTypes, ZenonT(60) DEF PoolWork
<1>2. \A ip \in IPs : p.alloc[ip] \in Macs => ip \notin Revoked[n]
  BY <1>1 DEF RecordedIPs
<1>3. UsageStatus(n, p).alloc = [ip \in IPs |-> IF ip \in Revoked[n] THEN Mark ELSE p.alloc[ip]]
  BY <1>1 DEF UsageStatus, Pool
<1>4. Within(p, UsageStatus(n, p)) /\ Within(UsageStatus(n, p), p)
  BY <1>2, <1>3, ConstantsAssumption DEF Within
<1> QED BY <1>1, <1>4

\* A handler of the ippool worker, or its pass, ends with an object "new" that has the
\* entries of its copy.
PoolEnds(new, changed, failed, next) ==
  /\ StatusHandled(new, changed, failed, next) \/ PoolPassEnds(new, failed)
  /\ Within(pw.obj, new) /\ Within(new, pw.obj) /\ (changed \/ new = pw.obj)
  /\ next \in {"deploy", "build"} =>
       next = "build" /\ pw.pc = "deploy" /\ new.ready = pw.obj.ready
  /\ new.paused = pw.obj.paused /\ (new.agent => pw.obj.agent \/ pw.pc = "deploy")

\* Every handler of the ippool controller does.
LEMMA PoolStepEnds ==
  ASSUME TypeOK, PoolStep, RecordedIPs(pw.obj) \subseteq PoolRange[pw.n] \ Revoked[pw.n]
  PROVE  /\ \E new \in Pool, changed, failed \in BOOLEAN,
               next \in {"build", "monitor", "change"} : PoolEnds(new, changed, failed, next)
         /\ pw.pc # "idle" /\ UNCHANGED <<vm, cfg, cw>>
<1>1. /\ pw.n \in Nets /\ pw.obj \in Pool /\ Within(pw.obj, pw.obj) /\ pw.pc # "idle"
      /\ UNCHANGED <<vm, cfg, cw>>
  <2>1. pw.pc # "idle" /\ UNCHANGED <<vm, cfg, cw>>
    BY DEF PoolStep, PoolOnChange, DeployAgent, BuildCache, MonitorAgent, PoolLabelsFail, PoolPaused,
           PoolNotInitialized, PoolUsage
  <2>2. pw.n \in Nets /\ pw.obj \in Pool
    BY <2>1, StateTypes DEF PoolWork
  <2> QED BY <2>1, <2>2, WithinFacts
\* A pass that ends may be said to go on with "change".
<1>2. ASSUME NEW new \in Pool, NEW failed \in BOOLEAN, PoolPassEnds(new, failed), new.alloc = pw.obj.alloc,
             new.paused = pw.obj.paused, new.agent => pw.obj.agent
      PROVE  PoolEnds(new, TRUE, failed, "change")
  BY <1>2 DEF PoolEnds, Within
<1>3. CASE DeployAgent
  <2>1. PICK agent, failed, changed \in BOOLEAN :
          /\ agent # pw.obj.agent => changed
          /\ StatusHandled([pw.obj EXCEPT !.agent = agent], changed, failed, "build")
    BY <1>3 DEF DeployAgent
  <2> DEFINE new == [pw.obj EXCEPT !.agent = agent]
  <2>2. new \in Pool /\ pw.pc = "deploy"
    BY <1>1, <1>3, PoolUpdates DEF DeployAgent
  <2>3. new.ready = pw.obj.ready /\ new.paused = pw.obj.paused /\ new.alloc = pw.obj.alloc
    BY <1>1 DEF Pool
  <2>4. changed \/ new = pw.obj
    BY <1>1, <2>1 DEF Pool
  <2>5. StatusHandled(new, changed, failed, "build")
    BY <2>1
  <2> HIDE DEF new
  <2>6. PoolEnds(new, changed, failed, "build")
    BY <2>2, <2>5, <2>3, <2>4 DEF PoolEnds, Within
  <2> QED BY <1>1, <2>2, <2>6
<1>4. CASE BuildCache
  <2> DEFINE new == [pw.obj EXCEPT !.ready = IF pw.obj.paused THEN "False" ELSE "True"]
             next == IF "agent" \in Env THEN "monitor" ELSE "change"
             changed == new # pw.obj
  <2>1. new \in Pool /\ changed \in BOOLEAN
    BY <1>1, PoolUpdates DEF Cond
  <2>2. /\ new.paused = pw.obj.paused /\ new.alloc = pw.obj.alloc /\ new.agent = pw.obj.agent
        /\ pw.obj.paused \in BOOLEAN
    BY <1>1 DEF Pool
  <2>3. StatusHandled(new, changed, pw.obj.paused, next) /\ (changed \/ new = pw.obj)
    BY <1>4, ZenonT(60) DEF BuildCache
  <2>4. next \in {"monitor", "change"}
    OBVIOUS
  <2> HIDE DEF new, next, changed
  <2>5. PoolEnds(new, changed, pw.obj.paused, next)
    BY <2>3, <2>4, <2>2 DEF PoolEnds, Within
  <2> QED BY <1>1, <2>1, <2>4, <2>5, <2>2
<1>5. CASE MonitorAgent
  <2>1. PICK failed, changed \in BOOLEAN : StatusHandled(pw.obj, changed, failed, "change")
    BY <1>5 DEF MonitorAgent
  <2>2. PoolEnds(pw.obj, changed, failed, "change")
    BY <1>1, <2>1 DEF PoolEnds
  <2> QED BY <1>1, <2>2
<1>6. CASE PoolLabelsFail
  BY <1>1, <1>2, <1>6 DEF PoolLabelsFail
<1>7. CASE PoolPaused
  <2> DEFINE stop == [pw.obj EXCEPT !.agent = FALSE, !.stopped = "True"]
  <2>1. stop \in Pool /\ stop.alloc = pw.obj.alloc /\ stop.paused = pw.obj.paused /\ ~stop.agent
    BY <1>1, PoolUpdates DEF Pool
  <2>2. PoolPassEnds(pw.obj, TRUE) \/ PoolPassEnds(stop, FALSE)
    BY <1>7, ZenonT(60) DEF PoolPaused
  <2> HIDE DEF stop
  <2> QED BY <1>1, <1>2, <2>1, <2>2
<1>8. CASE PoolNotInitialized
  <2> DEFINE new == [pw.obj EXCEPT !.stopped = "False", !.ready = "False"]
             failed == new = pw.obj
  <2>1. new \in Pool /\ failed \in BOOLEAN
    BY <1>1, PoolUpdates
  <2>2. new.alloc = pw.obj.alloc /\ new.paused = pw.obj.paused /\ new.agent = pw.obj.agent
    BY <1>1 DEF Pool
  <2>3. PoolPassEnds(new, failed)
    BY <1>8 DEF PoolNotInitialized
  <2> HIDE DEF new, failed
  <2> QED BY <1>1, <1>2, <2>1, <2>3, <2>2
<1>9. CASE PoolUsage
  <2> DEFINE new == UsageStatus(pw.n, pw.obj)
  <2>1. new \in Pool /\ new.paused = pw.obj.paused /\ new.agent = pw.obj.agent
    BY <1>1, <1>9, UsageTypes DEF PoolUsage, UsageStatus, Pool
  <2>2. Within(pw.obj, new) /\ Within(new, pw.obj)
    BY <1>1, <2>1, UsageEntries
  <2>3. PoolPassEnds(new, FALSE)
    BY <1>9, ZenonT(60) DEF PoolUsage
  <2> HIDE DEF new
  <2>4. PoolEnds(new, TRUE, FALSE, "change")
    BY <2>1, <2>2, <2>3 DEF PoolEnds
  <2> QED BY <1>1, <2>1, <2>4
<1> QED BY <1>3, <1>4, <1>5, <1>6, <1>7, <1>8, <1>9 DEF PoolStep, PoolOnChange

\* The ippool worker records nothing and takes nothing out.
LEMMA PoolStepEntries ==
  ASSUME TypeOK, TypeOK', PoolController,
         \A n \in Nets : "worker" \in pool[n].fresh => pool[n].api = pw.obj,
         pw.pc # "idle" => RecordedIPs(pw.obj) \subseteq PoolRange[pw.n] \ Revoked[pw.n]
  PROVE  SameEntries
<1>1. CASE PoolStep
  <2>1. pw.pc # "idle"
    BY <1>1 DEF PoolStep, PoolOnChange, DeployAgent, BuildCache, MonitorAgent, PoolLabelsFail, PoolPaused,
                PoolNotInitialized, PoolUsage
  <2>2. PICK new \in Pool, changed, failed \in BOOLEAN, next \in {"build", "monitor", "change"} :
          PoolEnds(new, changed, failed, next)
    BY <1>1, <2>1, PoolStepEnds
  <2> QED BY <2>1, <2>2, HandledEntries DEF PoolEnds
<1>2. ASSUME NEW n \in Nets, StartPool(n) PROVE SameEntries
  <2>1. \A m \in Nets : pool'[m].api = pool[m].api
    BY <1>2, StateTypes DEF StartPool, Taken
  <2> QED BY <2>1, UntouchedEntries
<1> QED BY <1>1, <1>2 DEF PoolController

\* Users, informers, restarts and the vm controller make no entry.
LEMMA OtherStepEntries ==
  ASSUME TypeOK, TypeOK', UserStep \/ Deliver \/ Crash \/ VMController
  PROVE  SameEntries
<1>1. ASSUME NEW n \in Nets, PausePool(n) PROVE SameEntries
  <2>1. \A m \in Nets : pool'[m].api.alloc = pool[m].api.alloc
    BY <1>1, StateTypes DEF PausePool, Written, Pool
  <2> QED BY <2>1 DEF SameEntries, Within
<1>2. ASSUME NEW n \in Nets, DeliverPool(n) PROVE SameEntries
  <2>1. \A m \in Nets : pool'[m].api = pool[m].api
    BY <1>2 DEF DeliverPool, Delivered, TypeOK
  <2> QED BY <2>1, UntouchedEntries
<1>3. CASE Crash
  <2>1. \A m \in Nets : pool'[m].api = pool[m].api
    BY <1>3 DEF Crash, Listed, TypeOK
  <2> QED BY <2>1, UntouchedEntries
<1>4. CASE UNCHANGED pool
  BY <1>4, UntouchedEntries
<1>5. ASSUME NEW v \in VMs,
             GiveVM(v) \/ ChangeVM(v) \/ RemoveVM(v) \/ CreateCfg(v) \/ PauseCfg(v) \/ DeliverCfg(v)
             \/ VMOnChange(v)
      PROVE  UNCHANGED pool
  BY <1>5, ZenonT(60) DEF GiveVM, ChangeVM, RemoveVM, CreateCfg, PauseCfg, DeliverCfg, VMOnChange,
                          VMSkipped, VMCreates, VMUnchanged, VMUpdates, objects
<1> QED BY <1>1, <1>2, <1>3, <1>4, <1>5 DEF UserStep, Deliver, VMController

-----------------------------------------------------------------------------
\* The service.

\* The step enters record "r", where there was no entry for another interface.
Enters(r) ==
  /\ UNCHANGED cfg
  /\ pool[r.net].api.alloc[r.ip] \in Macs => pool[r.net].api.alloc[r.ip] = r.mac
  /\ \A n \in Nets : \A ip \in IPs :
       pool'[n].api.alloc[ip] = IF n = r.net /\ ip = r.ip THEN r.mac ELSE pool[n].api.alloc[ip]

\* The ledger is what the pools record.
LEMMA SameLedger ==
  ASSUME TypeOK, TypeOK', SameEntries
  PROVE  Ledger' = Ledger
<1>1. ASSUME NEW n \in Nets, NEW ip \in IPs
      PROVE  (IF pool[n].api.alloc[ip] \in Macs THEN pool[n].api.alloc[ip] ELSE NoMac)
               = (IF pool'[n].api.alloc[ip] \in Macs THEN pool'[n].api.alloc[ip] ELSE NoMac)
  BY DEF SameEntries, Within
<1> QED BY <1>1 DEF Ledger

\* What is held is recorded.
HeldIsLedger == HeldByAll \subseteq {e \in Nets \X IPs \X Macs : Ledger[e[1]][e[2]] = e[3]}

\* Every address that a network config reports is in the ledger.
LEMMA HeldRecorded == TypeOK /\ Recorded => HeldIsLedger
<1> SUFFICES ASSUME TypeOK, Recorded PROVE HeldIsLedger
  OBVIOUS
<1>1. ASSUME NEW v \in VMs, NEW r \in Held(v)
      PROVE  r.net \in Nets /\ r.ip \in IPs /\ r.mac \in Macs /\ Ledger[r.net][r.ip] = r.mac
  <2>1. r \in Rec
    BY DEF Held, TypeOK, ApiObjects, Cfg
  <2>2. pool[r.net].api.alloc[r.ip] = r.mac
    BY DEF Recorded
  <2> QED BY <2>1, <2>2 DEF Ledger, Rec
<1> QED BY <1>1 DEF HeldByAll, HeldIsLedger

\* At first nothing is recorded and nothing held.
LEMMA InitImplements == Init => Service!Init
<1> SUFFICES ASSUME Init PROVE Service!Init
  OBVIOUS
<1>1. \A n \in Nets : \A ip \in IPs : pool[n].api.alloc[ip] = NoMac
  BY DEF Init, Listed, NewPool
<1>2. Ledger = [n \in Nets |-> [ip \in IPs |-> NoMac]]
  BY <1>1 DEF Ledger
<1>3. \A v \in VMs : Held(v) = {}
  BY DEF Init, Listed, NoCfg, NewCfg, Held
<1> QED BY <1>2, <1>3 DEF Service!Init, HeldByAll

\* A ledger that differs at one address.
LEMMA LedgerUpdated ==
  ASSUME NEW n \in Nets, NEW ip \in IPs, NEW m \in Macs \cup {NoMac},
         \A k \in Nets : \A a \in IPs : Ledger'[k][a] = IF k = n /\ a = ip THEN m ELSE Ledger[k][a]
  PROVE  Ledger' = [Ledger EXCEPT ![n][ip] = m]
<1> DEFINE M == Macs \cup {NoMac}
           F == Ledger
           G == Ledger'
<1>1. /\ F \in [Nets -> [IPs -> M]] /\ G \in [Nets -> [IPs -> M]] /\ m \in M
      /\ \A k \in Nets : \A a \in IPs : G[k][a] = IF k = n /\ a = ip THEN m ELSE F[k][a]
  <2>1. F \in [Nets -> [IPs -> M]] /\ G \in [Nets -> [IPs -> M]]
    BY DEF Ledger
  <2> QED BY <2>1
<1> HIDE DEF M, F, G
<1> DEFINE H == [F EXCEPT ![n][ip] = m]
<1>2. /\ H \in [Nets -> [IPs -> M]]
      /\ \A k \in Nets : \A a \in IPs : H[k][a] = IF k = n /\ a = ip THEN m ELSE F[k][a]
  BY <1>1
<1> HIDE DEF H
<1>3. ASSUME NEW k \in Nets PROVE G[k] = H[k]
  BY <1>1, <1>2
<1>4. G = H
  BY <1>1, <1>2, <1>3
<1> QED BY <1>4 DEF F, G, H

\* An entry in a pool that is accepted is a Record step of the service.
LEMMA EntersRecords ==
  ASSUME TypeOK, TypeOK', NEW r \in Rec, Enters(r)
  PROVE  [Service!Next]_Service!vars
<1>1. r.net \in Nets /\ r.ip \in IPs /\ r.mac \in Macs
  BY DEF Rec
<1>2. HeldByAll' = HeldByAll
  <2>1. \A v \in VMs : Held(v)' = Held(v)
    BY DEF Enters, Held
  <2> QED BY <2>1 DEF HeldByAll
<1>3. \A n \in Nets : \A ip \in IPs :
        Ledger'[n][ip] = IF n = r.net /\ ip = r.ip THEN r.mac ELSE Ledger[n][ip]
  BY <1>1 DEF Enters, Ledger
<1>4. Ledger[r.net][r.ip] \in {NoMac, r.mac}
  BY <1>1 DEF Enters, Ledger
<1>5. Ledger' = [Ledger EXCEPT ![r.net][r.ip] = r.mac]
  BY <1>1, <1>3, LedgerUpdated
<1>6. CASE Ledger[r.net][r.ip] = r.mac
  <2>1. Ledger' = Ledger
    <3>1. Ledger \in [Nets -> [IPs -> Macs \cup {NoMac}]]
      BY DEF Ledger
    <3> QED BY <1>1, <1>5, <1>6, <3>1
  <2> QED BY <1>2, <2>1 DEF Service!vars
<1>7. CASE Ledger[r.net][r.ip] = NoMac
  BY <1>1, <1>2, <1>5, <1>7 DEF Service!Next, Service!Record
<1> QED BY <1>4, <1>6, <1>7

-----------------------------------------------------------------------------
\* The handlers of the vmnetcfg controller.

\* What the worker goes on with.
LEMMA HandledWork ==
  ASSUME NEW new, NEW failed, NEW next
  PROVE  /\ Handled(new, failed, next) =>
              /\ cw'.pc = next /\ cw'.v = cw.v /\ cw'.obj = new /\ cw'.todo = {}
              /\ cw'.cur = {} /\ cw'.acc = {} /\ cw'.clean = ToClean(next, new)
         /\ CfgPassEnds(new, failed) =>
              /\ cw'.pc = "idle" /\ cw'.v = NoVM /\ cw'.obj = NoCfg /\ cw'.todo = {}
              /\ cw'.cur = {} /\ cw'.acc = {} /\ cw'.clean = {}
<1>1. ASSUME Handled(new, failed, next)
      PROVE  /\ cw'.pc = next /\ cw'.v = cw.v /\ cw'.obj = new /\ cw'.todo = {}
             /\ cw'.cur = {} /\ cw'.acc = {} /\ cw'.clean = ToClean(next, new)
  <2>1. cw' = [IdleCfg EXCEPT !.pc = next, !.v = cw.v, !.obj = new, !.clean = ToClean(next, new)]
    BY <1>1 DEF Handled
  <2> QED BY <2>1 DEF IdleCfg
<1>2. ASSUME CfgPassEnds(new, failed)
      PROVE  /\ cw'.pc = "idle" /\ cw'.v = NoVM /\ cw'.obj = NoCfg /\ cw'.todo = {}
             /\ cw'.cur = {} /\ cw'.acc = {} /\ cw'.clean = {}
  <2>1. cw' = IdleCfg
    BY <1>2 DEF CfgPassEnds
  <2> QED BY <2>1 DEF IdleCfg
<1> QED BY <1>1, <1>2

\* A handler that cleans nothing up ends with the interfaces it started with, and with
\* the records of its copy or those Allocate has collected.
CfgEnds(new, failed, next) ==
  /\ Handled(new, failed, next) \/ CfgPassEnds(new, failed)
  /\ new.exists = cw.obj.exists /\ new.nics = cw.obj.nics
  /\ new.deleting = cw.obj.deleting /\ new.paused = cw.obj.paused
  /\ new.recs \subseteq cw.obj.recs \/ (cw.pc = "allocate" /\ new.recs = cw.acc)

\* Allocate, Sync, OnChange and OnRemove do, for objects that are not paused.
LEMMA CfgStepEnds ==
  ASSUME TypeOK, ~cw.obj.paused,
         \/ AllocateRefused \/ AllocateDone \/ Sync \/ CfgOnChange
         \/ (CfgOnRemove /\ ~cw.obj.deleting)
         \/ (\E nc \in cw.todo : AllocateNoAddress(nc))
         \/ (AllocateRecords /\ AllocateFails(TRUE))
  PROVE  \E new \in Cfg, failed \in BOOLEAN, next \in {"sync", "change", "remove"} :
           CfgEnds(new, failed, next)
<1>1. cw.obj \in Cfg /\ cw.acc \in SUBSET Rec /\ cw.obj.recs \in SUBSET Rec /\ cw.obj.paused = FALSE
  BY DEF TypeOK, CfgWork, Cfg
<1>2. ASSUME NEW b \in BOOLEAN, AllocateFails(b)
      PROVE  \E new \in Cfg : CfgEnds(new, TRUE, "sync")
  <2> DEFINE x == IF b THEN "True" ELSE "False"
             new == [cw.obj EXCEPT !.allocated = x]
  <2>1. new \in Cfg
    BY <1>1, CfgUpdates DEF Cond
  <2>2. /\ new.exists = cw.obj.exists /\ new.nics = cw.obj.nics /\ new.recs = cw.obj.recs
        /\ new.paused = cw.obj.paused /\ new.deleting = cw.obj.deleting
    BY <1>1 DEF Cfg
  <2>3. Handled(new, TRUE, "sync")
    BY <1>2 DEF AllocateFails
  <2> HIDE DEF new
  <2> QED BY <2>1, <2>2, <2>3 DEF CfgEnds
<1>3. CASE AllocateRefused \/ (\E nc \in cw.todo : AllocateNoAddress(nc)) \/ (AllocateRecords /\ AllocateFails(TRUE))
  <2>1. AllocateFails(TRUE) \/ AllocateFails(FALSE)
    BY <1>3 DEF AllocateRefused, AllocateNoAddress
  <2> QED BY <1>2, <2>1
<1>4. CASE AllocateDone
  <2> DEFINE new == [cw.obj EXCEPT !.recs = cw.acc, !.allocated = "True"]
  <2>1. new \in Cfg
    BY <1>1, CfgUpdates DEF Cond
  <2>2. /\ new.exists = cw.obj.exists /\ new.nics = cw.obj.nics /\ new.recs = cw.acc
        /\ new.paused = cw.obj.paused /\ new.deleting = cw.obj.deleting
    BY <1>1 DEF Cfg
  <2>3. Handled(new, FALSE, "sync") /\ cw.pc = "allocate"
    BY <1>4 DEF AllocateDone
  <2> HIDE DEF new
  <2> QED BY <2>1, <2>2, <2>3 DEF CfgEnds
<1>5. CASE Sync
  <2> DEFINE new == [cw.obj EXCEPT !.inSynced = "True", !.recs = @ \ StaleRecs(cw.obj)]
  <2>1. cw.obj.recs \ StaleRecs(cw.obj) \in SUBSET Rec
    BY <1>1
  <2>2. new \in Cfg
    BY <1>1, <2>1, CfgUpdates DEF Cond
  <2>3. /\ new.exists = cw.obj.exists /\ new.nics = cw.obj.nics /\ new.recs \subseteq cw.obj.recs
        /\ new.paused = cw.obj.paused /\ new.deleting = cw.obj.deleting
    BY <1>1 DEF Cfg
  <2>4. Handled(new, FALSE, "change") \/ Handled(cw.obj, FALSE, "change")
    BY <1>1, <1>5 DEF Sync
  <2> HIDE DEF new
  <2>5. CASE Handled(new, FALSE, "change")
    BY <2>2, <2>3, <2>5 DEF CfgEnds
  <2>6. CASE Handled(cw.obj, FALSE, "change")
    BY <1>1, <2>6 DEF CfgEnds
  <2> QED BY <2>4, <2>5, <2>6
<1>6. CASE CfgOnChange
  <2> DEFINE new == [cw.obj EXCEPT !.disabled = "False"]
  <2>1. new \in Cfg
    BY <1>1, CfgUpdates DEF Cond
  <2>2. /\ new.exists = cw.obj.exists /\ new.nics = cw.obj.nics /\ new.recs = cw.obj.recs
        /\ new.paused = cw.obj.paused /\ new.deleting = cw.obj.deleting
    BY <1>1 DEF Cfg
  <2>3. Handled(new, FALSE, "remove") \/ Handled(cw.obj, FALSE, "remove")
    BY <1>1, <1>6 DEF CfgOnChange
  <2> HIDE DEF new
  <2>4. CASE Handled(new, FALSE, "remove")
    BY <2>1, <2>2, <2>4 DEF CfgEnds
  <2>5. CASE Handled(cw.obj, FALSE, "remove")
    BY <1>1, <2>5 DEF CfgEnds
  <2> QED BY <2>3, <2>4, <2>5
<1>7. CASE CfgOnRemove /\ ~cw.obj.deleting
  <2> DEFINE new == [cw.obj EXCEPT !.final = TRUE]
  <2>1. new \in Cfg
    BY <1>1, CfgUpdates
  <2>2. /\ new.exists = cw.obj.exists /\ new.nics = cw.obj.nics /\ new.recs = cw.obj.recs
        /\ new.paused = cw.obj.paused /\ new.deleting = cw.obj.deleting
    BY <1>1 DEF Cfg
  <2>3. CfgPassEnds(new, FALSE)
    BY <1>7 DEF CfgOnRemove
  <2> HIDE DEF new
  <2> QED BY <2>1, <2>2, <2>3 DEF CfgEnds
<1> QED BY <1>3, <1>4, <1>5, <1>6, <1>7

\* Allocate takes at most a copy of the pool before it writes.
LEMMA AllocatedPools ==
  ASSUME TypeOK, NEW nc, NEW ip, nc.net \in Nets, AllocatedInMemory(nc, ip)
  PROVE  \A m \in Nets : /\ pool'[m].api = pool[m].api /\ pool'[m].inf = pool[m].inf
                         /\ pool'[m].unseen = pool[m].unseen
                         /\ \A h \in {"informer", "worker"} :
                              h \in pool'[m].fresh <=> h \in pool[m].fresh
<1>1. PICK n \in Nets : n = nc.net
  OBVIOUS
<1>2. pool' = pool \/ pool' = [pool EXCEPT ![n] = Taken(pool[n], "guest")]
  BY <1>1 DEF AllocatedInMemory
<1>3. pool[n] \in ApiObjects(Pool) /\ DOMAIN pool = Nets
  BY StateTypes
<1>4. /\ Taken(pool[n], "guest").api = pool[n].api /\ Taken(pool[n], "guest").inf = pool[n].inf
      /\ Taken(pool[n], "guest").unseen = pool[n].unseen
      /\ \A h \in {"informer", "worker"} : h \in Taken(pool[n], "guest").fresh <=> h \in pool[n].fresh
  BY <1>3 DEF Taken, ApiObjects
<1> QED BY <1>2, <1>3, <1>4

\* The address of an interface that Allocate finds in the MAC cache or takes out of the
\* free ones: the caches have it, and still agree with the pool.
LEMMA AllocateGives ==
  ASSUME TypeOK, NEW nc \in Nic, NEW n \in Nets, n = nc.net, AllocateRecovers(nc) \/ AllocateNew(nc),
         CachesMatch(pool[n].api, ipam[n], macs[n], PoolRange[n] \ Revoked[n])
  PROVE  \E ip \in IPs :
           /\ AllocatedInMemory(nc, ip) /\ ipam'[n].exists /\ ip \in ipam'[n].used
           /\ macs'[n].ip[nc.mac] = ip /\ UNCHANGED <<vm, cfg, pw>>
           /\ Allocating(nc) /\ PoolUsable(n)
           /\ CachesMatch(pool[n].api, ipam'[n], macs'[n], PoolRange[n] \ Revoked[n])
           /\ \A m \in Nets \ {n} : ipam'[m] = ipam[m] /\ macs'[m] = macs[m]
<1>1. nc.mac \in Macs /\ ipam[n] \in Subnets /\ macs[n] \in MACSets
  BY StateTypes DEF Nic
<1>2. CASE AllocateRecovers(nc)
  <2>1. PICK ip \in IPs : ip = macs[n].ip[nc.mac] /\ ip # NoIP /\ macs[n].exists
    BY <1>1, <1>2 DEF AllocateRecovers, HasMAC, MACSets
  <2>2. ip \in ipam[n].used /\ ipam[n].exists
    BY <1>1, <2>1, AgreedMac, AgreedIPs
  <2>3. ipam' = ipam /\ macs' = macs
    BY <1>2 DEF AllocateRecovers, memory
  <2>4. UNCHANGED <<vm, cfg, pw>> /\ Allocating(nc) /\ PoolUsable(n) /\ AllocatedInMemory(nc, ip)
    BY <1>2, <2>1 DEF AllocateRecovers
  <2> QED BY <2>1, <2>2, <2>3, <2>4
<1>3. CASE AllocateNew(nc)
  <2>1. PICK designated :
          \E ip \in AllocatableIPs(ipam[n], designated) :
            /\ ipam' = [ipam EXCEPT ![n] = AllocateIP(@, {ip})]
            /\ macs' = [macs EXCEPT ![n] = AddMAC(@, nc.mac, ip)]
            /\ AllocatedInMemory(nc, ip)
    BY <1>3 DEF AllocateNew
  <2>2. PICK ip \in AllocatableIPs(ipam[n], designated) :
            /\ ipam' = [ipam EXCEPT ![n] = AllocateIP(@, {ip})]
            /\ macs' = [macs EXCEPT ![n] = AddMAC(@, nc.mac, ip)]
            /\ AllocatedInMemory(nc, ip)
    BY <2>1
  <2>3. ipam[n].exists /\ ip \in ipam[n].free /\ ip \in IPs
    BY <1>1 DEF AllocatableIPs, Subnets
  <2>4. /\ ipam'[n] = AllocateIP(ipam[n], {ip}) /\ macs'[n] = AddMAC(macs[n], nc.mac, ip)
        /\ \A m \in Nets \ {n} : ipam'[m] = ipam[m] /\ macs'[m] = macs[m]
    BY <2>2, StateTypes
  <2>5. CachesMatch(pool[n].api, ipam'[n], macs'[n], PoolRange[n] \ Revoked[n])
    BY <1>1, <2>3, <2>4, AgreementGrown
  <2>6. ipam'[n].exists /\ ip \in ipam'[n].used /\ macs'[n].ip[nc.mac] = ip
    BY <1>1, <2>3, <2>4 DEF AllocateIP, AddMAC, MACSets
  <2>7. UNCHANGED <<vm, cfg, pw>> /\ Allocating(nc) /\ PoolUsable(n)
    BY <1>3 DEF AllocateNew
  <2> QED BY <2>2, <2>3, <2>4, <2>5, <2>6, <2>7
<1> QED BY <1>2, <1>3

\* Of the vmnetcfg controller only AllocateRecords and cleanup change entries.
LEMMA CfgStepEntries ==
  ASSUME TypeOK, TypeOK', PendingSound, CfgController, ~Cleanup
  PROVE  SameEntries \/ \E r \in cw.cur : Enters(r)
<1>1. CASE UNCHANGED pool
  BY <1>1, UntouchedEntries
<1>2. ASSUME NEW nc \in cw.todo, AllocateRecovers(nc) \/ AllocateNew(nc) PROVE SameEntries
  <2>1. PICK ip : AllocatedInMemory(nc, ip)
    BY <1>2 DEF AllocateRecovers, AllocateNew
  <2>2. \A n \in Nets : pool'[n].api = pool[n].api
    <3>1. \A n \in Nets : pool'[n] = pool[n] \/ pool'[n] = Taken(pool[n], "guest")
      BY <2>1, StateTypes DEF AllocatedInMemory
    <3> QED BY <3>1, TakenFacts
  <2> QED BY <2>2, UntouchedEntries
<1>3. CASE AllocateRecords
  <2>1. PICK r \in cw.cur :
          \/ /\ "guest" \in pool[r.net].fresh /\ UNCHANGED cfg
             /\ pool' = [pool EXCEPT ![r.net] =
                           Written(pool[r.net], [pool[r.net].api EXCEPT !.alloc[r.ip] = r.mac], "guest")]
          \/ pool' = [pool EXCEPT ![r.net] = Dropped(pool[r.net], "guest")]
    BY <1>3 DEF AllocateRecords
  <2>2. r \in Rec /\ r.net \in Nets /\ r.ip \in IPs /\ cw.pc = "allocate"
    BY <1>3, StateTypes DEF AllocateRecords
  <2>3. CASE pool' = [pool EXCEPT ![r.net] = Dropped(pool[r.net], "guest")]
    <3>1. \A n \in Nets : pool'[n].api = pool[n].api
      BY <2>2, <2>3, StateTypes DEF Dropped
    <3> QED BY <3>1, UntouchedEntries
  <2>4. CASE /\ "guest" \in pool[r.net].fresh /\ UNCHANGED cfg
             /\ pool' = [pool EXCEPT ![r.net] =
                           Written(pool[r.net], [pool[r.net].api EXCEPT !.alloc[r.ip] = r.mac], "guest")]
    <3>1. pool[r.net].api.alloc[r.ip] \in Macs => pool[r.net].api.alloc[r.ip] = r.mac
      BY <2>2, <2>4 DEF PendingSound
    <3>2. \A n \in Nets \ {r.net} : pool'[n] = pool[n]
      BY <2>4, StateTypes
    <3>3. pool[r.net].api \in Pool
      BY <2>2, StateTypes
    <3>4. pool'[r.net].api = [pool[r.net].api EXCEPT !.alloc[r.ip] = r.mac]
      BY <2>2, <2>4, StateTypes DEF Written
    <3>5. ASSUME NEW n \in Nets, NEW ip \in IPs
          PROVE  pool'[n].api.alloc[ip] = IF n = r.net /\ ip = r.ip THEN r.mac ELSE pool[n].api.alloc[ip]
      <4>1. CASE n = r.net
        BY <2>2, <3>3, <3>4, <4>1 DEF Pool
      <4>2. CASE n # r.net
        BY <3>2, <4>2
      <4> QED BY <4>1, <4>2
    <3> QED BY <2>2, <2>4, <3>1, <3>5, ZenonT(60) DEF Enters
  <2> QED BY <2>1, <2>3, <2>4
<1>4. ASSUME AllocateRefused \/ AllocateDone \/ Sync \/ CfgOnChange \/ CfgOnRemove
             \/ (\E nc \in cw.todo : AllocateNoAddress(nc)) \/ (\E v \in VMs : StartCfg(v))
      PROVE  UNCHANGED pool
  BY <1>4 DEF AllocateRefused, AllocateDone, AllocateNoAddress, Sync, CfgOnChange, CfgOnRemove, StartCfg
<1> QED BY <1>1, <1>2, <1>3, <1>4 DEF CfgController, CfgStep, Allocate

=============================================================================
