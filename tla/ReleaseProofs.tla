---------------------------- MODULE ReleaseProofs ----------------------------
(***************************************************************************)
(* InStep (ReleaseInvariant) is kept by every step in a tidy environment,  *)
(* releases included, and what follows: recorded, exclusive addresses, and *)
(* the refinement of AddressService with its Erase steps.                  *)
(***************************************************************************)
EXTENDS ControlPlaneLemmas, ReleaseInvariant

\* Most leaves are first-order: Zenon is tried first, the SMT solver after it.
USE ZenonT(2), SMTT(20), ZenonT(20)

-----------------------------------------------------------------------------
\* Caches and pools, up to the entries cleanup has released.

\* Without takes out the entries of "ips" and no others.
LEMMA WithoutFacts ==
  ASSUME NEW p \in Pool, NEW ips
  PROVE  /\ \A ip \in IPs : Without(p, ips).alloc[ip] = IF ip \in ips THEN NoMac ELSE p.alloc[ip]
         /\ RecordedIPs(Without(p, ips)) = RecordedIPs(p) \ ips
<1>1. \A ip \in IPs : Without(p, ips).alloc[ip] = IF ip \in ips THEN NoMac ELSE p.alloc[ip]
  BY DEF Without, Pool
<1> QED BY <1>1, ConstantsAssumption DEF RecordedIPs

\* Nothing is taken out.
LEMMA WithoutNone ==
  ASSUME NEW p \in Pool, NEW subnet, NEW set \in MACSets, NEW ips
  PROVE  CachesMatch(Without(p, {}), subnet, set, ips) <=> CachesMatch(p, subnet, set, ips)
<1>1. Within(p, Without(p, {})) /\ Within(Without(p, {}), p)
  BY WithoutFacts DEF Within
<1> QED BY <1>1, AgreementKept

\* Caches agree with every pool that has the same entries up to those of "ips".
LEMMA WithoutKept ==
  ASSUME NEW p \in Pool, NEW q \in Pool, NEW out, NEW subnet, NEW set \in MACSets, NEW ips,
         CachesMatch(Without(p, out), subnet, set, ips), Within(p, q), Within(q, p)
  PROVE  CachesMatch(Without(q, out), subnet, set, ips)
<1>1. Within(Without(p, out), Without(q, out)) /\ Within(Without(q, out), Without(p, out))
  BY WithoutFacts, ConstantsAssumption DEF Within
<1> QED BY <1>1, AgreementKept

\* DeallocateIP and DeleteMAC of an entry: the caches know of all the others.
LEMMA AgreementReleased ==
  ASSUME NEW p \in Pool, NEW subnet, NEW set \in MACSets, NEW ips, CachesMatch(p, subnet, set, ips),
         NEW ip \in IPs, NEW mac \in Macs, p.alloc[ip] = mac
  PROVE  CachesMatch(Without(p, {ip}), DeallocateIP(subnet, ip), DeleteMAC(set, mac), ips)
<1> DEFINE q == Without(p, {ip})
           sub == DeallocateIP(subnet, ip)
           del == DeleteMAC(set, mac)
<1>1. /\ sub.exists = subnet.exists /\ sub.used = subnet.used \ {ip}
      /\ sub.free = subnet.free \cup (subnet.used \cap {ip})
  BY DEF DeallocateIP
<1>2. /\ del.exists = set.exists /\ del.ip[mac] = NoIP
      /\ \A m \in Macs \ {mac} : del.ip[m] = set.ip[m]
  BY DEF DeleteMAC, MACSets
<1>3. /\ RecordedIPs(q) = RecordedIPs(p) \ {ip}
      /\ \A a \in IPs : q.alloc[a] \in Macs => q.alloc[a] = p.alloc[a]
  BY WithoutFacts, ConstantsAssumption
<1> HIDE DEF q, sub, del
<1>4. ASSUME NEW m \in Macs, del.ip[m] # NoIP
      PROVE  /\ del.ip[m] \in sub.used
             /\ q.alloc[del.ip[m]] \in Macs => q.alloc[del.ip[m]] = m
  <2>1. m # mac /\ del.ip[m] = set.ip[m] /\ set.ip[m] \in IPs /\ set.ip[m] # NoIP
    BY <1>2, <1>4 DEF MACSets
  <2>2. set.ip[m] \in subnet.used /\ (p.alloc[set.ip[m]] \in Macs => p.alloc[set.ip[m]] = m)
    BY <2>1, AgreedMac
  <2>3. set.ip[m] # ip
    BY <2>1, <2>2
  <2> QED BY <1>1, <1>3, <2>1, <2>2, <2>3
<1>5. \A m, k \in Macs : del.ip[m] # NoIP /\ del.ip[m] = del.ip[k] => m = k
  <2> SUFFICES ASSUME NEW m \in Macs, NEW k \in Macs, del.ip[m] # NoIP, del.ip[m] = del.ip[k]
               PROVE  m = k
    OBVIOUS
  <2>1. set.ip[m] # NoIP /\ set.ip[m] = set.ip[k]
    BY <1>2
  <2> QED BY <2>1, AgreedMac
<1>6. /\ RecordedIPs(q) \subseteq ips /\ sub.exists = del.exists
      /\ (sub.exists => RecordedIPs(q) \subseteq sub.used)
      /\ (~sub.exists => sub.free = {} /\ sub.used = {})
      /\ sub.free \cup sub.used \subseteq ips /\ sub.free \cap sub.used = {}
  BY <1>1, <1>2, <1>3 DEF CachesMatch
<1>7. CachesMatch(q, sub, del, ips)
  BY <1>4, <1>5, <1>6 DEF CachesMatch
<1> QED BY <1>7 DEF q, sub, del

\* An entry for the address the caches have for an interface.
LEMMA AgreementEntered ==
  ASSUME NEW p \in Pool, NEW q \in Pool, NEW subnet, NEW set \in MACSets, NEW ips,
         CachesMatch(p, subnet, set, ips), NEW ip \in IPs, NEW mac \in Macs,
         ip \in ips, ip \in subnet.used, subnet.exists, set.ip[mac] = ip,
         \A a \in IPs : q.alloc[a] = IF a = ip THEN mac ELSE p.alloc[a]
  PROVE  CachesMatch(q, subnet, set, ips)
<1>1. RecordedIPs(q) = RecordedIPs(p) \cup {ip}
  BY DEF RecordedIPs
<1>2. ASSUME NEW m \in Macs, set.ip[m] # NoIP
      PROVE  /\ set.ip[m] \in subnet.used
             /\ q.alloc[set.ip[m]] \in Macs => q.alloc[set.ip[m]] = m
  <2>1. PICK a \in IPs : a = set.ip[m]
    BY <1>2 DEF MACSets
  <2>2. a \in subnet.used /\ (p.alloc[a] \in Macs => p.alloc[a] = m)
    BY <1>2, <2>1, AgreedMac
  <2>3. \A k \in Macs : set.ip[m] = set.ip[k] => m = k
    BY <1>2, AgreedMac
  <2> QED BY <2>1, <2>2, <2>3
<1>3. \A m, k \in Macs : set.ip[m] # NoIP /\ set.ip[m] = set.ip[k] => m = k
  BY AgreedMac
<1> QED BY <1>1, <1>2, <1>3 DEF CachesMatch

\* Nothing changes for the caches of a network, nor for the entries of its pool.
LEMMA KnownKept ==
  ASSUME TypeOK, TypeOK', NEW n \in Nets, CachesKnow(n), ipam'[n] = ipam[n], macs'[n] = macs[n],
         Releasing(n)' = Releasing(n), Within(pool[n].api, pool'[n].api), Within(pool'[n].api, pool[n].api)
  PROVE  CachesKnow(n)'
<1>1. pool[n].api \in Pool /\ pool'[n].api \in Pool /\ macs[n] \in MACSets
  BY DEF TypeOK, ApiObjects
<1>2. PICK out : out = Releasing(n) /\ out = Releasing(n)'
  OBVIOUS
<1>3. CachesMatch(Without(pool[n].api, out), ipam[n], macs[n], PoolRange[n] \ Revoked[n])
  BY <1>2 DEF CachesKnow
<1>4. CachesMatch(Without(pool'[n].api, out), ipam[n], macs[n], PoolRange[n] \ Revoked[n])
  BY <1>1, <1>3, WithoutKept
<1>5. RecordedIPs(pool'[n].api) = RecordedIPs(pool[n].api)
  BY DEF RecordedIPs, Within
<1>6. RecordedIPs(pool[n].api)' = RecordedIPs(pool'[n].api)
  BY DEF RecordedIPs
<1>7. CachesMatch(Without(pool'[n].api, Releasing(n)'), ipam'[n], macs'[n], PoolRange[n] \ Revoked[n])
  BY <1>2, <1>4
<1> QED BY <1>5, <1>6, <1>7 DEF CachesKnow

\* The vmnetcfg side of InStep after a step of the pool side: no entry is lost.
LEMMA OtherSideKept ==
  ASSUME TypeOK, TypeOK', InStep, UNCHANGED <<vm, cfg, cw>>,
         \A n \in Nets : Within(pool[n].api, pool'[n].api)
  PROVE  (\A v \in VMs : CfgViews(v))' /\ PassViews' /\ EntriesKept'
<1>1. (\A v \in VMs : CfgViews(v))' /\ PassViews'
  BY DEF InStep, CfgViews, PassViews, WellFormed
<1>2. \A r \in Rec : Entered(r) => Entered(r)'
  BY RecordsKept DEF Entered
<1>3. cw.acc \subseteq Rec /\ \A v \in VMs : cfg[v].api.recs \subseteq Rec
  BY DEF TypeOK, CfgWork, ApiObjects, Cfg
<1>4. EntriesKept'
  BY <1>2, <1>3 DEF InStep, EntriesKept
<1> QED BY <1>1, <1>4

\* InStep after a step of the pool side that leaves entries and caches alone.
LEMMA PoolSideInStep ==
  ASSUME TypeOK, TypeOK', InStep, UNCHANGED <<vm, cfg, cw, memory>>, SameEntries,
         (\A n \in Nets : PoolViews(n))',
         \A n \in Nets : "guest" \in pool'[n].fresh =>
           /\ "guest" \in pool[n].fresh /\ pool'[n].api = pool[n].api
           /\ "informer" \in pool[n].fresh => "informer" \in pool'[n].fresh
  PROVE  InStep'
<1>1. ASSUME NEW n \in Nets PROVE CachesKnow(n)'
  <2>1. CachesKnow(n) /\ ipam'[n] = ipam[n] /\ macs'[n] = macs[n] /\ Releasing(n)' = Releasing(n)
    BY DEF InStep, memory, Releasing
  <2> QED BY <2>1, KnownKept DEF SameEntries
<1>2. (\A v \in VMs : CfgViews(v))' /\ PassViews' /\ EntriesKept'
  BY OtherSideKept DEF SameEntries
<1>3. PendingKnown'
  <2>1. \A r \in cw.cur : r \in Rec /\ r.net \in Nets
    BY StateTypes
  <2>2. PendingSound /\ PendingKnown
    BY DEF InStep, PendingKnown
  <2> QED BY <2>1, <2>2 DEF PendingKnown, PendingSound, memory
<1> QED BY <1>1, <1>2, <1>3 DEF InStep

-----------------------------------------------------------------------------
\* The ippool controller.

\* The copies of the pools after a handler or a pass of the ippool worker.
LEMMA PoolViewsKept ==
  ASSUME TypeOK, TypeOK', Tidy, InStep, pw.pc # "idle",
         NEW new \in Pool, NEW changed \in BOOLEAN, NEW failed \in BOOLEAN,
         NEW next \in {"build", "monitor", "change"}, PoolEnds(new, changed, failed, next)
  PROVE  /\ (\A n \in Nets : PoolViews(n))' /\ SameEntries
         /\ \A n \in Nets : "guest" \in pool'[n].fresh =>
              /\ "guest" \in pool[n].fresh /\ pool'[n].api = pool[n].api
              /\ "informer" \in pool[n].fresh => "informer" \in pool'[n].fresh
<1>0. PICK n \in Nets : n = pw.n
  BY DEF TypeOK, PoolWork
<1> DEFINE s == pool[n]
<1>1. n = pw.n /\ pw.obj \in Pool /\ s \in ApiObjects(Pool) /\ NoNet \notin Nets
  BY <1>0, ConstantsAssumption DEF TypeOK, PoolWork
<1>2. s.api \in Pool /\ s.inf \in Pool /\ s.fresh \subseteq Holder
  BY <1>1 DEF ApiObjects
<1>3. PoolViews(n)
  BY DEF InStep
<1>4. \A m \in Nets \ {n} : pool'[m] = pool[m] /\ pw'.n # m
  BY <1>1 DEF PoolEnds, StatusHandled, PoolPassEnds, IdlePool, TypeOK
<1>5. ASSUME NEW m \in Nets \ {n} PROVE PoolViews(m)'
  <2>1. PoolViews(m) /\ pool'[m] = pool[m] /\ pw'.n # m /\ pw.n # m
    BY <1>1, <1>4 DEF InStep
  <2> QED BY <2>1 DEF PoolViews
<1>6. \/ /\ "worker" \in s.fresh /\ pool'[n].api = new /\ pool'[n].inf = s.inf
         /\ pool'[n].fresh \subseteq {"worker"} /\ "worker" \in pool'[n].unseen
         /\ pool'[n].unseen = s.unseen \cup {"worker"}
      \/ /\ pool'[n].api = s.api /\ pool'[n].inf = s.inf /\ pool'[n].unseen = s.unseen
         /\ pool'[n].fresh \in {s.fresh, s.fresh \ {"worker"}}
  <2>1. PICK b \in BOOLEAN : \/ pool'[n] = Saved(s, new, b)
                            \/ pool'[n] = Dropped(Saved(s, new, b), "worker")
    BY <1>1, StateTypes DEF PoolEnds, StatusHandled, PoolPassEnds
  <2> DEFINE t == Saved(s, new, b)
  <2>2. \/ /\ "worker" \in s.fresh /\ t.api = new /\ t.inf = s.inf
           /\ t.fresh = {"worker"} /\ t.unseen = s.unseen \cup {"worker"}
        \/ t = s
    BY SavedFacts
  <2> HIDE DEF t, s
  <2>3. /\ pool'[n].api = t.api /\ pool'[n].inf = t.inf /\ pool'[n].unseen = t.unseen
        /\ pool'[n].fresh \in {t.fresh, t.fresh \ {"worker"}}
    BY <2>1, DroppedFacts DEF t
  <2> QED BY <2>2, <2>3
<1>7. Within(s.api, pool'[n].api) /\ Within(pool'[n].api, s.api)
  BY <1>2, <1>3, <1>6, WithinFacts DEF PoolViews, PoolEnds
<1>8. "worker" \in pool'[n].fresh => pw'.n = n /\ pw'.obj = pool'[n].api
  <2>1. CASE StatusHandled(new, changed, failed, next)
    <3>1. "worker" \in s.fresh => s.api = pw.obj
      BY <1>3 DEF PoolViews
    <3>2. pool'[n] = Saved(s, new, changed) /\ pw'.n = n /\ pw'.obj = new
      BY <1>1, <2>1, StateTypes DEF StatusHandled
    <3>3. changed \/ new = pw.obj
      BY DEF PoolEnds
    <3> HIDE DEF s
    <3> QED BY <3>1, <3>2, <3>3, SavedFacts
  <2>2. CASE PoolPassEnds(new, failed)
    BY <1>1, <2>2 DEF PoolPassEnds, Dropped, TypeOK
  <2> QED BY <2>1, <2>2 DEF PoolEnds
<1>9. /\ "guest" \notin s.unseen => Within(s.inf, pool'[n].api) /\ Within(pool'[n].api, s.inf)
      /\ s.inf.ready # "True" => Within(pool'[n].api, s.inf)
  <2>1. pool'[n].api \in Pool
    BY <1>1 DEF TypeOK, ApiObjects
  <2> QED BY <1>2, <1>3, <1>7, <2>1, WithinFacts DEF PoolViews
<1>10. Proper(n, new)
  <2>1. Proper(n, pw.obj) /\ (pw.pc = "deploy" => "agent" \in Env)
    BY <1>1, <1>3 DEF PoolViews
  <2>2. RecordedIPs(new) = RecordedIPs(pw.obj)
    BY DEF PoolEnds, Within, RecordedIPs
  <2> QED BY <2>1, <2>2 DEF PoolEnds, Proper
<1>11. pw'.n = n => pw'.obj = new /\ pw'.pc = next
  BY <1>1 DEF PoolEnds, StatusHandled, PoolPassEnds, IdlePool
<1>12. pw'.n = n /\ pw'.pc \in {"deploy", "build"} /\ pw'.obj.ready # "True" =>
         pool'[n].api.ready # "True" /\ Within(pool'[n].api, pw'.obj)
  <2> SUFFICES ASSUME pw'.n = n, pw'.pc \in {"deploy", "build"}, pw'.obj.ready # "True"
               PROVE  pool'[n].api.ready # "True" /\ Within(pool'[n].api, pw'.obj)
    OBVIOUS
  <2>1. pw'.obj = new /\ pw.pc = "deploy" /\ new.ready = pw.obj.ready
    BY <1>11 DEF PoolEnds
  <2>2. s.api.ready # "True" /\ Within(s.api, pw.obj)
    BY <1>1, <1>3, <2>1 DEF PoolViews
  <2>3. Within(s.api, new) /\ Within(new, new)
    BY <1>1, <1>2, <2>2, WithinFacts DEF PoolEnds
  <2> QED BY <1>6, <2>1, <2>2, <2>3
<1>13. PoolViews(n)'
  <2>1. /\ "informer" \in pool'[n].fresh => pool'[n].inf = pool'[n].api
        /\ "worker" \notin pool'[n].unseen => pool'[n].inf.ready = pool'[n].api.ready
        /\ "guest" \notin pool'[n].unseen =>
             Within(pool'[n].inf, pool'[n].api) /\ Within(pool'[n].api, pool'[n].inf)
        /\ pool'[n].inf.ready # "True" => Within(pool'[n].api, pool'[n].inf)
    BY <1>3, <1>6, <1>9 DEF PoolViews
  <2>2. Proper(n, pool'[n].api) /\ Proper(n, pool'[n].inf) /\ (pw'.n = n => Proper(n, pw'.obj))
    BY <1>3, <1>6, <1>10, <1>11 DEF PoolViews
  <2>3. pw'.n = n => pw'.pc # "deploy"
    BY <1>11
  <2> QED BY <1>8, <1>12, <2>1, <2>2, <2>3 DEF PoolViews, Proper, RecordedIPs, Within
<1>14. SameEntries
  BY <1>4, <1>7, WithinFacts DEF TypeOK, ApiObjects, SameEntries
<1>15. \A m \in Nets : "guest" \in pool'[m].fresh =>
              /\ "guest" \in pool[m].fresh /\ pool'[m].api = pool[m].api
              /\ "informer" \in pool[m].fresh => "informer" \in pool'[m].fresh
  BY <1>4, <1>6
<1> QED BY <1>5, <1>13, <1>14, <1>15

\* A pass starts with the informer's copy, which has the worker's last write.
LEMMA StartPoolInStep ==
  ASSUME TypeOK, TypeOK', Tidy, InStep, NEW n \in Nets, StartPool(n)
  PROVE  InStep'
<1>1. /\ pw.n = NoNet /\ pw'.n = n /\ pw'.obj = pool[n].inf /\ NoNet \notin Nets
      /\ "worker" \notin pool[n].unseen /\ (pw'.pc = "deploy" => "agent" \in Env)
      /\ UNCHANGED <<vm, cfg, memory, cw>>
  BY ConstantsAssumption DEF StartPool, Tidy, TypeOK
<1>2. \A m \in Nets \ {n} : pool'[m] = pool[m]
  BY DEF StartPool, TypeOK
<1>3. /\ pool'[n].api = pool[n].api /\ pool'[n].inf = pool[n].inf
      /\ pool'[n].unseen = pool[n].unseen
      /\ \A h \in {"informer", "guest"} : h \in pool'[n].fresh <=> h \in pool[n].fresh
      /\ "worker" \in pool'[n].fresh => "informer" \in pool[n].fresh
  BY DEF StartPool, TypeOK, Taken
<1>4. PoolViews(n)'
  BY <1>1, <1>3 DEF InStep, PoolViews
<1>5. ASSUME NEW m \in Nets \ {n} PROVE PoolViews(m)'
  BY <1>1, <1>2 DEF InStep, PoolViews
<1>6. SameEntries
  BY <1>2, <1>3, UntouchedEntries
<1>7. \A m \in Nets : "guest" \in pool'[m].fresh =>
           /\ "guest" \in pool[m].fresh /\ pool'[m].api = pool[m].api
           /\ "informer" \in pool[m].fresh => "informer" \in pool'[m].fresh
  BY <1>2, <1>3
<1> QED BY <1>1, <1>4, <1>5, <1>6, <1>7, PoolSideInStep

\* BuildCache loads all entries of a copy that lacks none, and perhaps some that cleanup
\* has taken out since: such an address is used and stays with its interface.
LEMMA LoadedMatch ==
  ASSUME NEW n \in Nets, NEW obj \in Pool, NEW p \in Pool, NEW out, NEW set \in LoadedMACSets(obj.alloc),
         RecordedIPs(obj) \subseteq PoolRange[n] \ Revoked[n], Within(p, obj)
  PROVE  CachesMatch(Without(p, out), LoadedSubnet(n, obj), set, PoolRange[n] \ Revoked[n])
<1> DEFINE q == Without(p, out)
           loaded == LoadedSubnet(n, obj)
<1>1. /\ loaded.exists = TRUE /\ loaded.free = (PoolRange[n] \ Revoked[n]) \ RecordedIPs(obj)
      /\ loaded.used = RecordedIPs(obj)
  BY DEF LoadedSubnet, AllocateIP, NewIPSubnet, RevokeIP, RecordedIPs
<1>2. /\ \A ip \in IPs : q.alloc[ip] \in Macs => q.alloc[ip] = obj.alloc[ip]
      /\ RecordedIPs(q) \subseteq RecordedIPs(obj)
  BY WithoutFacts, ConstantsAssumption DEF Within, RecordedIPs
<1>3. set.exists = TRUE /\ \A m \in Macs : set.ip[m] # NoIP => set.ip[m] \in IPs /\ obj.alloc[set.ip[m]] = m
  BY DEF LoadedMACSets, Pool
<1> HIDE DEF q, loaded
<1>4. \A m \in Macs : set.ip[m] # NoIP => set.ip[m] \in loaded.used
  BY <1>1, <1>3 DEF RecordedIPs
<1>5. \A m \in Macs : set.ip[m] # NoIP => (q.alloc[set.ip[m]] \in Macs => q.alloc[set.ip[m]] = m)
  BY <1>2, <1>3
<1>6. \A m, k \in Macs : set.ip[m] # NoIP /\ set.ip[m] = set.ip[k] => m = k
  BY <1>3
<1>7. /\ RecordedIPs(q) \subseteq PoolRange[n] \ Revoked[n] /\ RecordedIPs(q) \subseteq loaded.used
      /\ loaded.free \cup loaded.used \subseteq PoolRange[n] \ Revoked[n]
      /\ loaded.free \cap loaded.used = {} /\ loaded.exists /\ loaded.exists = set.exists
  BY <1>1, <1>2, <1>3
<1>8. CachesMatch(q, loaded, set, PoolRange[n] \ Revoked[n])
  BY <1>4, <1>5, <1>6, <1>7 DEF CachesMatch
<1> QED BY <1>8 DEF q, loaded

\* BuildCache rebuilds the caches of a pool only from a copy with all its entries.
LEMMA BuildCacheInStep ==
  ASSUME TypeOK, TypeOK', Tidy, InStep, BuildCache, ~UNCHANGED memory,
         (\A n \in Nets : PoolViews(n))', SameEntries,
         \A n \in Nets : "guest" \in pool'[n].fresh =>
           /\ "guest" \in pool[n].fresh /\ pool'[n].api = pool[n].api
           /\ "informer" \in pool[n].fresh => "informer" \in pool'[n].fresh
  PROVE  InStep'
<1>1. PICK n \in Nets : n = pw.n
  BY DEF TypeOK, PoolWork, BuildCache
<1>2. PICK set \in LoadedMACSets(pw.obj.alloc) :
        /\ ipam' = [ipam EXCEPT ![n] = LoadedSubnet(n, pw.obj)]
        /\ macs' = [macs EXCEPT ![n] = set]
  BY <1>1 DEF BuildCache
<1>3. pw.pc = "build" /\ pw.obj.ready # "True" /\ UNCHANGED <<vm, cfg, cw>> /\ pw.obj \in Pool
  BY DEF BuildCache, TypeOK, PoolWork
<1>4. /\ pool[n].api.ready # "True" /\ Within(pool[n].api, pw.obj)
      /\ RecordedIPs(pw.obj) \subseteq PoolRange[n] \ Revoked[n]
  <2>1. PoolViews(n)
    BY DEF InStep
  <2> QED BY <1>1, <1>3, <2>1 DEF PoolViews, Proper
<1>5. /\ ipam'[n] = LoadedSubnet(n, pw.obj) /\ macs'[n] = set
      /\ \A m \in Nets \ {n} : ipam'[m] = ipam[m] /\ macs'[m] = macs[m]
  BY <1>2, StateTypes
<1>6. CachesKnow(n)'
  <2>1. pool[n].api \in Pool /\ pool'[n].api \in Pool
    BY DEF TypeOK, ApiObjects
  <2>2. Within(pool'[n].api, pw.obj)
    BY <1>3, <1>4, <2>1, WithinFacts DEF SameEntries
  <2>3. PICK out : out = Releasing(n)'
    OBVIOUS
  <2>4. CachesMatch(Without(pool'[n].api, out), LoadedSubnet(n, pw.obj), set, PoolRange[n] \ Revoked[n])
    BY <1>3, <1>4, <2>1, <2>2, LoadedMatch
  <2>5. CachesMatch(Without(pool'[n].api, Releasing(n)'), ipam'[n], macs'[n], PoolRange[n] \ Revoked[n])
    BY <1>5, <2>3, <2>4
  <2>6. ipam'[n].exists
    BY <1>5 DEF LoadedSubnet, AllocateIP, NewIPSubnet, RevokeIP
  <2> QED BY <2>5, <2>6 DEF CachesKnow
<1>7. ASSUME NEW m \in Nets \ {n} PROVE CachesKnow(m)'
  <2>1. /\ ipam'[m] = ipam[m] /\ macs'[m] = macs[m] /\ CachesKnow(m) /\ Releasing(m)' = Releasing(m)
        /\ Within(pool[m].api, pool'[m].api) /\ Within(pool'[m].api, pool[m].api)
    BY <1>3, <1>5 DEF InStep, Releasing, SameEntries
  <2> QED BY <2>1, KnownKept
<1>8. PendingKnown'
  <2>1. \A r \in cw.cur : r.net \in Nets
    BY StateTypes
  <2>2. PendingSound /\ PendingKnown
    BY DEF InStep, PendingKnown
  <2>3. \A m \in Nets : ipam[m].exists => ipam'[m].exists
    BY <1>5 DEF LoadedSubnet, AllocateIP, NewIPSubnet, RevokeIP
  <2>4. PendingSound'
    <3> SUFFICES ASSUME cw.pc = "allocate", NEW r \in cw.cur, "guest" \in pool'[r.net].fresh
                 PROVE  /\ "informer" \in pool'[r.net].fresh /\ pool'[r.net].api.ready = "True"
                        /\ r.ip \in PoolRange[r.net] \ Revoked[r.net]
                        /\ pool'[r.net].api.alloc[r.ip] \in Macs => pool'[r.net].api.alloc[r.ip] = r.mac
                        /\ ipam'[r.net].exists => /\ r.ip \in ipam'[r.net].used
                                                  /\ macs'[r.net].ip[r.mac] = r.ip
      BY <1>3 DEF PendingSound
    <3>1. /\ "guest" \in pool[r.net].fresh /\ pool'[r.net].api = pool[r.net].api
          /\ "informer" \in pool[r.net].fresh => "informer" \in pool'[r.net].fresh
      BY <2>1
    <3>2. pool[r.net].api.ready = "True"
      BY <2>2, <3>1 DEF PendingSound
    <3>3. ipam'[r.net] = ipam[r.net] /\ macs'[r.net] = macs[r.net]
      BY <1>4, <1>5, <2>1, <3>2
    <3> QED BY <2>2, <3>1, <3>3 DEF PendingSound
  <2> QED BY <1>3, <2>1, <2>2, <2>3, <2>4 DEF PendingKnown
<1>9. (\A v \in VMs : CfgViews(v))' /\ PassViews' /\ EntriesKept'
  BY <1>3, OtherSideKept DEF SameEntries
<1> QED BY <1>6, <1>7, <1>8, <1>9 DEF InStep

\* What the ippool worker stores has the entries of its copy, and those may be given out.
LEMMA WorkerCopyProper ==
  ASSUME TypeOK, InStep
  PROVE  /\ \A n \in Nets : "worker" \in pool[n].fresh => pool[n].api = pw.obj
         /\ pw.pc # "idle" => pw.n \in Nets /\ Proper(pw.n, pw.obj)
BY StateTypes DEF InStep, PoolViews

\* Every step of the ippool controller. A tidy environment has no agents where pools are
\* paused, so the caches of a paused pool stay.
LEMMA PoolStepInStep ==
  ASSUME TypeOK, TypeOK', Tidy, InStep, PoolController
  PROVE  InStep'
<1>1. CASE PoolStep
  <2>1. pw.pc # "idle"
    BY <1>1 DEF PoolStep, PoolOnChange, DeployAgent, BuildCache, MonitorAgent, PoolLabelsFail, PoolPaused,
                PoolNotInitialized, PoolUsage
  <2>2. /\ UNCHANGED <<vm, cfg, cw>>
        /\ \E new \in Pool, changed, failed \in BOOLEAN, next \in {"build", "monitor", "change"} :
             PoolEnds(new, changed, failed, next)
    BY <1>1, <2>1, WorkerCopyProper, PoolStepEnds DEF Proper
  <2>3. /\ (\A n \in Nets : PoolViews(n))' /\ SameEntries
        /\ \A n \in Nets : "guest" \in pool'[n].fresh =>
             /\ "guest" \in pool[n].fresh /\ pool'[n].api = pool[n].api
             /\ "informer" \in pool[n].fresh => "informer" \in pool'[n].fresh
    BY <2>1, <2>2, PoolViewsKept
  <2>4. ~(pw.obj.agent /\ pw.obj.paused)
    BY <2>1, WorkerCopyProper DEF Proper, Tidy
  <2>5. BuildCache \/ UNCHANGED memory
    BY <1>1, <2>4 DEF PoolStep, PoolOnChange, DeployAgent, MonitorAgent, PoolLabelsFail, PoolPaused,
                      PoolNotInitialized, PoolUsage
  <2> QED BY <2>2, <2>3, <2>5, PoolSideInStep, BuildCacheInStep
<1> QED BY <1>1, StartPoolInStep DEF PoolController

-----------------------------------------------------------------------------
\* Users, informers and the vm controller.

\* Pools that users pause and that informers see.
LEMMA PoolEventInStep ==
  ASSUME TypeOK, TypeOK', Tidy, InStep, NEW n \in Nets, PausePool(n) \/ DeliverPool(n)
  PROVE  InStep'
<1>1. UNCHANGED <<vm, cfg, memory, pw, cw>> /\ \A m \in Nets \ {n} : pool'[m] = pool[m]
  BY StateTypes DEF PausePool, DeliverPool
<1>2. PoolViews(n) /\ pool[n].api \in Pool
  BY StateTypes DEF InStep
<1>3. SameEntries
  BY OtherStepEntries DEF UserStep, Deliver
<1>4. PoolViews(n)'
  <2>1. CASE DeliverPool(n)
    <3>1. /\ pool'[n].api = pool[n].api /\ pool'[n].inf = pool[n].api /\ pool'[n].unseen = {}
          /\ pool'[n].fresh = pool[n].fresh \cup {"informer"}
      BY <2>1, StateTypes DEF DeliverPool, Delivered
    <3> QED BY <1>1, <1>2, <3>1, WithinFacts DEF PoolViews
  <2>2. CASE PausePool(n)
    <3>1. /\ pool'[n].api = [pool[n].api EXCEPT !.paused = ~pool[n].api.paused]
          /\ pool'[n].inf = pool[n].inf /\ pool'[n].fresh = {} /\ pool'[n].unseen = pool[n].unseen
          /\ "pausePool" \in Env
      BY <2>2, StateTypes DEF PausePool, Written, ApiObjects
    <3>2. /\ pool'[n].api.ready = pool[n].api.ready /\ pool'[n].api.alloc = pool[n].api.alloc
          /\ pool'[n].api.agent = pool[n].api.agent
      BY <1>2, <3>1 DEF Pool
    <3>3. Proper(n, pool'[n].api)
      BY <1>2, <3>1, <3>2 DEF PoolViews, Proper, RecordedIPs
    <3>4. \A q : /\ Within(q, pool'[n].api) <=> Within(q, pool[n].api)
                 /\ Within(pool'[n].api, q) <=> Within(pool[n].api, q)
      BY <3>2 DEF Within
    <3> QED BY <1>1, <1>2, <3>1, <3>2, <3>3, <3>4 DEF PoolViews
  <2> QED BY <2>1, <2>2
<1>5. ASSUME NEW m \in Nets \ {n} PROVE PoolViews(m)'
  <2>1. PoolViews(m) /\ pool'[m] = pool[m] /\ pw' = pw
    BY <1>1 DEF InStep
  <2> QED BY <2>1 DEF PoolViews
<1>6. \A m \in Nets : "guest" \in pool'[m].fresh =>
          /\ "guest" \in pool[m].fresh /\ pool'[m].api = pool[m].api
          /\ "informer" \in pool[m].fresh => "informer" \in pool'[m].fresh
  BY <1>1, StateTypes DEF PausePool, DeliverPool, Written, Delivered
<1> QED BY <1>1, <1>3, <1>4, <1>5, <1>6, PoolSideInStep

\* InStep after a step that changes only vmnetcfgs and VMs, and adds no record.
LEMMA CfgSideInStep ==
  ASSUME TypeOK, TypeOK', InStep, UNCHANGED <<pool, memory, pw, cw>>,
         (\A v \in VMs : CfgViews(v))', \A v \in VMs : cfg'[v].api.recs \subseteq cfg[v].api.recs
  PROVE  InStep'
<1>1. ASSUME NEW n \in Nets PROVE PoolViews(n)' /\ CachesKnow(n)'
  <2>1. PoolViews(n) /\ CachesKnow(n)
    BY DEF InStep
  <2>2. PoolViews(n)'
    BY <2>1 DEF PoolViews
  <2>3. ipam'[n] = ipam[n] /\ macs'[n] = macs[n] /\ Releasing(n)' = Releasing(n)
    BY DEF memory, Releasing
  <2>4. Within(pool[n].api, pool'[n].api) /\ Within(pool'[n].api, pool[n].api)
    BY StateTypes, WithinFacts
  <2> QED BY <2>1, <2>2, <2>3, <2>4, KnownKept
<1>2. PassViews' /\ PendingKnown'
  BY DEF InStep, PassViews, PendingKnown, PendingSound, WellFormed, memory
<1>3. EntriesKept'
  BY DEF InStep, EntriesKept, Entered
<1> QED BY <1>1, <1>2, <1>3 DEF InStep

\* Someone else than the worker writes a vmnetcfg that is not being deleted.
LEMMA CfgWrittenInStep ==
  ASSUME TypeOK, TypeOK', InStep, UNCHANGED <<pool, memory, pw, cw>>, NEW v \in VMs, NEW c,
         \A w \in VMs \ {v} : cfg'[w] = cfg[w] /\ vm'[w] = vm[w],
         cfg'[v] = Written(cfg[v], c, "other"), ~cfg[v].api.deleting,
         WellFormed(c), c.recs \subseteq cfg[v].api.recs, c.deleting => c.exists /\ ~vm'[v].alive,
         vm'[v].alive => vm'[v] = vm[v] /\ (c.exists => c.nics = prepareVmNetCfg(vm[v].nics)),
         MacsOf(c.nics) \subseteq MacsOfVM(v)
  PROVE  InStep'
<1>1. /\ cfg'[v].api = c /\ cfg'[v].inf = cfg[v].inf /\ cfg'[v].fresh = {} /\ cfg'[v].unseen = cfg[v].unseen
  BY StateTypes DEF Written, ApiObjects
<1>2. CfgViews(v)
  BY DEF InStep
<1>3. CfgViews(v)'
  BY <1>1, <1>2 DEF CfgViews, WellFormed, MacsOf
<1>4. ASSUME NEW w \in VMs \ {v} PROVE CfgViews(w)'
  <2>1. CfgViews(w) /\ cfg'[w] = cfg[w] /\ vm'[w] = vm[w] /\ cw' = cw
    BY DEF InStep
  <2> QED BY <2>1 DEF CfgViews, WellFormed
<1>5. \A w \in VMs : cfg'[w].api.recs \subseteq cfg[w].api.recs
  BY <1>1
<1> QED BY <1>3, <1>4, <1>5, CfgSideInStep

\* prepareVmNetCfg keeps the MAC addresses, and no interface of a VM has one that is
\* not the VM's.
LEMMA PreparedMacs ==
  /\ \A nics \in SUBSET Nic : MacsOf(prepareVmNetCfg(nics)) = MacsOf(nics)
  /\ \A v \in VMs : \A nics \in Desired[v] : MacsOf(nics) \subseteq MacsOfVM(v) /\ nics \in SUBSET Nic
<1>1. ASSUME NEW nics \in SUBSET Nic
      PROVE  MacsOf(prepareVmNetCfg(nics)) = MacsOf(nics)
  <2>1. \A nc \in nics : [nc EXCEPT !.ip = NoIP].mac = nc.mac
    BY DEF Nic
  <2> QED BY <2>1 DEF MacsOf, prepareVmNetCfg
<1> QED BY <1>1, ConstantsAssumption DEF MacsOfVM

\* A new vmnetcfg has nothing to clean up.
LEMMA NewCfgFacts ==
  \A nics : LET c == NewCfg(nics) IN
    WellFormed(c) /\ c.exists /\ c.nics = nics /\ c.recs = {} /\ ~c.deleting
BY DEF NewCfg, WellFormed

\* VMs come, go once they are served, and vmnetcfgs are written by hand.
LEMMA UserInStep ==
  ASSUME TypeOK, TypeOK', Tidy, InStep, NEW v \in VMs, GiveVM(v) \/ RemoveVM(v) \/ CreateCfg(v)
  PROVE  InStep'
<1>1. UNCHANGED <<pool, memory, pw, cw>> /\ "hasty" \notin Env
  BY DEF GiveVM, RemoveVM, CreateCfg, Tidy
<1>2. CfgViews(v) /\ cfg[v].api \in Cfg /\ \A w \in VMs \ {v} : cfg'[w] = cfg[w] /\ vm'[w] = vm[w]
  <2>1. CfgViews(v) /\ cfg[v].api \in Cfg
    BY DEF InStep, TypeOK, ApiObjects
  <2> QED BY <2>1 DEF TypeOK, GiveVM, RemoveVM, CreateCfg
<1>3. CASE GiveVM(v)
  <2>1. PICK nics \in Desired[v] : vm' = [vm EXCEPT ![v] = [alive |-> TRUE, nics |-> nics]]
    BY <1>3 DEF GiveVM
  <2>2. cfg' = cfg /\ ~cfg[v].api.exists /\ vm'[v].nics = nics
    BY <1>1, <1>3, <2>1 DEF GiveVM, TypeOK
  <2>3. CfgViews(v)'
    BY <1>1, <1>2, <2>2, PreparedMacs DEF CfgViews, WellFormed
  <2>4. ASSUME NEW w \in VMs \ {v} PROVE CfgViews(w)'
    <3>1. CfgViews(w) /\ cfg'[w] = cfg[w] /\ vm'[w] = vm[w] /\ cw' = cw
      BY <1>1, <1>2 DEF InStep
    <3> QED BY <3>1 DEF CfgViews, WellFormed
  <2> QED BY <1>1, <2>2, <2>3, <2>4, CfgSideInStep
<1>4. CASE CreateCfg(v)
  <2>1. PICK nics \in Desired[v] : cfg' = [cfg EXCEPT ![v] = Written(@, NewCfg(nics), "other")]
    BY <1>4 DEF CreateCfg
  <2>2. cfg'[v] = Written(cfg[v], NewCfg(nics), "other") /\ ~cfg[v].api.deleting /\ ~vm'[v].alive
    BY <1>2, <1>4, <2>1 DEF CreateCfg, CfgViews, TypeOK
  <2> QED BY <1>1, <1>2, <2>2, NewCfgFacts, PreparedMacs, CfgWrittenInStep
<1>5. CASE RemoveVM(v)
  <2> DEFINE c == [cfg[v].api EXCEPT !.deleting = TRUE]
  <2>1. cfg[v].api.exists /\ cfg[v].api.final /\ vm[v].alive
    BY <1>1, <1>5 DEF RemoveVM, Served
  <2>2. cfg'[v] = Written(cfg[v], c, "other") /\ ~vm'[v].alive
    BY <1>5, <2>1 DEF RemoveVM, TypeOK
  <2>3. /\ c.deleting /\ c.exists = cfg[v].api.exists /\ c.nics = cfg[v].api.nics
        /\ c.recs = cfg[v].api.recs /\ c.paused = cfg[v].api.paused
    BY <1>2 DEF Cfg
  <2> HIDE DEF c
  <2>4. /\ ~cfg[v].api.deleting /\ WellFormed(c) /\ c.recs \subseteq cfg[v].api.recs
        /\ MacsOf(c.nics) \subseteq MacsOfVM(v)
    BY <1>2, <2>1, <2>3 DEF CfgViews, WellFormed
  <2> QED BY <1>1, <1>2, <2>1, <2>2, <2>3, <2>4, CfgWrittenInStep
<1> QED BY <1>3, <1>4, <1>5

\* The vm controller writes a vmnetcfg only of a VM that lives, so never one that is
\* being deleted.
LEMMA VMStepInStep ==
  ASSUME TypeOK, TypeOK', InStep, VMController
  PROVE  InStep'
<1>1. PICK v \in VMs : VMOnChange(v)
  BY DEF VMController
<1>2. UNCHANGED <<pool, memory, pw, cw, vm>> /\ \A w \in VMs \ {v} : cfg'[w] = cfg[w]
  BY <1>1 DEF VMOnChange, VMSkipped, VMCreates, VMUnchanged, VMUpdates, objects, TypeOK
<1>3. CfgViews(v) /\ cfg[v].api \in Cfg /\ vm[v].nics \in SUBSET Nic
  BY DEF InStep, TypeOK, ApiObjects
<1>4. CASE cfg' = cfg
  <2>1. (\A w \in VMs : CfgViews(w))'
    BY <1>2, <1>4 DEF InStep, CfgViews, WellFormed
  <2> QED BY <1>2, <1>4, <2>1, CfgSideInStep
<1>5. CASE VMCreates(v) /\ cfg' # cfg
  <2> DEFINE c == NewCfg(prepareVmNetCfg(vm[v].nics))
  <2>1. cfg'[v] = Written(cfg[v], c, "other") /\ ~cfg[v].api.exists /\ vm[v].alive
    BY <1>5 DEF VMCreates, TypeOK
  <2>2. ~cfg[v].api.deleting /\ MacsOf(prepareVmNetCfg(vm[v].nics)) \subseteq MacsOfVM(v)
    BY <1>3, <2>1, PreparedMacs DEF CfgViews
  <2>3. /\ WellFormed(c) /\ c.exists /\ c.nics = prepareVmNetCfg(vm[v].nics) /\ c.recs = {}
        /\ ~c.deleting
    BY NewCfgFacts
  <2> HIDE DEF c
  <2> QED BY <1>2, <2>1, <2>2, <2>3, CfgWrittenInStep
<1>6. CASE VMUpdates(v) /\ cfg' # cfg
  <2> DEFINE nics == prepareVmNetCfg(vm[v].nics)
  <2>1. /\ "informer" \in cfg[v].fresh /\ cfg[v].inf.exists /\ vm[v].alive
        /\ \/ cfg'[v] = Written(cfg[v], [cfg[v].api EXCEPT !.nics = nics], "other")
           \/ cfg'[v] = Written(cfg[v], [cfg[v].api EXCEPT !.inSynced = "False"], "other")
    BY <1>6 DEF VMUpdates, TypeOK
  <2>2. cfg[v].api.exists /\ ~cfg[v].api.deleting /\ cfg[v].api.nics = nics
    BY <1>3, <2>1 DEF CfgViews
  <2>3. PICK c : /\ cfg'[v] = Written(cfg[v], c, "other") /\ c.recs = cfg[v].api.recs
                 /\ c.exists /\ ~c.deleting /\ c.nics = nics /\ c.paused = cfg[v].api.paused
    BY <1>3, <2>1, <2>2 DEF Cfg
  <2>4. WellFormed(c) /\ MacsOf(c.nics) \subseteq MacsOfVM(v)
    BY <1>3, <2>2, <2>3 DEF CfgViews, WellFormed
  <2> QED BY <1>2, <2>1, <2>2, <2>3, <2>4, CfgWrittenInStep
<1> QED
  <2>1. VMSkipped(v) \/ VMUnchanged(v) => cfg' = cfg
    BY DEF VMSkipped, VMUnchanged, objects
  <2> QED BY <1>1, <1>4, <1>5, <1>6, <2>1 DEF VMOnChange

\* The informer gets a vmnetcfg.
LEMMA DeliverCfgInStep ==
  ASSUME TypeOK, TypeOK', InStep, NEW v \in VMs, DeliverCfg(v)
  PROVE  InStep'
<1>1. UNCHANGED <<pool, memory, pw, cw, vm>> /\ \A w \in VMs \ {v} : cfg'[w] = cfg[w]
  BY DEF DeliverCfg, TypeOK
<1>2. /\ cfg'[v].api = cfg[v].api /\ cfg'[v].inf = cfg[v].api /\ cfg'[v].unseen = {}
      /\ cfg'[v].fresh = cfg[v].fresh \cup {"informer"}
  BY DEF DeliverCfg, Delivered, TypeOK
<1>3. ASSUME NEW w \in VMs PROVE CfgViews(w)'
  <2>1. CfgViews(w)
    BY DEF InStep
  <2>2. CASE w = v
    BY <1>1, <1>2, <2>1, <2>2 DEF CfgViews, WellFormed
  <2>3. CASE w # v
    <3>1. cfg'[w] = cfg[w] /\ vm' = vm /\ cw' = cw
      BY <1>1, <2>3
    <3> QED BY <2>1, <3>1 DEF CfgViews, WellFormed
  <2> QED BY <2>2, <2>3
<1> QED BY <1>1, <1>2, <1>3, CfgSideInStep

-----------------------------------------------------------------------------
\* The vmnetcfg controller.

\* Pools of which the vmnetcfg worker takes or drops a copy, and the caches, are as
\* they were.
LEMMA GuestInStep ==
  ASSUME TypeOK, TypeOK', InStep, UNCHANGED pw,
         \A n \in Nets : /\ pool'[n].api = pool[n].api /\ pool'[n].inf = pool[n].inf
                         /\ pool'[n].unseen = pool[n].unseen
                         /\ \A h \in {"informer", "worker"} :
                              h \in pool'[n].fresh <=> h \in pool[n].fresh
  PROVE  /\ (\A n \in Nets : PoolViews(n))'
         /\ \A n \in Nets : Within(pool[n].api, pool'[n].api) /\ Within(pool'[n].api, pool[n].api)
         /\ \A r \in Rec : Entered(r)' <=> Entered(r)
<1>1. ASSUME NEW n \in Nets PROVE PoolViews(n)'
  <2>1. PoolViews(n)
    BY DEF InStep
  <2>2. /\ pool'[n].api = pool[n].api /\ pool'[n].inf = pool[n].inf /\ pool'[n].unseen = pool[n].unseen
        /\ "informer" \in pool'[n].fresh <=> "informer" \in pool[n].fresh
        /\ "worker" \in pool'[n].fresh <=> "worker" \in pool[n].fresh
        /\ pw' = pw
    OBVIOUS
  <2> QED BY <2>1, <2>2 DEF PoolViews
<1>2. \A n \in Nets : Within(pool[n].api, pool'[n].api) /\ Within(pool'[n].api, pool[n].api)
  BY StateTypes, WithinFacts
<1>3. \A r \in Rec : Entered(r)' <=> Entered(r)
  BY DEF Entered, Rec
<1> QED BY <1>1, <1>2, <1>3

\* The copies of the vmnetcfgs after a handler or a pass that neither deletes the object
\* nor changes its interfaces.
LEMMA CfgViewsHandled ==
  ASSUME TypeOK, TypeOK', InStep, UNCHANGED vm, cw.pc # "idle",
         NEW new \in Cfg, NEW failed \in BOOLEAN, NEW next \in {"sync", "change", "remove"},
         Handled(new, failed, next) \/ CfgPassEnds(new, failed), WellFormed(new),
         new.exists = cw.obj.exists, new.nics = cw.obj.nics, new.deleting = cw.obj.deleting
  PROVE  /\ (\A v \in VMs : CfgViews(v))'
         /\ \A v \in VMs : \/ cfg'[v].api = cfg[v].api
                           \/ v = cw.v /\ cw.obj = cfg[v].api /\ cfg'[v].api = new
<1>1. PICK v \in VMs : v = cw.v
  BY DEF TypeOK, CfgWork
<1>0. /\ Handled(new, failed, next) => cw'.v = cw.v /\ cw'.obj = new
      /\ CfgPassEnds(new, failed) => cw'.v = NoVM
  BY HandledWork
<1>2. /\ NoVM \notin VMs /\ CfgViews(v)
      /\ \A w \in VMs \ {v} : CfgViews(w) /\ cfg'[w] = cfg[w] /\ cw'.v # w /\ cw.v # w
  <2>1. \A w \in VMs : CfgViews(w)
    BY DEF InStep
  <2>2. NoVM \notin VMs /\ cfg \in [VMs -> ApiObjects(Cfg)] /\ (cw'.v = v \/ cw'.v = NoVM)
    BY <1>1, <1>0, ConstantsAssumption DEF TypeOK
  <2>3. \A w \in VMs \ {v} : cfg'[w] = cfg[w]
    BY <1>1, <2>2 DEF Handled, CfgPassEnds
  <2> QED BY <1>1, <2>1, <2>2, <2>3
<1>3. ASSUME NEW w \in VMs \ {v} PROVE CfgViews(w)'
  <2>1. CfgViews(w) /\ cfg'[w] = cfg[w] /\ vm' = vm /\ cw'.v # w /\ cw.v # w
    BY <1>2
  <2> QED BY <2>1 DEF CfgViews, WellFormed
<1>4. PICK t : /\ t = Saved(cfg[v], new, new # cw.obj)
               /\ \/ cfg'[v] = t /\ cw'.v = v /\ cw'.obj = new
                  \/ cfg'[v] = Dropped(t, "worker") /\ cw'.v # v
  <2> DEFINE u == Saved(cfg[v], new, new # cw.obj)
  <2>1. CASE Handled(new, failed, next)
    BY <1>0, <1>1, <2>1, StateTypes DEF Handled
  <2>2. CASE CfgPassEnds(new, failed)
    BY <1>0, <1>1, <1>2, <2>2, StateTypes DEF CfgPassEnds
  <2> QED BY <2>1, <2>2
<1>5. \/ /\ "worker" \in cfg[v].fresh /\ t.api = new /\ t.inf = cfg[v].inf
         /\ t.fresh = {"worker"} /\ "worker" \in t.unseen
      \/ t = cfg[v] /\ (new # cw.obj => "worker" \notin cfg[v].fresh)
  BY <1>4 DEF Saved, Written
<1>6. /\ cfg'[v].api = t.api /\ cfg'[v].inf = t.inf /\ cfg'[v].unseen = t.unseen
      /\ \/ cfg'[v].fresh = t.fresh /\ cw'.v = v /\ cw'.obj = new
         \/ cfg'[v].fresh = t.fresh \ {"worker"} /\ cw'.v # v
  BY <1>4, DroppedFacts
<1>7. CfgViews(v)'
  <2>1. CASE t = cfg[v] /\ (new # cw.obj => "worker" \notin cfg[v].fresh)

    <3>1. /\ cfg'[v].api = cfg[v].api /\ cfg'[v].inf = cfg[v].inf
          /\ cfg'[v].unseen = cfg[v].unseen /\ vm' = vm
          /\ "informer" \in cfg'[v].fresh <=> "informer" \in cfg[v].fresh
      BY <1>6, <2>1
    <3>2. "worker" \in cfg'[v].fresh => cw'.v = v /\ cw'.obj = cfg'[v].api
      <4>1. HAVE "worker" \in cfg'[v].fresh
      <4>2. "worker" \in cfg[v].fresh /\ cw'.v = v /\ cw'.obj = new
        BY <1>6, <2>1, <4>1
      <4>3. new = cw.obj /\ cw.obj = cfg[v].api
        BY <1>2, <2>1, <4>2 DEF CfgViews
      <4> QED BY <3>1, <4>2, <4>3
    <3>3. cw'.v = v /\ cw'.obj.deleting => "worker" \in cfg'[v].fresh
      <4>1. HAVE cw'.v = v /\ cw'.obj.deleting
      <4>2. cw.obj.deleting /\ cfg'[v].fresh = cfg[v].fresh
        BY <1>6, <2>1, <4>1
      <4> QED BY <1>1, <1>2, <4>2 DEF CfgViews
    <3> QED BY <1>2, <3>1, <3>2, <3>3 DEF CfgViews, WellFormed
  <2>2. CASE /\ "worker" \in cfg[v].fresh /\ t.api = new /\ t.inf = cfg[v].inf
             /\ t.fresh = {"worker"} /\ "worker" \in t.unseen
    <3>1. cw.obj = cfg[v].api
      BY <1>2, <2>2 DEF CfgViews
    <3>2. new.exists = cfg[v].api.exists /\ new.nics = cfg[v].api.nics /\ new.deleting = cfg[v].api.deleting
      BY <3>1
    <3> QED BY <1>2, <1>6, <2>2, <3>2 DEF CfgViews, WellFormed
  <2> QED BY <1>5, <2>1, <2>2
<1>8. cfg'[v].api = cfg[v].api \/ (cw.obj = cfg[v].api /\ cfg'[v].api = new)
  BY <1>2, <1>5, <1>6 DEF CfgViews
<1> QED BY <1>1, <1>2, <1>3, <1>7, <1>8

\* A handler or a pass that does not end the deletion of its object.
LEMMA CfgHandledInStep ==
  ASSUME TypeOK, TypeOK', InStep, UNCHANGED <<vm, memory, pw>>, cw.pc # "idle",
         cw.pc = "allocate" \/ Cleaned, ~(cw.pc = "remove" /\ cw.obj.deleting),
         \A n \in Nets : /\ pool'[n].api = pool[n].api /\ pool'[n].inf = pool[n].inf
                         /\ pool'[n].unseen = pool[n].unseen
                         /\ \A h \in {"informer", "worker"} :
                              h \in pool'[n].fresh <=> h \in pool[n].fresh,
         NEW new \in Cfg, NEW failed \in BOOLEAN, NEW next \in {"sync", "change", "remove"},
         Handled(new, failed, next) \/ CfgPassEnds(new, failed), WellFormed(new),
         new.exists = cw.obj.exists, new.nics = cw.obj.nics, new.deleting = cw.obj.deleting,
         new.recs \subseteq cw.obj.recs \cup cw.acc
  PROVE  InStep'
<1>1. /\ (\A n \in Nets : PoolViews(n))'
      /\ \A n \in Nets : Within(pool[n].api, pool'[n].api) /\ Within(pool'[n].api, pool[n].api)
      /\ \A r \in Rec : Entered(r)' <=> Entered(r)
  BY GuestInStep
<1>2. /\ (\A v \in VMs : CfgViews(v))'
      /\ \A v \in VMs : \/ cfg'[v].api = cfg[v].api
                        \/ v = cw.v /\ cw.obj = cfg[v].api /\ cfg'[v].api = new
  BY CfgViewsHandled
<1>3. \/ cw' = IdleCfg
      \/ /\ cw'.pc = next /\ cw'.v = cw.v /\ cw'.obj = new /\ cw'.todo = {} /\ cw'.cur = {} /\ cw'.acc = {}
         /\ cw'.clean = ToClean(next, new)
  BY DEF Handled, CfgPassEnds, IdleCfg
<1>4. ToClean(next, new) # {} => next = "remove" /\ new.deleting /\ ToClean(next, new) = new.recs
  <2>1. StaleRecs(new) = {} /\ ~new.paused
    BY DEF StaleRecs, WellFormed
  <2> QED BY <2>1 DEF ToClean
<1>5. PassViews' /\ PendingKnown'
  <2>1. CASE cw' = IdleCfg
    <3>1. /\ cw'.pc = "idle" /\ cw'.obj = NoCfg /\ cw'.todo = {} /\ cw'.clean = {} /\ cw'.cur = {}
          /\ cw'.acc = {}
      BY <2>1 DEF IdleCfg
    <3>2. NoCfg.recs = {} /\ ~NoCfg.paused
      BY DEF NoCfg, NewCfg
    <3> QED BY <3>1, <3>2 DEF PassViews, PendingKnown, PendingSound, WellFormed
  <2>2. CASE cw' # IdleCfg
    BY <1>3, <1>4, <2>2 DEF PassViews, PendingKnown, PendingSound, WellFormed
  <2> QED BY <2>1, <2>2
<1>6. ASSUME NEW n \in Nets PROVE CachesKnow(n)'
  <2>1. Releasing(n) = {}
    BY DEF Releasing, Cleaned
  <2>2. cw'.cur = {}
    BY <1>3 DEF IdleCfg
  <2>3. Releasing(n)' = {}
    BY <2>2 DEF Releasing
  <2>4. CachesKnow(n) /\ ipam'[n] = ipam[n] /\ macs'[n] = macs[n]
    BY DEF InStep, memory
  <2> QED BY <1>1, <2>1, <2>3, <2>4, KnownKept
<1>7. EntriesKept'
  <2>1. \A v \in VMs : cfg[v].api.recs \subseteq Rec /\ \A r \in cfg[v].api.recs : Entered(r)
    BY DEF InStep, EntriesKept, TypeOK, ApiObjects, Cfg
  <2>2. cw.acc \subseteq Rec /\ \A r \in cw.acc : Entered(r)
    BY DEF InStep, EntriesKept, TypeOK, CfgWork
  <2>3. \A v \in VMs : \A r \in cfg'[v].api.recs : r \in Rec /\ Entered(r)
    BY <1>2, <2>1, <2>2
  <2>4. \A v \in VMs : \A r \in cfg'[v].api.recs : Entered(r)'
    BY <1>1, <2>3
  <2>5. cw'.acc = {}
    BY <1>3 DEF IdleCfg
  <2> QED BY <2>4, <2>5 DEF EntriesKept
<1> QED BY <1>1, <1>2, <1>5, <1>6, <1>7 DEF InStep

\* The last handler of a deletion takes the finalizer off, and the object is gone: the
\* worker's copy was the stored one, so the update is not refused.
LEMMA CfgRemovedInStep ==
  ASSUME TypeOK, TypeOK', InStep, CfgOnRemove, cw.obj.deleting
  PROVE  InStep'
<1>1. PICK v \in VMs : v = cw.v
  BY DEF CfgOnRemove, TypeOK, CfgWork
<1>2. UNCHANGED <<vm, pool, memory, pw>> /\ CfgPassEnds(NoCfg, FALSE) /\ cw.cur = {}
  BY DEF CfgOnRemove, Cleaned
<1>3. /\ cw'.pc = "idle" /\ cw'.v = NoVM /\ cw'.obj = NoCfg /\ cw'.todo = {}
      /\ cw'.cur = {} /\ cw'.acc = {} /\ cw'.clean = {}
  BY <1>2, HandledWork
<1>4. CfgViews(v) /\ NoVM \notin VMs /\ ~NoCfg.exists /\ ~NoCfg.deleting /\ ~NoCfg.paused /\ NoCfg.recs = {}
      /\ NoCfg.nics = {}
  BY ConstantsAssumption DEF InStep, NoCfg, NewCfg
<1>5. "worker" \in cfg[v].fresh /\ cfg[v].api = cw.obj /\ cfg[v].api.exists /\ ~vm[v].alive
  BY <1>1, <1>4 DEF CfgViews
<1>6. /\ cfg'[v].api = NoCfg /\ cfg'[v].inf = cfg[v].inf /\ cfg'[v].fresh = {} /\ "worker" \in cfg'[v].unseen
      /\ \A w \in VMs \ {v} : cfg'[w] = cfg[w]
  <2>1. cw.obj # NoCfg
    BY <1>4, <1>5
  <2>2. /\ cfg'[v] = Dropped(Written(cfg[v], NoCfg, "worker"), "worker")
        /\ \A w \in VMs \ {v} : cfg'[w] = cfg[w]
    BY <1>1, <1>2, <1>5, <2>1, StateTypes DEF CfgPassEnds, Saved
  <2> QED BY <2>2 DEF Written, Dropped
<1>7. ASSUME NEW w \in VMs PROVE CfgViews(w)'
  <2>1. CASE w = v
    BY <1>2, <1>3, <1>4, <1>5, <1>6, <2>1 DEF CfgViews, WellFormed, MacsOf
  <2>2. CASE w # v
    <3>1. CfgViews(w) /\ cfg'[w] = cfg[w] /\ vm' = vm /\ cw'.v # w /\ cw.v # w
      BY <1>1, <1>2, <1>3, <1>4, <1>6, <2>2 DEF InStep
    <3> QED BY <3>1 DEF CfgViews, WellFormed
  <2> QED BY <2>1, <2>2
<1>8. (\A n \in Nets : PoolViews(n))' /\ \A r \in Rec : Entered(r)' <=> Entered(r)
  BY <1>2, GuestInStep
<1>9. ASSUME NEW n \in Nets PROVE CachesKnow(n)'
  <2>1. CachesKnow(n) /\ ipam'[n] = ipam[n] /\ macs'[n] = macs[n] /\ Releasing(n)' = Releasing(n)
    BY <1>2, <1>3 DEF InStep, memory, Releasing
  <2> QED BY <1>2, <2>1, KnownKept, StateTypes, WithinFacts
<1>10. EntriesKept'
  <2>1. \A w \in VMs : \A r \in cfg'[w].api.recs : r \in Rec /\ Entered(r)
    <3>1. \A w \in VMs : cfg[w].api.recs \subseteq Rec
      BY DEF TypeOK, ApiObjects, Cfg
    <3>2. \A w \in VMs \ {v} : \A r \in cfg[w].api.recs : Entered(r)
      BY <1>1 DEF InStep, EntriesKept
    <3> QED BY <1>4, <1>6, <3>1, <3>2
  <2> QED BY <1>3, <1>8, <2>1 DEF EntriesKept
<1>11. PassViews' /\ PendingKnown'
  BY <1>3, <1>4 DEF PassViews, PendingKnown, PendingSound, WellFormed
<1> QED BY <1>7, <1>8, <1>9, <1>10, <1>11 DEF InStep

\* The worker starts a pass, with the stored copy if that is being deleted.
LEMMA StartCfgInStep ==
  ASSUME TypeOK, TypeOK', Tidy, InStep, NEW v \in VMs, StartCfg(v)
  PROVE  InStep'
<1>1. UNCHANGED <<vm, pool, memory, pw>> /\ cw.pc = "idle" /\ "worker" \notin cfg[v].unseen
  BY DEF StartCfg, Tidy
<1>2. cw.v = NoVM /\ NoVM \notin VMs /\ cw.cur = {} /\ CfgViews(v)
  BY <1>1, ConstantsAssumption DEF InStep, PassViews, TypeOK
<1>3. CASE ~cfg[v].inf.exists
  <2>1. UNCHANGED <<cw, cfg>>
    BY <1>3 DEF StartCfg
  <2>2. (\A w \in VMs : CfgViews(w))'
    BY <1>1, <2>1 DEF InStep, CfgViews, WellFormed
  <2> QED BY <1>1, <2>1, <2>2, CfgSideInStep
<1>4. CASE cfg[v].inf.exists
  <2>1. /\ cw'.pc = "allocate" /\ cw'.v = v /\ cw'.obj = cfg[v].inf /\ cw'.todo = cfg[v].inf.nics
        /\ cw'.cur = {} /\ cw'.acc = {} /\ cw'.clean = {}
    BY <1>4 DEF StartCfg, IdleCfg
  <2>2. cfg'[v] = Taken(cfg[v], "worker") /\ \A w \in VMs \ {v} : cfg'[w] = cfg[w]
    BY <1>4, StateTypes DEF StartCfg
  <2>3. /\ cfg'[v].api = cfg[v].api /\ cfg'[v].inf = cfg[v].inf /\ cfg'[v].unseen = cfg[v].unseen
        /\ "informer" \in cfg'[v].fresh <=> "informer" \in cfg[v].fresh
        /\ "worker" \in cfg'[v].fresh <=> "informer" \in cfg[v].fresh
    BY <2>2, TakenFacts
  <2>4. ASSUME NEW w \in VMs PROVE CfgViews(w)'
    <3>1. CASE w = v
      BY <1>1, <1>2, <2>1, <2>3, <3>1 DEF CfgViews, WellFormed
    <3>2. CASE w # v
      <4>1. CfgViews(w) /\ cfg'[w] = cfg[w] /\ vm' = vm /\ cw'.v # w /\ cw.v # w
        BY <1>1, <1>2, <2>1, <2>2, <3>2 DEF InStep
      <4> QED BY <4>1 DEF CfgViews, WellFormed
    <3> QED BY <3>1, <3>2
  <2>5. (\A n \in Nets : PoolViews(n))' /\ \A r \in Rec : Entered(r)' <=> Entered(r)
    BY <1>1, GuestInStep
  <2>6. ASSUME NEW n \in Nets PROVE CachesKnow(n)'
    <3>1. CachesKnow(n) /\ ipam'[n] = ipam[n] /\ macs'[n] = macs[n] /\ Releasing(n)' = Releasing(n)
      BY <1>1, <1>2, <2>1 DEF InStep, memory, Releasing
    <3> QED BY <1>1, <3>1, KnownKept, StateTypes, WithinFacts
  <2>7. EntriesKept'
    <3>1. \A w \in VMs : \A r \in cfg'[w].api.recs : r \in Rec /\ Entered(r)
      BY <1>1, <2>2, <2>3 DEF InStep, EntriesKept, TypeOK, ApiObjects, Cfg
    <3> QED BY <2>1, <2>5, <3>1 DEF EntriesKept
  <2>8. PassViews' /\ PendingKnown'
    BY <1>2, <2>1 DEF PassViews, PendingKnown, PendingSound, WellFormed, CfgViews
  <2> QED BY <2>4, <2>5, <2>6, <2>7, <2>8 DEF InStep
<1> QED BY <1>3, <1>4

\* A handler that cleans nothing up.
LEMMA EndedInStep ==
  ASSUME TypeOK, TypeOK', InStep, UNCHANGED <<vm, memory, pw>>,
         \A n \in Nets : /\ pool'[n].api = pool[n].api /\ pool'[n].inf = pool[n].inf
                         /\ pool'[n].unseen = pool[n].unseen
                         /\ \A h \in {"informer", "worker"} :
                              h \in pool'[n].fresh <=> h \in pool[n].fresh,
         \/ AllocateRefused \/ AllocateDone \/ Sync \/ CfgOnChange
         \/ (CfgOnRemove /\ ~cw.obj.deleting)
         \/ (\E nc \in cw.todo : AllocateNoAddress(nc))
         \/ (AllocateRecords /\ AllocateFails(TRUE))
  PROVE  InStep'
<1>1. cw.pc # "idle" /\ (cw.pc = "allocate" \/ Cleaned) /\ ~(cw.pc = "remove" /\ cw.obj.deleting)
  BY DEF AllocateRefused, AllocateDone, Sync, CfgOnChange, CfgOnRemove, AllocateNoAddress, Allocating,
         AllocateRecords
<1>2. PassViews
  BY DEF InStep
<1>3. PICK new \in Cfg, failed \in BOOLEAN, next \in {"sync", "change", "remove"} :
        CfgEnds(new, failed, next)
  BY <1>2, CfgStepEnds DEF PassViews, WellFormed
<1>4. WellFormed(new) /\ new.recs \subseteq cw.obj.recs \cup cw.acc
  BY <1>2, <1>3 DEF CfgEnds, PassViews, WellFormed
<1> QED BY <1>1, <1>3, <1>4, CfgHandledInStep DEF CfgEnds

\* While Allocate runs nothing is being released: the caches agree with the pools.
LEMMA NoneReleasing ==
  ASSUME TypeOK, InStep, cw.pc = "allocate"
  PROVE  /\ \A n \in Nets : /\ Releasing(n) = {}
                            /\ CachesMatch(pool[n].api, ipam[n], macs[n], PoolRange[n] \ Revoked[n])
         /\ \A v \in VMs : cfg[v].api.recs \subseteq Rec /\ \A r \in cfg[v].api.recs : Entered(r)
         /\ cw.acc \subseteq Rec /\ \A r \in cw.acc : Entered(r)
<1>1. \A n \in Nets : Releasing(n) = {}
  BY DEF Releasing
<1>2. ASSUME NEW n \in Nets
      PROVE  CachesMatch(pool[n].api, ipam[n], macs[n], PoolRange[n] \ Revoked[n])
  <2>1. CachesMatch(Without(pool[n].api, {}), ipam[n], macs[n], PoolRange[n] \ Revoked[n])
    BY <1>1 DEF InStep, CachesKnow
  <2> QED BY <2>1, StateTypes, WithoutNone
<1>3. /\ \A v \in VMs : cfg[v].api.recs \subseteq Rec /\ \A r \in cfg[v].api.recs : Entered(r)
      /\ cw.acc \subseteq Rec /\ \A r \in cw.acc : Entered(r)
  <2>1. cw.acc \subseteq Rec /\ \A v \in VMs : cfg[v].api.recs \subseteq Rec
    BY DEF TypeOK, CfgWork, ApiObjects, Cfg
  <2> QED BY <2>1 DEF InStep, EntriesKept
<1> QED BY <1>1, <1>2, <1>3

\* ... and after a step that leaves it running they do if they agree with the pool
\* again, caches and all.
LEMMA KnownAgain ==
  ASSUME TypeOK', NEW n \in Nets, cw'.pc = "allocate",
         CachesMatch(pool'[n].api, ipam'[n], macs'[n], PoolRange[n] \ Revoked[n]),
         RecordedIPs(pool'[n].api) # {} => ipam'[n].exists
  PROVE  CachesKnow(n)'
<1>1. Releasing(n)' = {}
  BY DEF Releasing
<1>2. pool'[n].api \in Pool /\ macs'[n] \in MACSets
  BY DEF TypeOK, ApiObjects
<1>3. CachesMatch(Without(pool'[n].api, {}), ipam'[n], macs'[n], PoolRange[n] \ Revoked[n])
  BY <1>2, WithoutNone
<1>4. CachesMatch(Without(pool'[n].api, Releasing(n)'), ipam'[n], macs'[n], PoolRange[n] \ Revoked[n])
  BY <1>1, <1>3
<1>5. RecordedIPs(pool[n].api)' = RecordedIPs(pool'[n].api)
  BY DEF RecordedIPs
<1> QED BY <1>4, <1>5 DEF CachesKnow

\* Allocate finds an address of the interface in the MAC cache, or takes a free one.
LEMMA AllocateGivesInStep ==
  ASSUME TypeOK, TypeOK', Tidy, InStep, NEW nc \in cw.todo, AllocateRecovers(nc) \/ AllocateNew(nc)
  PROVE  InStep'
<1>1. PICK n \in Nets : n = nc.net /\ nc \in Nic
  BY DEF TypeOK, CfgWork, Nic
<1>2. cw.pc = "allocate" /\ cw.cur = {} /\ "guest" \notin pool[n].unseen
  BY <1>1 DEF AllocateRecovers, AllocateNew, Allocating, GuestReads, Tidy
<1>3. PICK ip \in IPs :
        /\ AllocatedInMemory(nc, ip) /\ ipam'[n].exists /\ ip \in ipam'[n].used
        /\ macs'[n].ip[nc.mac] = ip /\ UNCHANGED <<vm, cfg, pw>>
        /\ Allocating(nc) /\ PoolUsable(n)
        /\ CachesMatch(pool[n].api, ipam'[n], macs'[n], PoolRange[n] \ Revoked[n])
        /\ \A m \in Nets \ {n} : ipam'[m] = ipam[m] /\ macs'[m] = macs[m]
  BY <1>1, <1>2, NoneReleasing, AllocateGives
<1>4. \A m \in Nets : /\ pool'[m].api = pool[m].api /\ pool'[m].inf = pool[m].inf
                      /\ pool'[m].unseen = pool[m].unseen
                      /\ \A h \in {"informer", "worker"} :
                           h \in pool'[m].fresh <=> h \in pool[m].fresh
  BY <1>1, <1>3, AllocatedPools
<1>5. (\A m \in Nets : PoolViews(m))' /\ \A r \in Rec : Entered(r)' <=> Entered(r)
  BY <1>3, <1>4, GuestInStep
<1> DEFINE rec == [net |-> n, mac |-> nc.mac, ip |-> ip, state |-> "Allocated"]
<1>6. /\ rec \in Rec /\ rec.net = n /\ rec.mac = nc.mac /\ rec.ip = ip /\ rec.state = "Allocated"
      /\ nc.mac \in Macs
  BY <1>1 DEF Nic, Rec
<1>7. \/ /\ pool[n].inf.alloc[ip] = nc.mac
         /\ cw' = [cw EXCEPT !.todo = cw.todo \ {nc}, !.acc = cw.acc \cup {rec}]
      \/ /\ cw' = [cw EXCEPT !.todo = cw.todo \ {nc}, !.cur = {rec}]
         /\ pool' = [pool EXCEPT ![n] = Taken(@, "guest")]
  BY <1>1, <1>3 DEF AllocatedInMemory
<1> HIDE DEF rec
<1>8. /\ cw'.obj = cw.obj /\ cw'.todo \subseteq cw.todo /\ cw'.pc = "allocate" /\ cw'.v = cw.v
      /\ cw'.clean = cw.clean
      /\ \/ cw'.acc = cw.acc \cup {rec} /\ pool[n].inf.alloc[ip] = nc.mac /\ cw'.cur = {}
         \/ /\ cw'.acc = cw.acc /\ cw'.cur = {rec}
            /\ pool' = [pool EXCEPT ![n] = Taken(@, "guest")]
  <2>1. cw \in CfgWork
    BY DEF TypeOK
  <2>2. CASE /\ pool[n].inf.alloc[ip] = nc.mac
             /\ cw' = [cw EXCEPT !.todo = cw.todo \ {nc}, !.acc = cw.acc \cup {rec}]
    <3>1. /\ cw'.obj = cw.obj /\ cw'.pc = cw.pc /\ cw'.v = cw.v /\ cw'.clean = cw.clean
          /\ cw'.cur = cw.cur /\ cw'.acc = cw.acc \cup {rec} /\ cw'.todo = cw.todo \ {nc}
      BY <2>1, <2>2 DEF CfgWork
    <3> QED BY <1>2, <2>2, <3>1
  <2>3. CASE /\ cw' = [cw EXCEPT !.todo = cw.todo \ {nc}, !.cur = {rec}]
             /\ pool' = [pool EXCEPT ![n] = Taken(@, "guest")]
    <3>1. /\ cw'.obj = cw.obj /\ cw'.pc = cw.pc /\ cw'.v = cw.v /\ cw'.clean = cw.clean
          /\ cw'.cur = {rec} /\ cw'.acc = cw.acc /\ cw'.todo = cw.todo \ {nc}
      BY <2>1, <2>3 DEF CfgWork
    <3> QED BY <1>2, <2>3, <3>1
  <2> QED BY <1>7, <2>2, <2>3
<1>9. ASSUME NEW m \in Nets PROVE CachesKnow(m)'
  <2>1. /\ CachesMatch(pool[m].api, ipam[m], macs[m], PoolRange[m] \ Revoked[m])
        /\ RecordedIPs(pool[m].api) # {} => ipam[m].exists
    BY <1>2, NoneReleasing DEF InStep, CachesKnow
  <2>2. CachesMatch(pool'[m].api, ipam'[m], macs'[m], PoolRange[m] \ Revoked[m])
    BY <1>3, <1>4, <2>1
  <2>3. RecordedIPs(pool'[m].api) # {} => ipam'[m].exists
    BY <1>3, <1>4, <2>1
  <2> QED BY <1>8, <2>2, <2>3, KnownAgain
<1>10. PassViews'
  <2>1. PassViews /\ nc.mac \in MacsOf(cw.obj.nics)
    BY DEF InStep, PassViews, MacsOf
  <2> QED BY <1>2, <1>6, <1>8, <2>1 DEF PassViews, WellFormed
<1>11. EntriesKept'
  <2>1. pool[n].inf.alloc[ip] = nc.mac => Entered(rec)
    <3>1. Within(pool[n].inf, pool[n].api)
      BY <1>2 DEF InStep, PoolViews
    <3> QED BY <1>6, <3>1 DEF Entered, Within
  <2>2. \A r \in cw'.acc : r \in Rec /\ Entered(r)
    BY <1>2, <1>6, <1>8, <2>1, NoneReleasing
  <2>3. \A v \in VMs : \A r \in cfg'[v].api.recs : r \in Rec /\ Entered(r)
    BY <1>2, <1>3, NoneReleasing
  <2> QED BY <1>5, <2>2, <2>3 DEF EntriesKept
<1>12. PendingKnown'
  <2>1. CASE cw'.cur = {}
    BY <2>1 DEF PendingKnown, PendingSound
  <2>2. CASE cw'.cur = {rec} /\ pool' = [pool EXCEPT ![n] = Taken(@, "guest")]
    <3>1. "guest" \in pool'[n].fresh => "informer" \in pool[n].fresh
      BY <2>2 DEF Taken, TypeOK
    <3>2. "informer" \in pool[n].fresh => pool[n].api.ready = "True"
      BY <1>3 DEF InStep, PoolViews, PoolUsable
    <3>3. ip \in PoolRange[n] \ Revoked[n]
      BY <1>3, AgreedIPs
    <3>4. pool[n].api.alloc[ip] \in Macs => pool[n].api.alloc[ip] = nc.mac
      <4>1. ip # NoIP /\ macs'[n].ip[nc.mac] = ip
        BY <1>3, NoIPAssumption
      <4> QED BY <1>3, <1>6, <4>1, AgreedMac
    <3>5. "guest" \in pool'[n].fresh => "informer" \in pool'[n].fresh /\ pool'[n].api.ready = "True"
      BY <1>4, <3>1, <3>2
    <3> QED BY <1>3, <1>4, <1>6, <2>2, <3>3, <3>4, <3>5 DEF PendingKnown, PendingSound
  <2> QED BY <1>8, <2>1, <2>2
<1>13. ASSUME NEW v \in VMs PROVE CfgViews(v)'
  <2>1. CfgViews(v) /\ cfg'[v] = cfg[v] /\ vm' = vm /\ cw'.v = cw.v /\ cw'.obj = cw.obj
    BY <1>3, <1>8 DEF InStep
  <2> QED BY <2>1 DEF CfgViews, WellFormed
<1> QED BY <1>5, <1>9, <1>10, <1>11, <1>12, <1>13 DEF InStep

\* The vmnetcfg worker writes an entry into its copy of a pool.
WritesEntry(n, ip, m) ==
  pool' = [pool EXCEPT ![n] = Written(pool[n], [pool[n].api EXCEPT !.alloc[ip] = m], "guest")]

\* The copies of a pool after the vmnetcfg worker has deleted an entry of its stored
\* version, or made one there for an address that may be given, the pool being ready.
LEMMA PoolViewsWritten ==
  ASSUME TypeOK, TypeOK', InStep, UNCHANGED pw, NEW n \in Nets, NEW ip \in IPs, NEW m \in Macs \cup {NoMac},
         WritesEntry(n, ip, m), "informer" \in pool[n].fresh,
         m \in Macs => ip \in PoolRange[n] \ Revoked[n] /\ pool[n].api.ready = "True"
  PROVE  /\ (\A k \in Nets : PoolViews(k))' /\ \A k \in Nets \ {n} : pool'[k] = pool[k]
         /\ pool'[n].fresh = {}
         /\ \A a \in IPs : pool'[n].api.alloc[a] = IF a = ip THEN m ELSE pool[n].api.alloc[a]
<1>1. /\ pool'[n] = Written(pool[n], [pool[n].api EXCEPT !.alloc[ip] = m], "guest")
      /\ \A k \in Nets \ {n} : pool'[k] = pool[k]
  BY StateTypes DEF WritesEntry
<1>2. /\ pool'[n].inf = pool[n].inf /\ pool'[n].fresh = {} /\ pool'[n].unseen = pool[n].unseen \cup {"guest"}
      /\ pool'[n].api = [pool[n].api EXCEPT !.alloc[ip] = m]
  BY <1>1 DEF Written
<1>3. pool[n].api \in Pool /\ pool[n].api.alloc \in [IPs -> Macs \cup {NoMac, Mark}]
  BY StateTypes DEF Pool
<1>4. /\ pool'[n].api.ready = pool[n].api.ready /\ pool'[n].api.paused = pool[n].api.paused
      /\ pool'[n].api.agent = pool[n].api.agent
      /\ \A a \in IPs : pool'[n].api.alloc[a] = IF a = ip THEN m ELSE pool[n].api.alloc[a]
  BY <1>2, <1>3 DEF Pool
<1>5. PoolViews(n)
  BY DEF InStep
<1>6. pool[n].inf = pool[n].api
  BY <1>5 DEF PoolViews
<1>7. Proper(n, pool'[n].api)
  <2>1. Proper(n, pool[n].api)
    BY <1>5 DEF PoolViews
  <2>2. RecordedIPs(pool'[n].api) \subseteq PoolRange[n] \ Revoked[n]
    BY <1>4, <2>1, ConstantsAssumption DEF Proper, RecordedIPs
  <2> QED BY <1>4, <2>1, <2>2 DEF Proper
<1>8. PoolViews(n)'
  <2>1. pool[n].api.ready # "True" => \A q : Within(pool[n].api, q) => Within(pool'[n].api, q)
    BY <1>4, ConstantsAssumption DEF Within
  <2>2. pool'[n].inf.ready # "True" => Within(pool'[n].api, pool'[n].inf)
    BY <1>2, <1>3, <1>6, <2>1, WithinFacts
  <2>3. pw.n = n /\ pw.pc \in {"deploy", "build"} /\ pw.obj.ready # "True" =>
          pool'[n].api.ready # "True" /\ Within(pool'[n].api, pw.obj)
    BY <1>4, <1>5, <2>1 DEF PoolViews
  <2>4. /\ pw' = pw /\ pool'[n].fresh = {} /\ "guest" \in pool'[n].unseen
        /\ pool'[n].inf.ready = pool'[n].api.ready
        /\ Proper(n, pool'[n].api) /\ Proper(n, pool'[n].inf) /\ (pw.n = n => Proper(n, pw.obj))
        /\ pw.n = n /\ pw.pc = "deploy" => "agent" \in Env
    BY <1>2, <1>4, <1>5, <1>6, <1>7 DEF PoolViews
  <2> QED BY <2>2, <2>3, <2>4 DEF PoolViews
<1>9. ASSUME NEW k \in Nets \ {n} PROVE PoolViews(k)'
  <2>1. PoolViews(k) /\ pool'[k] = pool[k] /\ pw' = pw
    BY <1>1 DEF InStep
  <2> QED BY <2>1 DEF PoolViews
<1> QED BY <1>1, <1>2, <1>4, <1>8, <1>9

\* The entry of an address that Allocate has in memory goes into the pool, or the
\* handler fails.
LEMMA AllocateRecordsInStep ==
  ASSUME TypeOK, TypeOK', InStep, AllocateRecords
  PROVE  InStep'
<1>1. PICK r \in cw.cur :
        IF "guest" \in pool[r.net].fresh
        THEN /\ pool' = [pool EXCEPT ![r.net] =
                           Written(pool[r.net], [pool[r.net].api EXCEPT !.alloc[r.ip] = r.mac], "guest")]
             /\ cw' = [cw EXCEPT !.cur = {}, !.acc = @ \cup {r}]
             /\ UNCHANGED <<cfg, cfgQ>>
        ELSE /\ pool' = [pool EXCEPT ![r.net] = Dropped(pool[r.net], "guest")]
             /\ AllocateFails(TRUE)
  BY DEF AllocateRecords
<1>2. cw.pc = "allocate" /\ UNCHANGED <<vm, memory, pw>> /\ ipam' = ipam /\ macs' = macs
  BY DEF AllocateRecords, memory
<1>3. PICK n \in Nets, ip \in IPs, m \in Macs : n = r.net /\ ip = r.ip /\ m = r.mac /\ r \in Rec
  BY StateTypes
<1>4. CASE "guest" \notin pool[n].fresh
  <2>1. \A k \in Nets : pool'[k] = pool[k] \/ pool'[k] = Dropped(pool[k], "guest")
    BY <1>1, <1>3, <1>4, StateTypes
  <2>2. \A k \in Nets : /\ pool'[k].api = pool[k].api /\ pool'[k].inf = pool[k].inf
                        /\ pool'[k].unseen = pool[k].unseen
                        /\ \A h \in {"informer", "worker"} :
                             h \in pool'[k].fresh <=> h \in pool[k].fresh
    BY <2>1, DroppedFacts
  <2> QED BY <1>1, <1>2, <1>3, <1>4, <2>2, EndedInStep
<1>5. CASE "guest" \in pool[n].fresh
  <2>1. /\ "informer" \in pool[n].fresh /\ pool[n].api.ready = "True" /\ ip \in PoolRange[n] \ Revoked[n]
        /\ pool[n].api.alloc[ip] \in Macs => pool[n].api.alloc[ip] = m
        /\ ipam[n].exists /\ ip \in ipam[n].used /\ macs[n].ip[m] = ip
    BY <1>2, <1>3, <1>5 DEF InStep, PendingKnown, PendingSound
  <2>2. /\ WritesEntry(n, ip, m)
        /\ cw' = [cw EXCEPT !.cur = {}, !.acc = @ \cup {r}] /\ cfg' = cfg
    BY <1>1, <1>3, <1>5 DEF WritesEntry
  <2>3. /\ (\A k \in Nets : PoolViews(k))' /\ \A k \in Nets \ {n} : pool'[k] = pool[k]
        /\ \A a \in IPs : pool'[n].api.alloc[a] = IF a = ip THEN m ELSE pool[n].api.alloc[a]
    <3>1. m \in Macs \cup {NoMac} /\ UNCHANGED pw
      BY <1>2
    <3> QED BY <2>1, <2>2, <3>1, PoolViewsWritten
  <2>4. /\ cw'.cur = {} /\ cw'.acc = cw.acc \cup {r} /\ cw'.obj = cw.obj /\ cw'.v = cw.v
        /\ cw'.todo = cw.todo /\ cw'.clean = cw.clean /\ cw'.pc = "allocate"
    BY <1>2, <2>2 DEF TypeOK, CfgWork
  <2>5. ASSUME NEW k \in Nets PROVE CachesKnow(k)'
    <3>1. /\ CachesMatch(pool[k].api, ipam[k], macs[k], PoolRange[k] \ Revoked[k])
          /\ RecordedIPs(pool[k].api) # {} => ipam[k].exists
      BY <1>2, NoneReleasing DEF InStep, CachesKnow
    <3>2. pool[k].api \in Pool /\ pool'[k].api \in Pool /\ macs[k] \in MACSets
      BY DEF TypeOK, ApiObjects
    <3>3. CASE k = n
      <4>1. CachesMatch(pool'[n].api, ipam[n], macs[n], PoolRange[n] \ Revoked[n])
        <5>1. /\ CachesMatch(pool[n].api, ipam[n], macs[n], PoolRange[n] \ Revoked[n])
              /\ pool[n].api \in Pool /\ pool'[n].api \in Pool /\ macs[n] \in MACSets
          BY <3>1, <3>2, <3>3
        <5>2. \A a \in IPs : pool'[n].api.alloc[a] = IF a = ip THEN m ELSE pool[n].api.alloc[a]
          BY <2>3
        <5> QED BY <2>1, <5>1, <5>2, AgreementEntered
      <4> QED BY <1>2, <2>1, <2>4, <3>3, <4>1, KnownAgain
    <3>4. CASE k # n
      <4>1. pool'[k] = pool[k] /\ ipam'[k] = ipam[k] /\ macs'[k] = macs[k]
        BY <1>2, <2>3, <3>4
      <4> QED BY <2>4, <3>1, <4>1, KnownAgain
    <3> QED BY <3>3, <3>4
  <2>6. Entered(r)' /\ \A q \in Rec : Entered(q) => Entered(q)'
    <3>1. \A k \in Nets : Within(pool[k].api, pool'[k].api)
      BY <2>1, <2>3 DEF Within
    <3> QED BY <1>3, <2>3, <3>1, RecordsKept DEF Entered
  <2>7. EntriesKept'
    BY <1>2, <2>2, <2>4, <2>6, NoneReleasing DEF EntriesKept
  <2>8. PassViews' /\ PendingKnown'
    <3>1. PassViews /\ r.mac \in MacsOf(cw.obj.nics) /\ r.state = "Allocated"
      BY DEF InStep, PassViews
    <3> QED BY <1>2, <2>4, <3>1 DEF PassViews, PendingKnown, PendingSound, WellFormed
  <2>9. ASSUME NEW v \in VMs PROVE CfgViews(v)'
    <3>1. CfgViews(v) /\ cfg'[v] = cfg[v] /\ vm' = vm /\ cw'.v = cw.v /\ cw'.obj = cw.obj
      BY <1>2, <2>2, <2>4 DEF InStep
    <3> QED BY <3>1 DEF CfgViews, WellFormed
  <2> QED BY <2>3, <2>5, <2>7, <2>8, <2>9 DEF InStep
<1> QED BY <1>4, <1>5

-----------------------------------------------------------------------------
\* Cleanup.

\* What is cleaned up is an entered record of the stored vmnetcfg, which is being
\* deleted, and no other vmnetcfg has one with its MAC address.
LEMMA CleanedRecord ==
  ASSUME TypeOK, InStep, cw.pc # "allocate", NEW r \in cw.clean \cup cw.cur
  PROVE  /\ cw.pc = "remove" /\ cw.obj.deleting /\ r \in Rec /\ Entered(r) /\ cw.v \in VMs
         /\ cfg[cw.v].api = cw.obj /\ r \in cw.obj.recs
         /\ \A w \in VMs \ {cw.v} : \A q \in cfg[w].api.recs : q.mac # r.mac
<1>1. cw.pc = "remove" /\ cw.obj.deleting /\ r \in cw.obj.recs /\ WellFormed(cw.obj)
  BY DEF InStep, PassViews
<1>2. PICK v \in VMs : v = cw.v
  BY <1>1 DEF TypeOK, CfgWork
<1>3. cfg[v].api = cw.obj
  BY <1>1, <1>2 DEF InStep, CfgViews
<1>4. r \in Rec
  BY DEF TypeOK, CfgWork
<1>5. Entered(r)
  BY <1>1, <1>2, <1>3 DEF InStep, EntriesKept
<1>6. r.mac \in MacsOfVM(v)
  <2>1. r.mac \in MacsOf(cfg[v].api.nics)
    BY <1>1, <1>3 DEF WellFormed
  <2> QED BY <2>1 DEF InStep, CfgViews
<1>7. ASSUME NEW w \in VMs \ {v}, NEW q \in cfg[w].api.recs PROVE q.mac # r.mac
  <2>1. q.mac \in MacsOf(cfg[w].api.nics) /\ MacsOf(cfg[w].api.nics) \subseteq MacsOfVM(w)
    BY DEF InStep, CfgViews, WellFormed
  <2>2. PICK a \in Desired[v], b \in Desired[w] : r.mac \in MacsOf(a) /\ q.mac \in MacsOf(b)
    BY <1>6, <2>1 DEF MacsOfVM
  <2> QED BY <2>2, DistinctMacs DEF MacsOf
<1> QED BY <1>1, <1>2, <1>3, <1>4, <1>5, <1>7

\* Cleanup deallocates the address and forgets the MAC address of a record.
LEMMA CleanupReleasesInStep ==
  ASSUME TypeOK, TypeOK', InStep, NEW r \in cw.clean, CleanupReleases(r)
  PROVE  InStep'
<1>1. /\ cw.cur = {} /\ cw' = [cw EXCEPT !.clean = @ \ {r}, !.cur = {r}]
      /\ UNCHANGED <<vm, pool, cfg, pw>>
  BY DEF CleanupReleases, objects
<1>2. cw.pc # "allocate" /\ PassViews
  BY DEF InStep, PassViews
<1>3. /\ cw.pc = "remove" /\ cw.obj.deleting /\ r \in Rec /\ Entered(r) /\ cw.v \in VMs
      /\ cfg[cw.v].api = cw.obj /\ r \in cw.obj.recs
  BY <1>2, CleanedRecord
<1>4. /\ cw'.pc = "remove" /\ cw'.v = cw.v /\ cw'.obj = cw.obj /\ cw'.todo = cw.todo /\ cw'.acc = cw.acc
      /\ cw'.clean = cw.clean \ {r} /\ cw'.cur = {r}
  BY <1>1, <1>3 DEF TypeOK, CfgWork
<1>5. PICK n \in Nets, ip \in IPs, m \in Macs : n = r.net /\ ip = r.ip /\ m = r.mac
  BY <1>3 DEF Rec
<1>6. /\ ipam'[n] = DeallocateIP(ipam[n], ip) /\ macs'[n] = DeleteMAC(macs[n], m)
      /\ \A k \in Nets \ {n} : ipam'[k] = ipam[k] /\ macs'[k] = macs[k]
  BY <1>5, StateTypes DEF CleanupReleases
<1>7. \A k \in Nets : Releasing(k) = {} /\ Releasing(k)' = IF k = n THEN {ip} ELSE {}
  BY <1>1, <1>4, <1>5 DEF Releasing
<1>8. CachesKnow(n)'
  <2>1. pool[n].api \in Pool /\ macs[n] \in MACSets /\ pool[n].api.alloc[ip] = m
    BY <1>3, <1>5, StateTypes DEF Entered
  <2>2. /\ CachesMatch(Without(pool[n].api, {}), ipam[n], macs[n], PoolRange[n] \ Revoked[n])
        /\ RecordedIPs(pool[n].api) # {} => ipam[n].exists
    BY <1>7 DEF InStep, CachesKnow
  <2>3. CachesMatch(pool[n].api, ipam[n], macs[n], PoolRange[n] \ Revoked[n])
    BY <2>1, <2>2, WithoutNone
  <2>4. CachesMatch(Without(pool[n].api, {ip}), ipam'[n], macs'[n], PoolRange[n] \ Revoked[n])
    BY <1>6, <2>1, <2>3, AgreementReleased
  <2>5. CachesMatch(Without(pool'[n].api, Releasing(n)'), ipam'[n], macs'[n], PoolRange[n] \ Revoked[n])
    BY <1>1, <1>7, <2>4
  <2>6. RecordedIPs(pool[n].api)' # {} => ipam'[n].exists
    BY <1>1, <1>6, <2>2 DEF DeallocateIP, RecordedIPs
  <2> QED BY <2>5, <2>6 DEF CachesKnow
<1>9. ASSUME NEW k \in Nets \ {n} PROVE CachesKnow(k)'
  <2>1. CachesKnow(k) /\ ipam'[k] = ipam[k] /\ macs'[k] = macs[k] /\ Releasing(k)' = Releasing(k)
    BY <1>6, <1>7 DEF InStep
  <2> QED BY <1>1, <2>1, KnownKept, StateTypes, WithinFacts
<1>10. (\A k \in Nets : PoolViews(k))' /\ \A q \in Rec : Entered(q)' <=> Entered(q)
  BY <1>1, GuestInStep
<1>11. EntriesKept'
  <2>1. \A v \in VMs : cfg'[v].api.recs = cfg[v].api.recs /\ cfg[v].api.recs \subseteq Rec
    BY <1>1 DEF TypeOK, ApiObjects, Cfg
  <2>2. cw'.clean \cup cw'.cur = cw.clean \cup cw.cur /\ cw'.acc = {}
    BY <1>1, <1>2, <1>4 DEF PassViews
  <2> QED BY <1>3, <1>4, <1>10, <2>1, <2>2 DEF InStep, EntriesKept
<1>12. PassViews' /\ PendingKnown'
  BY <1>2, <1>3, <1>4 DEF PassViews, PendingKnown, PendingSound, WellFormed
<1>13. ASSUME NEW v \in VMs PROVE CfgViews(v)'
  <2>1. CfgViews(v) /\ cfg'[v] = cfg[v] /\ vm' = vm /\ cw'.v = cw.v /\ cw'.obj = cw.obj
    BY <1>1, <1>4 DEF InStep
  <2> QED BY <2>1 DEF CfgViews, WellFormed
<1> QED BY <1>8, <1>9, <1>10, <1>11, <1>12, <1>13 DEF InStep

\* IsAllocated knows every address cleanup asks for.
LEMMA CleanupKnows ==
  ASSUME TypeOK, InStep, NEW r \in cw.clean
  PROVE  ~CleanupUnknown(r)
<1>1. SUFFICES ASSUME cw.cur = {} PROVE KnownIP(ipam[r.net], r.ip)
  BY DEF CleanupUnknown
<1>2. cw.pc # "allocate"
  BY DEF InStep, PassViews
<1>3. PICK n \in Nets, ip \in IPs : n = r.net /\ ip = r.ip /\ pool[n].api.alloc[ip] \in Macs
  BY <1>2, CleanedRecord DEF Entered, Rec
<1>4. Releasing(n) = {} /\ ip \in RecordedIPs(pool[n].api)
  BY <1>1, <1>3 DEF Releasing, RecordedIPs
<1>5. /\ CachesMatch(Without(pool[n].api, {}), ipam[n], macs[n], PoolRange[n] \ Revoked[n])
      /\ ipam[n].exists
  BY <1>4 DEF InStep, CachesKnow
<1>6. CachesMatch(pool[n].api, ipam[n], macs[n], PoolRange[n] \ Revoked[n])
  BY <1>5, WithoutNone, StateTypes
<1>7. ip \in ipam[n].used
  BY <1>4, <1>5, <1>6, AgreedIPs
<1> QED BY <1>3, <1>5, <1>7 DEF KnownIP

\* The entry of the record is in the informer's copy of the pool, so it is deleted
\* once that copy is the stored one.
LEMMA CleanupWrites ==
  ASSUME TypeOK, Tidy, InStep, CleanupUnrecords
  PROVE  \E r \in cw.cur : /\ cw.cur = {r} /\ cw.pc # "allocate" /\ "informer" \in pool[r.net].fresh
                           /\ WritesEntry(r.net, r.ip, NoMac) /\ cw' = [cw EXCEPT !.cur = {}]
                           /\ UNCHANGED <<vm, cfg, memory, pw>>
<1>1. PICK r \in cw.cur :
        /\ "guest" \notin pool[r.net].unseen
        /\ IF pool[r.net].inf.alloc[r.ip] = NoMac THEN UNCHANGED pool
           ELSE "informer" \in pool[r.net].fresh /\ WritesEntry(r.net, r.ip, NoMac)
        /\ cw' = [cw EXCEPT !.cur = {}] /\ UNCHANGED <<vm, cfg, memory, pw>>
  BY DEF CleanupUnrecords, GuestReads, Tidy, WritesEntry
<1>2. cw.pc # "allocate" /\ cw.cur = {r}
  BY DEF CleanupUnrecords, InStep, PassViews
<1>3. PICK n \in Nets, ip \in IPs : n = r.net /\ ip = r.ip /\ pool[n].api.alloc[ip] \in Macs
  BY <1>2, CleanedRecord DEF Entered, Rec
<1>4. Within(pool[n].api, pool[n].inf)
  BY <1>1, <1>3 DEF InStep, PoolViews
<1>5. pool[n].inf.alloc[ip] # NoMac
  BY <1>3, <1>4, ConstantsAssumption DEF Within
<1> QED BY <1>1, <1>2, <1>3, <1>5

\* Cleanup deletes the entry of a record.
LEMMA CleanupUnrecordsInStep ==
  ASSUME TypeOK, TypeOK', Tidy, InStep, CleanupUnrecords
  PROVE  InStep'
<1>1. PICK r \in cw.cur : /\ cw.cur = {r} /\ cw.pc # "allocate" /\ "informer" \in pool[r.net].fresh
                          /\ WritesEntry(r.net, r.ip, NoMac) /\ cw' = [cw EXCEPT !.cur = {}]
                          /\ UNCHANGED <<vm, cfg, memory, pw>>
  BY CleanupWrites
<1>2. /\ cw.pc = "remove" /\ cw.obj.deleting /\ r \in Rec /\ Entered(r) /\ cw.v \in VMs
      /\ cfg[cw.v].api = cw.obj /\ r \in cw.obj.recs
      /\ \A w \in VMs \ {cw.v} : \A q \in cfg[w].api.recs : q.mac # r.mac
  BY <1>1, CleanedRecord
<1>3. PICK n \in Nets, ip \in IPs : n = r.net /\ ip = r.ip
  BY <1>2 DEF Rec
<1>4. /\ (\A k \in Nets : PoolViews(k))' /\ \A k \in Nets \ {n} : pool'[k] = pool[k]
      /\ \A a \in IPs : pool'[n].api.alloc[a] = IF a = ip THEN NoMac ELSE pool[n].api.alloc[a]
  <2>1. NoMac \in Macs \cup {NoMac} /\ NoMac \notin Macs /\ UNCHANGED pw
    BY <1>1, ConstantsAssumption
  <2> QED BY <1>1, <1>3, <2>1, PoolViewsWritten
<1>5. /\ cw'.pc = "remove" /\ cw'.v = cw.v /\ cw'.obj = cw.obj /\ cw'.todo = cw.todo /\ cw'.acc = cw.acc
      /\ cw'.clean = cw.clean /\ cw'.cur = {}
  BY <1>1, <1>2 DEF TypeOK, CfgWork
<1>6. \A k \in Nets : /\ Releasing(k) = (IF k = n THEN {ip} ELSE {}) /\ Releasing(k)' = {}
                      /\ ipam'[k] = ipam[k] /\ macs'[k] = macs[k]
  BY <1>1, <1>2, <1>3, <1>5 DEF Releasing, memory
<1>7. CachesKnow(n)'
  <2>1. pool[n].api \in Pool /\ pool'[n].api \in Pool /\ macs[n] \in MACSets
    BY DEF TypeOK, ApiObjects
  <2>2. /\ CachesMatch(Without(pool[n].api, {ip}), ipam[n], macs[n], PoolRange[n] \ Revoked[n])
        /\ RecordedIPs(pool[n].api) # {} => ipam[n].exists
    BY <1>6 DEF InStep, CachesKnow
  <2>3. /\ Within(Without(pool[n].api, {ip}), Without(pool'[n].api, {}))
        /\ Within(Without(pool'[n].api, {}), Without(pool[n].api, {ip}))
    BY <1>4, <2>1, WithoutFacts DEF Within
  <2>4. CachesMatch(Without(pool'[n].api, {}), ipam[n], macs[n], PoolRange[n] \ Revoked[n])
    BY <2>1, <2>2, <2>3, AgreementKept
  <2>5. CachesMatch(Without(pool'[n].api, Releasing(n)'), ipam'[n], macs'[n], PoolRange[n] \ Revoked[n])
    BY <1>6, <2>4
  <2>6. RecordedIPs(pool[n].api)' # {} => ipam'[n].exists
    <3>1. RecordedIPs(pool'[n].api) \subseteq RecordedIPs(pool[n].api)
      BY <1>4, ConstantsAssumption DEF RecordedIPs
    <3>2. RecordedIPs(pool[n].api)' = RecordedIPs(pool'[n].api)
      BY DEF RecordedIPs
    <3> QED BY <1>6, <2>2, <3>1, <3>2
  <2> QED BY <2>5, <2>6 DEF CachesKnow
<1>8. ASSUME NEW k \in Nets \ {n} PROVE CachesKnow(k)'
  <2>1. CachesKnow(k) /\ ipam'[k] = ipam[k] /\ macs'[k] = macs[k] /\ Releasing(k)' = Releasing(k)
    BY <1>6 DEF InStep
  <2> QED BY <1>4, <2>1, KnownKept, StateTypes, WithinFacts
<1>9. PassViews' /\ PendingKnown'
  <2>1. PassViews
    BY DEF InStep
  <2> QED BY <1>2, <1>5, <2>1 DEF PassViews, PendingKnown, PendingSound, WellFormed
<1>10. EntriesKept'
  <2>1. ASSUME NEW q \in Rec, Entered(q), q # r, q.mac = r.mac => q.state = r.state PROVE Entered(q)'
    <3>1. ~(q.net = n /\ q.ip = ip)
      <4>1. q.net = n /\ q.ip = ip => q.mac = r.mac
        BY <1>2, <1>3, <2>1 DEF Entered
      <4> QED BY <1>2, <1>3, <2>1, <4>1 DEF Rec
    <3>2. q.net \in Nets /\ q.ip \in IPs
      BY DEF Rec
    <3>3. pool'[q.net].api.alloc[q.ip] = pool[q.net].api.alloc[q.ip]
      BY <1>4, <3>1, <3>2
    <3> QED BY <2>1, <3>3 DEF Entered
  <2>2. ASSUME NEW v \in VMs, NEW q \in cfg[v].api.recs
        PROVE  \/ Entered(q)'
               \/ cw'.v = v /\ cw'.pc = "remove" /\ cw'.obj.deleting /\ q \notin cw'.clean \cup cw'.cur
    <3>1. q \in Rec
      BY DEF TypeOK, ApiObjects, Cfg
    <3>2. CASE v # cw.v
      <4>1. q.mac # r.mac /\ q # r
        BY <1>2, <3>2
      <4>2. Entered(q)
        BY <3>2 DEF InStep, EntriesKept
      <4> QED BY <2>1, <3>1, <4>1, <4>2
    <3>3. CASE v = cw.v /\ q \in cw.clean
      <4>1. Entered(q) /\ q.state = "Allocated" /\ r.state = "Allocated" /\ q # r
        BY <1>1, <1>2, <3>3, CleanedRecord DEF InStep, PassViews, WellFormed
      <4> QED BY <2>1, <3>1, <4>1
    <3>4. CASE v = cw.v /\ q \notin cw.clean
      BY <1>2, <1>5, <3>4
    <3> QED BY <3>2, <3>3, <3>4
  <2>3. cw'.acc = {} /\ cfg' = cfg
    BY <1>1, <1>5 DEF InStep, PassViews
  <2> QED BY <2>2, <2>3 DEF EntriesKept
<1>11. ASSUME NEW v \in VMs PROVE CfgViews(v)'
  <2>1. CfgViews(v) /\ cfg'[v] = cfg[v] /\ vm' = vm /\ cw'.v = cw.v /\ cw'.obj = cw.obj
    BY <1>1, <1>5 DEF InStep
  <2> QED BY <2>1 DEF CfgViews, WellFormed
<1> QED BY <1>4, <1>7, <1>8, <1>9, <1>10, <1>11 DEF InStep

\* Every step of the vmnetcfg controller.
LEMMA CfgStepInStep ==
  ASSUME TypeOK, TypeOK', Tidy, InStep, CfgController
  PROVE  InStep'
<1>1. CASE \/ AllocateRefused \/ AllocateDone \/ Sync \/ CfgOnChange
           \/ (CfgOnRemove /\ ~cw.obj.deleting)
           \/ (\E nc \in cw.todo : AllocateNoAddress(nc))
  <2>1. UNCHANGED <<vm, memory, pw>> /\ pool' = pool
    BY <1>1 DEF AllocateRefused, AllocateDone, Sync, CfgOnChange, CfgOnRemove, AllocateNoAddress
  <2> QED BY <1>1, <2>1, EndedInStep
<1>2. CASE Cleanup
  <2>1. ~CleanupGivesUp
    BY DEF CleanupGivesUp, Tidy
  <2> QED BY <1>2, <2>1, CleanupKnows, CleanupReleasesInStep, CleanupUnrecordsInStep DEF Cleanup
<1> QED BY <1>1, <1>2, StartCfgInStep, AllocateGivesInStep, AllocateRecordsInStep, CfgRemovedInStep
        DEF CfgController, CfgStep, Allocate

\* ... and every step at all. VMs do not change, vmnetcfgs are not paused, and the
\* process is not restarted.
LEMMA NextInStep ==
  ASSUME TypeOK, TypeOK', Tidy, InStep, [Next]_vars
  PROVE  InStep'
<1>1. CASE UNCHANGED vars
  <2>1. /\ UNCHANGED <<vm, cfg, cw, memory>> /\ \A n \in Nets : pool'[n] = pool[n]
        /\ (\A n \in Nets : PoolViews(n))'
    BY <1>1 DEF vars, objects, InStep, PoolViews
  <2> QED BY <2>1, UntouchedEntries, PoolSideInStep
<1>2. ~Crash /\ \A v \in VMs : ~ChangeVM(v) /\ ~PauseCfg(v)
  BY DEF Crash, ChangeVM, PauseCfg, Tidy
<1> QED BY <1>1, <1>2, UserInStep, PoolEventInStep, DeliverCfgInStep, PoolStepInStep, CfgStepInStep,
           VMStepInStep DEF Next, UserStep, Deliver

LEMMA InitInStep == Init => InStep
<1> SUFFICES ASSUME Init PROVE InStep
  OBVIOUS
<1>1. /\ pw.n \notin Nets /\ cw.v \notin VMs /\ cw.cur = {} /\ cw.acc = {} /\ cw.clean = {} /\ cw.todo = {}
      /\ cw.pc = "idle" /\ cw.obj.recs = {} /\ ~cw.obj.paused
  BY ConstantsAssumption DEF Init, IdlePool, IdleCfg, NoCfg, NewCfg
<1>2. ASSUME NEW n \in Nets PROVE PoolViews(n) /\ CachesKnow(n)
  <2>1. /\ pool[n].api = NewPool /\ pool[n].inf = NewPool /\ pool[n].fresh = {"informer"}
        /\ \A ip \in IPs : NewPool.alloc[ip] = NoMac
        /\ ~NewPool.agent /\ ~NewPool.paused
    BY DEF Init, Listed, NewPool
  <2>2. RecordedIPs(pool[n].api) = {} /\ RecordedIPs(pool[n].inf) = {}
    BY <2>1, ConstantsAssumption DEF RecordedIPs
  <2>3. PoolViews(n)
    BY <1>1, <2>1, <2>2 DEF PoolViews, Within, Proper
  <2>4. RecordedIPs(Without(pool[n].api, Releasing(n))) = {}
    BY <2>1, ConstantsAssumption DEF RecordedIPs, Without
  <2>5. CachesMatch(Without(pool[n].api, Releasing(n)), ipam[n], macs[n], PoolRange[n] \ Revoked[n])
    BY <2>4 DEF Init, CachesMatch, NoSubnet, NoMACSet
  <2> QED BY <2>2, <2>3, <2>5 DEF CachesKnow
<1>3. ASSUME NEW v \in VMs PROVE CfgViews(v) /\ cfg[v].api.recs = {}
  <2>1. /\ cfg[v].api = NoCfg /\ cfg[v].inf = NoCfg /\ cfg[v].fresh = {"informer"} /\ ~vm[v].alive
        /\ NoCfg.recs = {} /\ NoCfg.nics = {} /\ ~NoCfg.paused /\ ~NoCfg.deleting
    BY DEF Init, Listed, NoCfg, NewCfg
  <2> QED BY <1>1, <2>1 DEF CfgViews, WellFormed, MacsOf
<1>4. PassViews /\ EntriesKept /\ PendingKnown
  BY <1>1, <1>3 DEF PassViews, WellFormed, EntriesKept, PendingKnown, PendingSound
<1> QED BY <1>2, <1>3, <1>4 DEF InStep

\* InStep holds throughout, in every tidy environment: caches, pools and vmnetcfgs agree
\* up to the record that Allocate or cleanup is at, while addresses are given, released
\* and given to other VMs.
THEOREM TidyCorrect == Spec => []TidyInv
<1>1. Init => TidyInv
  BY InitInStep DEF TidyInv
<1>2. TypeOK /\ TypeOK' /\ TidyInv /\ [Next]_vars => TidyInv'
  <2> SUFFICES ASSUME TypeOK, TypeOK', Tidy, InStep, [Next]_vars PROVE InStep'
    BY DEF TidyInv, Tidy
  <2> QED BY NextInStep
<1> QED BY <1>1, <1>2, TypeCorrect, PTL DEF Spec

\* A vmnetcfg that is not being deleted has its entries.
LEMMA HeldEntered ==
  ASSUME TypeOK, InStep
  PROVE  Recorded
<1> SUFFICES ASSUME NEW v \in VMs, NEW r \in Held(v) PROVE Entered(r)
  BY DEF Recorded, Entered
<1>1. r \in cfg[v].api.recs /\ ~cfg[v].api.deleting
  BY DEF Held
<1>2. ~(cw.v = v /\ cw.obj.deleting)
  <2>1. CfgViews(v)
    BY DEF InStep
  <2> QED BY <1>1, <2>1 DEF CfgViews
<1> QED BY <1>1, <1>2 DEF InStep, EntriesKept

\* Where VMs come and go, every address a vmnetcfg holds is recorded for its interface in
\* the status of the IPPool: cleanup deletes the entries of the removed VM, and none that
\* the address's next holder has made.
THEOREM ReleasedRecorded == Spec => [](Tidy => Recorded)
<1>1. TypeOK /\ TidyInv => (Tidy => Recorded)
  BY HeldEntered DEF TidyInv
<1> QED BY <1>1, TypeCorrect, TidyCorrect, PTL

\* ... so no address is given to two interfaces, released ones included.
THEOREM ReleasedExclusive == Spec => [](Tidy => Exclusive)
<1>1. Recorded => Exclusive
  BY SMTT(60), ZenonT(60) DEF Recorded, Exclusive
<1> QED BY <1>1, ReleasedRecorded, PTL

\* ... and AllocateIP hands out no address the IPPool records, but for the one whose
\* entry cleanup is about to delete.
THEOREM ReleasedNotFree == Spec => [](Tidy => NotFree)
<1>1. TypeOK /\ TidyInv => (Tidy => NotFree)
  <2> SUFFICES ASSUME TypeOK, InStep, NEW n \in Nets, NEW ip \in ipam[n].free,
                      ip \in RecordedIPs(pool[n].api)
               PROVE  cw.pc # "allocate" /\ \E r \in cw.cur : r.net = n /\ r.ip = ip
    BY DEF TidyInv, NotFree
  <2>1. CachesMatch(Without(pool[n].api, Releasing(n)), ipam[n], macs[n], PoolRange[n] \ Revoked[n])
    BY DEF InStep, CachesKnow
  <2>2. ip \notin RecordedIPs(Without(pool[n].api, Releasing(n)))
    BY <2>1 DEF CachesMatch
  <2>3. ip \in Releasing(n)
    BY <2>2, StateTypes, WithoutFacts DEF RecordedIPs
  <2> QED BY <2>3 DEF Releasing
<1> QED BY <1>1, TypeCorrect, TidyCorrect, PTL

-----------------------------------------------------------------------------
\* The service.

\* Cleanup crosses out an address that nobody holds any more: the VM of its record is
\* gone, and no other has that MAC address.
LEMMA CleanupErases ==
  ASSUME TypeOK, TypeOK', Tidy, InStep, CleanupUnrecords
  PROVE  [Service!Next]_Service!vars
<1>1. PICK r \in cw.cur : /\ cw.cur = {r} /\ cw.pc # "allocate" /\ "informer" \in pool[r.net].fresh
                          /\ WritesEntry(r.net, r.ip, NoMac) /\ cfg' = cfg /\ pw' = pw
  BY CleanupWrites
<1>2. /\ r \in Rec /\ Entered(r) /\ cw.v \in VMs /\ cw.obj.deleting /\ cfg[cw.v].api = cw.obj
      /\ \A w \in VMs \ {cw.v} : \A q \in cfg[w].api.recs : q.mac # r.mac
  BY <1>1, CleanedRecord
<1>3. PICK n \in Nets, ip \in IPs : n = r.net /\ ip = r.ip
  BY <1>2 DEF Rec
<1>4. /\ \A k \in Nets \ {n} : pool'[k] = pool[k]
      /\ \A a \in IPs : pool'[n].api.alloc[a] = IF a = ip THEN NoMac ELSE pool[n].api.alloc[a]
  <2>1. NoMac \in Macs \cup {NoMac} /\ NoMac \notin Macs
    BY ConstantsAssumption
  <2> QED BY <1>1, <1>3, <2>1, PoolViewsWritten
<1>5. \A k \in Nets : \A a \in IPs :
        Ledger'[k][a] = IF k = n /\ a = ip THEN NoMac ELSE Ledger[k][a]
  BY <1>4, ConstantsAssumption DEF Ledger
<1>6. Ledger' = [Ledger EXCEPT ![n][ip] = NoMac]
  BY <1>5, LedgerUpdated
<1>7. HeldByAll' = HeldByAll
  <2>1. \A v \in VMs : Held(v)' = Held(v)
    BY <1>1 DEF Held
  <2> QED BY <2>1 DEF HeldByAll
<1>8. ASSUME NEW v \in VMs, NEW q \in Held(v) PROVE q.net # n \/ q.ip # ip
  <2>1. v # cw.v /\ q \in cfg[v].api.recs
    BY <1>2 DEF Held
  <2>2. q.mac # r.mac /\ pool[q.net].api.alloc[q.ip] = q.mac
    BY <1>2, <2>1, HeldEntered DEF Recorded
  <2> QED BY <1>2, <1>3, <2>2 DEF Entered
<1>9. \A e \in HeldByAll : e[1] # n \/ e[2] # ip
  BY <1>8 DEF HeldByAll
<1> QED BY <1>6, <1>7, <1>9 DEF Service!Next, Service!Erase

\* Every step of the control plane is a step of the service, or none.
LEMMA TidyStepImplements ==
  ASSUME TypeOK, TypeOK', Tidy, InStep, Recorded', [Next]_vars
  PROVE  [Service!Next]_Service!vars
<1>1. CASE SameEntries
  <2>1. Ledger' = Ledger
    BY <1>1, SameLedger
  <2>2. HeldIsLedger'
    BY HeldRecorded, PTL
  <2> QED BY <2>1, <2>2 DEF Service!Next, Service!Serve, Service!Entries, HeldIsLedger
<1>2. CASE UNCHANGED vars
  <2>1. UNCHANGED pool
    BY <1>2 DEF vars, objects
  <2> QED BY <1>1, <2>1, UntouchedEntries
<1>3. CASE PoolController
  <2>1. /\ \A n \in Nets : "worker" \in pool[n].fresh => pool[n].api = pw.obj
        /\ pw.pc # "idle" => RecordedIPs(pw.obj) \subseteq PoolRange[pw.n] \ Revoked[pw.n]
    BY WorkerCopyProper DEF Proper
  <2> QED BY <1>1, <1>3, <2>1, PoolStepEntries
<1>4. CASE CfgController /\ ~Cleanup
  <2>1. PendingSound
    BY DEF InStep, PendingKnown
  <2> QED BY <1>1, <1>4, <2>1, CfgStepEntries, EntersRecords, StateTypes
<1>5. CASE Cleanup
  <2>1. ~CleanupGivesUp
    BY DEF CleanupGivesUp, Tidy
  <2>2. ASSUME NEW r \in cw.clean, CleanupReleases(r) PROVE SameEntries
    BY <2>2, UntouchedEntries DEF CleanupReleases, objects
  <2> QED BY <1>1, <1>5, <2>1, <2>2, CleanupKnows, CleanupErases DEF Cleanup
<1> QED BY <1>1, <1>2, <1>3, <1>4, <1>5, OtherStepEntries DEF Next, CfgController

\* The control plane is an AddressService where VMs come and go: an address is crossed
\* out only when nobody holds it, and written down for the next VM only after that.
THEOREM ReleaseImplemented ==
  ASSUME Tidy
  PROVE  Spec => ImplementsService
<1>1. Init => Service!Init
  BY InitImplements
<1>2. Tidy
  OBVIOUS
<1>3. TypeOK /\ TypeOK' /\ TidyInv /\ (Tidy => Recorded)' /\ [Next]_vars => [Service!Next]_Service!vars
  BY <1>2, TidyStepImplements DEF TidyInv, Tidy
<1> QED BY <1>1, <1>3, TypeCorrect, TidyCorrect, ReleasedRecorded, PTL DEF Spec, ImplementsService, Service!Spec

=============================================================================
