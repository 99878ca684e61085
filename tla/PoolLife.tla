------------------------------ MODULE PoolLife ------------------------------
(***************************************************************************)
(* The life of IPPools and of what belongs to them: the labels of their    *)
(* NetworkAttachmentDefinition (NAD), the agent pod, the caches and gauges *)
(* of the controller, and the VirtualMachineNetworkConfigs that use them.  *)
(* Users go through the webhook's validators. The ippool worker takes a    *)
(* pool through DeployAgent, BuildCache, MonitorAgent, OnChange and        *)
(* OnRemove; one action is one handler, with the write that ends it, but   *)
(* for DeployAgent, which creates a pod before it writes its name down.    *)
(* Addresses are left out: see ControlPlane and Admission for them.        *)
(***************************************************************************)
EXTENDS Naturals

CONSTANTS
  Pools, Networks, Cfgs,  \* IPPools, NADs, VirtualMachineNetworkConfigs
  NoPool, NoNetwork,
  NetworkOf,  \* [Pools -> Networks]: spec.networkName
  SameName,   \* [Pools -> Networks \cup {NoNetwork}]: the NAD, if any, that has the
              \* namespace and name of the pool
  Held,       \* pools annotated to keep the image of their agent
  Uids,       \* UIDs of pods, enough of them to find one nobody refers to
  MaxEvictions,  \* bound: how often pods are deleted by others
  MaxLate,    \* bound: how often a pass starts on an old copy of its pool
  Envs        \* what may happen: sets of EnvEvents, one of which a behaviour has

EnvEvents ==
  {"pause", "delete", "use",  \* users pause and resume pools, delete pools, and
                              \* create and remove vmnetcfgs
   "evict",    \* agent pods are deleted by others
   "relist",   \* the pod informer misses an update between two lists
   "late",     \* the IPPool informer is late: without it, it delivers at once
   "upgrade",  \* the controller restarts with another agent image
   "busy",     \* users and restarts do not wait for the worker to be idle
   "hasty",    \* users resume pools whose agent is not gone yet, and delete pools that
               \* have no finalizer yet
   "noAgent"}  \* --no-agent

ASSUME EnvsAssumption == Envs \subseteq SUBSET EnvEvents
\* No two pods have the same UID, as far as anybody remembers one.
ASSUME ConstantsAssumption ==
  /\ NoPool \notin Pools /\ NoNetwork \notin Networks /\ MaxEvictions \in Nat /\ MaxLate \in Nat
  /\ Uids \subseteq Nat \ {0}
  /\ \A a, b, c, d, e \in Uids \cup {0} : \E u \in Uids : u \notin {a, b, c, d, e}
  /\ NetworkOf \in [Pools -> Networks]
  /\ SameName \in [Pools -> Networks \cup {NoNetwork}]
  /\ \A p, q \in Pools : SameName[p] = SameName[q] /\ SameName[p] # NoNetwork => p = q
  /\ Held \subseteq Pools

VARIABLES
  env,     \* the one of Envs, chosen at the start
  label,   \* [Networks -> Pools \cup {NoPool}]: the pool that the NAD's labels name
  pool,    \* [Pools -> Pool]
  inf,     \* [Pools -> Pool]: the copies of the controller's IPPool informer
  old,     \* pools whose copy is not the stored version
  late,    \* passes begun on an old copy so far
  user,    \* [Cfgs -> [net, given, deleting]]; given: the status has an address
  pod,     \* [Pools -> Pod]: the pod that has the name of the pool's agent
  seen,    \* [Pools -> Pod]: the same in the controller's pod cache
  evicted, \* pods deleted by others so far
  image,   \* the agent image of the running controller: 1, then 2
  caches,  \* networks that have an IPSubnet and a MACSet
  gauges,  \* labels <<ippool, network>> of the two IPPool gauges
  served,  \* vmnetcfgs that have a vmnetcfg_status gauge
  queue,   \* SUBSET Pools
  wk       \* the ippool worker: the next handler, its pool, its copy, and whether
           \* that copy is the stored version; uid: the pod DeployAgent has created
memory == <<caches, gauges, served>>
stored == <<pool, inf, old>>
state == <<label, stored, late, user, pod, seen, evicted, image, memory, queue, wk>>
vars == <<env, state>>

Cond == {"Unknown", "True", "False"}

\* status.agentPodRef; "named": it has a namespace, a name and a UID.
Refs == [set : BOOLEAN, named : BOOLEAN, uid : Uids \cup {0}, image : 0 .. 2]
NoRef == [set |-> FALSE, named |-> FALSE, uid |-> 0, image |-> 0]

Pod == [uid : Uids \cup {0}, image : 0 .. 2, deleting : BOOLEAN, ready : BOOLEAN]
NoPod == [uid |-> 0, image |-> 0, deleting |-> FALSE, ready |-> FALSE]

\* "life": not created yet, there, or gone; "final": has the OnRemove finalizer.
Pool ==
  [life : {"none", "there", "gone"}, paused : BOOLEAN, deleting : BOOLEAN, final : BOOLEAN,
   ref : Refs, registered : Cond, ready : Cond, agentReady : Cond, stopped : Cond]
NewPool ==
  [life |-> "none", paused |-> FALSE, deleting |-> FALSE, final |-> FALSE, ref |-> NoRef,
   registered |-> "Unknown", ready |-> "Unknown", agentReady |-> "Unknown", stopped |-> "Unknown"]

NoUser == [net |-> NoNetwork, given |-> FALSE, deleting |-> FALSE]
FormerUser == [net |-> NoNetwork, given |-> FALSE, deleting |-> TRUE]
WorkerStates ==
  [pc : {"idle", "deploy", "deployed", "build", "monitor", "change", "remove"},
   p : Pools \cup {NoPool}, obj : Pool, fresh : BOOLEAN, uid : Uids \cup {0}]
Idle == [pc |-> "idle", p |-> NoPool, obj |-> NewPool, fresh |-> FALSE, uid |-> 0]

-----------------------------------------------------------------------------
\* Users, through the webhook.

Calm == "busy" \in env \/ wk.pc = "idle"

\* Pool p is stored. The informer has it at once, or when PoolSeen delivers it, and
\* then the controller gets an event.
Stored(p, new) ==
  /\ pool' = [pool EXCEPT ![p] = new]
  /\ IF "late" \in env THEN old' = old \cup {p} /\ inf' = inf
     ELSE old' = old /\ inf' = [inf EXCEPT ![p] = new]
Announced(p) == IF "late" \in env THEN {} ELSE {p}

\* Someone other than the worker writes pool p: the worker's copy is old.
PoolWritten(p, new) ==
  /\ Stored(p, new) /\ queue' = queue \cup Announced(p)
  /\ wk' = [wk EXCEPT !.fresh = @ /\ wk.p # p]

\* The IPPool informer delivers the stored version.
PoolSeen(p) ==
  /\ p \in old /\ old' = old \ {p} /\ inf' = [inf EXCEPT ![p] = pool[p]]
  /\ queue' = queue \cup {p}
  /\ UNCHANGED <<label, pool, late, user, pod, seen, evicted, image, memory, wk>>

\* NADs are there all the time, so that checkNAD passes.
CreatePool(p) ==
  /\ pool[p].life = "none" /\ PoolWritten(p, [NewPool EXCEPT !.life = "there"])
  /\ UNCHANGED <<label, late, user, pod, seen, evicted, image, memory>>

PausePool(p) ==
  /\ "pause" \in env /\ Calm /\ pool[p].life = "there"
  /\ "hasty" \in env \/ ~pool[p].paused \/ pod[p].uid = 0
  /\ PoolWritten(p, [pool[p] EXCEPT !.paused = ~@])
  /\ UNCHANGED <<label, late, user, pod, seen, evicted, image, memory>>

\* The index by the network names of a vmnetcfg, asked for the namespace and name of
\* the pool.
VmNetCfgByNetwork(c) == {user[c].net} \ {NoNetwork}
WhoUseIPPool(p) == {c \in Cfgs : SameName[p] \in VmNetCfgByNetwork(c)}
checkVmNetCfgs(p) == WhoUseIPPool(p) = {}

\* A pool without finalizer is gone at once.
DeletePool(p) ==
  /\ "delete" \in env /\ Calm /\ pool[p].life = "there" /\ ~pool[p].deleting
  /\ "hasty" \in env \/ pool[p].final
  /\ checkVmNetCfgs(p)
  /\ PoolWritten(p, IF pool[p].final THEN [pool[p] EXCEPT !.deleting = TRUE]
                                     ELSE [NewPool EXCEPT !.life = "gone"])
  /\ UNCHANGED <<label, late, user, pod, seen, evicted, image, memory>>

\* The NAD's labels name a pool that exists, be it on its way out. Each vmnetcfg is
\* created once.
CreateCfg(c, n) ==
  /\ "use" \in env /\ user[c] = NoUser
  /\ label[n] # NoPool /\ pool[label[n]].life = "there"
  /\ user' = [user EXCEPT ![c] = [NoUser EXCEPT !.net = n]]
  /\ UNCHANGED <<label, stored, late, pod, seen, evicted, image, memory, queue, wk>>

DeleteCfg(c) ==
  /\ user[c].net # NoNetwork /\ ~user[c].deleting
  /\ user' = [user EXCEPT ![c].deleting = TRUE]
  /\ UNCHANGED <<label, stored, late, pod, seen, evicted, image, memory, queue, wk>>

-----------------------------------------------------------------------------
\* The vmnetcfg controller, as far as it meets the pool.

PoolOf(c) == label[user[c].net]

UpdateVmNetCfgStatus(c) == served' = served \cup {c}
DeleteVmNetCfgStatus(c) == served' = served \ {c}

\* Allocate reads the informer's copy of the pool: the gauge is set, and an address that
\* is new goes into the pool's status, which is refused when the copy is old.
Allocate(c) ==
  LET p == PoolOf(c) IN
  /\ user[c].net \in caches /\ (c \notin served \/ ~user[c].given)
  /\ inf[p].life = "there" /\ inf[p].ready = "True"
  /\ UpdateVmNetCfgStatus(c)
  /\ IF user[c].given \/ p \in old THEN UNCHANGED <<stored, user, queue, wk>>
     ELSE user' = [user EXCEPT ![c].given = TRUE] /\ PoolWritten(p, pool[p])
  /\ UNCHANGED <<label, late, pod, seen, evicted, image, caches, gauges>>

\* OnRemove: cleanup deletes the gauge, then fails while there is an address to give
\* back and the network has no caches, or the informer no copy of its pool or an old one.
RemoveCfg(c) ==
  LET p == PoolOf(c)
      possible == user[c].net \in caches /\ inf[p].life = "there" /\ p \notin old IN
  /\ user[c].deleting /\ user[c] # FormerUser /\ DeleteVmNetCfgStatus(c)
  /\ user' = IF user[c].given /\ ~possible THEN user ELSE [user EXCEPT ![c] = FormerUser]
  /\ IF user[c].given /\ possible THEN PoolWritten(p, pool[p]) ELSE UNCHANGED <<stored, queue, wk>>
  /\ UNCHANGED <<label, late, pod, seen, evicted, image, caches, gauges>>

-----------------------------------------------------------------------------
\* The ippool worker.

\* A pass starts on the informer's copy.
Start(p) ==
  /\ wk.pc = "idle" /\ p \in queue
  /\ p \in old => late < MaxLate
  /\ late' = IF p \in old THEN late + 1 ELSE late
  /\ queue' = queue \ {p}
  /\ wk' = IF inf[p].life = "there"
           THEN [pc |-> "deploy", p |-> p, obj |-> inf[p], fresh |-> p \notin old, uid |-> 0] ELSE Idle
  /\ UNCHANGED <<label, stored, user, pod, seen, evicted, image, memory>>

\* A handler ends: what differs from the worker's copy is sent, and refused when that
\* copy is old. The next handler gets the new object either way. After a failure or a
\* refusal the pool is put back into the queue.
HandlerEnds(new, failed, next) ==
  LET changed == new # wk.obj
      saved == changed /\ wk.fresh
  IN
  /\ IF saved THEN Stored(wk.p, new) ELSE UNCHANGED stored
  /\ queue' = queue \cup (IF failed \/ (changed /\ ~saved) THEN {wk.p} ELSE {})
                    \cup (IF saved THEN Announced(wk.p) ELSE {})
  /\ wk' = IF next = "idle" THEN Idle ELSE [wk EXCEPT !.pc = next, !.obj = new, !.uid = 0]

\* The generated status handler: on an error the old status stays, but for the
\* condition.
StatusHandled(new, failed, condition, next) ==
  HandlerEnds([(IF failed THEN wk.obj ELSE new)
                 EXCEPT ![condition] = IF failed THEN "False" ELSE "True"], failed, next)

\* The labels of the pool's gauges, and what cleanup deletes: the gauges of the pool
\* that has the network's name. Mutant: labels in the wrong order.
GaugeOfMutant(p) == <<NetworkOf[p], p>>
GaugeOf(p) == <<p, NetworkOf[p]>>
WithoutGaugesOf(n) == {g \in gauges : ~(SameName[g[1]] = n /\ g[2] = n)}

\* The pod cache looked up by the reference in the worker's copy.
Found == wk.obj.ref.named /\ seen[wk.p].uid # 0

getAgentImage == IF wk.p \in Held THEN wk.obj.ref.image ELSE image

\* The pod of a pool has a name of its own and the image of the running controller.
prepareAgentPod(uid) == [uid |-> uid, image |-> image, deleting |-> FALSE, ready |-> FALSE]

\* Create. When a pod of that name exists the reference only gets the image; otherwise
\* SaveAgentRef ends the handler.
CreateAgentPod ==
  LET p == wk.p
      uid == CHOOSE u \in Uids : u \notin {pod[p].uid, seen[p].uid, pool[p].ref.uid, inf[p].ref.uid, wk.obj.ref.uid}
  IN IF pod[p].uid # 0
     THEN /\ StatusHandled([wk.obj EXCEPT !.ref.set = TRUE, !.ref.image = image],
                           FALSE, "registered", "build")
          /\ UNCHANGED pod
     ELSE /\ pod' = [pod EXCEPT ![p] = prepareAgentPod(uid)]
          /\ wk' = [wk EXCEPT !.pc = "deployed", !.uid = uid]
          /\ UNCHANGED <<stored, queue>>

DeployAgent ==
  LET ref == wk.obj.ref
      there == seen[wk.p]
  IN /\ wk.pc = "deploy"
     /\ \/ /\ wk.obj.paused
           /\ StatusHandled(wk.obj, TRUE, "registered", "build") /\ UNCHANGED pod
        \/ /\ ~wk.obj.paused /\ "noAgent" \in env
           /\ StatusHandled(wk.obj, FALSE, "registered", "build") /\ UNCHANGED pod
        \/ /\ ~wk.obj.paused /\ "noAgent" \notin env /\ Found
           /\ StatusHandled([wk.obj EXCEPT !.ref.image = getAgentImage],
                            there.deleting \/ there.uid # ref.uid, "registered", "build")
           /\ UNCHANGED pod
        \/ ~wk.obj.paused /\ "noAgent" \notin env /\ ~Found /\ CreateAgentPod
     /\ UNCHANGED <<label, late, user, seen, evicted, image, memory>>

SaveAgentRef ==
  /\ wk.pc = "deployed"
  /\ StatusHandled([wk.obj EXCEPT !.ref = [set |-> TRUE, named |-> TRUE, uid |-> wk.uid, image |-> image]],
                   FALSE, "registered", "build")
  /\ UNCHANGED <<label, late, user, pod, seen, evicted, image, memory>>

BuildCache ==
  /\ wk.pc = "build"
  /\ caches' = IF wk.obj.paused \/ wk.obj.ready = "True" THEN caches
               ELSE caches \cup {NetworkOf[wk.p]}
  /\ StatusHandled(wk.obj, wk.obj.paused, "ready", "monitor")
  /\ UNCHANGED <<label, late, user, pod, seen, evicted, image, gauges, served>>

\* Delete of the pod, by name.
PodDeleted(p) == pod' = [pod EXCEPT ![p] = [@ EXCEPT !.deleting = (pod[p].uid # 0)]]

\* Mutants: the image is not compared; a pod that is not ready is replaced.
ObsoleteMutant(p) == seen[p].uid # wk.obj.ref.uid
ObsoleteReadyMutant(p) ==
  seen[p].uid # wk.obj.ref.uid \/ seen[p].image # wk.obj.ref.image \/ ~seen[p].ready
Obsolete(p) == seen[p].uid # wk.obj.ref.uid \/ seen[p].image # wk.obj.ref.image

MonitorAgent ==
  LET p == wk.p IN
  /\ wk.pc = "monitor"
  /\ \/ /\ "noAgent" \in env \/ wk.obj.paused \/ ~Found
        /\ StatusHandled(wk.obj, "noAgent" \notin env \/ wk.obj.paused, "agentReady", "change")
        /\ UNCHANGED pod
     \/ /\ "noAgent" \notin env /\ ~wk.obj.paused /\ Found /\ Obsolete(p)
        /\ IF seen[p].deleting THEN UNCHANGED pod ELSE PodDeleted(p)
        /\ StatusHandled(wk.obj, TRUE, "agentReady", "change")
     \/ /\ "noAgent" \notin env /\ ~wk.obj.paused /\ Found /\ ~Obsolete(p)
        /\ StatusHandled(wk.obj, ~seen[p].ready, "agentReady", "change")
        /\ UNCHANGED pod
  /\ UNCHANGED <<label, late, user, seen, evicted, image, memory>>

\* cleanup: nothing without a reference; an error for one that names no pod. Mutant:
\* a pod that is gone already is an error.
CleanupFailsMutant == wk.obj.ref.set /\ (~wk.obj.ref.named \/ pod[wk.p].uid = 0)
CleanupFails == wk.obj.ref.set /\ ~wk.obj.ref.named

\* Mutants: the IPSubnet and MACSet are not deleted; the pod is not.
CleanupCachesMutant ==
  LET n == NetworkOf[wk.p] IN
  IF ~wk.obj.ref.named THEN UNCHANGED <<pod, caches, gauges>>
  ELSE /\ PodDeleted(wk.p)
       /\ caches' = caches
       /\ gauges' = WithoutGaugesOf(n)
CleanupPodMutant ==
  LET n == NetworkOf[wk.p] IN
  IF ~wk.obj.ref.named THEN UNCHANGED <<pod, caches, gauges>>
  ELSE /\ pod' = pod
       /\ caches' = caches \ {n}
       /\ gauges' = WithoutGaugesOf(n)
Cleanup ==
  LET n == NetworkOf[wk.p] IN
  IF ~wk.obj.ref.named THEN UNCHANGED <<pod, caches, gauges>>
  ELSE /\ PodDeleted(wk.p)
       /\ caches' = caches \ {n}
       /\ gauges' = WithoutGaugesOf(n)

\* OnChange; a pool being deleted is left to OnRemove.
OnChange ==
  LET p == wk.p
      n == NetworkOf[p]
      started == [wk.obj EXCEPT !.stopped = "False"]
  IN /\ wk.pc = "change"
     /\ label' = IF wk.obj.deleting THEN label ELSE [label EXCEPT ![n] = p]
     /\ \/ /\ wk.obj.deleting
           /\ HandlerEnds(wk.obj, FALSE, "remove")
           /\ UNCHANGED <<pod, caches, gauges>>
        \/ /\ ~wk.obj.deleting /\ wk.obj.paused /\ CleanupFails
           /\ HandlerEnds(wk.obj, TRUE, "remove")
           /\ UNCHANGED <<pod, caches, gauges>>
        \/ /\ ~wk.obj.deleting /\ wk.obj.paused /\ ~CleanupFails
           /\ Cleanup
           /\ HandlerEnds([wk.obj EXCEPT !.ref = NoRef, !.stopped = "True"], FALSE, "remove")
        \/ /\ ~wk.obj.deleting /\ ~wk.obj.paused /\ n \notin caches
           /\ HandlerEnds([started EXCEPT !.ready = "False"],
                          [started EXCEPT !.ready = "False"] = wk.obj, "remove")
           /\ UNCHANGED <<pod, caches, gauges>>
        \/ /\ ~wk.obj.deleting /\ ~wk.obj.paused /\ n \in caches
           /\ gauges' = gauges \cup {GaugeOf(p)}
           /\ HandlerEnds(started, FALSE, "remove")
           /\ UNCHANGED <<pod, caches>>
     /\ UNCHANGED <<late, user, seen, evicted, image, served>>

\* The OnRemove handler: the finalizer is added, or cleanup done and the finalizer
\* removed, with which the pool is gone.
OnRemove ==
  /\ wk.pc = "remove"
  /\ \/ /\ ~wk.obj.deleting
        /\ HandlerEnds([wk.obj EXCEPT !.final = TRUE], FALSE, "idle")
        /\ UNCHANGED <<pod, caches, gauges>>
     \/ /\ wk.obj.deleting /\ "noAgent" \notin env /\ CleanupFails
        /\ HandlerEnds(wk.obj, TRUE, "idle")
        /\ UNCHANGED <<pod, caches, gauges>>
     \/ /\ wk.obj.deleting /\ ("noAgent" \in env \/ ~CleanupFails)
        /\ IF "noAgent" \in env THEN UNCHANGED <<pod, caches, gauges>> ELSE Cleanup
        /\ HandlerEnds([NewPool EXCEPT !.life = "gone"], FALSE, "idle")
  /\ UNCHANGED <<label, late, user, seen, evicted, image, served>>

Worker == DeployAgent \/ SaveAgentRef \/ BuildCache \/ MonitorAgent \/ OnChange \/ OnRemove

-----------------------------------------------------------------------------
\* The cluster.

PodReady(p) ==
  /\ pod[p].uid # 0 /\ ~pod[p].ready /\ ~pod[p].deleting
  /\ pod' = [pod EXCEPT ![p].ready = TRUE]
  /\ UNCHANGED <<label, stored, late, user, seen, evicted, image, memory, queue, wk>>

Evict(p) ==
  /\ "evict" \in env /\ pod[p].uid # 0 /\ ~pod[p].deleting
  /\ evicted < MaxEvictions /\ evicted' = evicted + 1
  /\ PodDeleted(p)
  /\ UNCHANGED <<label, stored, late, user, seen, image, memory, queue, wk>>

PodGone(p) ==
  /\ pod[p].deleting /\ pod' = [pod EXCEPT ![p] = NoPod]
  /\ UNCHANGED <<label, stored, late, user, seen, evicted, image, memory, queue, wk>>

\* What the pod cache holds after the next event: a pod that is gone was seen to be
\* terminating before, unless the informer had to list anew.
NextSeen(p) ==
  IF seen[p].uid \in {0, pod[p].uid} \/ "relist" \in env THEN pod[p]
  ELSE IF ~seen[p].deleting THEN [seen[p] EXCEPT !.deleting = TRUE] ELSE NoPod

\* The pod informer delivers; relatedresource.Watch puts the pools of all agent pods
\* that are in the cache into the queue.
PodSeen(p) ==
  /\ seen[p] # pod[p] /\ seen' = [seen EXCEPT ![p] = NextSeen(p)]
  /\ queue' = queue \cup {q \in Pools : seen'[q].uid # 0}
  /\ UNCHANGED <<label, stored, late, user, pod, evicted, image, memory, wk>>

\* The controller is replaced by one with another agent image.
Upgrade ==
  /\ "upgrade" \in env /\ Calm /\ image = 1 /\ image' = 2
  /\ caches' = {} /\ gauges' = {} /\ served' = {}
  /\ queue' = Pools /\ wk' = Idle /\ seen' = pod /\ inf' = pool /\ old' = {}
  /\ UNCHANGED <<label, pool, late, user, pod, evicted>>

-----------------------------------------------------------------------------
Init ==
  /\ env \in Envs
  /\ label = [n \in Networks |-> NoPool]
  /\ pool = [p \in Pools |-> NewPool] /\ inf = pool /\ old = {} /\ late = 0
  /\ user = [c \in Cfgs |-> NoUser]
  /\ pod = [p \in Pools |-> NoPod] /\ seen = [p \in Pools |-> NoPod]
  /\ evicted = 0 /\ image = 1 /\ caches = {} /\ gauges = {} /\ served = {}
  /\ queue = {} /\ wk = Idle

PoolNext(p) ==
  \/ CreatePool(p) \/ PausePool(p) \/ DeletePool(p)
  \/ PoolSeen(p) \/ Start(p) \/ PodReady(p) \/ Evict(p) \/ PodGone(p) \/ PodSeen(p)
CfgNext(c) ==
  (\E n \in Networks : CreateCfg(c, n)) \/ DeleteCfg(c) \/ Allocate(c) \/ RemoveCfg(c)

Next ==
  /\ (\E p \in Pools : PoolNext(p)) \/ (\E c \in Cfgs : CfgNext(c)) \/ Worker \/ Upgrade
  /\ UNCHANGED env

\* The worker runs as long as there is work, kubelet starts and stops pods, and the
\* informer delivers; the vmnetcfg controller retries. Users and evictions are free.
Fairness ==
  /\ WF_state(Worker)
  /\ \A p \in Pools : /\ WF_state(PoolSeen(p)) /\ SF_state(Start(p))
                       /\ WF_state(PodReady(p)) /\ WF_state(PodGone(p)) /\ WF_state(PodSeen(p))
  /\ \A c \in Cfgs : WF_state(Allocate(c)) /\ WF_state(RemoveCfg(c))

Spec == Init /\ [][Next]_vars
FairSpec == Spec /\ Fairness

-----------------------------------------------------------------------------
\* Pools, pods, users, caches, gauges and the worker have values of their types, and no
\* more pods were evicted than the bound.
TypeOK ==
  /\ env \in Envs
  /\ label \in [Networks -> Pools \cup {NoPool}]
  /\ pool \in [Pools -> Pool] /\ inf \in [Pools -> Pool] /\ old \subseteq Pools /\ late \in 0 .. MaxLate
  /\ user \in [Cfgs -> [net : Networks \cup {NoNetwork}, given : BOOLEAN, deleting : BOOLEAN]]
  /\ pod \in [Pools -> Pod] /\ seen \in [Pools -> Pod]
  /\ evicted \in 0 .. MaxEvictions /\ image \in 1 .. 2
  /\ caches \subseteq Networks /\ gauges \subseteq Pools \X Networks /\ served \subseteq Cfgs
  /\ queue \subseteq Pools
  /\ wk \in WorkerStates

There(p) == pool[p].life = "there"
Wanted(p) == There(p) /\ ~pool[p].paused /\ ~pool[p].deleting
NoAgentLeft(p) == pod[p].uid = 0 \/ pod[p].deleting
NothingLeft(p) ==
  NoAgentLeft(p) /\ NetworkOf[p] \notin caches /\ <<p, NetworkOf[p]>> \notin gauges

Serving(p) ==
  /\ pod[p].ready /\ ~pod[p].deleting /\ pod[p].uid = pool[p].ref.uid
  /\ p \in Held \/ pod[p].image = image

\* "ensures there's an agent pod for it" (DeployAgent) and "keeps an eye on the agent
\* pod" (MonitorAgent): a pool that stays wanted ends up with a ready agent that its
\* status refers to and that runs the controller's image, whatever pods are evicted,
\* however late the pod cache is, and across an upgrade of the controller.
AgentKept == \A p \in Pools : <>[]Wanted(p) => <>[]Serving(p)

\* A pool that stays paused ends up without agent, caches and gauges.
PauseTakesEffect ==
  \A p \in Pools : <>[](There(p) /\ pool[p].paused /\ ~pool[p].deleting) => <>[]NothingLeft(p)

\* A pool whose deletion the webhook admitted is gone in the end: OnRemove's cleanup
\* does not fail for ever.
DeletionCompletes == \A p \in Pools : pool[p].deleting ~> pool[p].life = "gone"

\* With a pool go its agent, caches and gauges, and with a vmnetcfg goes its gauge:
\* nothing is left that OnRemove should have taken away. A pass on an old copy of a pool
\* that is gone may deploy and build again, and then takes all of it away once more.
NothingOutlives ==
  /\ \A p \in Pools : pool[p].life = "gone" => NothingLeft(p) \/ wk.p = p
  /\ \A c \in served : user[c].net # NoNetwork

MonitorKills(p) ==
  wk.pc = "monitor" /\ wk.p = p /\ wk'.pc # "monitor" /\ ~pod[p].deleting /\ pod'[p].deleting

\* MonitorAgent deletes the pod by name, on what a late pod cache says: it never hits
\* a pod that the pool refers to and that runs the image the pool asks for.
GoodPodKept ==
  [][\A p \in Pools :
       MonitorKills(p) => pod[p].uid # pool[p].ref.uid \/ pod[p].image # pool[p].ref.image]_vars

\* The validator refuses to delete a pool: "it's still used by
\* VirtualMachineNetworkConfig(s) ..., which must be removed at first".
UsersHavePool == \A c \in Cfgs : user[c].net # NoNetwork => There(PoolOf(c))

\* Agents are managed, users and restarts wait for the worker and for agents to be
\* gone, the pod informer misses nothing, and no pause reaches the worker late.
Orderly == env \cap {"busy", "hasty", "noAgent", "relist"} = {} /\ ~({"late", "pause"} \subseteq env)

\* AgentKept, PauseTakesEffect and NothingOutlives where users are orderly: DeployAgent,
\* MonitorAgent and cleanup do what their comments say of them.
AgentKeptInOrder == Orderly => AgentKept
PauseTakesEffectInOrder == Orderly => PauseTakesEffect
NothingOutlivesInOrder == Orderly => NothingOutlives

\* An admitted deletion completes in order and under --no-agent, where OnRemove has
\* nothing to clean up.
DeletionCompletesInOrder == Orderly \/ "noAgent" \in env => DeletionCompletes

\* Where no pool is paused, MonitorAgent never deletes a pod that is as it should be,
\* be the pod cache as late as it may. On an old copy of the pool it can; but not as long
\* as the reference in that copy is the stored one, whatever pods earlier passes on old
\* copies have created.
GoodPodKeptUnpaused ==
  [][\A p \in Pools :
       Orderly /\ "pause" \notin env /\ MonitorKills(p) /\ ("late" \in env => wk.obj.ref = pool[p].ref)
         => pod[p].uid # pool[p].ref.uid \/ pod[p].image # pool[p].ref.image]_vars
=============================================================================
