---------------------------- MODULE PoolLifeProofs ----------------------------
(*****************************************************************************)
(* The theorems about the life of IPPools and their agents (PoolLife), for   *)
(* any number of pools, networks and vmnetcfgs. In every environment: types. *)
(* Where users wait for the controller: nothing outlives a pool (Order), and *)
(* where no pool is paused either, MonitorAgent never deletes a pod that its *)
(* pool refers to and whose image it asks for (Agents). Where the IPPool     *)
(* informer is late as well the argument is another one (Lag).               *)
(*****************************************************************************)
EXTENDS PoolLife, TLAPS

\* Most leaves are first-order: Zenon is tried first, the SMT solver after it.
USE ZenonT(2), SMTT(20), ZenonT(20)

\* A condition of a pool is set: the rest of the pool stays.
LEMMA ConditionSet ==
  ASSUME NEW o \in Pool, NEW c \in {"registered", "ready", "agentReady"}, NEW v \in Cond
  PROVE  /\ [o EXCEPT ![c] = v] \in Pool
         /\ [o EXCEPT ![c] = v].life = o.life /\ [o EXCEPT ![c] = v].paused = o.paused
         /\ [o EXCEPT ![c] = v].deleting = o.deleting /\ [o EXCEPT ![c] = v].ref = o.ref
<1>1. CASE c = "registered"
  BY <1>1 DEF Pool, Cond
<1>2. CASE c = "ready"
  BY <1>2 DEF Pool, Cond
<1>3. CASE c = "agentReady"
  BY <1>3 DEF Pool, Cond
<1> QED
  BY <1>1, <1>2, <1>3

\* The worker's copy with another status.
Kin(obj) ==
  /\ obj \in Pool /\ obj.life = wk.obj.life
  /\ obj.paused = wk.obj.paused /\ obj.deleting = wk.obj.deleting

\* The IPPool informer's copies that are not old are the stored pools.
Current == \A p \in Pools : p \notin old => inf[p] = pool[p]

\* What a step that stores a pool, or none, does to the informer's copies.
Copied ==
  /\ inf' \in [Pools -> Pool] /\ old' \subseteq Pools /\ (Current => Current')
  /\ IF "late" \in env THEN inf' = inf ELSE old' = old

\* A handler has ended with obj, and next is the handler that follows.
Ends(obj, next) ==
  /\ pool' \in [Pools -> Pool] /\ queue' \subseteq Pools /\ wk' \in WorkerStates
  /\ Copied
  /\ wk'.pc = next /\ wk'.p = (IF next = "idle" THEN NoPool ELSE wk.p)
  /\ next # "idle" => wk'.obj = obj /\ wk'.fresh = wk.fresh
  /\ \A p \in Pools : p # wk.p => pool'[p] = pool[p] /\ (p \in old' <=> p \in old)
  /\ pool'[wk.p] = (IF obj # wk.obj /\ wk.fresh THEN obj ELSE pool[wk.p])

\* A pool is stored: the informer has it at once, or its copy is old.
LEMMA StoredEffect ==
  ASSUME TypeOK, NEW p \in Pools, NEW new \in Pool, Stored(p, new)
  PROVE  /\ pool' \in [Pools -> Pool] /\ pool'[p] = new /\ Copied
         /\ \A q \in Pools : q # p => pool'[q] = pool[q]
         /\ \A q \in Pools : q # p => (q \in old' <=> q \in old)
<1>1. /\ pool \in [Pools -> Pool] /\ inf \in [Pools -> Pool] /\ old \subseteq Pools
      /\ pool' = [pool EXCEPT ![p] = new]
  BY DEF TypeOK, Stored
<1>2. CASE "late" \in env
  <2>1. inf' = inf /\ old' = old \cup {p}
    BY <1>2 DEF Stored
  <2> QED
    BY <1>1, <1>2, <2>1 DEF Copied, Current
<1>3. CASE "late" \notin env
  <2>1. inf' = [inf EXCEPT ![p] = new] /\ old' = old
    BY <1>3 DEF Stored
  <2> QED
    BY <1>1, <1>3, <2>1 DEF Copied, Current
<1> QED
  BY <1>2, <1>3

\* A step that stores no pool.
LEMMA NothingStored ==
  ASSUME TypeOK, UNCHANGED stored
  PROVE  Copied /\ pool' = pool /\ inf' = inf /\ old' = old
<1>1. pool' = pool /\ inf' = inf /\ old' = old
  BY DEF stored
<1> QED
  BY <1>1 DEF Copied, Current, TypeOK

\* HandlerEnds writes the object when the worker's copy is not old.
LEMMA HandlerEffect ==
  ASSUME TypeOK, wk.p \in Pools, NEW obj \in Pool, NEW failed,
         NEW next \in {"idle", "build", "monitor", "change", "remove"}, HandlerEnds(obj, failed, next)
  PROVE  Ends(obj, next)
<1> DEFINE changed == obj # wk.obj
           saved == changed /\ wk.fresh
<1>1. pool \in [Pools -> Pool] /\ queue \subseteq Pools /\ wk \in WorkerStates
  BY DEF TypeOK
<1>2. /\ IF saved THEN Stored(wk.p, obj) ELSE UNCHANGED stored
      /\ queue' \subseteq queue \cup {wk.p}
      /\ wk' = IF next = "idle" THEN Idle ELSE [wk EXCEPT !.pc = next, !.obj = obj, !.uid = 0]
  BY DEF HandlerEnds, Announced
<1> HIDE DEF changed
<1>3. /\ pool' \in [Pools -> Pool] /\ queue' \subseteq Pools /\ Copied
      /\ \A p \in Pools : p # wk.p => pool'[p] = pool[p] /\ (p \in old' <=> p \in old)
      /\ pool'[wk.p] = (IF saved THEN obj ELSE pool[wk.p])
  <2>1. queue' \subseteq Pools
    BY <1>1, <1>2
  <2>2. CASE saved
    BY <1>2, <2>1, <2>2, StoredEffect
  <2>3. CASE ~saved
    BY <1>1, <1>2, <2>1, <2>3, NothingStored
  <2> QED
    BY <2>2, <2>3
<1>4. NewPool \in Pool
  BY DEF NewPool, Pool, Cond, Refs, NoRef
<1>5. /\ wk' \in WorkerStates
      /\ wk'.pc = next /\ wk'.p = (IF next = "idle" THEN NoPool ELSE wk.p)
      /\ next # "idle" => wk'.obj = obj /\ wk'.fresh = wk.fresh
  BY <1>1, <1>2, <1>4 DEF WorkerStates, Idle
<1> QED
  BY <1>3, <1>5 DEF changed, Ends

\* A status handler keeps the old status when it fails, but for the condition.
LEMMA StatusEffect ==
  ASSUME TypeOK, wk.p \in Pools, NEW new, Kin(new), NEW failed \in BOOLEAN,
         NEW condition \in {"registered", "ready", "agentReady"},
         NEW next \in {"build", "monitor", "change"}, StatusHandled(new, failed, condition, next)
  PROVE  \E obj : Kin(obj) /\ Ends(obj, next) /\ obj.ref = (IF failed THEN wk.obj.ref ELSE new.ref)
<1> DEFINE base == IF failed THEN wk.obj ELSE new
           value == IF failed THEN "False" ELSE "True"
           obj == [base EXCEPT ![condition] = value]
<1>1. wk.obj \in Pool
  BY DEF TypeOK, WorkerStates
<1>2. Kin(base) /\ value \in Cond /\ base.ref = (IF failed THEN wk.obj.ref ELSE new.ref)
  BY <1>1 DEF Kin, Cond
<1>3. HandlerEnds(obj, failed, next)
  BY DEF StatusHandled
<1> HIDE DEF base, value
<1>4. Kin(obj) /\ obj.ref = base.ref
  BY <1>2, ConditionSet DEF Kin
<1> HIDE DEF obj
<1>5. Ends(obj, next)
  BY <1>3, <1>4, HandlerEffect DEF Kin
<1> QED
  BY <1>2, <1>4, <1>5

\* A record of status.agentPodRef put into a copy.
LEMMA RefSet ==
  ASSUME NEW obj \in Pool, NEW ref \in Refs
  PROVE  /\ [obj EXCEPT !.ref = ref] \in Pool /\ [obj EXCEPT !.ref = ref].ref = ref
         /\ [obj EXCEPT !.ref = ref].life = obj.life /\ [obj EXCEPT !.ref = ref].paused = obj.paused
         /\ [obj EXCEPT !.ref = ref].deleting = obj.deleting
BY DEF Pool

\* Updates of one or two fields of the reference are updates of the reference.
LEMMA RefUpdates ==
  ASSUME NEW obj \in Pool, NEW i \in 0 .. 2
  PROVE  /\ [obj EXCEPT !.ref.image = i] = [obj EXCEPT !.ref = [obj.ref EXCEPT !.image = i]]
         /\ [obj EXCEPT !.ref.set = TRUE, !.ref.image = i]
              = [obj EXCEPT !.ref = [obj.ref EXCEPT !.set = TRUE, !.image = i]]
         /\ [obj.ref EXCEPT !.image = i] \in Refs
         /\ [obj.ref EXCEPT !.set = TRUE, !.image = i] \in Refs
BY DEF Pool, Refs

\* A reference that is set and gets the image it has stays the same.
LEMMA RefSame ==
  ASSUME NEW ref \in Refs
  PROVE  /\ [ref EXCEPT !.image = ref.image] = ref
         /\ ref.set => [ref EXCEPT !.set = TRUE, !.image = ref.image] = ref
BY DEF Refs

-----------------------------------------------------------------------------
\* The handlers of the worker, one by one: what they send, and what they do beside.

\* The pod that DeployAgent creates for pool p.
Created(p, uid) ==
  /\ pod[p].uid = 0 /\ uid \in Uids
  /\ uid \notin {pod[p].uid, seen[p].uid, pool[p].ref.uid, wk.obj.ref.uid}
  /\ pod' = [pod EXCEPT ![p] = [uid |-> uid, image |-> image, deleting |-> FALSE, ready |-> FALSE]]
  /\ wk' = [wk EXCEPT !.pc = "deployed", !.uid = uid]
  /\ pool' = pool /\ inf' = inf /\ old' = old /\ queue' = queue

\* The reference with which DeployAgent ends when it has not created a pod.
Deployed(ref) ==
  \/ ref = wk.obj.ref /\ (wk.obj.paused \/ "noAgent" \in env)
  \/ ref = wk.obj.ref /\ Found /\ (seen[wk.p].deleting \/ seen[wk.p].uid # wk.obj.ref.uid)
  \/ Found /\ ref = [wk.obj.ref EXCEPT !.image = getAgentImage]
  \/ /\ ~wk.obj.paused /\ ~Found /\ pod[wk.p].uid # 0
     /\ ref = [wk.obj.ref EXCEPT !.set = TRUE, !.image = image]

\* DeployAgent creates a pod, or ends with one of the references of Deployed.
LEMMA DeployEffect ==
  ASSUME TypeOK, wk.p \in Pools, DeployAgent
  PROVE  \/ \E obj : Kin(obj) /\ Ends(obj, "build") /\ Deployed(obj.ref) /\ pod' = pod
         \/ ~wk.obj.paused /\ ~Found /\ \E uid : Created(wk.p, uid)
<1>1. wk.obj \in Pool /\ wk.obj.ref \in Refs /\ wk.obj.ref.image \in 0 .. 2 /\ image \in 0 .. 2
  BY DEF TypeOK, WorkerStates, Pool, Refs
<1>2. Kin(wk.obj)
  BY <1>1 DEF Kin
<1>3. CASE wk.obj.paused /\ StatusHandled(wk.obj, TRUE, "registered", "build") /\ UNCHANGED pod
  BY <1>2, <1>3, StatusEffect DEF Deployed
<1>4. CASE "noAgent" \in env /\ StatusHandled(wk.obj, FALSE, "registered", "build") /\ UNCHANGED pod
  BY <1>2, <1>4, StatusEffect DEF Deployed
<1>5. ASSUME Found, UNCHANGED pod,
             StatusHandled([wk.obj EXCEPT !.ref.image = getAgentImage],
                           seen[wk.p].deleting \/ seen[wk.p].uid # wk.obj.ref.uid, "registered", "build")
      PROVE  \E obj : Kin(obj) /\ Ends(obj, "build") /\ Deployed(obj.ref) /\ pod' = pod
  <2> DEFINE ref == [wk.obj.ref EXCEPT !.image = getAgentImage]
             failed == seen[wk.p].deleting \/ seen[wk.p].uid # wk.obj.ref.uid
  <2>1. getAgentImage \in 0 .. 2
    BY <1>1 DEF getAgentImage
  <2> DEFINE new == [wk.obj EXCEPT !.ref = ref]
  <2>2. [wk.obj EXCEPT !.ref.image = getAgentImage] = new /\ ref \in Refs
    BY <1>1, <2>1, RefUpdates
  <2> HIDE DEF ref
  <2>3. Kin(new) /\ new.ref = ref
    BY <1>1, <2>2, RefSet DEF Kin
  <2>4. failed \in BOOLEAN
    BY DEF TypeOK, Pod
  <2>5. StatusHandled(new, failed, "registered", "build")
    BY <1>5, <2>2
  <2> HIDE DEF failed, new
  <2>6. PICK obj : Kin(obj) /\ Ends(obj, "build") /\ obj.ref = (IF failed THEN wk.obj.ref ELSE ref)
    BY <2>3, <2>4, <2>5, StatusEffect
  <2>7. Deployed(wk.obj.ref) \/ ~failed
    BY <1>5 DEF Deployed, failed
  <2>8. Deployed(ref)
    BY <1>5 DEF Deployed, ref
  <2> QED
    BY <1>5, <2>6, <2>7, <2>8
<1>6. ASSUME ~wk.obj.paused, ~Found, CreateAgentPod
      PROVE  \/ \E obj : Kin(obj) /\ Ends(obj, "build") /\ Deployed(obj.ref) /\ pod' = pod
             \/ \E uid : Created(wk.p, uid)
  <2> DEFINE ref == [wk.obj.ref EXCEPT !.set = TRUE, !.image = image]
             Free(u) == u \notin {pod[wk.p].uid, seen[wk.p].uid, pool[wk.p].ref.uid, inf[wk.p].ref.uid,
                                  wk.obj.ref.uid}
  <2>1. CASE pod[wk.p].uid # 0
    <3> DEFINE new == [wk.obj EXCEPT !.ref = ref]
    <3>1. [wk.obj EXCEPT !.ref.set = TRUE, !.ref.image = image] = new /\ ref \in Refs
      BY <1>1, RefUpdates
    <3>2. StatusHandled(new, FALSE, "registered", "build") /\ pod' = pod
      BY <1>6, <2>1, <3>1 DEF CreateAgentPod, prepareAgentPod
    <3> HIDE DEF ref
    <3>3. Kin(new) /\ new.ref = ref
      BY <1>1, <3>1, RefSet DEF Kin
    <3> HIDE DEF new
    <3>4. PICK obj : Kin(obj) /\ Ends(obj, "build") /\ obj.ref = ref
      BY <3>2, <3>3, StatusEffect
    <3>5. Deployed(ref)
      BY <1>6, <2>1 DEF Deployed, ref
    <3> QED
      BY <3>2, <3>4, <3>5
  <2>2. CASE pod[wk.p].uid = 0
    <3> DEFINE uid == CHOOSE u \in Uids : Free(u)
    <3>1. /\ pod[wk.p].uid \in Uids \cup {0} /\ seen[wk.p].uid \in Uids \cup {0}
          /\ pool[wk.p].ref.uid \in Uids \cup {0} /\ inf[wk.p].ref.uid \in Uids \cup {0}
          /\ wk.obj.ref.uid \in Uids \cup {0}
      BY <1>1 DEF TypeOK, Pod, Pool, Refs
    <3>2. \A b, c, d, e \in Uids \cup {0} : \E u \in Uids : u \notin {pod[wk.p].uid, b, c, d, e}
      BY <3>1, ConstantsAssumption
    <3>3. \A c, d, e \in Uids \cup {0} : \E u \in Uids : u \notin {pod[wk.p].uid, seen[wk.p].uid, c, d, e}
      BY <3>1, <3>2
    <3>4. \A d, e \in Uids \cup {0} : \E u \in Uids : u \notin {pod[wk.p].uid, seen[wk.p].uid, pool[wk.p].ref.uid, d, e}
      BY <3>1, <3>3
    <3>8. \A e \in Uids \cup {0} :
            \E u \in Uids : u \notin {pod[wk.p].uid, seen[wk.p].uid, pool[wk.p].ref.uid, inf[wk.p].ref.uid, e}
      BY <3>1, <3>4
    <3>5. \E u \in Uids : Free(u)
      BY <3>1, <3>8
    <3>6. /\ pod' = [pod EXCEPT ![wk.p] = [uid |-> uid, image |-> image, deleting |-> FALSE, ready |-> FALSE]]
          /\ wk' = [wk EXCEPT !.pc = "deployed", !.uid = uid]
          /\ pool' = pool /\ inf' = inf /\ old' = old /\ queue' = queue
      BY <1>6, <2>2 DEF CreateAgentPod, prepareAgentPod, stored
    <3>7. uid \in Uids /\ Free(uid)
      <4> HIDE DEF Free
      <4> QED BY <3>5
    <3> HIDE DEF uid
    <3> QED
      BY <2>2, <3>6, <3>7 DEF Created
  <2> QED
    BY <2>1, <2>2
<1> QED
  BY <1>3, <1>4, <1>5, <1>6 DEF DeployAgent

\* DeployAgent goes on after the creation of the pod, and refers to it.
LEMMA SaveEffect ==
  ASSUME TypeOK, wk.p \in Pools, SaveAgentRef
  PROVE  \E obj : /\ Kin(obj) /\ Ends(obj, "build")
                  /\ obj.ref = [set |-> TRUE, named |-> TRUE, uid |-> wk.uid, image |-> image]
<1> DEFINE ref == [set |-> TRUE, named |-> TRUE, uid |-> wk.uid, image |-> image]
           new == [wk.obj EXCEPT !.ref = ref]
<1>1. wk.obj \in Pool /\ ref \in Refs
  BY DEF TypeOK, WorkerStates, Refs
<1>2. StatusHandled(new, FALSE, "registered", "build")
  BY DEF SaveAgentRef
<1> HIDE DEF ref
<1>3. Kin(new) /\ new.ref = ref
  BY <1>1, RefSet DEF Kin
<1> HIDE DEF new
<1>4. PICK obj : Kin(obj) /\ Ends(obj, "build") /\ obj.ref = ref
  BY <1>2, <1>3, StatusEffect
<1> QED
  BY <1>4 DEF ref

\* BuildCache leaves the reference alone.
LEMMA BuildEffect ==
  ASSUME TypeOK, wk.p \in Pools, BuildCache
  PROVE  \E obj : Kin(obj) /\ Ends(obj, "monitor") /\ obj.ref = wk.obj.ref
<1>1. Kin(wk.obj) /\ wk.obj.paused \in BOOLEAN
  BY DEF TypeOK, WorkerStates, Pool, Kin
<1>2. StatusHandled(wk.obj, wk.obj.paused, "ready", "monitor")
  BY DEF BuildCache
<1> QED
  BY <1>1, <1>2, StatusEffect

\* MonitorAgent leaves the reference alone, and deletes at most a pod that the pod cache
\* shows as obsolete.
LEMMA MonitorEffect ==
  ASSUME TypeOK, wk.p \in Pools, MonitorAgent
  PROVE  /\ \E obj : Kin(obj) /\ Ends(obj, "change") /\ obj.ref = wk.obj.ref
         /\ \/ pod' = pod
            \/ ~wk.obj.paused /\ Found /\ Obsolete(wk.p) /\ ~seen[wk.p].deleting /\ PodDeleted(wk.p)
<1>1. Kin(wk.obj) /\ wk.obj.paused \in BOOLEAN
  BY DEF TypeOK, WorkerStates, Pool, Kin
<1>2. PICK failed \in BOOLEAN : StatusHandled(wk.obj, failed, "agentReady", "change")
  <2>1. ("noAgent" \notin env \/ wk.obj.paused) \in BOOLEAN /\ (~seen[wk.p].ready) \in BOOLEAN
    BY <1>1
  <2> QED
    BY <2>1 DEF MonitorAgent
<1>3. PICK obj : Kin(obj) /\ Ends(obj, "change") /\ obj.ref = wk.obj.ref
  BY <1>1, <1>2, StatusEffect
<1>4. \/ pod' = pod
      \/ ~wk.obj.paused /\ Found /\ Obsolete(wk.p) /\ ~seen[wk.p].deleting /\ PodDeleted(wk.p)
  BY DEF MonitorAgent
<1> QED
  BY <1>3, <1>4

\* What OnChange and OnRemove do beside sending an object.
LEMMA ChangeEffect ==
  ASSUME TypeOK, wk.p \in Pools, OnChange
  PROVE  \E obj :
           /\ Kin(obj) /\ Ends(obj, "remove")
           /\ \/ /\ obj.ref = wk.obj.ref /\ UNCHANGED <<pod, caches, gauges>>
              \/ /\ ~wk.obj.deleting /\ wk.obj.paused /\ ~CleanupFails
                 /\ obj.ref = NoRef /\ Cleanup
              \/ /\ ~wk.obj.paused /\ NetworkOf[wk.p] \in caches
                 /\ obj.ref = wk.obj.ref /\ UNCHANGED <<pod, caches>>
                 /\ gauges' = gauges \cup {GaugeOf(wk.p)}
<1> DEFINE started == [wk.obj EXCEPT !.stopped = "False"]
           waiting == [started EXCEPT !.ready = "False"]
           stopped == [wk.obj EXCEPT !.ref = NoRef, !.stopped = "True"]
<1>1. wk.obj \in Pool /\ NoRef \in Refs
  BY DEF TypeOK, WorkerStates, NoRef, Refs
<1>2. Kin(wk.obj)
  BY <1>1 DEF Kin
<1>3. Kin(started) /\ started.ref = wk.obj.ref
  BY <1>1 DEF Kin, Pool, Cond
<1>4. Kin(waiting) /\ waiting.ref = wk.obj.ref
  BY <1>1 DEF Kin, Pool, Cond
<1>5. Kin(stopped) /\ stopped.ref = NoRef
  BY <1>1 DEF Kin, Pool, Cond
<1> HIDE DEF started, waiting, stopped
<1>6. \A obj, failed : Kin(obj) /\ HandlerEnds(obj, failed, "remove") => Ends(obj, "remove")
  BY HandlerEffect DEF Kin
<1>7. CASE HandlerEnds(wk.obj, FALSE, "remove") /\ UNCHANGED <<pod, caches, gauges>>
  BY <1>2, <1>6, <1>7
<1>8. CASE HandlerEnds(wk.obj, TRUE, "remove") /\ UNCHANGED <<pod, caches, gauges>>
  BY <1>2, <1>6, <1>8
<1>9. CASE /\ ~wk.obj.deleting /\ wk.obj.paused /\ ~CleanupFails
           /\ Cleanup /\ HandlerEnds(stopped, FALSE, "remove")
  BY <1>5, <1>6, <1>9
<1>10. CASE HandlerEnds(waiting, waiting = wk.obj, "remove") /\ UNCHANGED <<pod, caches, gauges>>
  BY <1>4, <1>6, <1>10
<1>11. CASE /\ ~wk.obj.paused /\ NetworkOf[wk.p] \in caches
            /\ gauges' = gauges \cup {GaugeOf(wk.p)}
            /\ HandlerEnds(started, FALSE, "remove") /\ UNCHANGED <<pod, caches>>
  BY <1>3, <1>6, <1>11
<1> QED
  BY <1>7, <1>8, <1>9, <1>10, <1>11 DEF OnChange, started, waiting, stopped

\* A pool that is gone.
Gone == [NewPool EXCEPT !.life = "gone"]

\* OnRemove keeps the object, or takes the finalizer off after cleanup.
LEMMA RemoveEffect ==
  ASSUME TypeOK, wk.p \in Pools, OnRemove
  PROVE  \/ /\ \E obj : Kin(obj) /\ Ends(obj, "idle") /\ obj.ref = wk.obj.ref
            /\ ~wk.obj.deleting \/ CleanupFails
            /\ UNCHANGED <<pod, caches, gauges>>
         \/ /\ wk.obj.deleting /\ Ends(Gone, "idle")
            /\ \/ "noAgent" \in env /\ UNCHANGED <<pod, caches, gauges>>
               \/ ~CleanupFails /\ Cleanup
<1> DEFINE kept == [wk.obj EXCEPT !.final = TRUE]
<1>1. wk.obj \in Pool
  BY DEF TypeOK, WorkerStates
<1>2. NewPool \in Pool
  BY DEF NewPool, Pool, Cond, Refs, NoRef
<1>6. Gone \in Pool
  BY <1>2 DEF Gone, Pool
<1>3. Kin(kept) /\ kept.ref = wk.obj.ref /\ Kin(wk.obj)
  BY <1>1 DEF Kin, Pool
<1>4. CASE /\ HandlerEnds(kept, FALSE, "idle") \/ HandlerEnds(wk.obj, TRUE, "idle")
           /\ ~wk.obj.deleting \/ CleanupFails
           /\ UNCHANGED <<pod, caches, gauges>>
  <2> HIDE DEF kept
  <2> QED
    BY <1>3, <1>4, HandlerEffect DEF Kin
<1>5. CASE /\ wk.obj.deleting /\ HandlerEnds(Gone, FALSE, "idle")
           /\ \/ "noAgent" \in env /\ UNCHANGED <<pod, caches, gauges>>
              \/ ~CleanupFails /\ Cleanup
  BY <1>6, <1>5, HandlerEffect
<1> QED
  BY <1>4, <1>5 DEF OnRemove, Gone

-----------------------------------------------------------------------------
\* The other steps on pools and pods.

\* A write by someone else makes the worker's copy of that pool old.
LEMMA WrittenEffect ==
  ASSUME TypeOK, NEW p \in Pools, NEW new \in Pool, PoolWritten(p, new)
  PROVE  /\ pool' \in [Pools -> Pool] /\ queue' \subseteq Pools /\ wk' \in WorkerStates
         /\ wk'.pc = wk.pc /\ wk'.p = wk.p /\ wk'.obj = wk.obj /\ wk'.uid = wk.uid
         /\ wk'.fresh = (wk.fresh /\ wk.p # p)
         /\ pool'[p] = new /\ Copied
         /\ \A q \in Pools : q # p => pool'[q] = pool[q] /\ (q \in old' <=> q \in old)
<1>1. queue \subseteq Pools /\ wk \in WorkerStates
  BY DEF TypeOK
<1>2. /\ Stored(p, new) /\ queue' \subseteq queue \cup {p}
      /\ wk' = [wk EXCEPT !.fresh = @ /\ wk.p # p]
  BY DEF PoolWritten, Announced
<1>3. /\ wk' \in WorkerStates
      /\ wk'.pc = wk.pc /\ wk'.p = wk.p /\ wk'.obj = wk.obj /\ wk'.uid = wk.uid
      /\ wk'.fresh = (wk.fresh /\ wk.p # p)
  BY <1>1, <1>2 DEF WorkerStates
<1>4. queue' \subseteq Pools
  BY <1>1, <1>2
<1> QED
  BY <1>2, <1>3, <1>4, StoredEffect

\* The pools that users write.
LEMMA UserWrites ==
  ASSUME NEW o \in Pool
  PROVE  /\ NewPool \in Pool /\ [NewPool EXCEPT !.life = "there"] \in Pool
         /\ Gone \in Pool /\ [NewPool EXCEPT !.life = "gone"] \in Pool
         /\ [o EXCEPT !.paused = ~@] \in Pool /\ [o EXCEPT !.deleting = TRUE] \in Pool
<1>1. NewPool \in Pool
  BY DEF NewPool, Pool, Cond, Refs, NoRef
<1>2. [NewPool EXCEPT !.life = "there"] \in Pool /\ [NewPool EXCEPT !.life = "gone"] \in Pool
  BY <1>1 DEF Pool
<1>3. [o EXCEPT !.paused = ~@] \in Pool /\ [o EXCEPT !.deleting = TRUE] \in Pool
  BY DEF Pool
<1> QED
  BY <1>1, <1>2, <1>3 DEF Gone

\* Deleting a pod by name marks whichever pod has the name.
LEMMA DeletedEffect ==
  ASSUME TypeOK, NEW p \in Pools, PodDeleted(p)
  PROVE  /\ pod' \in [Pools -> Pod] /\ \A q \in Pools : q # p => pod'[q] = pod[q]
         /\ pod'[p].uid = pod[p].uid /\ pod'[p].image = pod[p].image
         /\ pod'[p].deleting = (pod[p].uid # 0)
<1>1. pod \in [Pools -> Pod] /\ pod[p] \in Pod
  BY DEF TypeOK
<1> DEFINE new == [pod[p] EXCEPT !.deleting = (pod[p].uid # 0)]
<1>2. pod' = [pod EXCEPT ![p] = new]
  BY DEF PodDeleted
<1>3. /\ new \in Pod /\ new.uid = pod[p].uid /\ new.image = pod[p].image
      /\ new.deleting = (pod[p].uid # 0)
  BY <1>1 DEF Pod
<1> HIDE DEF new
<1> QED
  BY <1>1, <1>2, <1>3

\* A step that at most starts to delete the pod of pool p.
PodStep(p) ==
  /\ pod'[p].uid = pod[p].uid /\ pod'[p].image = pod[p].image
  /\ pod[p].uid # 0 /\ pod[p].deleting => pod'[p].deleting

\* cleanup touches the pod of its pool, and removes caches and gauges.
LEMMA CleanupEffect ==
  ASSUME TypeOK, wk.p \in Pools, Cleanup
  PROVE  /\ pod' \in [Pools -> Pod] /\ \A q \in Pools : q # wk.p => pod'[q] = pod[q]
         /\ PodStep(wk.p) /\ caches' \subseteq caches /\ gauges' \subseteq gauges
         /\ ~wk.obj.ref.named => pod' = pod
         /\ wk.obj.ref.named => /\ pod'[wk.p].uid = 0 \/ pod'[wk.p].deleting
                                /\ NetworkOf[wk.p] \notin caches'
                                /\ SameName[wk.p] = NetworkOf[wk.p] => GaugeOf(wk.p) \notin gauges'
<1>1. CASE ~wk.obj.ref.named
  <2>1. UNCHANGED <<pod, caches, gauges>>
    BY <1>1 DEF Cleanup
  <2> QED
    BY <1>1, <2>1 DEF TypeOK, PodStep
<1>2. CASE wk.obj.ref.named
  <2>1. PodDeleted(wk.p) /\ caches' = caches \ {NetworkOf[wk.p]} /\ gauges' = WithoutGaugesOf(NetworkOf[wk.p])
    BY <1>2 DEF Cleanup
  <2>2. gauges' \subseteq gauges /\ (SameName[wk.p] = NetworkOf[wk.p] => GaugeOf(wk.p) \notin gauges')
    BY <2>1 DEF WithoutGaugesOf, GaugeOf
  <2>3. pod' \in [Pools -> Pod] /\ \A q \in Pools : q # wk.p => pod'[q] = pod[q]
    BY <2>1, DeletedEffect
  <2>4. /\ pod'[wk.p].uid = pod[wk.p].uid /\ pod'[wk.p].image = pod[wk.p].image
        /\ pod'[wk.p].deleting = (pod[wk.p].uid # 0)
    BY <2>1, DeletedEffect
  <2> QED
    BY <1>2, <2>1, <2>2, <2>3, <2>4 DEF PodStep
<1> QED
  BY <1>1, <1>2

-----------------------------------------------------------------------------
\* Types, in every environment. A vmnetcfg finds the pool of its network: labels are
\* never taken back.

Basics ==
  /\ TypeOK
  /\ Current /\ ("late" \notin env => old = {})
  /\ wk.pc = "idle" <=> wk.p = NoPool
  /\ \A n \in Networks : label[n] # NoPool => NetworkOf[label[n]] = n
  /\ \A c \in Cfgs : user[c].net # NoNetwork => label[user[c].net] # NoPool
  /\ \A c \in served : user[c].net # NoNetwork

\* What is known of a vmnetcfg.
Users == [net : Networks \cup {NoNetwork}, given : BOOLEAN, deleting : BOOLEAN]

\* The values of Init have their types.
LEMMA IdleTypes ==
  NoPod \in Pod /\ NewPool \in Pool /\ Idle \in WorkerStates /\ Idle.pc = "idle" /\ Idle.p = NoPool
<1>1. NewPool \in Pool
  BY DEF NewPool, Pool, Cond, Refs, NoRef
<1>2. NoPod \in Pod
  BY DEF NoPod, Pod
<1> QED
  BY <1>1, <1>2 DEF Idle, WorkerStates

\* Basics holds at first.
LEMMA BasicsInit == ASSUME Init PROVE Basics
<1> USE ConstantsAssumption DEF Init
<1>1. NoUser \in Users /\ NoUser.net = NoNetwork
  BY DEF NoUser, Users
<1>2. /\ label \in [Networks -> Pools \cup {NoPool}] /\ pool \in [Pools -> Pool]
      /\ user \in [Cfgs -> Users] /\ pod \in [Pools -> Pod] /\ seen \in [Pools -> Pod]
      /\ inf = pool /\ old = {}
  BY <1>1, IdleTypes
<1>3. evicted \in 0 .. MaxEvictions /\ image \in 1 .. 2 /\ late \in 0 .. MaxLate
  OBVIOUS
<1>4. TypeOK
  BY <1>2, <1>3, IdleTypes DEF TypeOK, Users
<1> QED
  BY <1>1, <1>2, <1>4, IdleTypes DEF Basics, Current

\* A worker that is not idle has a pool.
LEMMA Worked == ASSUME Basics, wk.pc # "idle" PROVE wk.p \in Pools
BY DEF Basics, TypeOK, WorkerStates

\* The pool that a vmnetcfg finds has the network of the vmnetcfg.
LEMMA PoolFound ==
  ASSUME Basics, NEW c \in Cfgs, user[c].net \in caches
  PROVE  PoolOf(c) \in Pools /\ NetworkOf[PoolOf(c)] = user[c].net
BY ConstantsAssumption DEF Basics, TypeOK, PoolOf

\* The copies stay in step with the pools.
LEMMA CopiesKept ==
  ASSUME Basics, UNCHANGED <<env, late>>, Copied
  PROVE  /\ inf' \in [Pools -> Pool] /\ old' \subseteq Pools /\ late' \in 0 .. MaxLate
         /\ Current' /\ ("late" \notin env => old' = {})
BY DEF Basics, TypeOK, Copied

\* The vmnetcfgs keep Basics.
LEMMA BasicsUsers ==
  ASSUME Basics, UNCHANGED env, NEW c \in Cfgs, CfgNext(c)
  PROVE  Basics'
<1>1. user \in [Cfgs -> Users] /\ user[c] \in Users /\ FormerUser \in Users /\ FormerUser.net = NoNetwork
  BY DEF Basics, TypeOK, Users, FormerUser
<1>2. ASSUME NEW n \in Networks, CreateCfg(c, n) PROVE Basics'
  <2> DEFINE new == [NoUser EXCEPT !.net = n]
  <2>1. new \in Users /\ new.net = n
    BY DEF NoUser, Users
  <2>2. /\ user' = [user EXCEPT ![c] = new] /\ label[n] # NoPool
        /\ UNCHANGED <<label, pool, inf, old, late, pod, seen, evicted, image, caches, gauges, served, queue, wk>>
    BY <1>2 DEF CreateCfg, memory, stored
  <2> HIDE DEF new
  <2>3. user' \in [Cfgs -> Users] /\ \A d \in Cfgs : user'[d].net = (IF d = c THEN n ELSE user[d].net)
    BY <1>1, <2>1, <2>2
  <2> QED
    BY <2>2, <2>3, ConstantsAssumption DEF Basics, TypeOK, Users, Current
<1>3. CASE DeleteCfg(c)
  <2> DEFINE new == [user[c] EXCEPT !.deleting = TRUE]
  <2>1. new \in Users /\ new.net = user[c].net
    BY <1>1 DEF Users
  <2>2. /\ user' = [user EXCEPT ![c] = new]
        /\ UNCHANGED <<label, pool, inf, old, late, pod, seen, evicted, image, caches, gauges, served, queue, wk>>
    BY <1>3 DEF DeleteCfg, memory, stored
  <2> HIDE DEF new
  <2>3. user' \in [Cfgs -> Users] /\ \A d \in Cfgs : user'[d].net = user[d].net
    BY <1>1, <2>1, <2>2
  <2> QED
    BY <2>2, <2>3 DEF Basics, TypeOK, Users, Current
<1>4. CASE Allocate(c)
  <2> DEFINE new == [user[c] EXCEPT !.given = TRUE]
  <2>1. new \in Users /\ new.net = user[c].net
    BY <1>1 DEF Users
  <2>2. /\ user' \in {user, [user EXCEPT ![c] = new]} /\ served' = served \cup {c} /\ user[c].net \in caches
        /\ \/ PoolWritten(PoolOf(c), pool[PoolOf(c)])
           \/ UNCHANGED <<stored, queue, wk>>
        /\ UNCHANGED <<label, late, pod, seen, evicted, image, caches, gauges>>
    BY <1>4 DEF Allocate, UpdateVmNetCfgStatus
  <2> HIDE DEF new
  <2>3. user' \in [Cfgs -> Users] /\ \A d \in Cfgs : user'[d].net = user[d].net
    BY <1>1, <2>1, <2>2
  <2>4. PoolOf(c) \in Pools /\ pool[PoolOf(c)] \in Pool /\ user[c].net # NoNetwork
    BY <2>2, PoolFound, ConstantsAssumption DEF Basics, TypeOK
  <2>5. /\ pool' \in [Pools -> Pool] /\ queue' \subseteq Pools /\ wk' \in WorkerStates
        /\ wk'.pc = wk.pc /\ wk'.p = wk.p /\ Copied
    <3>1. CASE PoolWritten(PoolOf(c), pool[PoolOf(c)])
      BY <2>4, <3>1, WrittenEffect DEF Basics
    <3>2. CASE UNCHANGED <<stored, queue, wk>>
      BY <3>2, NothingStored DEF Basics, TypeOK
    <3> QED
      BY <2>2, <3>1, <3>2
  <2>6. /\ inf' \in [Pools -> Pool] /\ old' \subseteq Pools /\ late' \in 0 .. MaxLate
        /\ Current' /\ ("late" \notin env => old' = {})
    BY <2>2, <2>5, CopiesKept
  <2> QED
    BY <2>2, <2>3, <2>4, <2>5, <2>6 DEF Basics, TypeOK, Users
<1>5. CASE RemoveCfg(c)
  <2>1. /\ served' = served \ {c} /\ user' \in {user, [user EXCEPT ![c] = FormerUser]}
        /\ \/ user[c].net \in caches /\ PoolWritten(PoolOf(c), pool[PoolOf(c)])
           \/ UNCHANGED <<stored, queue, wk>>
        /\ UNCHANGED <<label, late, pod, seen, evicted, image, caches, gauges>>
    BY <1>5 DEF RemoveCfg, DeleteVmNetCfgStatus
  <2>2. user' \in [Cfgs -> Users] /\ \A d \in Cfgs : user'[d].net \in {NoNetwork, user[d].net}
    BY <1>1, <2>1
  <2>3. \A d \in served' : user'[d].net = user[d].net
    BY <1>1, <2>1 DEF Basics, TypeOK
  <2>4. /\ pool' \in [Pools -> Pool] /\ queue' \subseteq Pools /\ wk' \in WorkerStates
        /\ wk'.pc = wk.pc /\ wk'.p = wk.p /\ Copied
    <3>1. CASE user[c].net \in caches /\ PoolWritten(PoolOf(c), pool[PoolOf(c)])
      <4>1. PoolOf(c) \in Pools /\ pool[PoolOf(c)] \in Pool
        BY <3>1, PoolFound DEF Basics, TypeOK
      <4> QED
        BY <3>1, <4>1, WrittenEffect DEF Basics
    <3>2. CASE UNCHANGED <<stored, queue, wk>>
      BY <3>2, NothingStored DEF Basics, TypeOK
    <3> QED
      BY <2>1, <3>1, <3>2
  <2>5. /\ inf' \in [Pools -> Pool] /\ old' \subseteq Pools /\ late' \in 0 .. MaxLate
        /\ Current' /\ ("late" \notin env => old' = {})
    BY <2>1, <2>4, CopiesKept
  <2> QED
    BY <2>1, <2>2, <2>3, <2>4, <2>5 DEF Basics, TypeOK, Users
<1> QED
  BY <1>2, <1>3, <1>4, <1>5 DEF CfgNext

\* Users, pods and the informers keep Basics.
LEMMA BasicsPools ==
  ASSUME Basics, UNCHANGED env, NEW p \in Pools, PoolNext(p)
  PROVE  Basics'
<1>1. pool[p] \in Pool /\ inf[p] \in Pool /\ pod[p] \in Pod /\ seen[p] \in Pod
  BY DEF Basics, TypeOK
<1>2. ASSUME NEW new \in Pool, PoolWritten(p, new),
             UNCHANGED <<label, late, user, pod, seen, evicted, image, memory>>
      PROVE  Basics'
  <2>1. /\ pool' \in [Pools -> Pool] /\ queue' \subseteq Pools /\ wk' \in WorkerStates
        /\ wk'.pc = wk.pc /\ wk'.p = wk.p /\ Copied
    BY <1>2, WrittenEffect DEF Basics
  <2>2. /\ inf' \in [Pools -> Pool] /\ old' \subseteq Pools /\ late' \in 0 .. MaxLate
        /\ Current' /\ ("late" \notin env => old' = {})
    BY <1>2, <2>1, CopiesKept
  <2> QED
    BY <1>2, <2>1, <2>2 DEF Basics, TypeOK, memory
<1>3. CASE CreatePool(p)
  BY <1>1, <1>2, <1>3, UserWrites DEF CreatePool
<1>4. CASE PausePool(p)
  BY <1>1, <1>2, <1>4, UserWrites DEF PausePool
<1>5. CASE DeletePool(p)
  <2>1. (IF pool[p].final THEN [pool[p] EXCEPT !.deleting = TRUE] ELSE [NewPool EXCEPT !.life = "gone"]) \in Pool
    BY <1>1, UserWrites
  <2> QED
    BY <1>2, <1>5, <2>1 DEF DeletePool
<1>6. CASE Start(p)
  <2>1. /\ queue' = queue \ {p}
        /\ UNCHANGED <<label, pool, inf, old, user, pod, seen, evicted, image, caches, gauges, served>>
    BY <1>6 DEF Start, memory, stored
  <2>2. wk' \in {[pc |-> "deploy", p |-> p, obj |-> inf[p], fresh |-> p \notin old, uid |-> 0], Idle}
    BY <1>6 DEF Start
  <2>4. late' \in 0 .. MaxLate
    <3>1. late \in 0 .. MaxLate /\ MaxLate \in Nat
      BY ConstantsAssumption DEF Basics, TypeOK
    <3>2. late' = late \/ (late < MaxLate /\ late' = late + 1)
      BY <1>6 DEF Start
    <3> QED
      BY <3>1, <3>2
  <2>3. wk' \in WorkerStates /\ (wk'.pc = "idle" <=> wk'.p = NoPool)
    <3>1. CASE wk' = [pc |-> "deploy", p |-> p, obj |-> inf[p], fresh |-> p \notin old, uid |-> 0]
      BY <1>1, <3>1, ConstantsAssumption DEF WorkerStates
    <3>2. CASE wk' = Idle
      BY <3>2, IdleTypes
    <3> QED
      BY <2>2, <3>1, <3>2
  <2> QED
    BY <2>1, <2>3, <2>4 DEF Basics, TypeOK, Current
<1>12. CASE PoolSeen(p)
  <2>1. /\ inf' = [inf EXCEPT ![p] = pool[p]] /\ old' = old \ {p} /\ queue' = queue \cup {p} /\ p \in old
        /\ UNCHANGED <<label, pool, late, user, pod, seen, evicted, image, caches, gauges, served, wk>>
    BY <1>12 DEF PoolSeen, memory
  <2>2. inf' \in [Pools -> Pool] /\ old' \subseteq Pools /\ Current' /\ queue' \subseteq Pools
    BY <1>1, <2>1 DEF Basics, TypeOK, Current
  <2> QED
    BY <2>1, <2>2 DEF Basics, TypeOK
<1>7. ASSUME pod' \in [Pools -> Pod] /\ evicted' \in 0 .. MaxEvictions,
             UNCHANGED <<label, stored, late, user, seen, image, memory, queue, wk>>
      PROVE  Basics'
  BY <1>7 DEF Basics, TypeOK, memory, stored, Current
<1>8. CASE PodReady(p)
  <2> DEFINE new == [pod[p] EXCEPT !.ready = TRUE]
  <2>1. new \in Pod
    BY <1>1 DEF Pod
  <2>2. pod' = [pod EXCEPT ![p] = new]
    BY <1>8 DEF PodReady
  <2> HIDE DEF new
  <2>3. pod' \in [Pools -> Pod]
    BY <2>1, <2>2 DEF Basics, TypeOK
  <2> QED
    BY <1>7, <1>8, <2>3 DEF PodReady, Basics, TypeOK
<1>9. CASE Evict(p)
  <2>1. pod' \in [Pools -> Pod]
    BY <1>9, DeletedEffect DEF Evict, Basics
  <2>2. evicted \in 0 .. MaxEvictions /\ MaxEvictions \in Nat /\ evicted < MaxEvictions /\ evicted' = evicted + 1
    BY <1>9, ConstantsAssumption DEF Evict, Basics, TypeOK
  <2>3. evicted' \in 0 .. MaxEvictions
    BY <2>2
  <2> QED
    BY <1>7, <1>9, <2>1, <2>3 DEF Evict
<1>10. CASE PodGone(p)
  <2>1. pod' \in [Pools -> Pod] /\ evicted' \in 0 .. MaxEvictions
    BY <1>10, IdleTypes DEF PodGone, Basics, TypeOK
  <2> QED
    BY <1>7, <1>10, <2>1 DEF PodGone
<1>11. CASE PodSeen(p)
  <2>1. [seen[p] EXCEPT !.deleting = TRUE] \in Pod
    BY <1>1 DEF Pod
  <2>2. NextSeen(p) \in Pod
    BY <1>1, <2>1, IdleTypes DEF NextSeen
  <2>3. seen' \in [Pools -> Pod] /\ queue' \subseteq Pools
    BY <1>11, <2>2 DEF PodSeen, Basics, TypeOK
  <2> QED
    BY <1>11, <2>3 DEF PodSeen, Basics, TypeOK, memory, stored, Current
<1> QED
  BY <1>3, <1>4, <1>5, <1>6, <1>8, <1>9, <1>10, <1>11, <1>12 DEF PoolNext

\* The handlers keep Basics.
LEMMA BasicsWorker ==
  ASSUME Basics, UNCHANGED env, Worker
  PROVE  Basics'
<1>1. wk.pc # "idle"
  BY DEF Worker, DeployAgent, SaveAgentRef, BuildCache, MonitorAgent, OnChange, OnRemove
<1>2. wk.p \in Pools /\ NetworkOf[wk.p] \in Networks /\ TypeOK /\ late' = late
  BY <1>1, Worked, ConstantsAssumption
     DEF Basics, Worker, DeployAgent, SaveAgentRef, BuildCache, MonitorAgent, OnChange, OnRemove
<1>3. ASSUME NEW obj, NEW next \in {"idle", "build", "monitor", "change", "remove"}, Ends(obj, next),
             pod' \in [Pools -> Pod], caches' \subseteq Networks, gauges' \subseteq Pools \X Networks,
             label' \in {label, [label EXCEPT ![NetworkOf[wk.p]] = wk.p]},
             UNCHANGED <<user, seen, evicted, image, served>>
      PROVE  Basics'
  <2>1. /\ label' \in [Networks -> Pools \cup {NoPool}]
        /\ \A n \in Networks : label'[n] # NoPool => NetworkOf[label'[n]] = n
        /\ \A n \in Networks : label[n] # NoPool => label'[n] # NoPool
    <3>1. /\ label \in [Networks -> Pools \cup {NoPool}]
          /\ \A n \in Networks : label[n] # NoPool => NetworkOf[label[n]] = n
      BY DEF Basics, TypeOK
    <3>2. CASE label' = label
      BY <3>1, <3>2
    <3>3. CASE label' = [label EXCEPT ![NetworkOf[wk.p]] = wk.p]
      <4>1. wk.p # NoPool
        BY <1>2, ConstantsAssumption
      <4> QED
        BY <1>2, <3>1, <3>3, <4>1
    <3> QED
      BY <1>3, <3>2, <3>3
  <2>2. /\ pool' \in [Pools -> Pool] /\ queue' \subseteq Pools /\ wk' \in WorkerStates
        /\ wk'.pc = "idle" <=> wk'.p = NoPool
    BY <1>2, <1>3, ConstantsAssumption DEF Ends
  <2>3. /\ inf' \in [Pools -> Pool] /\ old' \subseteq Pools /\ late' \in 0 .. MaxLate
        /\ Current' /\ ("late" \notin env => old' = {})
    BY <1>2, <1>3, CopiesKept DEF Ends
  <2> QED
    BY <1>3, <2>1, <2>2, <2>3 DEF Basics, TypeOK
<1>4. /\ pod \in [Pools -> Pod] /\ caches \subseteq Networks /\ gauges \subseteq Pools \X Networks
  BY DEF Basics, TypeOK
<1>5. CASE DeployAgent
  <2>1. UNCHANGED <<label, user, seen, evicted, image, caches, gauges, served>>
    BY <1>5 DEF DeployAgent, memory
  <2>2. ASSUME NEW uid, Created(wk.p, uid) PROVE Basics'
    <3> DEFINE new == [uid |-> uid, image |-> image, deleting |-> FALSE, ready |-> FALSE]
    <3>1. new \in Pod
      BY <1>2, <2>2 DEF Created, TypeOK, Pod
    <3>2. /\ pod' = [pod EXCEPT ![wk.p] = new] /\ wk' = [wk EXCEPT !.pc = "deployed", !.uid = uid]
          /\ pool' = pool /\ inf' = inf /\ old' = old /\ queue' = queue /\ uid \in Uids
      BY <2>2 DEF Created
    <3> HIDE DEF new
    <3>3. pod' \in [Pools -> Pod]
      BY <1>4, <3>1, <3>2
    <3>4. wk' \in WorkerStates /\ wk'.pc # "idle" /\ wk'.p = wk.p
      BY <1>2, <3>2 DEF TypeOK, WorkerStates
    <3> QED
      BY <1>1, <1>2, <2>1, <3>2, <3>3, <3>4 DEF Basics, TypeOK, Current
  <2>3. ASSUME NEW obj, Ends(obj, "build"), pod' = pod PROVE Basics'
    BY <1>3, <1>4, <2>1, <2>3
  <2> QED
    BY <1>2, <1>5, <2>2, <2>3, DeployEffect
<1>6. CASE SaveAgentRef
  <2>1. UNCHANGED <<label, user, pod, seen, evicted, image, caches, gauges, served>>
    BY <1>6 DEF SaveAgentRef, memory
  <2>2. PICK obj : Ends(obj, "build")
    BY <1>2, <1>6, SaveEffect
  <2> QED
    BY <1>3, <1>4, <2>1, <2>2
<1>7. CASE BuildCache
  <2>1. UNCHANGED <<label, user, pod, seen, evicted, image, gauges, served>> /\ caches' \subseteq Networks
    BY <1>2, <1>4, <1>7 DEF BuildCache
  <2>2. PICK obj : Ends(obj, "monitor")
    BY <1>2, <1>7, BuildEffect
  <2> QED
    BY <1>3, <1>4, <2>1, <2>2
<1>8. CASE MonitorAgent
  <2>1. UNCHANGED <<label, user, seen, evicted, image, caches, gauges, served>>
    BY <1>8 DEF MonitorAgent, memory
  <2>2. PICK obj : Ends(obj, "change")
    BY <1>2, <1>8, MonitorEffect
  <2>3. pod' \in [Pools -> Pod]
    BY <1>2, <1>4, <1>8, MonitorEffect, DeletedEffect
  <2> QED
    BY <1>3, <1>4, <2>1, <2>2, <2>3
<1>9. CASE OnChange
  <2>1. /\ UNCHANGED <<user, seen, evicted, image, served>>
        /\ label' \in {label, [label EXCEPT ![NetworkOf[wk.p]] = wk.p]}
    BY <1>9 DEF OnChange
  <2>2. PICK obj : Ends(obj, "remove")
    BY <1>2, <1>9, ChangeEffect
  <2>3. GaugeOf(wk.p) \in Pools \X Networks
    BY <1>2 DEF GaugeOf
  <2>4. pod' \in [Pools -> Pod] /\ caches' \subseteq Networks /\ gauges' \subseteq Pools \X Networks
    <3>1. \/ UNCHANGED <<pod, caches, gauges>> \/ Cleanup
          \/ UNCHANGED <<pod, caches>> /\ gauges' = gauges \cup {GaugeOf(wk.p)}
      BY <1>2, <1>9, ChangeEffect
    <3> QED
      BY <1>2, <1>4, <2>3, <3>1, CleanupEffect
  <2> QED
    BY <1>3, <2>1, <2>2, <2>4
<1>10. CASE OnRemove
  <2>1. UNCHANGED <<label, user, seen, evicted, image, served>>
    BY <1>10 DEF OnRemove
  <2>2. PICK obj : Ends(obj, "idle")
    BY <1>2, <1>10, RemoveEffect
  <2>3. pod' \in [Pools -> Pod] /\ caches' \subseteq Networks /\ gauges' \subseteq Pools \X Networks
    <3>1. UNCHANGED <<pod, caches, gauges>> \/ Cleanup
      BY <1>2, <1>10, RemoveEffect
    <3> QED
      BY <1>2, <1>4, <3>1, CleanupEffect
  <2> QED
    BY <1>3, <2>1, <2>2, <2>3
<1> QED
  BY <1>5, <1>6, <1>7, <1>8, <1>9, <1>10 DEF Worker

\* Every step keeps Basics.
LEMMA BasicsKept == ASSUME Basics, [Next]_vars PROVE Basics'
<1>1. CASE Upgrade /\ UNCHANGED env
  <2>1. /\ caches' = {} /\ gauges' = {} /\ served' = {} /\ queue' = Pools /\ wk' = Idle
        /\ seen' = pod /\ image' = 2 /\ inf' = pool /\ old' = {}
        /\ UNCHANGED <<env, label, pool, late, user, pod, evicted>>
    BY <1>1 DEF Upgrade
  <2> QED
    BY <2>1, IdleTypes DEF Basics, TypeOK, Current
<1>2. CASE UNCHANGED vars
  BY <1>2 DEF Basics, TypeOK, vars, state, memory, stored, Current
<1> QED
  BY <1>1, <1>2, BasicsUsers, BasicsPools, BasicsWorker DEF Next

\* The controller, the pods and the users keep their types in every environment:
\* whoever writes a pool writes a pool, and a UID can be found for each new agent.
THEOREM LifeTypes == Spec => []TypeOK
<1>1. Init => Basics
  BY BasicsInit
<1>2. Basics /\ [Next]_vars => Basics'
  BY BasicsKept
<1>3. Basics => TypeOK
  BY DEF Basics
<1> QED
  BY <1>1, <1>2, <1>3, PTL DEF Spec

-----------------------------------------------------------------------------
\* Where users, restarts and the informer are orderly: a pool without a reference to
\* its agent has nothing that cleanup would have to take away.

\* Every pool has the namespace and name of its network: cleanup takes the gauges of
\* the pool of that name.
Aligned == \A p \in Pools : SameName[p] = NetworkOf[p]

\* The worker is at one of the handlers "pcs" of pool p.
At(p, pcs) == wk.p = p /\ wk.pc \in pcs

\* The worker's copy: users wait, so that it can only be behind by a status.
CopyKept ==
  wk.pc # "idle" =>
    /\ There(wk.p) /\ wk.obj.life = "there"
    /\ wk.obj.paused = pool[wk.p].paused /\ wk.obj.deleting = pool[wk.p].deleting
    /\ wk.fresh \/ wk.pc \in {"deploy", "deployed"} => wk.obj = pool[wk.p]
    /\ wk.obj.ref.set = wk.obj.ref.named
    /\ wk.pc = "deployed" => ~wk.obj.paused

\* A reference that is set is complete, and only a pool that is there has one.
RefsKept ==
  \A p \in Pools :
    /\ pool[p].ref.set = pool[p].ref.named
    /\ ~There(p) => ~pool[p].ref.named /\ ~pool[p].paused

\* A pool without reference: either it is paused or its agent is yet to be created.
\* Its network has no caches, so that nobody else writes its status.
Unnamed(p) ==
  ~pool[p].ref.named =>
    /\ NetworkOf[p] \notin caches /\ GaugeOf(p) \notin gauges
    /\ At(p, {"deployed"}) \/ NoAgentLeft(p)
    /\ At(p, {"deployed"}) \/ pool[p].life = "gone" \/ pool[p].paused \/ pod[p].uid = 0
    /\ wk.p = p => wk.fresh
    /\ At(p, {"build", "monitor", "change", "remove"}) => pool[p].paused

\* The inductive invariant where users, restarts and the informer are orderly.
Order == CopyKept /\ RefsKept /\ \A p \in Pools : Unnamed(p)

\* Pools that are named like their networks have different networks.
LEMMA OwnNetworks ==
  ASSUME Aligned, NEW p \in Pools, NEW q \in Pools, p # q
  PROVE  NetworkOf[p] # NetworkOf[q]
BY ConstantsAssumption DEF Aligned

\* The worker leaves the pools it does not work on alone.
LEMMA OthersKept ==
  ASSUME Basics, Aligned, Worker, NEW q \in Pools, q # wk.p
  PROVE  /\ pool'[q] = pool[q] /\ pod'[q] = pod[q] /\ seen' = seen /\ image' = image
         /\ NetworkOf[q] \in caches' => NetworkOf[q] \in caches
         /\ GaugeOf(q) \in gauges' => GaugeOf(q) \in gauges
         /\ wk'.p # q /\ (q \in old' <=> q \in old) /\ ("late" \in env => inf' = inf)
<1>1. wk.pc # "idle" /\ seen' = seen /\ image' = image
  BY DEF Worker, DeployAgent, SaveAgentRef, BuildCache, MonitorAgent, OnChange, OnRemove
<1>2. wk.p \in Pools /\ TypeOK /\ NetworkOf[wk.p] # NetworkOf[q]
  BY <1>1, Worked, OwnNetworks DEF Basics
<1>3. \A obj, next :
        Ends(obj, next) => /\ pool'[q] = pool[q] /\ wk'.p # q
                           /\ (q \in old' <=> q \in old) /\ ("late" \in env => inf' = inf)
  BY <1>2, ConstantsAssumption DEF Ends, Copied
<1>4. CASE DeployAgent
  <2>1. caches' = caches /\ gauges' = gauges
    BY <1>4 DEF DeployAgent, memory
  <2>2. ASSUME NEW uid, Created(wk.p, uid)
        PROVE  pool'[q] = pool[q] /\ pod'[q] = pod[q] /\ wk'.p # q /\ inf' = inf /\ old' = old
    BY <1>2, <2>2 DEF Created, TypeOK, WorkerStates
  <2> QED
    BY <1>1, <1>2, <1>3, <1>4, <2>1, <2>2, DeployEffect
<1>5. CASE SaveAgentRef
  BY <1>1, <1>2, <1>3, <1>5, SaveEffect DEF SaveAgentRef, memory
<1>6. CASE BuildCache
  <2>1. pod' = pod /\ gauges' = gauges /\ caches' \subseteq caches \cup {NetworkOf[wk.p]}
    BY <1>6 DEF BuildCache
  <2> QED
    BY <1>1, <1>2, <1>3, <1>6, <2>1, BuildEffect
<1>7. CASE MonitorAgent
  <2>1. caches' = caches /\ gauges' = gauges
    BY <1>7 DEF MonitorAgent, memory
  <2>2. pod'[q] = pod[q]
    BY <1>2, <1>7, MonitorEffect, DeletedEffect
  <2> QED
    BY <1>1, <1>2, <1>3, <1>7, <2>1, <2>2, MonitorEffect
<1>8. CASE OnChange
  <2>1. \/ UNCHANGED <<pod, caches, gauges>> \/ Cleanup
        \/ UNCHANGED <<pod, caches>> /\ gauges' = gauges \cup {GaugeOf(wk.p)}
    BY <1>2, <1>8, ChangeEffect
  <2>2. GaugeOf(q) # GaugeOf(wk.p)
    BY <1>2 DEF GaugeOf
  <2>3. /\ pod'[q] = pod[q] /\ caches' \subseteq caches
        /\ GaugeOf(q) \in gauges' => GaugeOf(q) \in gauges
    BY <1>2, <2>1, <2>2, CleanupEffect
  <2> QED
    BY <1>1, <1>2, <1>3, <1>8, <2>3, ChangeEffect
<1>9. CASE OnRemove
  <2>1. UNCHANGED <<pod, caches, gauges>> \/ Cleanup
    BY <1>2, <1>9, RemoveEffect
  <2>2. pod'[q] = pod[q] /\ caches' \subseteq caches /\ gauges' \subseteq gauges
    BY <1>2, <2>1, CleanupEffect
  <2> QED
    BY <1>1, <1>2, <1>3, <1>9, <2>2, RemoveEffect
<1> QED
  BY <1>4, <1>5, <1>6, <1>7, <1>8, <1>9 DEF Worker

\* A handler keeps Unnamed for the pools it does not work on.
LEMMA OthersUnnamed ==
  ASSUME Basics, Aligned, Worker, NEW q \in Pools, q # wk.p, Unnamed(q)
  PROVE  Unnamed(q)'
<1>1. /\ pool'[q] = pool[q] /\ pod'[q] = pod[q] /\ wk'.p # q
      /\ NetworkOf[q] \in caches' => NetworkOf[q] \in caches
      /\ GaugeOf(q) \in gauges' => GaugeOf(q) \in gauges
  BY OthersKept
<1> QED
  BY <1>1 DEF Unnamed, At, NoAgentLeft

\* What an ended handler leaves of the pool it worked on.
LEMMA HandlerCopy ==
  ASSUME Basics, CopyKept, wk.pc # "idle", NEW obj, Kin(obj), obj.ref.set = obj.ref.named,
         NEW next \in {"idle", "build", "monitor", "change", "remove"}, Ends(obj, next)
  PROVE  /\ CopyKept'
         /\ pool'[wk.p].life = "there" /\ pool'[wk.p].paused = pool[wk.p].paused
         /\ wk.fresh => pool'[wk.p] = obj
         /\ ~wk.fresh => pool'[wk.p] = pool[wk.p]
<1>1. wk.p \in Pools /\ NoPool # wk.p
  BY Worked, ConstantsAssumption
<1>2. /\ wk.fresh => pool'[wk.p] = obj
      /\ ~wk.fresh => pool'[wk.p] = pool[wk.p]
  BY DEF Ends, CopyKept
<1>3. /\ pool'[wk.p].life = "there" /\ pool'[wk.p].paused = pool[wk.p].paused
      /\ pool'[wk.p].deleting = pool[wk.p].deleting
  BY <1>2 DEF Kin, CopyKept, There
<1>4. CASE next = "idle"
  BY <1>2, <1>3, <1>4 DEF Ends, CopyKept
<1>5. CASE next # "idle"
  <2>1. wk'.pc = next /\ wk'.p = wk.p /\ wk'.obj = obj /\ wk'.fresh = wk.fresh
    BY <1>5 DEF Ends
  <2>2. obj.life = "there" /\ obj.paused = pool'[wk.p].paused /\ obj.deleting = pool'[wk.p].deleting
    BY <1>3 DEF Kin, CopyKept
  <2>3. wk'.pc \notin {"deploy", "deployed"}
    BY <2>1
  <2>4. CopyKept'
    BY <1>2, <1>3, <2>1, <2>2, <2>3 DEF CopyKept, There
  <2> QED
    BY <1>2, <1>3, <2>4
<1> QED
  BY <1>4, <1>5

\* An ended handler keeps Order if it keeps Unnamed for its own pool.
LEMMA HandlerOrder ==
  ASSUME NEW p \in Pools, wk.p = p, Basics, Aligned, Order, Worker,
         NEW obj, Kin(obj), obj.ref.set = obj.ref.named,
         NEW next \in {"idle", "build", "monitor", "change", "remove"}, Ends(obj, next), Unnamed(p)'
  PROVE  Order'
<1>1. wk.pc # "idle"
  BY DEF Worker, DeployAgent, SaveAgentRef, BuildCache, MonitorAgent, OnChange, OnRemove
<1>2. CopyKept /\ RefsKept /\ \A q \in Pools : Unnamed(q)
  BY DEF Order
<1>3. /\ CopyKept' /\ pool'[wk.p].life = "there"
      /\ pool'[wk.p].ref \in {obj.ref, pool[wk.p].ref}
  BY <1>1, <1>2, HandlerCopy
<1>4. \A q \in Pools : q # p => pool'[q] = pool[q]
  BY DEF Ends
<1>5. RefsKept'
  BY <1>2, <1>3, <1>4 DEF RefsKept, There
<1>6. \A q \in Pools : Unnamed(q)'
  BY <1>2, OthersUnnamed
<1> QED
  BY <1>3, <1>5, <1>6 DEF Order

\* A handler that keeps the reference, and leaves pod, caches and gauges alone or has
\* a pool that is not paused.
LEMMA RefKeptOrder ==
  ASSUME NEW p \in Pools, wk.p = p, Basics, Aligned, Order, Worker, NEW obj, Kin(obj), obj.ref = wk.obj.ref,
         NEW next \in {"idle", "monitor", "change", "remove"}, Ends(obj, next),
         wk.pc \in {"build", "monitor", "change", "remove"},
         \/ UNCHANGED <<pod, caches, gauges>>
         \/ ~wk.obj.paused
  PROVE  Order'
<1>1. p \in Pools /\ wk.pc # "idle"
  BY Worked
<1>2. CopyKept /\ Unnamed(p)
  BY <1>1 DEF Order
<1>3. obj.ref.set = obj.ref.named
  BY <1>1, <1>2 DEF CopyKept
<1>4. /\ pool'[p].life = "there" /\ pool'[p].paused = pool[p].paused
      /\ wk.fresh => pool'[p] = obj
      /\ ~wk.fresh => pool'[p] = pool[p]
  BY <1>1, <1>2, <1>3, HandlerCopy
<1>5. /\ wk.obj.paused = pool[p].paused /\ pool'[p].ref = pool[p].ref
  BY <1>1, <1>2, <1>4 DEF CopyKept
<1>6. wk'.pc = next /\ (wk'.p = p => wk'.fresh = wk.fresh)
  BY <1>1, ConstantsAssumption DEF Ends
<1>7. ~pool[p].ref.named => pool[p].paused /\ UNCHANGED <<pod, caches, gauges>> /\ wk.fresh
  BY <1>2, <1>5 DEF Unnamed, At
<1>8. Unnamed(p)'
  <2>1. ~At(p, {"deployed"})
    BY DEF At
  <2> QED
    BY <1>2, <1>4, <1>5, <1>6, <1>7, <2>1 DEF Unnamed, At, NoAgentLeft
<1> QED
  BY <1>3, <1>8, HandlerOrder

\* DeployAgent keeps Order: the pod it creates is excused until the reference is saved.
LEMMA OrderDeploy ==
  ASSUME NEW p \in Pools, wk.p = p, Basics, Aligned, Orderly, Order, DeployAgent
  PROVE  Order'
<1>1. wk.pc = "deploy" /\ p \in Pools /\ TypeOK /\ Worker /\ caches' = caches /\ gauges' = gauges
  BY Worked DEF DeployAgent, Worker, Basics, memory
<1>2. CopyKept /\ RefsKept /\ Unnamed(p) /\ wk.obj = pool[p]
  BY <1>1 DEF Order, CopyKept
<1>3. ~pool[p].ref.named =>
        /\ ~Found /\ wk.fresh /\ NoAgentLeft(p) /\ (pool[p].paused \/ pod[p].uid = 0)
        /\ NetworkOf[p] \notin caches /\ GaugeOf(p) \notin gauges
  BY <1>1, <1>2 DEF Unnamed, At, Found, CopyKept, There
<1>4. ASSUME NEW obj, Kin(obj), Ends(obj, "build"), Deployed(obj.ref), pod' = pod
      PROVE  Order'
  <2>1. wk.obj.ref \in Refs
    BY <1>1 DEF TypeOK, WorkerStates, Pool
  <2>2. obj.ref.named = wk.obj.ref.named /\ (obj.ref.set = wk.obj.ref.set \/ obj.ref.set)
    BY <1>4, <2>1 DEF Deployed, Refs
  <2>3. ~pool[p].ref.named => obj.ref = wk.obj.ref /\ pool[p].paused
    BY <1>2, <1>3, <1>4 DEF Deployed, Orderly
  <2>4. obj.ref.set = obj.ref.named
    BY <1>1, <1>2, <2>1, <2>2, <2>3 DEF CopyKept, Refs
  <2>5. /\ pool'[p].life = "there" /\ pool'[p].paused = pool[p].paused
        /\ wk.fresh => pool'[p] = obj
        /\ ~wk.fresh => pool'[p] = pool[p]
    BY <1>1, <1>2, <1>4, <2>4, HandlerCopy
  <2>6. wk'.pc = "build" /\ wk'.p = p /\ wk'.fresh = wk.fresh
    BY <1>4 DEF Ends
  <2>7. pool'[p].ref.named = pool[p].ref.named
    BY <1>2, <2>2, <2>5
  <2>8. Unnamed(p)'
    <3> QED
      BY <1>1, <1>3, <1>4, <2>3, <2>5, <2>6, <2>7 DEF Unnamed, At, NoAgentLeft
  <2> QED
    BY <1>1, <1>4, <2>4, <2>8, HandlerOrder
<1>5. ASSUME ~wk.obj.paused, NEW uid, Created(p, uid) PROVE Order'
  <2>1. pool' = pool /\ wk' = [wk EXCEPT !.pc = "deployed", !.uid = uid]
    BY <1>5 DEF Created
  <2>2. wk'.pc = "deployed" /\ wk'.p = p /\ wk'.obj = wk.obj /\ wk'.fresh = wk.fresh
    BY <1>1, <2>1 DEF TypeOK, WorkerStates
  <2>3. CopyKept'
    BY <1>1, <1>2, <1>5, <2>1, <2>2 DEF CopyKept, There
  <2>4. RefsKept'
    BY <1>2, <2>1 DEF RefsKept, There
  <2>5. Unnamed(p)'
    <3> QED
      BY <1>1, <1>3, <2>1, <2>2 DEF Unnamed, At
  <2>6. \A q \in Pools : Unnamed(q)'
    BY <1>1, <2>5, OthersUnnamed DEF Order
  <2> QED
    BY <2>3, <2>4, <2>6 DEF Order
<1> QED
  BY <1>1, <1>4, <1>5, DeployEffect

\* Saving the reference keeps Order.
LEMMA OrderSave ==
  ASSUME NEW p \in Pools, wk.p = p, Basics, Aligned, Order, SaveAgentRef
  PROVE  Order'
<1>1. wk.pc = "deployed" /\ p \in Pools /\ TypeOK /\ Worker
  BY Worked DEF SaveAgentRef, Worker, Basics
<1>2. CopyKept /\ Unnamed(p)
  BY <1>1 DEF Order
<1>3. PICK obj : /\ Kin(obj) /\ Ends(obj, "build")
                 /\ obj.ref = [set |-> TRUE, named |-> TRUE, uid |-> wk.uid, image |-> image]
  BY <1>1, SaveEffect
<1>4. obj.ref.set = obj.ref.named /\ obj.ref.named
  BY <1>3
<1>5. /\ wk.fresh => pool'[p] = obj
      /\ ~wk.fresh => pool'[p] = pool[p]
  BY <1>1, <1>2, <1>3, <1>4, HandlerCopy
<1>6. pool'[p].ref.named
  BY <1>2, <1>4, <1>5 DEF Unnamed
<1>7. Unnamed(p)'
  <2> QED
    BY <1>6 DEF Unnamed
<1> QED
  BY <1>1, <1>3, <1>4, <1>7, HandlerOrder

\* After cleanup of a pool that was referred to, or had nothing to clean up.
LEMMA CleanedUp ==
  ASSUME Basics, Aligned, Order, wk.pc \in {"change", "remove"}, Cleanup, wk.fresh
  PROVE  /\ pod'[wk.p].uid = 0 \/ pod'[wk.p].deleting
         /\ NetworkOf[wk.p] \notin caches' /\ GaugeOf(wk.p) \notin gauges'
<1>1. wk.p \in Pools /\ TypeOK /\ SameName[wk.p] = NetworkOf[wk.p]
  BY Worked DEF Aligned, Basics
<1>2. Unnamed(wk.p) /\ wk.obj = pool[wk.p]
  BY <1>1 DEF Order, CopyKept
<1>3. CASE wk.obj.ref.named
  BY <1>1, <1>3, CleanupEffect
<1>4. CASE ~wk.obj.ref.named
  <2>1. pod' = pod /\ caches' \subseteq caches /\ gauges' \subseteq gauges
    BY <1>1, <1>4, CleanupEffect
  <2> QED
    BY <1>2, <1>4, <2>1 DEF Unnamed, At, NoAgentLeft
<1> QED
  BY <1>3, <1>4

\* OnChange keeps Order: a paused pool loses its reference only with what it refers to.
LEMMA OrderChange ==
  ASSUME NEW p \in Pools, wk.p = p, Basics, Aligned, Order, OnChange
  PROVE  Order'
<1>1. wk.pc = "change" /\ p \in Pools /\ TypeOK /\ Worker
  BY Worked DEF OnChange, Worker, Basics
<1>2. CopyKept /\ Unnamed(p)
  BY <1>1 DEF Order
<1>3. ASSUME NEW obj, Kin(obj), Ends(obj, "remove"), wk.obj.paused, obj.ref = NoRef, Cleanup
      PROVE  Order'
  <2>1. obj.ref.set = obj.ref.named
    BY <1>3 DEF NoRef
  <2>2. /\ pool'[p].paused = pool[p].paused
        /\ ~wk.fresh => pool'[p] = pool[p]
    BY <1>1, <1>2, <1>3, <2>1, HandlerCopy
  <2>3. pool[p].paused /\ wk'.pc = "remove" /\ wk'.p = p /\ wk'.fresh = wk.fresh
    BY <1>1, <1>2, <1>3 DEF CopyKept, Ends
  <2>4. Unnamed(p)'
    <3>1. CASE wk.fresh
      <4>1. /\ pod'[p].uid = 0 \/ pod'[p].deleting
            /\ NetworkOf[p] \notin caches' /\ GaugeOf(p) \notin gauges'
        BY <1>1, <1>3, <3>1, CleanedUp
      <4> QED
        BY <2>2, <2>3, <3>1, <4>1 DEF Unnamed, At, NoAgentLeft
    <3>2. CASE ~wk.fresh
      <4>1. pool'[p].ref.named
        BY <1>2, <2>2, <3>2 DEF Unnamed
      <4> QED
        BY <4>1 DEF Unnamed
    <3> QED
      BY <3>1, <3>2
  <2> QED
    BY <1>1, <1>3, <2>1, <2>4, HandlerOrder
<1>4. ASSUME NEW obj, Kin(obj), Ends(obj, "remove"), obj.ref = wk.obj.ref,
             UNCHANGED <<pod, caches, gauges>> \/ ~wk.obj.paused
      PROVE  Order'
  BY <1>1, <1>4, RefKeptOrder
<1> QED
  BY <1>1, <1>3, <1>4, ChangeEffect

\* OnRemove keeps Order: a pool goes only with what it refers to.
LEMMA OrderRemove ==
  ASSUME NEW p \in Pools, wk.p = p, Basics, Aligned, Orderly, Order, OnRemove
  PROVE  Order'
<1>1. wk.pc = "remove" /\ p \in Pools /\ TypeOK /\ Worker
  BY Worked DEF OnRemove, Worker, Basics
<1>2. CopyKept /\ RefsKept /\ Unnamed(p) /\ wk.obj.life = "there"
  BY <1>1 DEF Order, CopyKept
<1>3. ASSUME Ends(Gone, "idle"), Cleanup PROVE Order'
  <2>1. wk'.pc = "idle" /\ wk'.p = NoPool /\ NoPool # p /\ \A q \in Pools : q # p => pool'[q] = pool[q]
    BY <1>1, <1>3, ConstantsAssumption DEF Ends
  <2>2. /\ Gone.life = "gone" /\ Gone.ref.named = Gone.ref.set /\ ~Gone.ref.named /\ ~Gone.paused
    BY DEF Gone, NewPool, NoRef
  <2>3. pool'[p] = IF wk.fresh THEN Gone ELSE pool[p]
    BY <1>2, <1>3, <2>2 DEF Ends
  <2>4. CopyKept'
    BY <2>1 DEF CopyKept
  <2>5. RefsKept'
    BY <1>2, <2>1, <2>2, <2>3 DEF RefsKept, There
  <2>6. Unnamed(p)'
    <3>1. CASE wk.fresh
      <4>1. /\ pod'[p].uid = 0 \/ pod'[p].deleting
            /\ NetworkOf[p] \notin caches' /\ GaugeOf(p) \notin gauges'
        BY <1>1, <1>3, <3>1, CleanedUp
      <4> QED
        BY <2>1, <2>2, <2>3, <3>1, <4>1 DEF Unnamed, At, NoAgentLeft
    <3>2. CASE ~wk.fresh
      <4>1. pool'[p].ref.named
        BY <1>2, <2>3, <3>2 DEF Unnamed
      <4> QED
        BY <4>1 DEF Unnamed
    <3> QED
      BY <3>1, <3>2
  <2>7. \A q \in Pools : Unnamed(q)'
    BY <1>1, <2>6, OthersUnnamed DEF Order
  <2> QED
    BY <2>4, <2>5, <2>7 DEF Order
<1>4. ASSUME NEW obj, Kin(obj), Ends(obj, "idle"), obj.ref = wk.obj.ref, UNCHANGED <<pod, caches, gauges>>
      PROVE  Order'
  BY <1>1, <1>4, RefKeptOrder
<1>5. "noAgent" \notin env
  BY DEF Orderly
<1> QED
  BY <1>1, <1>3, <1>4, <1>5, RemoveEffect

\* The handlers keep Order.
LEMMA OrderWorker ==
  ASSUME Basics, Aligned, Orderly, Order, Worker
  PROVE  Order'
<1>1. CASE BuildCache
  <2>1. wk.pc = "build" /\ wk.p \in Pools /\ TypeOK
    BY <1>1, Worked DEF BuildCache, Basics
  <2>2. UNCHANGED <<pod, caches, gauges>> \/ ~wk.obj.paused
    BY <1>1 DEF BuildCache
  <2> QED
    BY <1>1, <2>1, <2>2, BuildEffect, RefKeptOrder
<1>2. CASE MonitorAgent
  <2>1. wk.pc = "monitor" /\ wk.p \in Pools /\ TypeOK /\ caches' = caches /\ gauges' = gauges
    BY <1>2, Worked DEF MonitorAgent, Basics, memory
  <2>2. UNCHANGED <<pod, caches, gauges>> \/ ~wk.obj.paused
    BY <1>2, <2>1, MonitorEffect
  <2> QED
    BY <1>2, <2>1, <2>2, MonitorEffect, RefKeptOrder
<1>3. PICK p \in Pools : p = wk.p
  BY Worked DEF Worker, DeployAgent, SaveAgentRef, BuildCache, MonitorAgent, OnChange, OnRemove
<1> QED
  BY <1>1, <1>2, <1>3, OrderDeploy, OrderSave, OrderChange, OrderRemove DEF Worker

\* Someone else writes pool p while the worker is idle or at work on another pool.
LEMMA OrderWritten ==
  ASSUME Basics, Order, NEW p \in Pools, NEW new \in Pool, PoolWritten(p, new), wk.p # p,
         UNCHANGED <<pod, caches, gauges>>,
         new.ref.set = new.ref.named, new.life # "there" => ~new.ref.named /\ ~new.paused,
         ~new.ref.named => ~pool[p].ref.named,
         ~new.ref.named => new.life = "gone" \/ new.paused \/ pod[p].uid = 0
  PROVE  Order'
<1>1. /\ wk'.pc = wk.pc /\ wk'.p = wk.p /\ wk'.obj = wk.obj /\ wk'.fresh = wk.fresh
      /\ pool'[p] = new /\ \A q \in Pools : q # p => pool'[q] = pool[q]
  BY WrittenEffect DEF Basics, TypeOK, WorkerStates
<1>2. CopyKept'
  BY <1>1, Worked DEF Order, CopyKept, There
<1>3. RefsKept'
  BY <1>1 DEF Order, RefsKept, There
<1>4. ASSUME NEW q \in Pools PROVE Unnamed(q)'
  <2>1. Unnamed(q)
    BY DEF Order
  <2>2. CASE q = p
    BY <1>1, <2>1, <2>2 DEF Unnamed, At, NoAgentLeft
  <2>3. CASE q # p
    BY <1>1, <2>1, <2>3 DEF Unnamed, At, NoAgentLeft
  <2> QED
    BY <2>2, <2>3
<1> QED
  BY <1>2, <1>3, <1>4 DEF Order

\* A step of the cluster or the controller that leaves pools alone.
LEMMA OrderPods ==
  ASSUME Basics, Order, UNCHANGED <<pool, caches, gauges, wk>>,
         \A q \in Pools : (pod[q].uid = 0 => pod'[q].uid = 0)
                          /\ (NoAgentLeft(q) => NoAgentLeft(q)')
  PROVE  Order'
<1>1. CopyKept' /\ RefsKept'
  BY DEF Order, CopyKept, RefsKept, There
<1>2. ASSUME NEW q \in Pools PROVE Unnamed(q)'
  BY DEF Order, Unnamed, At
<1> QED
  BY <1>1, <1>2 DEF Order

\* Users, pods and the pod cache keep Order.
LEMMA OrderPools ==
  ASSUME Basics, Orderly, "late" \notin env, Order, NEW p \in Pools, PoolNext(p)
  PROVE  Order'
<1>1. /\ pool[p] \in Pool /\ pod[p] \in Pod /\ pod \in [Pools -> Pod]
      /\ pool[p].ref.set = pool[p].ref.named
      /\ ~There(p) => ~pool[p].ref.named /\ ~pool[p].paused
      /\ ConstantsAssumption
  BY ConstantsAssumption DEF Basics, TypeOK, Order, RefsKept
<1>2. Unnamed(p) /\ CopyKept
  BY DEF Order
<1>3. CASE CreatePool(p)
  <2> DEFINE new == [NewPool EXCEPT !.life = "there"]
  <2>1. new \in Pool /\ new.life = "there" /\ ~new.ref.named /\ new.ref.set = new.ref.named
    BY <1>1, UserWrites DEF NewPool, NoRef
  <2>2. pool[p].life = "none" /\ PoolWritten(p, new) /\ UNCHANGED <<pod, caches, gauges>>
    BY <1>3 DEF CreatePool, memory
  <2> HIDE DEF new
  <2>3. wk.p # p
    BY <1>2, <2>2, ConstantsAssumption DEF CopyKept, There, Basics
  <2>4. pod[p].uid = 0 /\ ~pool[p].ref.named
    BY <1>1, <1>2, <2>2, <2>3 DEF There, Unnamed, At
  <2> QED
    BY <2>1, <2>2, <2>3, <2>4, OrderWritten
<1>4. CASE PausePool(p)
  <2> DEFINE new == [pool[p] EXCEPT !.paused = ~@]
  <2>1. new \in Pool /\ new.ref = pool[p].ref /\ new.life = pool[p].life /\ new.paused = ~pool[p].paused
    BY <1>1 DEF Pool
  <2>2. /\ wk.pc = "idle" /\ pool[p].life = "there" /\ PoolWritten(p, new) /\ UNCHANGED <<pod, caches, gauges>>
        /\ ~pool[p].paused \/ pod[p].uid = 0
    BY <1>4 DEF PausePool, Calm, Orderly, memory
  <2> HIDE DEF new
  <2>3. wk.p # p
    BY <2>2, ConstantsAssumption DEF Basics
  <2> QED
    BY <1>1, <2>1, <2>2, <2>3, OrderWritten
<1>5. CASE DeletePool(p)
  <2> DEFINE new == [pool[p] EXCEPT !.deleting = TRUE]
  <2>1. /\ new \in Pool /\ new.ref = pool[p].ref /\ new.life = pool[p].life
        /\ new.paused = pool[p].paused
    BY <1>1 DEF Pool
  <2>2. wk.pc = "idle" /\ pool[p].life = "there" /\ PoolWritten(p, new) /\ UNCHANGED <<pod, caches, gauges>>
    BY <1>5 DEF DeletePool, Calm, Orderly, memory
  <2> HIDE DEF new
  <2>3. wk.p # p
    BY <2>2, ConstantsAssumption DEF Basics
  <2>4. ~pool[p].ref.named => pool[p].paused \/ pod[p].uid = 0
    BY <1>2, <2>2, <2>3 DEF Unnamed, At
  <2> QED
    BY <1>1, <2>1, <2>2, <2>3, <2>4, OrderWritten
<1>6. CASE Start(p)
  <2>1. wk.pc = "idle" /\ UNCHANGED <<pool, pod, caches, gauges>>
    BY <1>6 DEF Start, memory, stored
  <2>5. p \notin old /\ inf[p] = pool[p]
    BY DEF Basics, Current
  <2>2. \/ /\ There(p) /\ wk'.pc = "deploy" /\ wk'.p = p /\ wk'.obj = pool[p] /\ wk'.fresh
        \/ wk'.pc = "idle" /\ wk'.p = NoPool
    BY <1>6, <2>5 DEF Start, Idle, There
  <2>3. CopyKept' /\ RefsKept'
    BY <1>1, <2>1, <2>2 DEF Order, CopyKept, RefsKept, There
  <2>4. ASSUME NEW q \in Pools PROVE Unnamed(q)'
    <3>1. Unnamed(q) /\ q # NoPool
      BY ConstantsAssumption DEF Order
    <3> QED
      BY <2>1, <2>2, <3>1 DEF Unnamed, At, NoAgentLeft
  <2> QED
    BY <2>3, <2>4 DEF Order
<1>7. CASE PodReady(p)
  <2>1. UNCHANGED <<pool, caches, gauges, wk>> /\ pod' = [pod EXCEPT ![p].ready = TRUE]
    BY <1>7 DEF PodReady, memory, stored
  <2>2. \A q \in Pools : pod'[q].uid = pod[q].uid /\ pod'[q].deleting = pod[q].deleting
    BY <1>1, <2>1 DEF Pod
  <2> QED
    BY <2>1, <2>2, OrderPods DEF NoAgentLeft
<1>8. CASE Evict(p)
  <2>1. UNCHANGED <<pool, caches, gauges, wk>> /\ PodDeleted(p)
    BY <1>8 DEF Evict, memory, stored
  <2>2. \A q \in Pools : pod'[q].uid = pod[q].uid /\ (q # p => pod'[q] = pod[q])
    BY <2>1, DeletedEffect DEF Basics
  <2>3. pod'[p].deleting = (pod[p].uid # 0)
    BY <2>1, DeletedEffect DEF Basics
  <2> QED
    BY <2>1, <2>2, <2>3, OrderPods DEF NoAgentLeft
<1>9. CASE PodGone(p)
  <2>1. UNCHANGED <<pool, caches, gauges, wk>> /\ pod' = [pod EXCEPT ![p] = NoPod] /\ NoPod.uid = 0
    BY <1>9 DEF PodGone, memory, stored, NoPod
  <2>2. \A q \in Pools : pod'[q].uid = 0 \/ pod'[q] = pod[q]
    BY <1>1, <2>1
  <2> QED
    BY <2>1, <2>2, OrderPods DEF NoAgentLeft
<1>10. CASE PodSeen(p)
  <2>1. UNCHANGED <<pool, caches, gauges, wk, pod>>
    BY <1>10 DEF PodSeen, memory, stored
  <2> QED
    BY <2>1, OrderPods DEF NoAgentLeft
<1>11. ~PoolSeen(p)
  BY DEF Basics, PoolSeen
<1> QED
  BY <1>3, <1>4, <1>5, <1>6, <1>7, <1>8, <1>9, <1>10, <1>11 DEF PoolNext

\* A vmnetcfg's address is written into a pool that has caches, and so a reference.
LEMMA OrderUsers ==
  ASSUME Basics, Order, NEW c \in Cfgs, CfgNext(c)
  PROVE  Order'
<1>1. ASSUME UNCHANGED <<pool, pod, caches, gauges, wk>> PROVE Order'
  BY <1>1, OrderPods DEF NoAgentLeft
<1>2. ASSUME UNCHANGED <<pod, caches, gauges>>, user[c].net \in caches,
             PoolWritten(PoolOf(c), pool[PoolOf(c)])
      PROVE  Order'
  <2> DEFINE p == PoolOf(c)
  <2>1. p \in Pools /\ NetworkOf[p] \in caches /\ pool[p] \in Pool
    BY <1>2, PoolFound DEF Basics, TypeOK
  <2> HIDE DEF p
  <2>2. PoolWritten(p, pool[p])
    BY <1>2 DEF p
  <2>3. /\ wk'.pc = wk.pc /\ wk'.p = wk.p /\ wk'.obj = wk.obj /\ wk'.fresh = (wk.fresh /\ wk.p # p)
        /\ \A q \in Pools : pool'[q] = pool[q]
    BY <2>1, <2>2, WrittenEffect DEF Basics
  <2>4. CopyKept' /\ RefsKept'
    BY <2>3, Worked DEF Order, CopyKept, RefsKept, There
  <2>5. ASSUME NEW q \in Pools PROVE Unnamed(q)'
    <3>1. Unnamed(q)
      BY DEF Order
    <3>2. ~pool[q].ref.named => q # p
      BY <2>1, <3>1 DEF Unnamed
    <3> QED
      BY <1>2, <2>3, <3>1, <3>2 DEF Unnamed, At, NoAgentLeft
  <2> QED
    BY <2>4, <2>5 DEF Order
<1>3. CASE \E n \in Networks : CreateCfg(c, n)
  BY <1>1, <1>3 DEF CreateCfg, memory, stored
<1>4. CASE DeleteCfg(c)
  BY <1>1, <1>4 DEF DeleteCfg, memory, stored
<1>5. CASE Allocate(c)
  BY <1>1, <1>2, <1>5 DEF Allocate, stored
<1>6. CASE RemoveCfg(c)
  BY <1>1, <1>2, <1>6 DEF RemoveCfg, stored
<1> QED
  BY <1>3, <1>4, <1>5, <1>6 DEF CfgNext

\* Order holds at first.
LEMMA OrderInit == ASSUME Init PROVE Order
<1>1. NewPool.life = "none" /\ NewPool.ref = NoRef /\ ~NoRef.named /\ NoRef.set = NoRef.named /\ ~NewPool.paused
  BY DEF NewPool, NoRef
<1>2. /\ wk.pc = "idle" /\ wk.p = NoPool /\ NoPool \notin Pools /\ caches = {} /\ gauges = {}
      /\ \A p \in Pools : pool[p] = NewPool /\ pod[p].uid = 0
  BY ConstantsAssumption DEF Init, Idle, NoPod
<1> QED
  BY <1>1, <1>2 DEF Order, CopyKept, RefsKept, Unnamed, At, NoAgentLeft, There

\* Every step keeps Order.
LEMMA OrderKept ==
  ASSUME Basics, Aligned, Orderly, "late" \notin env, Order, [Next]_vars
  PROVE  Order'
<1>1. CASE Upgrade
  <2>1. wk.pc = "idle" /\ wk'.pc = "idle" /\ wk'.p = NoPool /\ UNCHANGED <<pool, pod>> /\ caches' = {} /\ gauges' = {}
    BY <1>1 DEF Upgrade, Calm, Orderly, Idle
  <2>2. CopyKept' /\ RefsKept'
    BY <2>1 DEF Order, CopyKept, RefsKept, There
  <2>3. ASSUME NEW q \in Pools PROVE Unnamed(q)'
    <3>1. Unnamed(q) /\ q # NoPool /\ wk.p = NoPool
      BY <2>1, ConstantsAssumption DEF Order, Basics
    <3> QED
      BY <2>1, <3>1 DEF Unnamed, At, NoAgentLeft
  <2> QED
    BY <2>2, <2>3 DEF Order
<1>2. CASE UNCHANGED vars
  <2>1. UNCHANGED <<pool, pod, caches, gauges, wk>>
    BY <1>2 DEF vars, state, memory, stored
  <2> QED
    BY <2>1, OrderPods DEF NoAgentLeft
<1> QED
  BY <1>1, <1>2, OrderUsers, OrderPools, OrderWorker DEF Next

-----------------------------------------------------------------------------
\* Where the IPPool informer is late as well, and no pool is paused: passes on old copies
\* create and delete pods, but a pool keeps the reference it got first until the next.

\* A pool on its way out: the copies of it follow one another.
Going(o) == o.deleting \/ o.life = "gone"

\* The informer's copy of a pool is behind, but never says less of it than a pass that
\* has begun. A finalizer is there only after a reference.
CopyLags(p) ==
  /\ ~pool[p].paused /\ ~inf[p].paused
  /\ pool[p].final \/ pool[p].deleting => pool[p].ref.named
  /\ inf[p].deleting => inf[p].ref.named
  /\ pool[p].life = "none" => inf[p].life = "none" /\ ~pool[p].ref.named
  /\ Going(inf[p]) => Going(pool[p])
  /\ pool[p].life = "gone" => Going(inf[p])

\* A pass on a pool that is gone knows that the pool is to be removed, and by which
\* reference.
PassLags(p) ==
  wk.p = p =>
    /\ wk.obj.life = "there" /\ ~wk.obj.paused /\ pool[p].life # "none"
    /\ wk.fresh => wk.obj = pool[p]
    /\ wk.obj.deleting => wk.obj.ref.named /\ Going(inf[p])
    /\ pool[p].life = "gone" => wk.obj.deleting

\* A pool without reference is as it was created, and so is every copy of it.
FirstPass(p) ==
  pool[p].life # "gone" /\ ~pool[p].ref.named =>
    /\ inf[p].life = "none" \/ p \notin old
    /\ NetworkOf[p] \notin caches
    /\ wk.p = p => wk.fresh /\ wk.pc \in {"deploy", "deployed"}
    /\ At(p, {"deployed"}) \/ (pod[p].uid = 0 /\ seen[p].uid = 0)

\* The pod cache has the pod, unless it has none.
SamePod(p) ==
  pod[p].uid # 0 /\ seen[p].uid # 0 => seen[p].uid = pod[p].uid /\ seen[p].image = pod[p].image

\* A pod that the pool refers to, or is about to, was created when the pod cache had none.
SeenLags(p) ==
  /\ pod[p].uid = pool[p].ref.uid => SamePod(p)
  /\ At(p, {"deployed"}) /\ wk.fresh => SamePod(p)

\* The inductive invariant where the IPPool informer is late.
Lag(p) ==
  /\ CopyLags(p) /\ PassLags(p) /\ FirstPass(p) /\ SeenLags(p)
  /\ pool[p].life = "gone" => NothingLeft(p) \/ wk.p = p

\* A step that leaves pool q, its copies and the worker alone.
LEMMA LagStill ==
  ASSUME NEW q \in Pools, Lag(q), pool'[q] = pool[q], inf'[q] = inf[q], q \in old' <=> q \in old,
         NetworkOf[q] \in caches' => NetworkOf[q] \in caches,
         GaugeOf(q) \in gauges' => GaugeOf(q) \in gauges,
         wk' = wk \/ (wk.p # q /\ wk'.p # q),
         seen'[q] = seen[q], PodStep(q) \/ pod'[q].uid = 0
  PROVE  Lag(q)'
<1>1. CopyLags(q)'
  BY DEF Lag, CopyLags
<1>2. PassLags(q)'
  BY DEF Lag, PassLags
<1>3. At(q, {"deployed"})' = At(q, {"deployed"}) /\ (pod[q].uid = 0 => pod'[q].uid = 0)
  BY DEF At, PodStep
<1>4. FirstPass(q)'
  BY <1>3 DEF Lag, FirstPass
<1>5. SamePod(q) => SamePod(q)'
  BY DEF SamePod, PodStep
<1>6. SeenLags(q)'
  <2>1. CASE pod'[q].uid = 0
    BY <2>1 DEF SeenLags, SamePod
  <2>2. CASE PodStep(q)
    BY <1>3, <1>5, <2>2 DEF Lag, SeenLags, PodStep, At
  <2> QED
    BY <2>1, <2>2
<1>7. pool[q].life = "gone" /\ NothingLeft(q) => NothingLeft(q)'
  BY DEF NothingLeft, NoAgentLeft, GaugeOf, PodStep
<1> QED
  BY <1>1, <1>2, <1>4, <1>6, <1>7 DEF Lag

\* A handler keeps Lag for the pools it does not work on.
LEMMA LagOthers ==
  ASSUME Basics, Aligned, "late" \in env, Worker, NEW q \in Pools, q # wk.p, Lag(q)
  PROVE  Lag(q)'
<1>1. /\ pool'[q] = pool[q] /\ pod'[q] = pod[q] /\ seen' = seen /\ wk'.p # q
      /\ NetworkOf[q] \in caches' => NetworkOf[q] \in caches
      /\ GaugeOf(q) \in gauges' => GaugeOf(q) \in gauges
      /\ (q \in old' <=> q \in old) /\ inf' = inf
  BY OthersKept
<1> QED
  BY <1>1, LagStill DEF PodStep

\* A handler that ends without a pod created: what is left to show of it.
LEMMA LagHandled ==
  ASSUME NEW p \in Pools, wk.p = p, Basics, "late" \in env, Lag(p), wk.pc # "idle", seen' = seen, PodStep(p),
         NEW obj, Kin(obj), NEW next \in {"idle", "build", "monitor", "change", "remove"}, Ends(obj, next),
         wk.fresh \/ wk.obj.deleting => obj.ref.named,
         wk.fresh => obj.ref.uid = wk.obj.ref.uid \/ SamePod(p),
         next = "idle" => pool[p].life # "gone"
  PROVE  Lag(p)'
<1>1. CopyLags(p) /\ PassLags(p) /\ FirstPass(p) /\ SeenLags(p) /\ inf' = inf /\ p # NoPool
  BY ConstantsAssumption DEF Lag, Ends, Copied
<1>2. /\ wk.fresh => pool'[p] = obj
      /\ ~wk.fresh => pool'[p] = pool[p]
  BY <1>1 DEF Ends, PassLags
<1>3. /\ obj.life = "there" /\ ~obj.paused /\ obj.deleting = wk.obj.deleting
      /\ wk.fresh => wk.obj = pool[p]
  BY <1>1 DEF Kin, PassLags
<1>4. CopyLags(p)'
  <2>1. CASE wk.fresh
    BY <1>1, <1>2, <1>3, <2>1 DEF CopyLags, PassLags, Going
  <2>2. CASE ~wk.fresh
    BY <1>1, <1>2, <2>2 DEF CopyLags
  <2> QED
    BY <2>1, <2>2
<1>5. PassLags(p)'
  <2>1. CASE next = "idle"
    BY <1>1, <2>1 DEF Ends, PassLags
  <2>2. CASE next # "idle"
    <3>1. wk'.p = p /\ wk'.obj = obj /\ wk'.fresh = wk.fresh
      BY <2>2 DEF Ends
    <3> QED
      BY <1>1, <1>2, <1>3, <3>1 DEF PassLags
  <2> QED
    BY <2>1, <2>2
<1>6. pool'[p].life = "gone" \/ pool'[p].ref.named
  BY <1>1, <1>2 DEF FirstPass, Ends, Kin, PassLags
<1>7. SeenLags(p)'
  <2>1. ~At(p, {"deployed"})'
    BY DEF At, Ends
  <2>2. SamePod(p) => SamePod(p)'
    BY DEF SamePod, PodStep
  <2>3. pod'[p].uid = pool'[p].ref.uid => SamePod(p)
    BY <1>1, <1>2, <1>3 DEF SeenLags, PodStep
  <2> QED
    BY <2>1, <2>2, <2>3 DEF SeenLags
<1>8. pool'[p].life = "gone" => wk'.p = p
  BY <1>1, <1>2, <1>3 DEF Ends
<1> QED
  BY <1>4, <1>5, <1>6, <1>7, <1>8 DEF Lag, FirstPass

\* DeployAgent keeps Lag: what a pass on an old copy creates is nobody's pod.
LEMMA LagDeploy ==
  ASSUME NEW p \in Pools, wk.p = p, Basics, Orderly, "late" \in env, Lag(p), DeployAgent
  PROVE  Lag(p)'
<1>1. wk.pc = "deploy" /\ TypeOK /\ seen' = seen /\ caches' = caches /\ gauges' = gauges /\ "noAgent" \notin env
  BY DEF DeployAgent, Basics, memory, Orderly
<1>2. CopyLags(p) /\ PassLags(p) /\ FirstPass(p) /\ SeenLags(p) /\ wk.obj.ref \in Refs
  BY <1>1 DEF Lag, TypeOK, WorkerStates, Pool
<1>3. wk.fresh /\ ~wk.obj.ref.named => pod[p].uid = 0 /\ seen[p].uid = 0
  BY <1>1, <1>2 DEF PassLags, FirstPass, At
<1>4. ASSUME NEW obj, Kin(obj), Ends(obj, "build"), Deployed(obj.ref), pod' = pod
      PROVE  Lag(p)'
  <2>1. obj.ref.uid = wk.obj.ref.uid /\ obj.ref.named = wk.obj.ref.named
    BY <1>2, <1>4 DEF Deployed, Refs
  <2>2. wk.fresh => obj.ref.named
    BY <1>1, <1>2, <1>3, <1>4, <2>1 DEF Deployed, Found, PassLags
  <2>3. wk.obj.deleting => obj.ref.named
    BY <1>2, <2>1 DEF PassLags
  <2> QED
    BY <1>1, <1>4, <2>1, <2>2, <2>3, LagHandled DEF PodStep
<1>5. ASSUME ~Found, NEW uid, Created(p, uid) PROVE Lag(p)'
  <2> DEFINE new == [uid |-> uid, image |-> image, deleting |-> FALSE, ready |-> FALSE]
  <2>1. /\ pool' = pool /\ inf' = inf /\ old' = old /\ uid # pool[p].ref.uid
        /\ pod' = [pod EXCEPT ![p] = new] /\ wk' = [wk EXCEPT !.pc = "deployed", !.uid = uid]
    BY <1>5 DEF Created
  <2>2. new.uid = uid
    OBVIOUS
  <2> HIDE DEF new
  <2>3. pod'[p].uid # pool'[p].ref.uid
    BY <1>1, <2>1, <2>2 DEF TypeOK
  <2>4. wk'.pc = "deployed" /\ wk'.p = p /\ wk'.obj = wk.obj /\ wk'.fresh = wk.fresh
    BY <1>1, <2>1 DEF TypeOK, WorkerStates
  <2>5. wk.fresh => seen[p].uid = 0
    BY <1>3, <1>5 DEF Found
  <2>6. CopyLags(p)' /\ PassLags(p)'
    BY <1>2, <2>1, <2>4 DEF CopyLags, PassLags
  <2>7. FirstPass(p)'
    BY <1>1, <1>2, <2>1, <2>4 DEF FirstPass, At
  <2>8. SeenLags(p)'
    BY <1>1, <2>3, <2>4, <2>5 DEF SeenLags, SamePod
  <2> QED
    BY <2>4, <2>6, <2>7, <2>8 DEF Lag
<1> QED
  BY <1>1, <1>4, <1>5, DeployEffect

\* The other handlers but OnRemove keep Lag.
LEMMA LagHandlers ==
  ASSUME NEW p \in Pools, wk.p = p, Basics, "late" \in env, Lag(p),
         SaveAgentRef \/ BuildCache \/ MonitorAgent \/ OnChange
  PROVE  Lag(p)'
<1>1. /\ wk.pc \in {"deployed", "build", "monitor", "change"} /\ TypeOK /\ seen' = seen
      /\ PassLags(p) /\ FirstPass(p) /\ SeenLags(p)
  BY DEF SaveAgentRef, BuildCache, MonitorAgent, OnChange, Basics, Lag
<1>2. ASSUME wk.pc # "deployed", PodStep(p), NEW obj, Kin(obj), obj.ref = wk.obj.ref,
             NEW next \in {"monitor", "change", "remove"}, Ends(obj, next)
      PROVE  Lag(p)'
  <2>1. wk.fresh => wk.obj.ref.named
    BY <1>1, <1>2 DEF PassLags, FirstPass
  <2>2. wk.obj.deleting => wk.obj.ref.named
    BY <1>1 DEF PassLags
  <2> QED
    BY <1>1, <1>2, <2>1, <2>2, LagHandled
<1>3. CASE SaveAgentRef
  <2>1. wk.pc = "deployed" /\ pod' = pod
    BY <1>3 DEF SaveAgentRef
  <2>2. PICK obj : /\ Kin(obj) /\ Ends(obj, "build")
                   /\ obj.ref = [set |-> TRUE, named |-> TRUE, uid |-> wk.uid, image |-> image]
    BY <1>1, <1>3, SaveEffect
  <2>3. obj.ref.named /\ (wk.fresh => SamePod(p))
    BY <1>1, <2>1, <2>2 DEF SeenLags, At
  <2> QED
    BY <1>1, <2>1, <2>2, <2>3, LagHandled DEF PodStep
<1>4. CASE BuildCache
  <2>1. wk.pc = "build" /\ PodStep(p)
    BY <1>4 DEF BuildCache, PodStep
  <2> QED
    BY <1>1, <1>2, <1>4, <2>1, BuildEffect
<1>5. CASE MonitorAgent
  <2>1. wk.pc = "monitor" /\ PodStep(p)
    BY <1>1, <1>5, MonitorEffect, DeletedEffect DEF MonitorAgent, PodStep
  <2> QED
    BY <1>1, <1>2, <1>5, <2>1, MonitorEffect
<1>6. CASE OnChange
  <2>1. wk.pc = "change" /\ ~wk.obj.paused
    BY <1>1, <1>6 DEF OnChange, PassLags
  <2>2. PICK obj : Kin(obj) /\ Ends(obj, "remove") /\ obj.ref = wk.obj.ref /\ pod' = pod
    BY <1>1, <1>6, <2>1, ChangeEffect
  <2> QED
    BY <1>1, <1>2, <2>1, <2>2 DEF PodStep
<1> QED
  BY <1>3, <1>4, <1>5, <1>6

\* OnRemove keeps Lag: whether its copy is old or not, it takes away what there is.
LEMMA LagRemove ==
  ASSUME NEW p \in Pools, wk.p = p, Basics, Aligned, Orderly, "late" \in env, Lag(p), OnRemove
  PROVE  Lag(p)'
<1>1. wk.pc = "remove" /\ TypeOK /\ seen' = seen /\ "noAgent" \notin env
  BY DEF OnRemove, Basics, Orderly
<1>2. CopyLags(p) /\ PassLags(p) /\ FirstPass(p) /\ SeenLags(p)
  BY DEF Lag
<1>3. ASSUME NEW obj, Kin(obj), Ends(obj, "idle"), obj.ref = wk.obj.ref,
             ~wk.obj.deleting \/ CleanupFails, UNCHANGED <<pod, caches, gauges>>
      PROVE  Lag(p)'
  <2>1. wk.fresh => wk.obj.ref.named
    BY <1>1, <1>2 DEF PassLags, FirstPass
  <2>2. ~wk.obj.deleting /\ pool[p].life # "gone"
    BY <1>2, <1>3 DEF PassLags, CleanupFails
  <2> QED
    BY <1>1, <1>3, <2>1, <2>2, LagHandled DEF PodStep
<1>4. ASSUME wk.obj.deleting, Ends(Gone, "idle"), Cleanup PROVE Lag(p)'
  <2>1. wk'.p # p /\ inf' = inf /\ pool'[p] \in {Gone, pool[p]}
    BY <1>4, ConstantsAssumption DEF Ends, Copied
  <2>2. PodStep(p) /\ NothingLeft(p)'
    <3>1. wk.obj.ref.named /\ SameName[p] = NetworkOf[p]
      BY <1>2, <1>4 DEF PassLags, Aligned
    <3> QED
      BY <1>1, <1>4, <3>1, CleanupEffect DEF NothingLeft, NoAgentLeft, GaugeOf
  <2>3. /\ Gone.life = "gone" /\ ~Gone.paused /\ ~Gone.deleting /\ ~Gone.final /\ Gone.ref.uid = 0
    BY DEF Gone, NewPool, NoRef
  <2>4. CopyLags(p)'
    BY <1>2, <1>4, <2>1, <2>3 DEF CopyLags, PassLags, Going
  <2>5. FirstPass(p)'
    BY <1>1, <1>2, <2>1, <2>3 DEF FirstPass
  <2>6. SeenLags(p)'
    BY <1>1, <1>2, <2>1, <2>2, <2>3 DEF SeenLags, SamePod, PodStep, At
  <2> QED
    BY <2>1, <2>2, <2>4, <2>5, <2>6 DEF Lag, PassLags
<1> QED
  BY <1>1, <1>3, <1>4, RemoveEffect

\* The handlers keep Lag.
LEMMA LagWorker ==
  ASSUME Basics, Aligned, Orderly, "late" \in env, \A p \in Pools : Lag(p), Worker, NEW q \in Pools
  PROVE  Lag(q)'
<1>1. PICK p \in Pools : p = wk.p
  BY Worked DEF Worker, DeployAgent, SaveAgentRef, BuildCache, MonitorAgent, OnChange, OnRemove
<1>2. Lag(p)'
  BY <1>1, LagDeploy, LagHandlers, LagRemove DEF Worker
<1> QED
  BY <1>1, <1>2, LagOthers

\* Someone else writes pool p: the pools beside it keep Lag.
LEMMA LagWritten ==
  ASSUME Basics, "late" \in env, NEW p \in Pools, NEW new \in Pool, PoolWritten(p, new),
         UNCHANGED <<pod, seen, caches, gauges>>
  PROVE  /\ inf' = inf /\ pool'[p] = new
         /\ wk'.pc = wk.pc /\ wk'.p = wk.p /\ wk'.obj = wk.obj /\ wk'.fresh = (wk.fresh /\ wk.p # p)
         /\ \A q \in Pools : q # p /\ Lag(q) => Lag(q)'
<1>1. /\ wk'.pc = wk.pc /\ wk'.p = wk.p /\ wk'.obj = wk.obj /\ wk'.uid = wk.uid
      /\ wk'.fresh = (wk.fresh /\ wk.p # p) /\ wk' \in WorkerStates
      /\ pool'[p] = new /\ inf' = inf
      /\ \A q \in Pools : q # p => pool'[q] = pool[q] /\ (q \in old' <=> q \in old)
  BY WrittenEffect DEF Basics, Copied
<1>2. ASSUME NEW q \in Pools, q # p, Lag(q) PROVE Lag(q)'
  <2>1. wk' = wk \/ (wk.p # q /\ wk'.p # q)
    <3>1. wk' = [wk EXCEPT !.fresh = @ /\ wk.p # p] /\ wk \in WorkerStates
      BY DEF PoolWritten, Basics, TypeOK
    <3>2. CASE wk.p = p
      BY <1>1, <1>2, <3>2
    <3>3. CASE wk.p # p
      BY <3>1, <3>3 DEF WorkerStates
    <3> QED
      BY <3>2, <3>3
  <2> QED
    BY <1>1, <1>2, <2>1, LagStill DEF PodStep
<1> QED
  BY <1>1, <1>2

\* Users, pods and the informers keep Lag.
LEMMA LagPools ==
  ASSUME Basics, Orderly, "late" \in env, \A q \in Pools : Lag(q), NEW p \in Pools, PoolNext(p), NEW q \in Pools
  PROVE  Lag(q)'
<1>1. /\ pool[p] \in Pool /\ inf \in [Pools -> Pool] /\ pod \in [Pools -> Pod] /\ seen \in [Pools -> Pod]
      /\ p # NoPool /\ q # NoPool
  BY ConstantsAssumption DEF Basics, TypeOK
<1>2. Lag(p) /\ CopyLags(p) /\ PassLags(p) /\ FirstPass(p) /\ SeenLags(p)
  BY DEF Lag
<1>3. CASE CreatePool(p)
  <2> DEFINE new == [NewPool EXCEPT !.life = "there"]
  <2>1. /\ new \in Pool /\ new.life = "there" /\ ~new.ref.named /\ ~new.paused /\ ~new.deleting /\ ~new.final
        /\ new.ref.uid = 0
    BY <1>1, UserWrites DEF NewPool, NoRef
  <2>2. pool[p].life = "none" /\ PoolWritten(p, new) /\ UNCHANGED <<pod, seen, caches, gauges>>
    BY <1>3 DEF CreatePool, memory
  <2> HIDE DEF new
  <2>3. wk.p # p /\ inf[p].life = "none" /\ ~Going(inf[p])
    BY <1>2, <2>2 DEF PassLags, CopyLags, Going
  <2>4. pod[p].uid = 0 /\ seen[p].uid = 0 /\ NetworkOf[p] \notin caches
    BY <1>2, <2>2, <2>3 DEF CopyLags, FirstPass, At
  <2>5. /\ inf' = inf /\ pool'[p] = new /\ wk'.p = wk.p
        /\ q # p => Lag(q)'
    BY <2>1, <2>2, LagWritten
  <2>6. CopyLags(p)'
    BY <1>2, <2>1, <2>3, <2>5 DEF CopyLags, Going
  <2>7. PassLags(p)' /\ FirstPass(p)' /\ SeenLags(p)'
    BY <2>1, <2>2, <2>3, <2>4, <2>5 DEF PassLags, FirstPass, SeenLags, SamePod, At
  <2> QED
    BY <2>1, <2>5, <2>6, <2>7 DEF Lag
<1>4. ~PausePool(p)
  BY DEF PausePool, Orderly
<1>5. CASE DeletePool(p)
  <2> DEFINE new == [pool[p] EXCEPT !.deleting = TRUE]
  <2>1. /\ new \in Pool /\ new.ref = pool[p].ref /\ new.life = pool[p].life /\ new.paused = pool[p].paused
        /\ new.deleting
    BY <1>1 DEF Pool
  <2>2. /\ wk.pc = "idle" /\ pool[p].life = "there" /\ pool[p].final /\ PoolWritten(p, new)
        /\ UNCHANGED <<pod, seen, caches, gauges>>
    BY <1>5 DEF DeletePool, Calm, Orderly, memory
  <2> HIDE DEF new
  <2>3. wk.p # p /\ pool[p].ref.named
    BY <1>1, <1>2, <2>2 DEF Basics, CopyLags
  <2>4. /\ inf' = inf /\ pool'[p] = new /\ wk'.p = wk.p
        /\ q # p => Lag(q)'
    BY <2>1, <2>2, LagWritten
  <2>5. CopyLags(p)'
    BY <1>2, <2>1, <2>2, <2>3, <2>4 DEF CopyLags, Going
  <2>6. PassLags(p)' /\ FirstPass(p)' /\ SeenLags(p)'
    BY <1>2, <2>1, <2>2, <2>3, <2>4 DEF PassLags, FirstPass, SeenLags, SamePod, At
  <2> QED
    BY <2>1, <2>2, <2>4, <2>5, <2>6 DEF Lag
<1>6. CASE PoolSeen(p)
  <2>1. /\ inf'[p] = pool[p] /\ p \notin old' /\ UNCHANGED <<pool, pod, seen, caches, gauges, wk>>
        /\ \A r \in Pools : r # p => inf'[r] = inf[r] /\ (r \in old' <=> r \in old)
    BY <1>1, <1>6 DEF PoolSeen, memory
  <2>2. q # p => Lag(q)'
    BY <2>1, LagStill DEF PodStep
  <2>3. CopyLags(p)'
    BY <1>2, <2>1 DEF CopyLags, Going
  <2>4. PassLags(p)'
    BY <1>2, <2>1 DEF PassLags, CopyLags
  <2>5. FirstPass(p)' /\ SeenLags(p)'
    BY <1>2, <2>1 DEF FirstPass, SeenLags, SamePod, At
  <2>6. pool'[p].life = "gone" => NothingLeft(p)' \/ wk'.p = p
    BY <1>2, <2>1 DEF Lag, NothingLeft, NoAgentLeft
  <2> QED
    BY <2>2, <2>3, <2>4, <2>5, <2>6 DEF Lag
<1>7. CASE Start(p)
  <2>1. wk.pc = "idle" /\ UNCHANGED <<pool, inf, old, pod, seen, caches, gauges>>
    BY <1>7 DEF Start, memory, stored
  <2>2. \/ /\ inf[p].life = "there" /\ wk'.pc = "deploy" /\ wk'.p = p /\ wk'.obj = inf[p]
           /\ wk'.fresh = (p \notin old)
        \/ wk'.pc = "idle" /\ wk'.p = NoPool
    BY <1>7 DEF Start, Idle
  <2>3. wk.p = NoPool
    BY <2>1 DEF Basics
  <2>4. q # p => Lag(q)'
    BY <1>1, <2>1, <2>2, <2>3, LagStill DEF PodStep
  <2>5. CopyLags(p)'
    BY <1>2, <2>1 DEF CopyLags
  <2>6. PassLags(p)'
    <3>1. p \notin old => inf[p] = pool[p]
      BY DEF Basics, Current
    <3> QED
      BY <1>1, <1>2, <2>1, <2>2, <3>1 DEF PassLags, CopyLags, Going
  <2>7. FirstPass(p)'
    BY <1>1, <1>2, <2>1, <2>2, <2>3 DEF FirstPass, At
  <2>8. SeenLags(p)'
    BY <1>2, <2>1, <2>2 DEF SeenLags, SamePod, At
  <2>9. pool'[p].life = "gone" => NothingLeft(p)'
    BY <1>1, <1>2, <2>1, <2>3 DEF Lag, NothingLeft, NoAgentLeft
  <2> QED
    BY <2>4, <2>5, <2>6, <2>7, <2>8, <2>9 DEF Lag
<1>8. ASSUME UNCHANGED <<stored, seen, caches, gauges, wk>>,
             \A r \in Pools : PodStep(r) \/ pod'[r].uid = 0
      PROVE  Lag(q)'
  BY <1>8, LagStill DEF stored
<1>9. CASE PodReady(p)
  <2>1. UNCHANGED <<stored, seen, caches, gauges, wk>> /\ pod' = [pod EXCEPT ![p].ready = TRUE]
    BY <1>9 DEF PodReady, memory
  <2>2. \A r \in Pools : PodStep(r)
    BY <1>1, <2>1 DEF Pod, PodStep
  <2> QED
    BY <1>8, <2>1, <2>2
<1>10. CASE Evict(p)
  <2>1. UNCHANGED <<stored, seen, caches, gauges, wk>> /\ PodDeleted(p)
    BY <1>10 DEF Evict, memory
  <2>2. \A r \in Pools : PodStep(r)
    BY <1>1, <2>1, DeletedEffect DEF PodStep, Basics
  <2> QED
    BY <1>8, <2>1, <2>2
<1>11. CASE PodGone(p)
  <2>1. UNCHANGED <<stored, seen, caches, gauges, wk>> /\ pod' = [pod EXCEPT ![p] = NoPod] /\ NoPod.uid = 0
    BY <1>11 DEF PodGone, memory, NoPod
  <2>2. \A r \in Pools : PodStep(r) \/ pod'[r].uid = 0
    BY <1>1, <2>1 DEF PodStep
  <2> QED
    BY <1>8, <2>1, <2>2
<1>12. CASE PodSeen(p)
  <2>1. UNCHANGED <<pool, inf, old, pod, caches, gauges, wk>> /\ "relist" \notin env
    BY <1>12 DEF PodSeen, memory, stored, Orderly
  <2>2. seen'[p] = NextSeen(p) /\ \A r \in Pools : r # p => seen'[r] = seen[r]
    BY <1>1, <1>12 DEF PodSeen
  <2>3. q # p => Lag(q)'
    BY <2>1, <2>2, LagStill DEF PodStep
  <2>4. SamePod(p) => SamePod(p)'
    BY <2>1, <2>2 DEF SamePod, NextSeen
  <2>5. pod[p].uid = 0 /\ seen[p].uid = 0 => seen'[p].uid = 0
    BY <2>2 DEF NextSeen
  <2>6. CopyLags(p)' /\ PassLags(p)'
    BY <1>2, <2>1 DEF CopyLags, PassLags
  <2>7. FirstPass(p)' /\ SeenLags(p)'
    BY <1>2, <2>1, <2>4, <2>5 DEF FirstPass, SeenLags, At
  <2>8. pool'[p].life = "gone" => NothingLeft(p)' \/ wk'.p = p
    BY <1>2, <2>1 DEF Lag, NothingLeft, NoAgentLeft
  <2> QED
    BY <2>3, <2>6, <2>7, <2>8 DEF Lag
<1> QED
  BY <1>3, <1>4, <1>5, <1>6, <1>7, <1>9, <1>10, <1>11, <1>12 DEF PoolNext

\* A vmnetcfg's address is written into a pool that has caches, and so a reference.
LEMMA LagUsers ==
  ASSUME Basics, "late" \in env, \A q \in Pools : Lag(q), NEW c \in Cfgs, CfgNext(c), NEW q \in Pools
  PROVE  Lag(q)'
<1>1. ASSUME UNCHANGED <<stored, pod, seen, caches, gauges, wk>> PROVE Lag(q)'
  BY <1>1, LagStill DEF PodStep, stored
<1>2. ASSUME UNCHANGED <<pod, seen, caches, gauges>>, user[c].net \in caches,
             PoolWritten(PoolOf(c), pool[PoolOf(c)])
      PROVE  Lag(q)'
  <2>1. PICK p \in Pools : p = PoolOf(c)
    BY <1>2, PoolFound
  <2>2. NetworkOf[p] \in caches /\ pool[p] \in Pool /\ PoolWritten(p, pool[p])
    BY <1>2, <2>1, PoolFound DEF Basics, TypeOK
  <2>3. CopyLags(p) /\ PassLags(p) /\ FirstPass(p) /\ SeenLags(p)
    BY DEF Lag
  <2>4. /\ inf' = inf /\ pool'[p] = pool[p] /\ wk'.pc = wk.pc /\ wk'.p = wk.p /\ wk'.obj = wk.obj
        /\ wk'.fresh => wk.fresh
        /\ q # p => Lag(q)'
    BY <1>2, <2>2, LagWritten
  <2>5. CopyLags(p)' /\ PassLags(p)'
    BY <2>3, <2>4 DEF CopyLags, PassLags
  <2>6. FirstPass(p)' /\ SeenLags(p)'
    BY <1>2, <2>2, <2>3, <2>4 DEF FirstPass, SeenLags, SamePod, At
  <2>7. pool'[p].life = "gone" => NothingLeft(p)' \/ wk'.p = p
    BY <1>2, <2>4 DEF Lag, NothingLeft, NoAgentLeft
  <2> QED
    BY <2>4, <2>5, <2>6, <2>7 DEF Lag
<1>3. CASE \E n \in Networks : CreateCfg(c, n)
  BY <1>1, <1>3 DEF CreateCfg, memory
<1>4. CASE DeleteCfg(c)
  BY <1>1, <1>4 DEF DeleteCfg, memory
<1>5. CASE Allocate(c)
  BY <1>1, <1>2, <1>5 DEF Allocate
<1>6. CASE RemoveCfg(c)
  BY <1>1, <1>2, <1>6 DEF RemoveCfg
<1> QED
  BY <1>3, <1>4, <1>5, <1>6 DEF CfgNext

\* Lag holds at first.
LEMMA LagInit == ASSUME Init, NEW p \in Pools PROVE Lag(p)
<1>1. /\ NewPool.life = "none" /\ ~NewPool.ref.named /\ ~NewPool.paused /\ ~NewPool.deleting /\ ~NewPool.final
      /\ NoPod.uid = 0
  BY DEF NewPool, NoRef, NoPod
<1>2. /\ wk.p = NoPool /\ p # NoPool /\ caches = {} /\ gauges = {} /\ old = {}
      /\ pool[p] = NewPool /\ inf[p] = NewPool /\ pod[p] = NoPod /\ seen[p] = NoPod
  BY ConstantsAssumption DEF Init, Idle
<1> QED
  BY <1>1, <1>2 DEF Lag, CopyLags, PassLags, FirstPass, SeenLags, SamePod, At, Going

\* Every step keeps Lag.
LEMMA LagKept ==
  ASSUME Basics, Aligned, Orderly, "late" \in env, \A q \in Pools : Lag(q), [Next]_vars, NEW q \in Pools
  PROVE  Lag(q)'
<1>1. CASE Upgrade
  <2>1. /\ wk.p = NoPool /\ wk'.p = NoPool /\ q # NoPool /\ UNCHANGED <<pool, pod>>
        /\ caches' = {} /\ gauges' = {} /\ seen' = pod /\ inf' = pool /\ old' = {}
    BY <1>1, ConstantsAssumption DEF Upgrade, Calm, Orderly, Idle, Basics
  <2>2. CopyLags(q) /\ FirstPass(q)
    BY DEF Lag
  <2>3. CopyLags(q)' /\ PassLags(q)'
    BY <2>1, <2>2 DEF CopyLags, PassLags, Going
  <2>4. FirstPass(q)' /\ SeenLags(q)'
    BY <2>1, <2>2 DEF FirstPass, SeenLags, SamePod, At
  <2>5. pool'[q].life = "gone" => NothingLeft(q)'
    BY <2>1 DEF Lag, NothingLeft, NoAgentLeft
  <2> QED
    BY <2>3, <2>4, <2>5 DEF Lag
<1>2. CASE UNCHANGED vars
  <2>1. UNCHANGED <<stored, pod, seen, caches, gauges, wk>>
    BY <1>2 DEF vars, state, memory
  <2> QED
    BY <2>1, LagStill DEF PodStep, stored
<1> QED
  BY <1>1, <1>2, LagUsers, LagPools, LagWorker DEF Next

\* The environment stays the same.
LEMMA SameEnv == ASSUME [Next]_vars PROVE Orderly' = Orderly /\ env' = env
BY DEF Next, vars, Orderly

\* The inductive invariant: in the orderly environments, by whether the informer is late.
OrderOrLag ==
  /\ Basics
  /\ Orderly /\ "late" \notin env => Order
  /\ Orderly /\ "late" \in env => \A p \in Pools : Lag(p)

\* Every step keeps it.
LEMMA OrderOrLagKept ==
  ASSUME Aligned
  PROVE  (Init => OrderOrLag) /\ (OrderOrLag /\ [Next]_vars => OrderOrLag')
<1>1. Init => OrderOrLag
  BY BasicsInit, OrderInit, LagInit DEF OrderOrLag
<1>2. ASSUME OrderOrLag, [Next]_vars PROVE OrderOrLag'
  <2>1. Basics' /\ Orderly' = Orderly /\ env' = env
    BY <1>2, BasicsKept, SameEnv DEF OrderOrLag
  <2>2. Orderly /\ "late" \notin env => Order'
    BY <1>2, OrderKept DEF OrderOrLag
  <2>3. Orderly /\ "late" \in env => \A p \in Pools : Lag(p)'
    BY <1>2, LagKept DEF OrderOrLag
  <2> QED
    BY <2>1, <2>2, <2>3 DEF OrderOrLag
<1> QED
  BY <1>1, <1>2

\* Where users are orderly, OnRemove takes everything away with a pool, and nothing of
\* it comes back, whatever pods, restarts and vmnetcfgs do meanwhile: no pass ends, be it
\* on a copy from before the pool was gone, that leaves some of it behind.
THEOREM NothingOutlivesKept == ASSUME Aligned PROVE Spec => []NothingOutlivesInOrder
<1>1. (Init => OrderOrLag) /\ (OrderOrLag /\ [Next]_vars => OrderOrLag')
  BY OrderOrLagKept
<1>3. OrderOrLag => NothingOutlivesInOrder
  <2> SUFFICES ASSUME OrderOrLag, Orderly PROVE NothingOutlives
    BY DEF NothingOutlivesInOrder
  <2>1. ASSUME NEW p \in Pools, pool[p].life = "gone" PROVE NothingLeft(p) \/ wk.p = p
    <3>1. CASE "late" \in env
      BY <2>1, <3>1 DEF OrderOrLag, Lag
    <3>2. CASE "late" \notin env
      <4>1. Order
        BY <3>2 DEF OrderOrLag
      <4>2. ~pool[p].ref.named /\ Unnamed(p)
        BY <2>1, <4>1 DEF Order, RefsKept, There
      <4>3. wk.p # p
        BY <2>1, <4>1, ConstantsAssumption DEF Order, CopyKept, There, OrderOrLag, Basics
      <4> QED
        BY <4>2, <4>3 DEF Unnamed, At, NothingLeft, GaugeOf
    <3> QED
      BY <3>1, <3>2
  <2>2. \A c \in served : user[c].net # NoNetwork
    BY DEF OrderOrLag, Basics
  <2> QED
    BY <2>1, <2>2 DEF NothingOutlives
<1> QED
  BY <1>1, <1>3, PTL DEF Spec

-----------------------------------------------------------------------------
\* Where no pool is paused either and the IPPool informer delivers at once: what
\* MonitorAgent takes for obsolete is.

\* The pod is not the one the pool refers to, or on its way out.
Off(p) == pod[p].uid = 0 \/ pod[p].deleting \/ pod[p].uid # pool[p].ref.uid

\* A pod is only created after the one before it has left the pod cache. A pod that
\* the cache does not have yet is one of the running controller's.
SeenKept(p) ==
  /\ seen[p].uid # 0 /\ pod[p].uid # 0 =>
       /\ seen[p].uid = pod[p].uid /\ seen[p].image = pod[p].image
       /\ seen[p].deleting => pod[p].deleting
  /\ seen[p].uid = 0 /\ pod[p].uid # 0 => pod[p].image = image

\* After an upgrade the reference gets the new image before the caches are there, and
\* without caches nobody makes the worker's copy old.
ImagesKept(p) ==
  /\ ~pool[p].paused
  /\ ~pool[p].ref.named /\ pool[p].life # "gone" /\ ~At(p, {"deployed"}) =>
       pod[p].uid = 0 /\ seen[p].uid = 0
  /\ p \notin Held /\ pool[p].ref.named /\ pool[p].ref.image # image =>
       (NetworkOf[p] \in caches \/ At(p, {"build"}) => Off(p))
  /\ At(p, {"deploy", "deployed", "build", "monitor", "change"}) /\ ~wk.fresh => NetworkOf[p] \in caches
  /\ At(p, {"deployed"}) => pod[p].uid \in {0, wk.uid} /\ wk.uid # pool[p].ref.uid
  /\ At(p, {"build", "monitor"}) /\ wk.obj.ref # pool[p].ref =>
       Off(p) \/ pod[p].image # pool[p].ref.image

\* The inductive invariant about agents where no pool is paused.
Agents == \A p \in Pools : SeenKept(p) /\ ImagesKept(p)

\* The pod cache is not further behind when the deletion of a pod starts.
LEMMA SeenStill ==
  ASSUME NEW p \in Pools, SeenKept(p), seen'[p] = seen[p], image' = image, PodStep(p)
  PROVE  SeenKept(p)'
BY DEF SeenKept, PodStep

\* A pod that is off stays off.
LEMMA OffStill ==
  ASSUME NEW p \in Pools, PodStep(p), pool'[p].ref = pool[p].ref, Off(p)
  PROVE  Off(p)'
BY DEF Off, PodStep

\* A handler keeps Agents for the pools it does not work on.
LEMMA AgentsOthers ==
  ASSUME Basics, Aligned, Worker, NEW q \in Pools, q # wk.p, SeenKept(q), ImagesKept(q)
  PROVE  SeenKept(q)' /\ ImagesKept(q)'
<1>1. /\ pool'[q] = pool[q] /\ pod'[q] = pod[q] /\ seen' = seen /\ image' = image /\ wk'.p # q
      /\ NetworkOf[q] \in caches' => NetworkOf[q] \in caches
  BY OthersKept
<1>2. SeenKept(q)'
  BY <1>1 DEF SeenKept
<1>3. ImagesKept(q)'
  BY <1>1 DEF ImagesKept, At, Off
<1> QED
  BY <1>2, <1>3

\* A handler that ends without a pod created: what is left to show of it.
LEMMA AgentsHandled ==
  ASSUME NEW p \in Pools, wk.p = p, Basics, Order, Order', ImagesKept(p), seen' = seen,
         NEW obj, Kin(obj), obj.ref.set = obj.ref.named,
         NEW next \in {"build", "monitor", "change", "remove"}, Ends(obj, next), wk.pc # "idle",
         next # "remove" /\ NetworkOf[p] \in caches => NetworkOf[p] \in caches',
         wk.pc \in {"deploy", "deployed", "build", "monitor", "change"},
         p \notin Held /\ pool'[p].ref.named /\ pool'[p].ref.image # image' =>
           (NetworkOf[p] \in caches' \/ next = "build" => Off(p)'),
         next \in {"build", "monitor"} /\ ~wk.fresh /\ obj.ref # pool[p].ref =>
           Off(p)' \/ pod'[p].image # pool[p].ref.image
  PROVE  ImagesKept(p)'
<1>1. /\ pool'[p].life = "there" /\ pool'[p].paused = pool[p].paused
      /\ wk.fresh => pool'[p] = obj
      /\ ~wk.fresh => pool'[p] = pool[p]
  BY HandlerCopy DEF Order
<1>2. wk'.pc = next /\ wk'.p = p /\ wk'.obj = obj /\ wk'.fresh = wk.fresh
  BY DEF Ends
<1>3. ~pool'[p].paused /\ Unnamed(p)'
  BY <1>1 DEF ImagesKept, Order
<1>4. pool'[p].ref.named
  BY <1>2, <1>3 DEF Unnamed, At
<1>5. At(p, {"deploy", "deployed", "build", "monitor", "change"})' /\ ~wk'.fresh => NetworkOf[p] \in caches'
  BY <1>2 DEF ImagesKept, At
<1>6. At(p, {"build", "monitor"})' /\ wk'.obj.ref # pool'[p].ref => Off(p)' \/ pod'[p].image # pool'[p].ref.image
  BY <1>1, <1>2 DEF At
<1>7. p \notin Held /\ pool'[p].ref.named /\ pool'[p].ref.image # image' =>
        (NetworkOf[p] \in caches' \/ At(p, {"build"})' => Off(p)')
  BY <1>2 DEF At
<1>8. ~At(p, {"deployed"})'
  BY <1>2 DEF At
<1> QED
  BY <1>3, <1>4, <1>5, <1>6, <1>7, <1>8 DEF ImagesKept

\* DeployAgent keeps Agents: it creates a pod only when the pod cache has none, and after
\* an upgrade writes the new image before there are caches.
LEMMA AgentsDeploy ==
  ASSUME NEW p \in Pools, wk.p = p, Basics, Orderly, Order, Order', SeenKept(p), ImagesKept(p), DeployAgent
  PROVE  SeenKept(p)' /\ ImagesKept(p)'
<1>1. /\ wk.pc = "deploy" /\ TypeOK /\ caches' = caches /\ seen' = seen /\ image' = image
  BY DEF DeployAgent, Basics, memory
<1>2. /\ CopyKept /\ Unnamed(p) /\ wk.obj = pool[p] /\ pool[p].life = "there"
      /\ pool[p].ref.set = pool[p].ref.named /\ pool[p].ref \in Refs
  BY <1>1 DEF Order, CopyKept, RefsKept, There, TypeOK, Pool
<1>3. ~wk.fresh => pool[p].ref.named /\ NetworkOf[p] \in caches
  BY <1>1, <1>2 DEF Unnamed, ImagesKept, At
<1>4. /\ ~pool[p].ref.named => pod[p].uid = 0 /\ seen[p].uid = 0
      /\ p \notin Held /\ pool[p].ref.named /\ pool[p].ref.image # image /\ NetworkOf[p] \in caches => Off(p)
  BY <1>1, <1>2 DEF ImagesKept, At
<1>5. ASSUME NEW obj, Kin(obj), Ends(obj, "build"), Deployed(obj.ref), pod' = pod
      PROVE  SeenKept(p)' /\ ImagesKept(p)'
  <2>1. SeenKept(p)'
    BY <1>1, <1>5 DEF SeenKept
  <2>2. \/ obj.ref = pool[p].ref /\ Off(p)
        \/ Found /\ obj.ref = [pool[p].ref EXCEPT !.image = getAgentImage]
        \/ ~Found /\ pod[p].uid # 0 /\ obj.ref = [pool[p].ref EXCEPT !.set = TRUE, !.image = image]
    <3>1. ~wk.obj.paused /\ "noAgent" \notin env
      BY <1>2 DEF ImagesKept, Orderly
    <3>2. Found /\ (seen[p].deleting \/ seen[p].uid # pool[p].ref.uid) => Off(p)
      BY <1>2 DEF Found, SeenKept, Off
    <3> QED
      BY <1>2, <1>5, <3>1, <3>2 DEF Deployed
  <2>3. /\ obj.ref.uid = pool[p].ref.uid /\ obj.ref.named = pool[p].ref.named
        /\ obj.ref.set = obj.ref.named
    <3>1. ~Found /\ pod[p].uid # 0 => pool[p].ref.named
      BY <1>4
    <3>2. pool[p].ref.named \in BOOLEAN /\ pool[p].ref.set \in BOOLEAN
      BY <1>2 DEF Refs
    <3> QED
      BY <1>2, <2>2, <3>1, <3>2 DEF Refs
  <2>4. /\ wk.fresh => pool'[p] = obj
        /\ ~wk.fresh => pool'[p] = pool[p]
    BY <1>1, <1>2, <1>5, <2>3, HandlerCopy
  <2>5. pool'[p].ref.uid = pool[p].ref.uid /\ (Off(p) <=> Off(p)')
    BY <1>5, <2>3, <2>4 DEF Off
  <2>6. ASSUME p \notin Held, pool'[p].ref.named, pool'[p].ref.image # image' PROVE Off(p)'
    <3>1. CASE wk.fresh
      <4>1. obj.ref.image # image /\ getAgentImage = image
        BY <1>1, <2>4, <2>6, <3>1 DEF getAgentImage
      <4>2. /\ [pool[p].ref EXCEPT !.image = image].image = image
            /\ [pool[p].ref EXCEPT !.set = TRUE, !.image = image].image = image
        BY <1>2 DEF Refs
      <4> QED
        BY <2>2, <2>5, <4>1, <4>2
    <3>2. CASE ~wk.fresh
      BY <1>1, <1>3, <1>4, <2>4, <2>5, <2>6, <3>2
    <3> QED
      BY <3>1, <3>2
  <2>7. ASSUME ~wk.fresh, obj.ref # pool[p].ref PROVE Off(p) \/ pod[p].image # pool[p].ref.image
    <3>1. pool[p].ref.set /\ pool[p].ref.named
      BY <1>2, <1>3, <2>7 DEF Refs
    <3>2. CASE Found /\ obj.ref = [pool[p].ref EXCEPT !.image = getAgentImage]
      <4>1. getAgentImage # pool[p].ref.image
        BY <1>2, <2>7, <3>2, RefSame
      <4>2. p \notin Held /\ image # pool[p].ref.image
        BY <1>2, <4>1 DEF getAgentImage
      <4> QED
        BY <1>3, <1>4, <2>7, <4>2
    <3>3. CASE ~Found /\ pod[p].uid # 0 /\ obj.ref = [pool[p].ref EXCEPT !.set = TRUE, !.image = image]
      <4>1. image # pool[p].ref.image
        BY <1>2, <2>7, <3>1, <3>3, RefSame
      <4>2. seen[p].uid = 0
        BY <1>2, <3>1, <3>3 DEF Found
      <4> QED
        BY <3>3, <4>1, <4>2 DEF SeenKept
    <3> QED
      BY <2>2, <2>7, <3>2, <3>3
  <2>8. ImagesKept(p)'
    BY <1>1, <1>5, <2>3, <2>5, <2>6, <2>7, AgentsHandled
  <2> QED
    BY <2>1, <2>8
<1>6. ASSUME ~Found, NEW uid, Created(p, uid)
      PROVE  SeenKept(p)' /\ ImagesKept(p)'
  <2> DEFINE new == [uid |-> uid, image |-> image, deleting |-> FALSE, ready |-> FALSE]
  <2>1. /\ pool' = pool /\ uid \in Uids /\ uid # pool[p].ref.uid
        /\ pod' = [pod EXCEPT ![p] = new] /\ wk' = [wk EXCEPT !.pc = "deployed", !.uid = uid]
    BY <1>6 DEF Created
  <2>2. new.uid = uid /\ new.image = image
    OBVIOUS
  <2> HIDE DEF new
  <2>3. pod'[p] = new /\ uid # 0
    BY <1>1, <2>1, ConstantsAssumption DEF TypeOK
  <2>4. wk'.pc = "deployed" /\ wk'.p = p /\ wk'.fresh = wk.fresh /\ wk'.uid = uid
    BY <1>1, <2>1 DEF TypeOK, WorkerStates
  <2>5. seen[p].uid = 0
    BY <1>2, <1>4, <1>6 DEF Found
  <2>6. SeenKept(p)'
    BY <1>1, <2>2, <2>3, <2>5 DEF SeenKept
  <2>7. ImagesKept(p)'
    BY <1>1, <1>3, <2>1, <2>2, <2>3, <2>4 DEF ImagesKept, At, Off
  <2> QED
    BY <2>6, <2>7
<1> QED
  BY <1>1, <1>5, <1>6, DeployEffect

\* Saving the reference keeps Agents.
LEMMA AgentsSave ==
  ASSUME NEW p \in Pools, wk.p = p, Basics, Order, Order', SeenKept(p), ImagesKept(p), SaveAgentRef
  PROVE  SeenKept(p)' /\ ImagesKept(p)'
<1>1. /\ wk.pc = "deployed" /\ TypeOK /\ UNCHANGED <<pod, seen, image, caches>>
  BY DEF SaveAgentRef, Basics, memory
<1>2. SeenKept(p)'
  BY <1>1 DEF SeenKept
<1>3. PICK obj : /\ Kin(obj) /\ Ends(obj, "build")
                 /\ obj.ref = [set |-> TRUE, named |-> TRUE, uid |-> wk.uid, image |-> image]
  BY <1>1, SaveEffect
<1>4. obj.ref.set = obj.ref.named /\ obj.ref.image = image
  BY <1>3
<1>5. /\ wk.fresh => pool'[p] = obj
      /\ ~wk.fresh => pool'[p] = pool[p]
  BY <1>1, <1>3, <1>4, HandlerCopy DEF Order
<1>6. ~wk.fresh => NetworkOf[p] \in caches /\ Off(p)
  BY <1>1 DEF ImagesKept, At, Off
<1>7. ~wk.fresh => Off(p)'
  BY <1>1, <1>5, <1>6 DEF Off
<1>8. p \notin Held /\ pool'[p].ref.named /\ pool'[p].ref.image # image' => Off(p)'
  BY <1>1, <1>4, <1>5, <1>7
<1>9. ImagesKept(p)'
  BY <1>1, <1>3, <1>4, <1>7, <1>8, AgentsHandled
<1> QED
  BY <1>2, <1>9

\* A handler that leaves the reference as it was.
LEMMA AgentsRefKept ==
  ASSUME NEW p \in Pools, wk.p = p, Basics, Order, Order', SeenKept(p), ImagesKept(p),
         wk.pc \in {"build", "monitor", "change"}, seen' = seen, image' = image, PodStep(p),
         NEW obj, Kin(obj), obj.ref = wk.obj.ref,
         NEW next \in {"monitor", "change", "remove"}, Ends(obj, next),
         next = "monitor" => wk.pc = "build",
         NetworkOf[p] \in caches => NetworkOf[p] \in caches',
         NetworkOf[p] \in caches' => NetworkOf[p] \in caches \/ wk.pc = "build"
  PROVE  SeenKept(p)' /\ ImagesKept(p)'
<1>1. SeenKept(p)'
  BY SeenStill
<1>2. obj.ref.set = obj.ref.named
  BY DEF Order, CopyKept
<1>3. /\ wk.fresh => pool'[p] = obj
      /\ ~wk.fresh => pool'[p] = pool[p]
  BY <1>2, HandlerCopy DEF Order
<1>4. pool'[p].ref = pool[p].ref
  BY <1>3 DEF Order, CopyKept
<1>5. Off(p) => Off(p)'
  BY <1>4, OffStill
<1>6. p \notin Held /\ pool'[p].ref.named /\ pool'[p].ref.image # image' =>
        (NetworkOf[p] \in caches' => Off(p)')
  BY <1>4, <1>5 DEF ImagesKept, At
<1>7. next = "monitor" /\ obj.ref # pool[p].ref => Off(p)' \/ pod'[p].image # pool[p].ref.image
  BY <1>5 DEF ImagesKept, At, PodStep
<1>8. ImagesKept(p)'
  BY <1>2, <1>6, <1>7, AgentsHandled
<1> QED
  BY <1>1, <1>8

\* OnRemove keeps Agents.
LEMMA AgentsRemove ==
  ASSUME NEW p \in Pools, wk.p = p, Basics, Orderly, Order, SeenKept(p), ImagesKept(p), OnRemove
  PROVE  SeenKept(p)' /\ ImagesKept(p)'
<1>1. wk.pc = "remove" /\ TypeOK /\ seen' = seen /\ image' = image /\ "noAgent" \notin env
  BY DEF OnRemove, Basics, Orderly
<1>2. CopyKept /\ Unnamed(p) /\ pool[p].ref.named /\ ~pool[p].paused
  BY <1>1 DEF Order, Unnamed, ImagesKept, At
<1>3. PodStep(p) /\ caches' \subseteq caches
  BY <1>1, RemoveEffect, CleanupEffect DEF PodStep
<1>4. SeenKept(p)'
  BY <1>1, <1>3, SeenStill
<1>5. wk'.p # p
  BY <1>1, RemoveEffect, ConstantsAssumption DEF Ends
<1>6. \/ ~pool'[p].paused /\ pool'[p].ref = pool[p].ref
      \/ pool'[p] = Gone
  <2>1. ASSUME NEW obj, Kin(obj), Ends(obj, "idle"), obj.ref = wk.obj.ref
        PROVE  ~pool'[p].paused /\ pool'[p].ref = pool[p].ref
    <3>1. obj.ref.set = obj.ref.named
      BY <1>1, <1>2, <2>1 DEF CopyKept
    <3> QED
      BY <1>1, <1>2, <2>1, <3>1, HandlerCopy DEF CopyKept
  <2>2. Ends(Gone, "idle") => pool'[p] = Gone \/ pool'[p] = pool[p]
    BY DEF Ends
  <2> QED
    BY <1>1, <1>2, <2>1, <2>2, RemoveEffect
<1>7. CASE pool'[p] = Gone
  <2>1. Gone.life = "gone" /\ ~Gone.ref.named /\ ~Gone.paused
    BY DEF Gone, NewPool, NoRef
  <2>2. ImagesKept(p)'
    BY <1>5, <1>7, <2>1 DEF ImagesKept, At
  <2> QED
    BY <1>4, <2>2
<1>8. CASE ~pool'[p].paused /\ pool'[p].ref = pool[p].ref
  <2>1. Off(p) => Off(p)'
    BY <1>3, <1>8, OffStill
  <2>2. ImagesKept(p)'
    BY <1>1, <1>2, <1>3, <1>5, <1>8, <2>1 DEF ImagesKept, At
  <2> QED
    BY <1>4, <2>2
<1> QED
  BY <1>6, <1>7, <1>8

\* The handlers keep Agents.
LEMMA AgentsWorker ==
  ASSUME Basics, Aligned, Orderly, Order, Order', Agents, Worker
  PROVE  Agents'
<1>1. PICK p \in Pools : p = wk.p
  BY Worked DEF Worker, DeployAgent, SaveAgentRef, BuildCache, MonitorAgent, OnChange, OnRemove
<1>2. SeenKept(p) /\ ImagesKept(p) /\ TypeOK
  BY DEF Agents, Basics
<1>3. ASSUME BuildCache PROVE SeenKept(p)' /\ ImagesKept(p)'
  <2>1. /\ wk.pc = "build" /\ UNCHANGED <<pod, seen, image>>
        /\ caches \subseteq caches'
    BY <1>3 DEF BuildCache
  <2>2. PICK obj : Kin(obj) /\ Ends(obj, "monitor") /\ obj.ref = wk.obj.ref
    BY <1>1, <1>2, <1>3, BuildEffect
  <2> QED
    BY <1>1, <1>2, <2>1, <2>2, AgentsRefKept DEF PodStep
<1>4. ASSUME MonitorAgent PROVE SeenKept(p)' /\ ImagesKept(p)'
  <2>1. wk.pc = "monitor" /\ UNCHANGED <<seen, image, caches>>
    BY <1>4 DEF MonitorAgent, memory
  <2>2. PICK obj : Kin(obj) /\ Ends(obj, "change") /\ obj.ref = wk.obj.ref
    BY <1>1, <1>2, <1>4, MonitorEffect
  <2>3. PodStep(p)
    BY <1>1, <1>2, <1>4, MonitorEffect, DeletedEffect DEF PodStep
  <2> QED
    BY <1>1, <1>2, <2>1, <2>2, <2>3, AgentsRefKept
<1>5. ASSUME OnChange PROVE SeenKept(p)' /\ ImagesKept(p)'
  <2>1. wk.pc = "change" /\ UNCHANGED <<seen, image>>
    BY <1>5 DEF OnChange
  <2>2. ~wk.obj.paused
    BY <1>1, <1>2, <2>1 DEF Order, CopyKept, ImagesKept
  <2>3. PICK obj : /\ Kin(obj) /\ Ends(obj, "remove")
                   /\ obj.ref = wk.obj.ref /\ UNCHANGED <<pod, caches>>
    BY <1>1, <1>2, <1>5, <2>2, ChangeEffect
  <2> QED
    BY <1>1, <1>2, <2>1, <2>3, AgentsRefKept DEF PodStep
<1>6. SeenKept(p)' /\ ImagesKept(p)'
  BY <1>1, <1>2, <1>3, <1>4, <1>5, AgentsDeploy, AgentsSave, AgentsRemove DEF Worker
<1>7. ASSUME NEW q \in Pools, q # p PROVE SeenKept(q)' /\ ImagesKept(q)'
  BY <1>1, <1>7, AgentsOthers DEF Agents
<1> QED
  BY <1>6, <1>7 DEF Agents

\* A step that leaves pool p and the worker alone, and may start or end the deletion
\* of its pod.
LEMMA AgentsStill ==
  ASSUME NEW p \in Pools, SeenKept(p), ImagesKept(p), pool'[p] = pool[p], seen'[p] = seen[p],
         image' = image, caches' = caches, wk' = wk, PodStep(p) \/ pod'[p].uid = 0
  PROVE  SeenKept(p)' /\ ImagesKept(p)'
<1>1. CASE PodStep(p)
  <2>1. SeenKept(p)' /\ (Off(p) => Off(p)')
    BY <1>1, SeenStill, OffStill
  <2>2. pod'[p].uid = pod[p].uid /\ pod'[p].image = pod[p].image
    BY <1>1 DEF PodStep
  <2>3. ImagesKept(p)'
    BY <2>1, <2>2 DEF ImagesKept, At
  <2> QED
    BY <2>1, <2>3
<1>2. CASE pod'[p].uid = 0
  <2>1. SeenKept(p)' /\ Off(p)'
    BY <1>2 DEF SeenKept, Off
  <2>2. ImagesKept(p)'
    BY <1>2, <2>1 DEF ImagesKept, At
  <2> QED
    BY <2>1, <2>2
<1> QED
  BY <1>1, <1>2

\* Someone else writes a pool, and leaves reference and pause as they were.
LEMMA AgentsWritten ==
  ASSUME Basics, Agents, NEW p \in Pools, NEW new \in Pool, PoolWritten(p, new),
         UNCHANGED <<pod, seen, image, caches>>,
         new.ref = pool[p].ref /\ ~new.paused /\ (new.life = "gone" \/ pool[p].life # "gone"),
         wk.p = p => NetworkOf[p] \in caches
  PROVE  Agents'
<1>1. /\ wk'.pc = wk.pc /\ wk'.p = wk.p /\ wk'.obj = wk.obj /\ wk'.uid = wk.uid
      /\ wk'.fresh = (wk.fresh /\ wk.p # p)
      /\ pool'[p] = new /\ \A q \in Pools : q # p => pool'[q] = pool[q]
  BY WrittenEffect DEF Basics
<1>2. ASSUME NEW q \in Pools PROVE SeenKept(q)' /\ ImagesKept(q)'
  <2>1. SeenKept(q) /\ ImagesKept(q)
    BY DEF Agents
  <2>2. SeenKept(q)'
    BY <2>1 DEF SeenKept
  <2>3. CASE q = p
    <3>1. Off(p) = Off(p)'
      BY <1>1 DEF Off
    <3> QED
      BY <1>1, <2>1, <2>2, <2>3, <3>1 DEF ImagesKept, At
  <2>4. CASE q # p
    <3>1. Off(q) = Off(q)'
      BY <1>1, <2>4 DEF Off
    <3> QED
      BY <1>1, <2>1, <2>2, <2>4, <3>1 DEF ImagesKept, At
  <2> QED
    BY <2>3, <2>4
<1> QED
  BY <1>2 DEF Agents

\* Users, pods and the pod cache keep Agents.
LEMMA AgentsPools ==
  ASSUME Basics, Orderly, env \cap {"late", "pause"} = {}, Order, Agents, NEW p \in Pools, PoolNext(p)
  PROVE  Agents'
<1>1. pool[p] \in Pool /\ pod[p] \in Pod /\ pod \in [Pools -> Pod] /\ seen \in [Pools -> Pod] /\ TypeOK
  BY DEF Basics, TypeOK
<1>2. SeenKept(p) /\ ImagesKept(p) /\ CopyKept /\ RefsKept
  BY DEF Order, Agents
<1>3. CASE CreatePool(p)
  <2> DEFINE new == [NewPool EXCEPT !.life = "there"]
  <2>1. new \in Pool /\ new.life = "there" /\ ~new.ref.named /\ ~new.paused
    BY <1>1, UserWrites DEF NewPool, NoRef
  <2>2. pool[p].life = "none" /\ PoolWritten(p, new) /\ UNCHANGED <<pod, seen, image, caches>>
    BY <1>3 DEF CreatePool, memory
  <2> HIDE DEF new
  <2>3. wk.p # p
    BY <1>2, <2>2, ConstantsAssumption DEF CopyKept, There, Basics
  <2>4. pod[p].uid = 0 /\ seen[p].uid = 0
    BY <1>2, <2>2, <2>3 DEF RefsKept, There, ImagesKept, At
  <2>5. /\ wk'.pc = wk.pc /\ wk'.p = wk.p /\ wk'.obj = wk.obj /\ wk'.uid = wk.uid /\ wk'.fresh = wk.fresh
        /\ pool'[p] = new /\ \A q \in Pools : q # p => pool'[q] = pool[q]
    BY <2>1, <2>2, <2>3, WrittenEffect DEF Basics, TypeOK, WorkerStates
  <2>6. SeenKept(p)' /\ ImagesKept(p)'
    BY <2>1, <2>2, <2>3, <2>4, <2>5 DEF SeenKept, ImagesKept, At
  <2>7. ASSUME NEW q \in Pools, q # p PROVE SeenKept(q)' /\ ImagesKept(q)'
    <3>1. SeenKept(q) /\ ImagesKept(q)
      BY DEF Agents
    <3> QED
      BY <2>2, <2>5, <2>7, <3>1 DEF SeenKept, ImagesKept, At, Off
  <2> QED
    BY <2>6, <2>7 DEF Agents
<1>4. ~PausePool(p)
  BY DEF PausePool
<1>5. CASE DeletePool(p)
  <2> DEFINE new == [pool[p] EXCEPT !.deleting = TRUE]
  <2>1. /\ new \in Pool /\ new.ref = pool[p].ref /\ new.life = pool[p].life /\ ~new.paused
    BY <1>1, <1>2 DEF Pool, ImagesKept
  <2>2. /\ wk.pc = "idle" /\ pool[p].life = "there" /\ PoolWritten(p, new)
        /\ UNCHANGED <<pod, seen, image, caches>>
    BY <1>5 DEF DeletePool, Calm, Orderly, memory
  <2> HIDE DEF new
  <2>3. wk.p # p
    BY <2>2, ConstantsAssumption DEF Basics
  <2> QED
    BY <2>1, <2>2, <2>3, AgentsWritten
<1>6. CASE Start(p)
  <2>1. wk.pc = "idle" /\ UNCHANGED <<pool, pod, seen, image, caches>>
    BY <1>6 DEF Start, memory, stored
  <2>2. wk'.pc \in {"deploy", "idle"} /\ (wk'.fresh \/ wk'.p = NoPool)
    BY <1>6 DEF Start, Idle, Basics
  <2>3. ASSUME NEW q \in Pools PROVE SeenKept(q)' /\ ImagesKept(q)'
    <3>1. SeenKept(q) /\ ImagesKept(q) /\ q # NoPool /\ wk.p = NoPool
      BY <2>1, ConstantsAssumption DEF Agents, Basics
    <3>2. SeenKept(q)' /\ Off(q) = Off(q)'
      BY <2>1, <3>1 DEF SeenKept, Off
    <3> QED
      BY <2>1, <2>2, <3>1, <3>2 DEF ImagesKept, At
  <2> QED
    BY <2>3 DEF Agents
<1>7. ASSUME UNCHANGED <<pool, seen, image, caches, wk>>,
             \A q \in Pools : PodStep(q) \/ pod'[q].uid = 0
      PROVE  Agents'
  BY <1>7, AgentsStill DEF Agents
<1>8. CASE PodReady(p)
  <2>1. UNCHANGED <<pool, seen, image, caches, wk>> /\ pod' = [pod EXCEPT ![p].ready = TRUE]
    BY <1>8 DEF PodReady, memory, stored
  <2>2. \A q \in Pools : PodStep(q)
    BY <1>1, <2>1 DEF Pod, PodStep
  <2> QED
    BY <1>7, <2>1, <2>2
<1>9. CASE Evict(p)
  <2>1. UNCHANGED <<pool, seen, image, caches, wk>> /\ PodDeleted(p)
    BY <1>9 DEF Evict, memory, stored
  <2>2. \A q \in Pools : PodStep(q)
    BY <1>1, <2>1, DeletedEffect DEF PodStep
  <2> QED
    BY <1>7, <2>1, <2>2
<1>10. CASE PodGone(p)
  <2>1. UNCHANGED <<pool, seen, image, caches, wk>> /\ pod' = [pod EXCEPT ![p] = NoPod] /\ NoPod.uid = 0
    BY <1>10 DEF PodGone, memory, stored, NoPod
  <2>2. \A q \in Pools : PodStep(q) \/ pod'[q].uid = 0
    BY <1>1, <2>1 DEF PodStep
  <2> QED
    BY <1>7, <2>1, <2>2
<1>11. CASE PodSeen(p)
  <2>1. UNCHANGED <<pool, pod, image, caches, wk>> /\ seen' = [seen EXCEPT ![p] = NextSeen(p)] /\ "relist" \notin env
    BY <1>11 DEF PodSeen, memory, stored, Orderly
  <2>2. seen'[p] = NextSeen(p) /\ \A q \in Pools : q # p => seen'[q] = seen[q]
    BY <1>1, <2>1
  <2>3. \/ seen'[p] = pod[p] /\ seen[p].uid \in {0, pod[p].uid}
        \/ pod[p].uid = 0 /\ seen[p].uid # 0
    BY <1>2, <2>1, <2>2 DEF NextSeen, SeenKept
  <2>4. SeenKept(p)'
    BY <1>2, <2>1, <2>3 DEF SeenKept
  <2>5. Off(p) = Off(p)' /\ (pod[p].uid = 0 /\ seen[p].uid = 0 => seen'[p].uid = 0)
    BY <2>1, <2>3 DEF Off
  <2>6. ImagesKept(p)'
    BY <1>2, <2>1, <2>5 DEF ImagesKept, At
  <2>7. ASSUME NEW q \in Pools, q # p PROVE SeenKept(q)' /\ ImagesKept(q)'
    <3>1. SeenKept(q) /\ ImagesKept(q) /\ seen'[q] = seen[q] /\ PodStep(q)
      BY <2>1, <2>2, <2>7 DEF Agents, PodStep
    <3> QED
      BY <2>1, <3>1, AgentsStill
  <2> QED
    BY <2>4, <2>6, <2>7 DEF Agents
<1>12. ~PoolSeen(p)
  BY DEF Basics, PoolSeen
<1> QED
  BY <1>3, <1>4, <1>5, <1>6, <1>8, <1>9, <1>10, <1>11, <1>12 DEF PoolNext

\* The vmnetcfgs keep Agents: they write only pools that have caches.
LEMMA AgentsUsers ==
  ASSUME Basics, Agents, NEW c \in Cfgs, CfgNext(c)
  PROVE  Agents'
<1>1. ASSUME UNCHANGED <<pool, pod, seen, image, caches, wk>> PROVE Agents'
  BY <1>1, AgentsStill DEF Agents, PodStep
<1>2. ASSUME UNCHANGED <<pod, seen, image, caches>>, user[c].net \in caches,
             PoolWritten(PoolOf(c), pool[PoolOf(c)])
      PROVE  Agents'
  <2>1. PICK p \in Pools : p = PoolOf(c)
    BY <1>2, PoolFound
  <2>2. NetworkOf[p] \in caches /\ pool[p] \in Pool /\ ~pool[p].paused /\ PoolWritten(p, pool[p])
    BY <1>2, <2>1, PoolFound DEF Basics, TypeOK, Agents, ImagesKept
  <2> QED
    BY <1>2, <2>2, AgentsWritten
<1>3. CASE \E n \in Networks : CreateCfg(c, n)
  BY <1>1, <1>3 DEF CreateCfg, memory, stored
<1>4. CASE DeleteCfg(c)
  BY <1>1, <1>4 DEF DeleteCfg, memory, stored
<1>5. CASE Allocate(c)
  BY <1>1, <1>2, <1>5 DEF Allocate, stored
<1>6. CASE RemoveCfg(c)
  BY <1>1, <1>2, <1>6 DEF RemoveCfg, stored
<1> QED
  BY <1>3, <1>4, <1>5, <1>6 DEF CfgNext

\* Agents holds at first.
LEMMA AgentsInit == ASSUME Init PROVE Agents
<1>1. ~NewPool.paused /\ NoPod.uid = 0
  BY DEF NewPool, NoPod
<1>2. /\ wk.p = NoPool /\ NoPool \notin Pools /\ caches = {}
      /\ \A p \in Pools : pool[p] = NewPool /\ pod[p] = NoPod /\ seen[p] = NoPod
  BY ConstantsAssumption DEF Init, Idle
<1> QED
  BY <1>1, <1>2 DEF Agents, SeenKept, ImagesKept, At

\* Every step keeps Agents.
LEMMA AgentsKept ==
  ASSUME Basics, Aligned, Orderly, env \cap {"late", "pause"} = {}, Order, Order', Agents, [Next]_vars
  PROVE  Agents'
<1>1. CASE Upgrade
  <2>1. wk.pc = "idle" /\ wk'.p = NoPool /\ UNCHANGED <<pool, pod>> /\ caches' = {} /\ seen' = pod
    BY <1>1 DEF Upgrade, Calm, Orderly, Idle
  <2>2. ASSUME NEW q \in Pools PROVE SeenKept(q)' /\ ImagesKept(q)'
    <3>1. ImagesKept(q) /\ q # NoPool /\ wk.p = NoPool
      BY <2>1, ConstantsAssumption DEF Agents, Basics
    <3>2. SeenKept(q)'
      BY <2>1 DEF SeenKept
    <3> QED
      BY <2>1, <3>1, <3>2 DEF ImagesKept, At
  <2> QED
    BY <2>2 DEF Agents
<1>2. CASE UNCHANGED vars
  <2>1. UNCHANGED <<pool, pod, seen, image, caches, wk>>
    BY <1>2 DEF vars, state, memory, stored
  <2> QED
    BY <2>1, AgentsStill DEF Agents, PodStep
<1> QED
  BY <1>1, <1>2, AgentsUsers, AgentsPools, AgentsWorker DEF Next

\* MonitorAgent deletes a pod by name on what the pod cache and its copy of the pool
\* say. Where no pool is paused, that is never a pod the stored pool refers to and
\* whose image it asks for, however late the pod cache, and across evictions and an
\* upgrade: if the pass began on the stored pool, whatever is written meanwhile; and if
\* passes begin on old copies as well, as long as the reference in the copy is the stored
\* one.
THEOREM GoodPodSafe == ASSUME Aligned PROVE Spec => GoodPodKeptUnpaused
<1> DEFINE Unpaused == Orderly /\ "pause" \notin env
           Inv == OrderOrLag /\ (Unpaused /\ "late" \notin env => Agents)
           Kept == \A p \in Pools :
                     Orderly /\ "pause" \notin env /\ MonitorKills(p) /\ ("late" \in env => wk.obj.ref = pool[p].ref)
                     => pod[p].uid # pool[p].ref.uid \/ pod[p].image # pool[p].ref.image
<1>1. Init => Inv
  BY OrderOrLagKept, AgentsInit
<1>2. Inv /\ [Next]_vars => Inv'
  <2> SUFFICES ASSUME Inv, [Next]_vars PROVE Inv'
    OBVIOUS
  <2>1. OrderOrLag' /\ Orderly' = Orderly /\ env' = env
    BY OrderOrLagKept, SameEnv
  <2>2. ASSUME Unpaused, "late" \notin env PROVE Agents'
    <3>1. Basics /\ Order /\ Order' /\ Agents /\ env \cap {"late", "pause"} = {}
      BY <2>1, <2>2 DEF OrderOrLag
    <3> QED
      BY <2>2, <3>1, AgentsKept
  <2> QED
    BY <2>1, <2>2
<1>3. Inv /\ [Next]_vars => [Kept]_vars
  <2> SUFFICES ASSUME Inv, [Next]_vars, NEW p \in Pools, Unpaused, MonitorKills(p),
                      "late" \in env => wk.obj.ref = pool[p].ref
               PROVE  pod[p].uid # pool[p].ref.uid \/ pod[p].image # pool[p].ref.image
    OBVIOUS
  <2>1. /\ TypeOK /\ wk.pc = "monitor" /\ wk.p = p /\ wk'.pc # "monitor" /\ ~pod[p].deleting /\ pod'[p].deleting
    BY DEF OrderOrLag, Basics, MonitorKills
  <2>2. MonitorAgent
    <3>1. ASSUME NEW q \in Pools, PoolNext(q) PROVE wk'.pc = wk.pc
      BY <2>1, <3>1 DEF PoolNext, CreatePool, PausePool, DeletePool, PoolSeen, Start, PodReady, Evict, PodGone, PodSeen, PoolWritten, TypeOK, WorkerStates
    <3>2. ASSUME NEW c \in Cfgs, CfgNext(c) PROVE wk'.pc = wk.pc
      BY <2>1, <3>2 DEF CfgNext, CreateCfg, DeleteCfg, Allocate, RemoveCfg, PoolWritten, TypeOK, WorkerStates
    <3>3. ~Upgrade
      BY <2>1 DEF Upgrade, Calm, Orderly
    <3>4. vars' # vars
      BY <2>1 DEF vars, state
    <3>5. Worker => MonitorAgent
      BY <2>1 DEF Worker, DeployAgent, SaveAgentRef, BuildCache, OnChange, OnRemove
    <3> QED
      BY <2>1, <3>1, <3>2, <3>3, <3>4, <3>5 DEF Next
  <2>3. Found /\ Obsolete(p) /\ pod[p].uid # 0
    <3>1. pod' # pod
      BY <2>1
    <3>2. Found /\ Obsolete(p) /\ PodDeleted(p)
      BY <2>1, <2>2, <3>1, MonitorEffect
    <3> QED
      BY <2>1, <3>2, DeletedEffect
  <2>4. CASE "late" \in env
    <3>1. Lag(p) /\ wk.obj.ref = pool[p].ref
      BY <2>4 DEF OrderOrLag
    <3>2. pod[p].uid = pool[p].ref.uid => seen[p].uid = pod[p].uid /\ seen[p].image = pod[p].image
      BY <2>1, <2>3, <3>1 DEF Lag, SeenLags, SamePod, Found
    <3> QED
      BY <2>3, <3>1, <3>2 DEF Obsolete
  <2>5. CASE "late" \notin env
    <3>1. SeenKept(p) /\ ImagesKept(p)
      BY <2>5 DEF Agents
    <3>2. seen[p].uid = pod[p].uid /\ seen[p].image = pod[p].image
      BY <2>1, <2>3, <3>1 DEF Found, SeenKept
    <3>3. CASE wk.obj.ref = pool[p].ref
      BY <2>3, <3>2, <3>3 DEF Obsolete
    <3>4. CASE wk.obj.ref # pool[p].ref
      BY <2>1, <2>3, <3>1, <3>4 DEF ImagesKept, At, Off
    <3> QED
      BY <3>3, <3>4
  <2> QED
    BY <2>4, <2>5
<1>4. (Init /\ [][Next]_vars => [][Kept]_vars)
  BY <1>1, <1>2, <1>3, PTL
<1> QED
  BY <1>4 DEF Spec, GoodPodKeptUnpaused
=============================================================================
