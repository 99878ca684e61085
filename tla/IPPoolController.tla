--------------------------- MODULE IPPoolController ---------------------------
(***************************************************************************)
(* The ippool controller. A pass hands the IPPool to DeployAgent,          *)
(* BuildCache, MonitorAgent and OnChange, in the order of Register; every  *)
(* handler gets the object the previous one returned. One action is one    *)
(* handler with the status update that ends it. Of DeployAgent and         *)
(* MonitorAgent only what the other handlers read is kept: whether         *)
(* status.agentPodRef is set, and that they write the object and may fail. *)
(***************************************************************************)
EXTENDS ControlPlaneState

\* With --no-agent DeployAgent and MonitorAgent set a condition once in the life of
\* a pool and fail only where BuildCache does: an instance without "agent" passes
\* over them.
\* The worker takes a key and copies the object out of the informer cache.
StartPool(n) ==
  /\ pw.pc = "idle" /\ n \in poolQ
  /\ "lagPool" \in Env \/ "worker" \notin pool[n].unseen
  /\ pw' = [pc |-> IF "agent" \in Env THEN "deploy" ELSE "build",
            n |-> n, obj |-> pool[n].inf]
  /\ pool' = [pool EXCEPT ![n] = Taken(@, "worker")]
  /\ poolQ' = poolQ \ {n}
  /\ UNCHANGED <<vm, cfg, labelled, memory, cfgQ, vmQ, cw>>

\* The generated status handler around DeployAgent, BuildCache and MonitorAgent:
\* the new status is sent if it differs, and goes on to the next handler even
\* when the update is refused.
StatusHandled(new, changed, failed, next) ==
  LET n == pw.n IN
    /\ pool' = [pool EXCEPT ![n] = Saved(@, new, changed)]
    /\ poolQ' = Also(poolQ, n, failed \/ Conflict(pool[n], changed))
    /\ pw' = [pc |-> next, n |-> n, obj |-> new]

\* A pool without an agent gets one; any step on the way may fail. "changed" is
\* free when only the Registered condition can differ.
DeployAgent ==
  /\ pw.pc = "deploy"
  /\ \E agent, failed, changed \in BOOLEAN :
       /\ pw.obj.paused => failed
       /\ agent = (pw.obj.agent \/ ~failed)
       /\ agent # pw.obj.agent => changed
       /\ StatusHandled([pw.obj EXCEPT !.agent = agent], changed, failed, "build")
  /\ UNCHANGED <<vm, cfg, labelled, memory, cfgQ, vmQ, cw>>

\* The IPAM BuildCache loads: the range without the revoked addresses, of which
\* those the handler's copy of the pool records for an interface are used. The
\* mutant does not load the recorded ones.
LoadedSubnetMutant(n, obj) == RevokeIP(NewIPSubnet(PoolRange[n]), Revoked[n])
LoadedSubnet(n, obj) ==
  AllocateIP(RevokeIP(NewIPSubnet(PoolRange[n]), Revoked[n]), {ip \in IPs : obj.alloc[ip] \in Macs})

\* The caches are built from the spec and from the status of the handler's copy
\* of the pool, unless that copy says they are.
BuildCache ==
  LET n == pw.n
      obj == pw.obj
      new == [obj EXCEPT !.ready = IF obj.paused THEN "False" ELSE "True"]
  IN /\ pw.pc = "build"
     /\ IF obj.paused \/ obj.ready = "True" THEN UNCHANGED memory
        ELSE /\ ipam' = [ipam EXCEPT ![n] = LoadedSubnet(n, obj)]
             /\ \E set \in LoadedMACSets(obj.alloc) : macs' = [macs EXCEPT ![n] = set]
     /\ StatusHandled(new, new # obj, obj.paused,
                      IF "agent" \in Env THEN "monitor" ELSE "change")
     /\ UNCHANGED <<vm, cfg, labelled, cfgQ, vmQ, cw>>

\* The agent pod is compared with the reference: the result is an error or none,
\* and the AgentReady condition.
MonitorAgent ==
  /\ pw.pc = "monitor"
  /\ \E failed, changed \in BOOLEAN :
       /\ pw.obj.paused => failed
       /\ StatusHandled(pw.obj, changed, failed, "change")
  /\ UNCHANGED <<vm, cfg, labelled, memory, cfgQ, vmQ, cw>>

\* The pass ends: OnChange sends its copy if it differs.
PoolPassEnds(new, failed) ==
  LET n == pw.n
      changed == new # pw.obj
  IN /\ pool' = [pool EXCEPT ![n] = Dropped(Saved(@, new, changed), "worker")]
     /\ poolQ' = Also(poolQ, n, failed \/ Conflict(pool[n], changed))
     /\ pw' = IdlePool

\* ensureNADLabels fails: the NAD was changed by others in between.
PoolLabelsFail ==
  /\ pw.pc = "change" /\ "agent" \in Env /\ pw.n \notin labelled
  /\ PoolPassEnds(pw.obj, TRUE)
  /\ UNCHANGED <<vm, cfg, labelled, memory, cfgQ, vmQ, cw>>

\* A paused pool: cleanup deletes the agent and, only if there was one, the
\* caches. Deleting the pod may fail.
PoolPaused ==
  LET n == pw.n IN
  /\ pw.pc = "change" /\ pw.obj.paused
  /\ labelled' = labelled \cup {n}
  /\ \/ /\ pw.obj.agent
        /\ PoolPassEnds(pw.obj, TRUE)
        /\ UNCHANGED memory
     \/ /\ PoolPassEnds([pw.obj EXCEPT !.agent = FALSE, !.stopped = "True"], FALSE)
        /\ IF pw.obj.agent
           THEN /\ ipam' = [ipam EXCEPT ![n] = NoSubnet]
                /\ macs' = [macs EXCEPT ![n] = NoMACSet]
           ELSE UNCHANGED memory
  /\ UNCHANGED <<vm, cfg, cfgQ, vmQ, cw>>

\* After a restart the condition may promise caches that are not there: it is
\* withdrawn, for BuildCache to act on in the next pass. If it is withdrawn
\* already, reading the usage fails.
PoolNotInitialized ==
  LET new == [pw.obj EXCEPT !.stopped = "False", !.ready = "False"] IN
  /\ pw.pc = "change" /\ ~pw.obj.paused /\ ~ipam[pw.n].exists
  /\ labelled' = labelled \cup {pw.n}
  /\ PoolPassEnds(new, new = pw.obj)
  /\ UNCHANGED <<vm, cfg, memory, cfgQ, vmQ, cw>>

\* The status OnChange writes for an initialised pool.
UsageStatus(n, obj) ==
  [obj EXCEPT !.stopped = "False", !.used = GetUsed(ipam[n]),
              !.alloc = [ip \in IPs |-> IF ip \in Revoked[n] THEN Mark ELSE @[ip]]]

\* The usage numbers and the marks of the revoked addresses go into the status.
PoolUsage ==
  /\ pw.pc = "change" /\ ~pw.obj.paused /\ ipam[pw.n].exists
  /\ labelled' = labelled \cup {pw.n}
  /\ PoolPassEnds(UsageStatus(pw.n, pw.obj), FALSE)
  /\ UNCHANGED <<vm, cfg, memory, cfgQ, vmQ, cw>>

PoolOnChange == PoolLabelsFail \/ PoolPaused \/ PoolNotInitialized \/ PoolUsage

PoolStep == DeployAgent \/ BuildCache \/ MonitorAgent \/ PoolOnChange
=============================================================================
