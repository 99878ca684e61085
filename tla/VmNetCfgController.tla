-------------------------- MODULE VmNetCfgController --------------------------
(***************************************************************************)
(* The vmnetcfg controller. A pass hands the VirtualMachineNetworkConfig   *)
(* to Allocate, Sync, OnChange and OnRemove, in the order of Register.     *)
(* Allocate visits the interfaces, cleanup the records of the status one   *)
(* at a time; each visit is two steps, the part in memory and the update   *)
(* of the IPPool.                                                          *)
(***************************************************************************)
EXTENDS ControlPlaneState

MacsOf(nics) == {nc.mac : nc \in nics}

\* The records Sync takes for stale: the comparison is by MAC address only.
StaleRecs(obj) == {r \in obj.recs : r.mac \notin MacsOf(obj.nics)}

\* The worker sees its own writes of the IPPool when it reads it.
GuestReads(n) == "lagGuest" \in Env \/ "guest" \notin pool[n].unseen

\* The records the handler "pc" will clean up: none, the stale ones, or all.
ToClean(pc, obj) ==
  CASE pc = "sync" -> IF obj.paused \/ obj.inSynced = "True" THEN {}
                                                             ELSE StaleRecs(obj)
    [] pc = "change" -> IF obj.paused /\ ~obj.deleting THEN obj.recs ELSE {}
    [] pc = "remove" -> IF obj.deleting /\ obj.final THEN obj.recs ELSE {}
    [] OTHER -> {}

\* The worker takes a key and copies the object out of the informer cache; there
\* is nothing to do for an object that is gone.
StartCfg(v) ==
  LET obj == cfg[v].inf IN
  /\ cw.pc = "idle" /\ v \in cfgQ
  /\ "lagCfg" \in Env \/ "worker" \notin cfg[v].unseen
  /\ cfgQ' = cfgQ \ {v}
  /\ IF obj.exists
     THEN /\ cw' = [IdleCfg EXCEPT !.pc = "allocate", !.v = v, !.obj = obj,
                                   !.todo = obj.nics]
          /\ cfg' = [cfg EXCEPT ![v] = Taken(@, "worker")]
     ELSE UNCHANGED <<cw, cfg>>
  /\ UNCHANGED <<vm, pool, labelled, memory, poolQ, vmQ, pw>>

\* A handler ends: its status is sent if it differs, and the next handler starts
\* with it even when the update is refused.
Handled(new, failed, next) ==
  LET v == cw.v
      changed == new # cw.obj
  IN /\ cfg' = [cfg EXCEPT ![v] = Saved(@, new, changed)]
     /\ cfgQ' = Also(cfgQ, v, failed \/ Conflict(cfg[v], changed))
     /\ cw' = [IdleCfg EXCEPT !.pc = next, !.v = v, !.obj = new,
                              !.clean = ToClean(next, new)]

\* The last handler ends, and with it the pass.
CfgPassEnds(new, failed) ==
  LET v == cw.v
      changed == new # cw.obj
  IN /\ cfg' = [cfg EXCEPT ![v] = Dropped(Saved(@, new, changed), "worker")]
     /\ cfgQ' = Also(cfgQ, v, failed \/ Conflict(cfg[v], changed))
     /\ cw' = IdleCfg

\* Mutant: the error is not returned, and the object not enqueued again.
AllocateFailsMutant(conflict) ==
  Handled([cw.obj EXCEPT !.allocated = IF conflict THEN "True" ELSE "False"],
          FALSE, "sync")

\* Allocate returns an error. The generated status handler keeps the old status
\* and sets the condition, to True if the error is a conflict.
AllocateFails(conflict) ==
  Handled([cw.obj EXCEPT !.allocated = IF conflict THEN "True" ELSE "False"],
          TRUE, "sync")

\* Mutant: an object that is out of sync may get addresses.
MayAllocateMutant(obj) == ~obj.paused /\ obj.nics # {}

MayAllocate(obj) == ~obj.paused /\ obj.inSynced # "False" /\ obj.nics # {}

AllocateRefused ==
  /\ cw.pc = "allocate" /\ ~MayAllocate(cw.obj)
  /\ AllocateFails(FALSE)
  /\ UNCHANGED <<vm, pool, labelled, memory, poolQ, vmQ, pw>>

\* Records are found by the MAC address alone, whatever their network: the first one of
\* the list counts, and the list may have any order.
findIPAddressFromNetworkConfigStatusByMACAddress(recs, mac) == {r.ip : r \in {x \in recs : x.mac = mac}}

\* Mutant: the static address of the spec is not looked at.
DesignatedMutant(obj, nc) ==
  LET old == findIPAddressFromNetworkConfigStatusByMACAddress(obj.recs, nc.mac)
  IN IF old = {} THEN {NoIP} ELSE old

\* The address Allocate asks for: that of a record, else the static one of the spec.
Designated(obj, nc) ==
  LET old == findIPAddressFromNetworkConfigStatusByMACAddress(obj.recs, nc.mac)
  IN IF old = {} THEN {nc.ip} ELSE old

\* The address "ip" is this interface's: on to the update of the IPPool unless
\* the informer's copy of the pool has the entry.
AllocatedInMemory(nc, ip) ==
  LET n == nc.net
      rec == [net |-> n, mac |-> nc.mac, ip |-> ip, state |-> "Allocated"]
  IN IF pool[n].inf.alloc[ip] = nc.mac
     THEN /\ cw' = [cw EXCEPT !.todo = @ \ {nc}, !.acc = @ \cup {rec}]
          /\ UNCHANGED pool
     ELSE /\ cw' = [cw EXCEPT !.todo = @ \ {nc}, !.cur = {rec}]
          /\ pool' = [pool EXCEPT ![n] = Taken(@, "guest")]

Allocating(nc) ==
  /\ cw.pc = "allocate" /\ MayAllocate(cw.obj) /\ cw.cur = {} /\ nc \in cw.todo
  /\ GuestReads(nc.net)

\* The pool must be found through the labels of the NAD, be ready according to
\* the informer, and have caches.
PoolUsable(n) ==
  n \in labelled /\ pool[n].inf.ready = "True" /\ macs[n].exists

\* The MAC address has an address already: it is kept.
AllocateRecovers(nc) ==
  /\ Allocating(nc) /\ PoolUsable(nc.net) /\ HasMAC(macs[nc.net], nc.mac)
  /\ AllocatedInMemory(nc, macs[nc.net].ip[nc.mac])
  /\ UNCHANGED <<vm, cfg, labelled, memory, queues, pw>>

\* AllocateIP and AddMAC.
AllocateNew(nc) ==
  LET n == nc.net IN
  /\ Allocating(nc) /\ PoolUsable(n) /\ ~HasMAC(macs[n], nc.mac)
  /\ \E designated \in Designated(cw.obj, nc) :
       \E ip \in AllocatableIPs(ipam[n], designated) :
         /\ ipam' = [ipam EXCEPT ![n] = AllocateIP(@, {ip})]
         /\ macs' = [macs EXCEPT ![n] = AddMAC(@, nc.mac, ip)]
         /\ AllocatedInMemory(nc, ip)
  /\ UNCHANGED <<vm, cfg, labelled, queues, pw>>

AllocateNoAddress(nc) ==
  LET n == nc.net IN
  /\ Allocating(nc)
  /\ \/ ~PoolUsable(n)
     \/ /\ ~HasMAC(macs[n], nc.mac)
        /\ \E designated \in Designated(cw.obj, nc) :
             AllocatableIPs(ipam[n], designated) = {}
  /\ AllocateFails(FALSE)
  /\ UNCHANGED <<vm, pool, labelled, memory, poolQ, vmQ, pw>>

\* Mutant: the result of the update is not looked at.
AllocateRecordsMutant ==
  /\ cw.pc = "allocate" /\ cw.cur # {}
  /\ \E r \in cw.cur :
       LET s == pool[r.net] IN
       /\ pool' = [pool EXCEPT ![r.net] =
                     IF "guest" \in s.fresh
                     THEN Written(s, [s.api EXCEPT !.alloc[r.ip] = r.mac], "guest")
                     ELSE Dropped(s, "guest")]
       /\ cw' = [cw EXCEPT !.cur = {}, !.acc = @ \cup {r}]
  /\ UNCHANGED <<vm, cfg, cfgQ, labelled, memory, poolQ, vmQ, pw>>

\* The IPPool's status is sent with the new entry: stored if the copy taken from
\* the informer is still the stored version.
AllocateRecords ==
  /\ cw.pc = "allocate" /\ cw.cur # {}
  /\ \E r \in cw.cur :
       LET s == pool[r.net] IN
       IF "guest" \in s.fresh
       THEN /\ pool' = [pool EXCEPT ![r.net] =
                          Written(s, [s.api EXCEPT !.alloc[r.ip] = r.mac], "guest")]
            /\ cw' = [cw EXCEPT !.cur = {}, !.acc = @ \cup {r}]
            /\ UNCHANGED <<cfg, cfgQ>>
       ELSE /\ pool' = [pool EXCEPT ![r.net] = Dropped(s, "guest")]
            /\ AllocateFails(TRUE)
  /\ UNCHANGED <<vm, labelled, memory, poolQ, vmQ, pw>>

\* Every interface has been visited: the records replace those of the status.
AllocateDone ==
  /\ cw.pc = "allocate" /\ MayAllocate(cw.obj) /\ cw.todo = {} /\ cw.cur = {}
  /\ Handled([cw.obj EXCEPT !.recs = cw.acc, !.allocated = "True"], FALSE, "sync")
  /\ UNCHANGED <<vm, pool, labelled, memory, poolQ, vmQ, pw>>

Allocate ==
  \/ AllocateRefused \/ AllocateRecords \/ AllocateDone
  \/ \E nc \in cw.todo :
       AllocateRecovers(nc) \/ AllocateNew(nc) \/ AllocateNoAddress(nc)

-----------------------------------------------------------------------------
\* cleanup, shared by Sync (the stale records), OnChange of a paused and OnRemove
\* of a deleted object (all of them).

\* cleanup returns an error. Sync's status handler reverts the status and sets
\* the condition, to True if the error is a conflict; the others return it.
CleanupFails(conflict) ==
  CASE cw.pc = "sync" ->
         Handled([cw.obj EXCEPT !.inSynced = IF conflict THEN "True" ELSE "False"],
                 TRUE, "change")
    [] cw.pc = "change" -> Handled(cw.obj, TRUE, "remove")
    [] OTHER -> CfgPassEnds(cw.obj, TRUE)

\* Mutant: the MAC address is not forgotten.
CleanupReleasesMutant(r) ==
  /\ cw.pc # "idle" /\ r \in cw.clean /\ cw.cur = {}
  /\ KnownIP(ipam[r.net], r.ip)
  /\ ipam' = [ipam EXCEPT ![r.net] = DeallocateIP(@, r.ip)]
  /\ cw' = [cw EXCEPT !.clean = @ \ {r}, !.cur = {r}]
  /\ UNCHANGED <<macs, objects, queues, pw>>

\* The memory part for one record: its address is deallocated and its MAC address
\* forgotten, whoever they belong to by now.
CleanupReleases(r) ==
  LET n == r.net IN
  /\ cw.pc # "idle" /\ r \in cw.clean /\ cw.cur = {}
  /\ KnownIP(ipam[n], r.ip)
  /\ ipam' = [ipam EXCEPT ![n] = DeallocateIP(@, r.ip)]
  /\ macs' = [macs EXCEPT ![n] = DeleteMAC(@, r.mac)]
  /\ cw' = [cw EXCEPT !.clean = @ \ {r}, !.cur = {r}]
  /\ UNCHANGED <<objects, queues, pw>>

CleanupUnknown(r) ==
  /\ cw.pc # "idle" /\ r \in cw.clean /\ cw.cur = {}
  /\ ~KnownIP(ipam[r.net], r.ip)
  /\ CleanupFails(FALSE)
  /\ UNCHANGED <<vm, pool, labelled, memory, poolQ, vmQ, pw>>

\* Mutant: the entry is not deleted.
CleanupUnrecordsMutant ==
  /\ cw.pc \in {"sync", "change", "remove"} /\ cw.cur # {}
  /\ cw' = [cw EXCEPT !.cur = {}]
  /\ UNCHANGED <<objects, memory, queues, pw>>

\* The IPPool part: the entry of the address is deleted from the informer's copy.
\* A refused update is retried with the informer's copy of that time, so until
\* the informer has caught up or the retries are used up.
CleanupUnrecords ==
  /\ cw.pc \in {"sync", "change", "remove"} /\ cw.cur # {}
  /\ \E r \in cw.cur :
       LET s == pool[r.net] IN
       /\ GuestReads(r.net)
       /\ IF s.inf.alloc[r.ip] = NoMac THEN UNCHANGED pool
          ELSE /\ "informer" \in s.fresh
               /\ pool' = [pool EXCEPT ![r.net] =
                             Written(s, [s.api EXCEPT !.alloc[r.ip] = NoMac], "guest")]
       /\ cw' = [cw EXCEPT !.cur = {}]
  /\ UNCHANGED <<vm, cfg, labelled, memory, queues, pw>>

CleanupGivesUp ==
  /\ "giveUp" \in Env
  /\ cw.pc \in {"sync", "change", "remove"} /\ cw.cur # {}
  /\ \E r \in cw.cur : /\ pool[r.net].inf.alloc[r.ip] # NoMac
                       /\ "informer" \notin pool[r.net].fresh
  /\ CleanupFails(TRUE)
  /\ UNCHANGED <<vm, pool, labelled, memory, poolQ, vmQ, pw>>

Cleanup ==
  \/ CleanupUnrecords \/ CleanupGivesUp
  \/ \E r \in cw.clean : CleanupReleases(r) \/ CleanupUnknown(r)

-----------------------------------------------------------------------------
Cleaned == cw.clean = {} /\ cw.cur = {}

\* Nothing to do for an object in sync, an error for a paused one, and after the
\* cleanup the records that are not stale become the status.
Sync ==
  LET obj == cw.obj IN
  /\ cw.pc = "sync" /\ Cleaned
  /\ Handled(CASE obj.paused -> [obj EXCEPT !.inSynced = "False"]
               [] obj.inSynced = "True" -> obj
               [] OTHER -> [obj EXCEPT !.inSynced = "True",
                                       !.recs = @ \ StaleRecs(obj)],
             obj.paused, "change")
  /\ UNCHANGED <<vm, pool, labelled, memory, poolQ, vmQ, pw>>

\* After the cleanup the records of a paused object stay, with their addresses,
\* in state Pending.
Disabled(obj) ==
  [obj EXCEPT !.disabled = "True", !.recs = {[r EXCEPT !.state = "Pending"] : r \in @}]

CfgOnChange ==
  LET obj == cw.obj IN
  /\ cw.pc = "change" /\ Cleaned
  /\ Handled(CASE obj.deleting -> obj
               [] obj.paused -> Disabled(obj)
               [] OTHER -> [obj EXCEPT !.disabled = "False"],
             FALSE, "remove")
  /\ UNCHANGED <<vm, pool, labelled, memory, poolQ, vmQ, pw>>

\* OnRemove behind its finalizer: added to an object that is not being deleted,
\* taken off one that is, once cleaned up, and with it the object goes.
CfgOnRemove ==
  LET obj == cw.obj IN
  /\ cw.pc = "remove" /\ Cleaned
  /\ CfgPassEnds(IF obj.deleting THEN NoCfg ELSE [obj EXCEPT !.final = TRUE], FALSE)
  /\ UNCHANGED <<vm, pool, labelled, memory, poolQ, vmQ, pw>>

CfgStep == Allocate \/ Cleanup \/ Sync \/ CfgOnChange \/ CfgOnRemove
=============================================================================
