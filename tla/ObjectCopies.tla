---------------------------- MODULE ObjectCopies ----------------------------
(***************************************************************************)
(* Who shares memory with whom while handlers work on an object of the     *)
(* informer's cache. The generated status handlers give their handler an   *)
(* object and a status that share slices, maps and pointers; DeployAgent   *)
(* and Sync write through them, Sync even relies on it, and an error must  *)
(* take it all back. A behaviour is about one IPPool and the ippool        *)
(* worker, with the vmnetcfg worker as the other one that writes it, or    *)
(* about one VirtualMachineNetworkConfig and the vmnetcfg worker, with the *)
(* vm worker as the other one.                                             *)
(***************************************************************************)
EXTENDS Naturals

CONSTANTS
  Macs, Nil,
  MaxPasses,  \* bound, per kind: how often the worker takes the object through its handlers
  MaxWrites   \* bound, per kind: writes by others than the worker

Kinds == {"ippool", "vmnetcfg"}

ASSUME ConstantsAssumption ==
  Macs # {} /\ MaxPasses \in [Kinds -> Nat] /\ MaxWrites \in [Kinds -> Nat]

VARIABLES
  kind,   \* one of Kinds
  api,    \* the stored object
  fresh,  \* the informer has its latest version
  mem,    \* the memory of the process, see below
  wk,     \* the worker: what it does next, the error of its handler, and whether its
          \* object is the stored version
  oc,     \* the other one: whether it is about to send its copy, whether that is the
          \* stored version, and whether it sends the spec
  held,   \* MAC addresses that have an address in the caches
  passes, writes  \* counters for the bounds
vars == <<kind, api, fresh, mem, wk, oc, held, passes, writes>>
bounds == <<passes, writes>>

Conds ==
  IF kind = "ippool" THEN {"Registered", "CacheReady", "AgentReady", "Stopped"}
                     ELSE {"Allocated", "InSynced", "Disabled"}

\* What an object has behind slices, maps and pointers; a condition that is "Unknown"
\* is not in the slice yet. Of the entries of an IPPool, one for a VM is enough.
Fields == {"spec", "conditions", "ipv4", "agentPodRef", "networkConfigs"}
States == {"Allocated", "Pending", "Stale"}
Objects ==
  [spec : [paused : BOOLEAN, macs : SUBSET Macs],
   conditions : [Conds -> {"Unknown", "True", "False"}],
   ipv4 : {Nil} \cup {[entries |-> e] : e \in SUBSET {"VM", "RESERVED"}},
   agentPodRef : {Nil} \cup [image : 1 .. 2, named : BOOLEAN],
   networkConfigs : SUBSET [mac : Macs, state : States]]

\* Variables that hold an object. heap[h] are the cells allocated for h, and at[h][f]
\* says in whose cell h's field f is.
Holders == {"informer", "arg", "obj", "origStatus", "status", "other"}
Own(h) == [f \in Fields |-> h]

Val(m, h) == [f \in Fields |-> m.heap[m.at[h][f]][f]]

\* h := g, sharing; h := g.DeepCopy(); a write through a slice, map or pointer of h; and
\* an assignment to a field of h.
Shared(m, h, g) == [m EXCEPT !.at[h] = m.at[g]]
DeepCopied(m, h, g) == [m EXCEPT !.heap[h] = Val(m, g), !.at[h] = Own(h)]
Through(m, h, f, v) == [m EXCEPT !.heap[m.at[h][f]][f] = v]
Assigned(m, h, f, v) == [m EXCEPT !.heap[h][f] = v, !.at[h][f] = h]

NewObject ==
  [spec |-> [paused |-> FALSE, macs |-> IF kind = "ippool" THEN {} ELSE {CHOOSE m \in Macs : TRUE}],
   conditions |-> [c \in Conds |-> "Unknown"],
   ipv4 |-> Nil, agentPodRef |-> Nil, networkConfigs |-> {}]

\* Variables that are out of scope.
Forgotten(m, hs) ==
  [heap |-> [h \in Holders |-> IF h \in hs THEN NewObject ELSE m.heap[h]],
   at |-> [h \in Holders |-> IF h \in hs THEN Own(h) ELSE m.at[h]]]

\* A condition is set in its place in the slice, or appended to a longer one.
WithCond(m, h, c, v) ==
  LET old == Val(m, h).conditions
      new == [old EXCEPT ![c] = v]
  IN IF old[c] = "Unknown" THEN Assigned(m, h, "conditions", new)
                           ELSE Through(m, h, "conditions", new)

-----------------------------------------------------------------------------
\* The API server refuses a write based on another version than the stored one. The
\* status is a subresource.
StatusOf(o, new) == [new EXCEPT !.spec = o.spec]

Stored(new) ==
  /\ api' = new /\ fresh' = FALSE

PauseObject ==
  /\ Stored([api EXCEPT !.spec.paused = ~@])
  /\ wk' = [wk EXCEPT !.current = FALSE] /\ oc' = [oc EXCEPT !.current = FALSE]
  /\ writes < MaxWrites[kind] /\ writes' = writes + 1
  /\ UNCHANGED <<kind, mem, held, passes>>

\* The informer replaces its object; whoever works on the old one keeps that.
Deliver ==
  LET kept == IF mem.at["arg"] = mem.at["informer"] THEN DeepCopied(mem, "arg", "arg") ELSE mem
  IN /\ ~fresh /\ fresh' = TRUE
     /\ mem' = [kept EXCEPT !.heap["informer"] = api, !.at["informer"] = Own("informer")]
     /\ UNCHANGED <<kind, api, wk, oc, held, bounds>>

-----------------------------------------------------------------------------
\* The worker is given the informer's object itself, and takes it through the handlers.

First == IF kind = "ippool" THEN "DeployAgent" ELSE "Allocate"
After ==
  [DeployAgent |-> "BuildCache", BuildCache |-> "MonitorAgent", MonitorAgent |-> "OnChange",
   Allocate |-> "Sync", Sync |-> "OnChange"]
CondOf ==
  [DeployAgent |-> "Registered", BuildCache |-> "CacheReady", MonitorAgent |-> "AgentReady",
   Allocate |-> "Allocated", Sync |-> "InSynced"]

Idle == [at |-> "OnChange", step |-> "idle", err |-> "none", current |-> FALSE]

Start ==
  /\ wk.step = "idle" /\ wk' = [at |-> First, step |-> "begins", err |-> "none", current |-> fresh]
  /\ mem' = Shared(mem, "arg", "informer")
  /\ passes < MaxPasses[kind] /\ passes' = passes + 1
  /\ UNCHANGED <<kind, api, fresh, oc, held, writes>>

\* Mutants: the object is not copied; the status to compare with is not; the handler
\* gets a status of its own.
syncBeginsObjMutant ==
  /\ wk.step = "begins" /\ wk.at # "OnChange" /\ wk' = [wk EXCEPT !.step = "handles"]
  /\ mem' = Shared(Shared(DeepCopied(mem, "origStatus", "arg"), "obj", "arg"), "status", "arg")
  /\ UNCHANGED <<kind, api, fresh, oc, held, bounds>>
syncBeginsOrigMutant ==
  /\ wk.step = "begins" /\ wk.at # "OnChange" /\ wk' = [wk EXCEPT !.step = "handles"]
  /\ mem' = LET m == DeepCopied(mem, "obj", "arg")
            IN Shared(Shared(m, "origStatus", "obj"), "status", "obj")
  /\ UNCHANGED <<kind, api, fresh, oc, held, bounds>>
syncBeginsStatusMutant ==
  /\ wk.step = "begins" /\ wk.at # "OnChange" /\ wk' = [wk EXCEPT !.step = "handles"]
  /\ mem' = DeepCopied(DeepCopied(DeepCopied(mem, "origStatus", "arg"), "obj", "arg"), "status", "arg")
  /\ UNCHANGED <<kind, api, fresh, oc, held, bounds>>

\* The generated status handler, up to the call of the handler.
syncBegins ==
  /\ wk.step = "begins" /\ wk.at # "OnChange" /\ wk' = [wk EXCEPT !.step = "handles"]
  /\ mem' = LET m == DeepCopied(DeepCopied(mem, "origStatus", "arg"), "obj", "arg")
            IN Shared(m, "status", "obj")
  /\ UNCHANGED <<kind, api, fresh, oc, held, bounds>>

\* The handler is through: with what in memory, which error, and what in the caches.
Handling(handler) == wk.step = "handles" /\ wk.at = handler
Handled(m, err, caches) ==
  /\ mem' = m /\ held' = caches
  /\ wk' = [wk EXCEPT !.step = "ends", !.err = err]
  /\ UNCHANGED <<kind, api, fresh, oc, bounds>>

Obj == Val(mem, "obj")

\* The image is written through status.AgentPodRef before anything can go wrong.
ImageWritten(image) ==
  IF Obj.agentPodRef = Nil
  THEN Assigned(mem, "status", "agentPodRef", [image |-> image, named |-> FALSE])
  ELSE Through(mem, "status", "agentPodRef", [Obj.agentPodRef EXCEPT !.image = image])

DeployAgent ==
  /\ Handling("DeployAgent")
  /\ \/ Handled(mem, "error", held)
     \/ \E err \in {"none", "error"} : ~Obj.spec.paused /\ Handled(ImageWritten(2), err, held)
     \/ /\ ~Obj.spec.paused
        /\ Handled(Through(ImageWritten(2), "status", "agentPodRef", [image |-> 2, named |-> TRUE]),
                   "none", held)

\* They only read the object.
BuildCache ==
  /\ Handling("BuildCache")
  /\ \E err \in {"none", "error"} : (Obj.spec.paused => err = "error") /\ Handled(mem, err, held)
MonitorAgent ==
  /\ Handling("MonitorAgent")
  /\ \E err \in {"none", "error"} : (Obj.spec.paused => err = "error") /\ Handled(mem, err, held)

MacsOf(ncs) == {nc.mac : nc \in ncs}

\* Allocate stops somewhere, an address in the caches more or less, or has a new slice.
Allocate ==
  LET refused == Obj.spec.paused \/ Obj.conditions["InSynced"] = "False" IN
  /\ Handling("Allocate")
  /\ \/ refused /\ Handled(mem, "error", held)
     \/ /\ ~refused
        /\ \E got \in SUBSET Obj.spec.macs : \E err \in {"error", "conflict"} :
             Handled(mem, err, held \cup got)
     \/ /\ ~refused /\ Obj.spec.macs # {}
        /\ Handled(Assigned(mem, "status", "networkConfigs",
                            {[mac |-> mac, state |-> "Allocated"] : mac \in Obj.spec.macs}),
                   "none", held \cup Obj.spec.macs)

\* cleanup(vmNetCfg, true) goes over the object it was given with the status.
Sync ==
  LET gone == {nc \in Obj.networkConfigs : nc.mac \notin Obj.spec.macs}
      kept == Obj.networkConfigs \ gone
      marked == Through(mem, "status", "networkConfigs",
                        kept \cup {[nc EXCEPT !.state = "Stale"] : nc \in gone})
      stale == MacsOf({nc \in Val(marked, "obj").networkConfigs : nc.state = "Stale"})
  IN /\ Handling("Sync")
     /\ \/ Obj.spec.paused /\ Handled(mem, "error", held)
        \/ /\ ~Obj.spec.paused /\ Obj.conditions["InSynced"] = "True"
           /\ Handled(mem, "none", held)
        \/ /\ ~Obj.spec.paused /\ Obj.conditions["InSynced"] # "True"
           /\ Handled(Assigned(marked, "status", "networkConfigs", kept), "none", held \ stale)
        \/ /\ ~Obj.spec.paused /\ Obj.conditions["InSynced"] # "True" /\ stale # {}
           /\ \E released \in SUBSET stale : \E err \in {"error", "conflict"} :
                Handled(marked, err, held \ released)

-----------------------------------------------------------------------------
\* UpdateStatus of the worker's object: the answer is a new object. Refused, or with
\* nothing to send, the worker goes on with its own.
Sent(m, changed) ==
  LET accepted == changed /\ wk.current
      gone == {"obj", "origStatus", "status"} \cup (IF wk.at = "OnChange" THEN {"arg"} ELSE {})
  IN
  /\ api' = IF accepted THEN StatusOf(api, Val(m, "obj")) ELSE api
  /\ fresh' = IF accepted THEN FALSE ELSE fresh
  /\ mem' = Forgotten(DeepCopied(m, "arg", "obj"), gone)
  /\ oc' = IF accepted THEN [oc EXCEPT !.current = FALSE] ELSE oc
  /\ wk' = IF wk.at = "OnChange" THEN Idle
           ELSE [wk EXCEPT !.at = After[@], !.step = "begins", !.err = "none"]
  /\ UNCHANGED <<kind, bounds>>

\* Mutant: the error's text is taken for the condition's status.
SetErrorMutant(m, cond) == WithCond(m, "status", cond, wk.err)
SetError(m, cond) == WithCond(m, "status", cond, IF wk.err = "error" THEN "False" ELSE "True")

\* Mutant: what the handler has changed stays.
RevertedMutant == mem
Reverted == IF wk.err = "none" THEN mem ELSE DeepCopied(mem, "status", "origStatus")

\* The rest of the generated status handler.
syncEnds ==
  LET m == SetError(Reverted, CondOf[wk.at])
      changed == Val(m, "origStatus") # Val(m, "status")
  IN /\ wk.step = "ends"
     /\ Sent(IF changed THEN Shared(m, "obj", "status") ELSE m, changed)
     /\ UNCHANGED held

\* OnChange of either controller works on a copy of its own, and cleans up before it
\* sets Stopped or Disabled to True, which may fail.
Changing(k) == kind = k /\ wk.step = "begins" /\ wk.at = "OnChange"
Copied == DeepCopied(mem, "obj", "arg")
Ends(m) == Sent(m, Val(m, "obj") # Val(m, "arg"))

\* In the IPPool it sets CacheReady to False when the network is not initialized, or
\* brings ipv4 up to date.
PoolOnChange ==
  LET paused == Val(mem, "arg").spec.paused
      ipv4 == Val(mem, "arg").ipv4
      started == WithCond(Copied, "obj", "Stopped", "False")
  IN /\ Changing("ippool") /\ UNCHANGED held
     /\ \/ Sent(Copied, FALSE)
        \/ /\ paused
           /\ Ends(WithCond(Assigned(Copied, "obj", "agentPodRef", Nil), "obj", "Stopped", "True"))
        \/ ~paused /\ Ends(WithCond(started, "obj", "CacheReady", "False"))
        \/ /\ ~paused
           /\ Ends(IF ipv4 = Nil
                   THEN Assigned(started, "obj", "ipv4", [entries |-> {"RESERVED"}])
                   ELSE Through(started, "obj", "ipv4", [ipv4 EXCEPT !.entries = @ \cup {"RESERVED"}]))

CfgOnChange ==
  LET paused == Val(mem, "arg").spec.paused
      ncs == Val(mem, "arg").networkConfigs
  IN /\ Changing("vmnetcfg")
     /\ \/ /\ paused /\ Sent(Copied, FALSE)
           /\ \E released \in SUBSET MacsOf(ncs) : held' = held \ released
        \/ /\ paused /\ held' = held \ MacsOf(ncs)
           /\ Ends(Through(WithCond(Copied, "obj", "Disabled", "True"), "obj", "networkConfigs",
                           {[nc EXCEPT !.state = "Pending"] : nc \in ncs}))
        \/ /\ ~paused /\ UNCHANGED held
           /\ Ends(WithCond(Copied, "obj", "Disabled", "False"))

-----------------------------------------------------------------------------
\* The other worker: a copy of what is in the informer, a change of it, and a write.

OtherReady(m, asSpec) ==
  /\ ~oc.sending /\ mem' = m /\ oc' = [sending |-> TRUE, current |-> fresh, asSpec |-> asSpec]
  /\ writes < MaxWrites[kind] /\ writes' = writes + 1
  /\ UNCHANGED <<kind, api, fresh, wk, held, passes>>

\* Allocate and cleanup of the vmnetcfg controller, on the IPPool.
RecordEntry ==
  LET m == DeepCopied(mem, "other", "informer")
      ipv4 == Val(m, "other").ipv4
  IN /\ kind = "ippool"
     /\ \/ ipv4 = Nil /\ OtherReady(Assigned(m, "other", "ipv4", [entries |-> {"VM"}]), FALSE)
        \/ /\ ipv4 # Nil /\ "VM" \notin ipv4.entries
           /\ OtherReady(Through(m, "other", "ipv4", [ipv4 EXCEPT !.entries = @ \cup {"VM"}]), FALSE)
UnrecordEntry ==
  LET m == DeepCopied(mem, "other", "informer")
      ipv4 == Val(m, "other").ipv4
  IN /\ kind = "ippool" /\ ipv4 # Nil
     /\ "VM" \in ipv4.entries
     /\ OtherReady(Through(m, "other", "ipv4", [ipv4 EXCEPT !.entries = @ \ {"VM"}]), FALSE)

\* OnChange of the vm controller: the interfaces of the VM are others. Out of sync
\* first, and then the spec.
VMChanged ==
  LET m == DeepCopied(mem, "other", "informer") IN
  /\ kind = "vmnetcfg"
  /\ \E macs \in SUBSET Macs \ {{}, Val(m, "other").spec.macs} :
       LET changed == Assigned(m, "other", "spec", [Val(m, "other").spec EXCEPT !.macs = macs])
           outOfSync == Val(m, "informer").conditions["InSynced"] = "False"
       IN OtherReady(IF outOfSync THEN changed ELSE WithCond(changed, "other", "InSynced", "False"),
                     outOfSync)

OtherSends ==
  LET new == Val(mem, "other")
  IN /\ oc.sending /\ oc' = [sending |-> FALSE, current |-> FALSE, asSpec |-> FALSE]
     /\ IF oc.current
        THEN Stored(IF oc.asSpec THEN [api EXCEPT !.spec = new.spec] ELSE StatusOf(api, new))
        ELSE UNCHANGED <<api, fresh>>
     /\ wk' = IF oc.current THEN [wk EXCEPT !.current = FALSE] ELSE wk
     /\ mem' = Forgotten(mem, {"other"})
     /\ UNCHANGED <<kind, held, bounds>>

-----------------------------------------------------------------------------
\* The agent of an IPPool may be that of an earlier version of the controller.
Init ==
  /\ kind \in Kinds
  /\ \E ref \in {Nil} \cup [image : {1}, named : {TRUE}] :
       api = [NewObject EXCEPT !.agentPodRef = IF kind = "ippool" THEN ref ELSE Nil]
  /\ fresh = TRUE /\ held = {} /\ passes = 0 /\ writes = 0
  /\ mem = [heap |-> [h \in Holders |-> IF h = "informer" THEN api ELSE NewObject],
            at |-> [h \in Holders |-> Own(h)]]
  /\ wk = Idle
  /\ oc = [sending |-> FALSE, current |-> FALSE, asSpec |-> FALSE]

Handlers == DeployAgent \/ BuildCache \/ MonitorAgent \/ Allocate \/ Sync
Worker == Start \/ syncBegins \/ Handlers \/ syncEnds \/ PoolOnChange \/ CfgOnChange
Other == RecordEntry \/ UnrecordEntry \/ VMChanged \/ OtherSends

Next == PauseObject \/ Deliver \/ Worker \/ Other

Spec == Init /\ [][Next]_vars

-----------------------------------------------------------------------------
\* Every holder holds an object, whosever memory is behind its fields, and the worker,
\* the other one and the counters stay in their ranges.
TypeOK ==
  /\ kind \in Kinds /\ api \in Objects
  /\ mem.at \in [Holders -> [Fields -> Holders]] /\ \A h \in Holders : Val(mem, h) \in Objects
  /\ wk.at \in DOMAIN After \cup {"OnChange"} /\ wk.step \in {"idle", "begins", "handles", "ends"}
  /\ wk.err \in {"none", "error", "conflict"} /\ held \subseteq Macs
  /\ passes \in 0 .. MaxPasses[kind] /\ writes \in 0 .. MaxWrites[kind]
  /\ {fresh, wk.current, oc.sending, oc.current, oc.asSpec} \subseteq BOOLEAN

\* The object in the informer's cache, which all workers read, only ever changes by
\* being replaced with the stored one: no handler writes into it.
InformerIntact ==
  [][Val(mem, "informer")' # Val(mem, "informer") =>
       ~fresh /\ fresh' /\ Val(mem, "informer")' = api]_vars

\* A handler that fails leaves no trace in the stored status but its condition, however
\* much it has changed before it failed.
ErrorsRevert ==
  [][wk.step = "ends" /\ wk'.step # "ends" /\ wk.err # "none" /\ api' # api =>
       LET read == Val(mem, "arg") IN
       /\ \A f \in Fields \ {"spec", "conditions"} : api'[f] = read[f]
       /\ \A c \in Conds \ {CondOf[wk.at]} : api'.conditions[c] = read.conditions[c]]_vars

\* ... and none in what the later handlers of the pass store either ("Revert to old
\* status on error"): the agent's reference is only changed by a DeployAgent that
\* succeeds, the records by an Allocate or a Sync that does.
ErrorsLeaveNothing ==
  [][wk.step = "ends" /\ wk'.step # "ends" =>
       /\ api'.agentPodRef # api.agentPodRef => wk.err = "none" /\ wk.at = "DeployAgent"
       /\ api'.networkConfigs # api.networkConfigs => wk.err = "none" /\ wk.at \in {"Allocate", "Sync"}]_vars

\* What a handler has changed and not failed over is stored, unless the API server
\* refuses it: the comparison that saves a write is made with a status that the handler
\* cannot have changed.
ChangesSent ==
  [][wk.step = "ends" /\ wk'.step # "ends" /\ wk.err = "none" /\ wk.current =>
       \A f \in Fields \ {"spec", "conditions"} :
         LET new == Val(mem, "status")[f]
         IN new # Val(mem, "arg")[f] => api'[f] = new]_vars

\* A record that Sync takes out of the status has had its address released, although
\* cleanup looks for stale records in the object and Sync marks them in the status.
StaleReleased ==
  [][wk.step = "ends" /\ wk'.step # "ends" /\ wk.at = "Sync" =>
       (MacsOf(api.networkConfigs) \ MacsOf(api'.networkConfigs)) \cap held' = {}]_vars
=============================================================================
