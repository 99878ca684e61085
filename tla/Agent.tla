-------------------------------- MODULE Agent --------------------------------
(***************************************************************************)
(* The agent of one IPPool: its informer and event queue, the worker that  *)
(* brings poolCache and the DHCP lease store in line with the IPPool's     *)
(* status (pkg/agent/ippool), and the DHCP server that answers guests from *)
(* the lease store (pkg/dhcp). The controllers that write the status, the  *)
(* kubelet that probes the pod and the guests are the environment.         *)
(***************************************************************************)
EXTENDS Naturals

CONSTANTS
  IPs, Macs, NoIP, NoMac,
  Mark,       \* "EXCLUDED" or "RESERVED"
  Revoked,    \* the addresses with a mark
  Spellings,  \* how the MAC addresses of the guests may be written in the status
  MaxFaults,  \* how often the agent is replaced or the pool not ready
  Haste       \* what the environment does before the agent has caught up

Hastes ==
  {"probe",   \* the pod becomes ready before the informer has listed the pools
   "reuse"}   \* an address or a MAC address is used again

Texts ==
  {"canonical",  \* as HardwareAddr.String writes it: lower case, with colons
   "other",      \* another form that net.ParseMAC reads: upper case, with hyphens
   "malformed"}  \* empty, or a text that net.ParseMAC refuses

ASSUME AgentAssumption ==
  /\ NoIP \notin IPs /\ NoMac \notin Macs /\ Mark \notin Macs \cup {NoMac}
  /\ Revoked \subseteq IPs /\ MaxFaults \in Nat /\ Haste \subseteq Hastes
  /\ Spellings \subseteq [Macs -> Texts]

VARIABLES
  pool,       \* the stored IPPool: "ready" is CacheReady with a status.ipv4
  agentReady, \* the AgentReady condition of the stored IPPool
  podReady,   \* the readiness probe of the agent pod has passed
  seen,       \* the copy in the agent's indexer
  listed,     \* the informer has listed the IPPools
  current,    \* the copy is the stored version
  queued,     \* an UPDATE event is in the work queue
  pc,         \* the worker: "idle", or in a loop of updatePoolCacheAndLeaseStore
  visit,      \* the addresses the loop has not visited
  latest,     \* the entries the pass works on
  poolCache, leases,
  up,         \* the guests that run
  bound,      \* the address a guest configured
  spelled,    \* how the MAC address of a guest is written, from the VM to the status
  faults

stored == <<pool, agentReady>>
informer == <<seen, listed, current>>
worker == <<pc, visit, latest, poolCache, leases>>
guests == <<up, bound, spelled>>
vars == <<stored, podReady, informer, queued, worker, guests, faults>>

Status == [ready : BOOLEAN, alloc : [IPs -> Macs \cup {NoMac, Mark}]]
NoEntries == [ip \in IPs |-> NoMac]

\* Pool, informer copy, worker, lease store and guests have values of their types, and
\* the agent was not replaced more often than the bound.
TypeOK ==
  /\ pool \in Status /\ seen \in Status
  /\ agentReady \in BOOLEAN /\ podReady \in BOOLEAN /\ listed \in BOOLEAN
  /\ current \in BOOLEAN /\ queued \in BOOLEAN
  /\ pc \in {"idle", "remove", "add"} /\ visit \subseteq IPs
  /\ latest \in [IPs -> Macs \cup {NoMac}] /\ poolCache \in [IPs -> Macs \cup {NoMac}]
  /\ leases \in [Macs -> IPs \cup {NoIP}]
  /\ up \subseteq Macs /\ bound \in [Macs -> IPs \cup {NoIP}]
  /\ spelled \in Spellings /\ faults \in 0..MaxFaults

\* A new pool, whose agent is about to be deployed.
NewStatus == [ready |-> FALSE, alloc |-> [ip \in IPs |-> IF ip \in Revoked THEN Mark ELSE NoMac]]

Init ==
  /\ pool = NewStatus /\ seen = NewStatus /\ agentReady = FALSE /\ podReady = FALSE
  /\ listed = FALSE /\ current = FALSE /\ queued = FALSE
  /\ pc = "idle" /\ visit = {} /\ latest = NoEntries /\ poolCache = NoEntries
  /\ leases = [m \in Macs |-> NoIP]
  /\ up = {} /\ bound = [m \in Macs |-> NoIP] /\ spelled \in Spellings /\ faults = 0

-----------------------------------------------------------------------------
\* The controllers: every write is a new version, which the agent's watch brings.

\* The agent has dealt with the last version; one that is not ready it passes over.
CaughtUp == pool.ready /\ listed /\ current /\ ~queued /\ pc = "idle"

Recorded(m) == {ip \in IPs : pool.alloc[ip] = m}

PoolReady ==
  /\ ~pool.ready
  /\ pool' = [pool EXCEPT !.ready = TRUE] /\ current' = FALSE
  /\ UNCHANGED <<agentReady, podReady, seen, listed, queued, worker, guests, faults>>

PoolNotReady ==
  /\ pool.ready /\ faults < MaxFaults /\ faults' = faults + 1
  /\ pool' = [pool EXCEPT !.ready = FALSE] /\ current' = FALSE
  /\ UNCHANGED <<agentReady, podReady, seen, listed, queued, worker, guests>>

\* Allocate records an address for the interface of a guest.
Record(ip, m) ==
  /\ pool.ready /\ pool.alloc[ip] = NoMac /\ m \in up /\ Recorded(m) = {}
  /\ "reuse" \in Haste \/ CaughtUp
  /\ pool' = [pool EXCEPT !.alloc[ip] = m] /\ current' = FALSE
  /\ UNCHANGED <<agentReady, podReady, seen, listed, queued, worker, guests, faults>>

\* cleanup deletes the entry of a guest that is gone.
Unrecord(ip) ==
  /\ pool.alloc[ip] \in Macs \ up
  /\ pool' = [pool EXCEPT !.alloc[ip] = NoMac] /\ current' = FALSE
  /\ UNCHANGED <<agentReady, podReady, seen, listed, queued, worker, guests, faults>>

\* MonitorAgent copies the readiness of the pod into the status.
MonitorAgent ==
  /\ agentReady # podReady
  /\ agentReady' = podReady /\ current' = FALSE
  /\ UNCHANGED <<pool, podReady, seen, listed, queued, worker, guests, faults>>

-----------------------------------------------------------------------------
\* The agent pod and its informer.

\* The pod is destroyed and deployed again: DeployAgent writes the new reference
\* and MonitorAgent, in the same pass, that the pod is not ready.
Replaced ==
  /\ faults < MaxFaults /\ faults' = faults + 1
  /\ agentReady' = FALSE /\ podReady' = FALSE
  /\ listed' = FALSE /\ current' = FALSE /\ queued' = FALSE /\ seen' = NewStatus
  /\ pc' = "idle" /\ visit' = {} /\ latest' = NoEntries /\ poolCache' = NoEntries
  /\ leases' = [m \in Macs |-> NoIP]
  /\ UNCHANGED <<pool, guests>>

\* The probe asks the HTTP server, which knows nothing of the informer.
ProbePasses ==
  /\ ~podReady /\ ("probe" \in Haste \/ listed)
  /\ podReady' = TRUE
  /\ UNCHANGED <<stored, informer, queued, worker, guests, faults>>

\* The initial list: there is no AddFunc, so it queues nothing.
List ==
  /\ ~listed
  /\ listed' = TRUE /\ seen' = pool /\ current' = TRUE
  /\ UNCHANGED <<stored, podReady, queued, worker, guests, faults>>

\* Mutant: the copy is kept, the event is not queued.
WatchMutant ==
  /\ listed /\ ~current
  /\ seen' = pool /\ current' = TRUE
  /\ UNCHANGED <<stored, podReady, listed, queued, worker, guests, faults>>

\* UpdateFunc.
Watch ==
  /\ listed /\ ~current
  /\ seen' = pool /\ current' = TRUE /\ queued' = TRUE
  /\ UNCHANGED <<stored, podReady, listed, worker, guests, faults>>

-----------------------------------------------------------------------------
\* The worker.

\* filterExcludedAndReserved. The mutant keeps the marks.
EntriesMutant(alloc) == alloc
Entries(alloc) == [ip \in IPs |-> IF alloc[ip] = Mark THEN NoMac ELSE alloc[ip]]

\* Nothing to do for a pool that is not ready. The marks are deleted from the map of
\* the object in the indexer, not from a copy of it.
Update ==
  IF seen.ready
  THEN /\ pc' = "remove" /\ latest' = Entries(seen.alloc)
       /\ seen' = [seen EXCEPT !.alloc = Entries(@)]
       /\ visit' = {ip \in IPs : poolCache[ip] # NoMac}
  ELSE UNCHANGED <<pc, latest, seen, visit>>

\* The worker takes the event and looks the pool up in the indexer. What Update
\* returns does not reach handleErr, so nothing is tried again.
Sync ==
  /\ queued /\ pc = "idle" /\ queued' = FALSE /\ Update
  /\ UNCHANGED <<stored, podReady, listed, current, poolCache, leases, guests, faults>>

\* The lease store, by the text of the status. AddLease fails if the text is not a MAC
\* address or has a lease, DeleteLease if it has none.
checkLease(m) == leases[m] # NoIP
AddLeaseFails(m) == spelled[m] = "malformed" \/ checkLease(m)
AddLease(m, ip) == leases' = [leases EXCEPT ![m] = ip]
DeleteLease(m) == leases' = [leases EXCEPT ![m] = NoIP]

\* An error ends the pass; sync only logs it.
Abort == pc' = "idle" /\ visit' = {} /\ latest' = NoEntries

\* Mutant: the lease stays.
RemoveMutant(ip) ==
  /\ pc = "remove" /\ ip \in visit /\ latest[ip] = NoMac
  /\ visit' = visit \ {ip}
  /\ poolCache' = [poolCache EXCEPT ![ip] = NoMac]
  /\ UNCHANGED <<stored, podReady, informer, queued, pc, latest, leases, guests, faults>>

\* First loop, an address without an entry.
Remove(ip) ==
  LET m == poolCache[ip] IN
  /\ pc = "remove" /\ ip \in visit /\ latest[ip] = NoMac
  /\ IF ~checkLease(m) THEN Abort /\ UNCHANGED <<leases, poolCache>>
     ELSE /\ visit' = visit \ {ip} /\ DeleteLease(m)
          /\ poolCache' = [poolCache EXCEPT ![ip] = NoMac] /\ UNCHANGED <<pc, latest>>
  /\ UNCHANGED <<stored, podReady, informer, queued, guests, faults>>

\* First loop, an address with an entry: poolCache gets it, the lease store does not.
Reassign(ip) ==
  /\ pc = "remove" /\ ip \in visit /\ latest[ip] # NoMac
  /\ visit' = visit \ {ip} /\ poolCache' = [poolCache EXCEPT ![ip] = latest[ip]]
  /\ UNCHANGED <<stored, podReady, informer, queued, pc, latest, leases, guests, faults>>

SecondLoop ==
  /\ pc = "remove" /\ visit = {}
  /\ pc' = "add" /\ visit' = {ip \in IPs : latest[ip] # NoMac}
  /\ UNCHANGED <<stored, podReady, informer, queued, latest, poolCache, leases, guests, faults>>

\* Second loop: an address poolCache does not have.
Add(ip) ==
  LET m == latest[ip] IN
  /\ pc = "add" /\ ip \in visit
  /\ IF poolCache[ip] # NoMac
     THEN visit' = visit \ {ip} /\ UNCHANGED <<pc, latest, leases, poolCache>>
     ELSE IF AddLeaseFails(m) THEN Abort /\ UNCHANGED <<leases, poolCache>>
     ELSE /\ visit' = visit \ {ip} /\ AddLease(m, ip)
          /\ poolCache' = [poolCache EXCEPT ![ip] = m] /\ UNCHANGED <<pc, latest>>
  /\ UNCHANGED <<stored, podReady, informer, queued, guests, faults>>

PassEnds ==
  /\ pc = "add" /\ visit = {} /\ Abort
  /\ UNCHANGED <<stored, podReady, informer, queued, poolCache, leases, guests, faults>>

Worker ==
  \/ Sync \/ SecondLoop \/ PassEnds
  \/ \E ip \in visit : Remove(ip) \/ Reassign(ip) \/ Add(ip)

-----------------------------------------------------------------------------
\* Guests.

GuestStarts(m) ==
  /\ m \notin up /\ ("reuse" \in Haste \/ CaughtUp)
  /\ up' = up \cup {m}
  /\ UNCHANGED <<stored, podReady, informer, queued, worker, bound, spelled, faults>>

GuestStops(m) ==
  /\ m \in up
  /\ up' = up \ {m} /\ bound' = [bound EXCEPT ![m] = NoIP]
  /\ UNCHANGED <<stored, podReady, informer, queued, worker, spelled, faults>>

\* Mutant: any lease of the store answers.
dhcpHandlerMutant(m) ==
  /\ m \in up
  /\ \E k \in Macs : /\ leases[k] # NoIP /\ bound[m] # leases[k]
                     /\ bound' = [bound EXCEPT ![m] = leases[k]]
  /\ UNCHANGED <<stored, podReady, informer, queued, worker, up, spelled, faults>>

\* Mutant: only renewals are answered.
dhcpHandlerRenews(m) ==
  /\ m \in up /\ leases[m] # NoIP /\ bound[m] \notin {NoIP, leases[m]}
  /\ bound' = [bound EXCEPT ![m] = leases[m]]
  /\ UNCHANGED <<stored, podReady, informer, queued, worker, up, spelled, faults>>

\* The lease of the text that ClientHWAddr.String makes of the address in a packet of
\* the guest: a lease under another text is not found.
Lease(m) == IF spelled[m] = "canonical" THEN leases[m] ELSE NoIP

\* A guest without a valid lease of its own, or at its renewal, discovers and
\* requests: both are answered with the lease of its MAC address, or not at all.
dhcpHandler(m) ==
  /\ m \in up /\ Lease(m) \notin {NoIP, bound[m]}
  /\ bound' = [bound EXCEPT ![m] = Lease(m)]
  /\ UNCHANGED <<stored, podReady, informer, queued, worker, up, spelled, faults>>

Controllers ==
  \/ PoolReady \/ PoolNotReady \/ MonitorAgent
  \/ \E ip \in IPs : Unrecord(ip) \/ \E m \in Macs : Record(ip, m)
Informer == List \/ Watch
Guest(m) == GuestStarts(m) \/ GuestStops(m) \/ dhcpHandler(m)
Next ==
  \/ Controllers \/ Replaced \/ ProbePasses \/ Informer \/ Worker
  \/ \E m \in Macs : Guest(m)

Spec == Init /\ [][Next]_vars

\* The agent's goroutines run, watch events arrive, the probe is repeated, the
\* controllers reconcile, and guests ask until they are answered.
Fairness ==
  /\ WF_vars(Worker) /\ WF_vars(Informer) /\ WF_vars(ProbePasses)
  /\ WF_vars(MonitorAgent) /\ WF_vars(PoolReady)
  /\ \A m \in Macs : WF_vars(dhcpHandler(m))
FairSpec == Spec /\ Fairness

-----------------------------------------------------------------------------
\* Between passes the lease store and poolCache agree, whatever the order of the
\* loops and however many versions a pass skipped.
LeasesMatchCache ==
  pc = "idle" => \A ip \in IPs, m \in Macs : poolCache[ip] = m <=> leases[m] = ip

\* Nothing is on its way to the agent and its pod is known to be ready.
AtRest == CaughtUp /\ podReady /\ agentReady

\* AddLease accepts the MAC address of every entry of the pool.
WellFormed == \A m \in Macs : Recorded(m) # {} => spelled[m] # "malformed"

\* At rest every lease is an entry of the pool, and every entry has its lease unless
\* a malformed one ends every pass early: the leases of a replaced agent have been
\* reconstructed, and those that such an entry held up are there once it is gone.
LeasesReconstructed ==
  AtRest => \A ip \in IPs, m \in Macs :
    /\ leases[m] = ip => pool.alloc[ip] = m
    /\ WellFormed /\ pool.alloc[ip] = m => leases[m] = ip

\* No two guests have configured the same address: a lease goes before its address
\* can be given to another guest.
AddressesUnique ==
  \A m, k \in Macs : bound[m] # NoIP /\ bound[m] = bound[k] => m = k

\* A guest whose address is recorded under its MAC address as the packets' text has it
\* configures that address, unless a malformed entry is recorded: also where other
\* guests' entries were the reason that earlier passes ended before its own.
GuestsConfigured ==
  \A m \in Macs : \A ip \in IPs :
    (m \in up /\ pool.alloc[ip] = m /\ spelled[m] = "canonical")
      ~> (bound[m] = ip \/ m \notin up \/ ~WellFormed)
=============================================================================
