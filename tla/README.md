# A TLA+ model of vm-dhcp-controller

vm-dhcp-controller gives the virtual machines of a Harvester cluster their IPv4
addresses. This directory holds a TLA+ specification of it, the TLC runs that
check the specification on small instances, and TLAPS proofs of what holds for
every instance. `PROJECT.json` lists components, runs, hazards and theorems, and
maps every definition to the source lines it models.

## The system and its parts

| Part | Source | Concurrency and state |
|---|---|---|
| ippool controller | `pkg/controller/ippool` | one worker; a pass hands an IPPool to DeployAgent, BuildCache, MonitorAgent, OnChange; owns the IPAM and MAC caches' lifetime |
| vmnetcfg controller | `pkg/controller/vmnetcfg` | one worker; Allocate, Sync, OnChange, OnRemove; allocates and releases addresses in the caches and in IPPools |
| vm controller | `pkg/controller/vm` | one worker; creates and updates a VirtualMachineNetworkConfig (vmnetcfg) per VM |
| IPAM, MAC cache | `pkg/ipam`, `pkg/cache` | process memory shared by the first two |
| custom resources | `pkg/apis` | persisted in the API server, read through informers |
| status handlers | `pkg/generated/.../{ippool,virtualmachinenetworkconfig}.go` | generated; turn a handler's result into a condition and a status update |
| agent | `pkg/agent`, `cmd/agent` | one pod per IPPool: informer, queue, one worker, poolCache |
| DHCP server | `pkg/dhcp` | in the agent; lease store behind a mutex |
| HTTP server | `pkg/server` | probes and debugging pages |
| metrics | `pkg/metrics` | gauges, written only |
| admission webhooks | `pkg/webhook`, `pkg/util` | defaulting and validation, stateless |
| process set-up | `cmd`, `pkg/config`, `pkg/crd`, `pkg/data` | flags, clients, leader election |

The controllers never call each other. They meet in the stored objects, where a
write is refused when it is based on an old version; in informer copies that lag
behind; and in the caches, which a restart empties and BuildCache rebuilds from
an IPPool's status. The agent sees IPPools only.

## Modules

| Module | Models |
|---|---|
| `ApiObject` | one stored object, its informer copy, and who holds a fresh copy (external: Kubernetes) |
| `Allocators` | IPAM subnets as sets of free and used addresses; MAC sets as functions |
| `ControlPlaneState` | constants, objects, queues and workers of the three controllers |
| `IPPoolController`, `VmNetCfgController`, `VmController` | the controllers |
| `ControlPlane` | their composition with users, informers and restarts; properties |
| `AddressService` | what the control plane promises: a ledger of addresses and who holds them |
| `ControlPlaneInvariant`, `ReleaseInvariant` | the inductive invariants `Sound` and `AsAsked`, where nothing is released, and `InStep`, where VMs come and go |
| `ControlPlaneLemmas`, `CalmProofs`, `ReleaseProofs` | theorems about the control plane: its operators and types, a calm environment, and a tidy one with releases |
| `PoolLife` | an IPPool from creation to removal: agent pod, pod cache, NAD labels, gauges, users, admission of both resources |
| `ObjectCopies` | which variables share memory in the generated status handlers and in the handlers they call |
| `IPv4` | the address arithmetic of `pkg/util/network.go` and NewIPSubnet, on addresses of `Width` bits |
| `Admission` | mutator, CRD rules and validator of an IPPool; BuildCache and OnChange on what they let through |
| `Agent` | agent, DHCP server, guests; the controllers as its environment |
| `Process` | start, failure and shutdown of the three programs |
| `AgentProofs`, `AdmissionProofs`, `ObjectCopiesProofs`, `PoolLifeProofs`, `ProcessProofs` | theorems about the module each is named after |
| `MCControlPlane`, `MCAgent`, `MCAdmission`, `MCPoolLife`, `MCObjectCopies` | values for the constants |

**Objects.** `pool[n]` and `cfg[v]` are records of the stored object (`api`), the
informer's copy (`inf`), the set of readers whose copy is the stored version
(`fresh`) and the readers whose own write has not come back yet (`unseen`).
A resourceVersion is only ever compared for equality, so `fresh` stands for it
without an unbounded counter. A write by a reader that is not in `fresh` is a
conflict.

**Passes.** A worker's `pc` names the next handler. One action is one handler with
the status update the generated code ends it with: the status is reverted on an
error, a conflict counts as success for the condition, the update is sent only if
the status differs, and the unsaved status still goes to the next handler. Allocate
and cleanup write IPPools on the way, so they are split at these writes: for each
interface one step in the caches (`AllocateRecovers`, `AllocateNew`,
`CleanupReleases`) and one for the pool (`AllocateRecords`, `CleanupUnrecords`).
Everything else can happen in between.

**Environment.** The constant `Env` says what the environment of an instance does
(`EnvEvents` in `ControlPlaneState`): restarts, agents, pauses, changes, removals,
static requests, and which informers may lag behind a worker's own writes. Without
`"hasty"` users wait until the controllers have caught up with what they did
before. The events are separate so that each run has the ones its question needs,
and so that a property can be reported with the events that break it.

**Agent.** `Sync` takes an event and decides as `Update` does. `Remove`, `Reassign`
and `Add` are one iteration of the two loops each, in any order, because Go's map
iteration has none, and because guests are answered between two lease operations. An
error ends the pass and is not tried again, because `sync` logs it. `Update` deletes
the marks from the indexer's own map. A MAC address travels from the VM to the lease
store as text: `spelled` says whether it is written as the server writes the address of a
packet when it looks for the lease, otherwise but readable, in which case the lease is
never found (`Lease`), or malformed, in which case AddLease refuses it and ends the pass
(`AddLeaseFails`). `Haste` says what happens before the agent has caught up.

**Pools.** `PoolLife` leaves addresses out and keeps the rest of the ippool
controller. One action is one handler with the write that ends it; DeployAgent is two,
because it creates a pod before it writes the name down. A pod has a UID, and the pod
cache shows an older state of it under the same name. A pass works on the copy of the
IPPool informer (`inf`), and so does Allocate. With `"late"` the informer delivers a
stored version, the latest one, at a time of its own (`PoolSeen`), and a pass that starts
before has an old copy, whose writes are refused; `MaxLate` bounds such passes. `Envs`
plays the part of `Env`.

**Copies.** In `ObjectCopies` every variable of type pointer or struct is a holder,
and `mem` says in whose cells its slices, maps and pointers live. `Shared`,
`DeepCopied`, `Through` and `Assigned` are the four things Go code does with them.
The status handlers, DeployAgent, Sync and both OnChanges are written with these, so
a write through a shared pointer shows up wherever it does in the program. The other
controllers' modules have the same handlers by value, as `StatusHandled` in `PoolLife`
does; `failed_handler` shows where that makes a difference.

**Addresses.** `IPv4` keeps what `netip` and `net.IPNet` do at the ends: the zero
address before 0 and after the last, its text "invalid IP", host bits in a CIDR. A
string field is an address, empty or malformed.

**Programs.** In `Process` every goroutine has its own state, contexts are the
conditions that cancel them, and a send on an unbuffered channel waits for its
receiver. A panic or RunOrDie ends the program at once.

**Refinement.** `AddressService` has no controllers, caches, copies or restarts: an
address is written down when it is nobody's (`Record`), held only as written down
(`Serve`) and crossed out when nobody holds it (`Erase`). The mapping reads the ledger
off the stored IPPools and what is held off the stored vmnetcfgs. `scenarios` and
`two_vms` check it as a property; `ServiceImplemented` and `ReleaseImplemented` prove it.

## Runs

| Run | Environment | Shows |
|---|---|---|
| `scenarios` | agent, pausePool. 1 VM: agent, lagGuest; pausePool, lagGuest; lagCfg, lagGuest with two interfaces; pauseCfg, giveUp, remove, lagCfg; remove, change, crash. 2 VMs: remove; static, both asking for one address | `NotFreeUnlessGivenUp`, `ReplacedInOrder`, `StaticHonoured`, `KeptInStep`, `ImplementsService`, and at rest `AllServed` and `Settled`, with conflicts on every write |
| `two_vms` | crash; 2 VMs, 1 free address | `TypeOK`, `CalmInv`, `Recorded`, `Exclusive`, `NotFree`, `ImplementsService` |
| `served` | crash, lagCfg, lagGuest; 1 VM, fairness | `EventuallyServed` |
| `leases` | the agent; 2 guests, the MAC address of one of them in each of the three forms, 2 faults, fairness | `LeasesMatchCache`, `LeasesReconstructed`, `AddressesUnique`, `GuestsConfigured` |
| `admission` | 43,200 drafts of a spec on 4-bit addresses, 2 guests | `Rebuildable`, `OfferedExactly`, `LeaseRecorded`, `ServiceDisjoint`, `Editable` |
| `pool_life` | 1 pool in nine environments, three of them with a late IPPool informer, fairness | `AgentKeptInOrder`, `PauseTakesEffectInOrder`, `DeletionCompletesInOrder`, `NothingOutlivesInOrder`, `GoodPodKeptUnpaused` |
| `object_copies` | an IPPool or a vmnetcfg, its worker and another one | `InformerIntact`, `ErrorsRevert`, `ChangesSent`, `StaleReleased` |
| `process` | agent, agent without DHCP, controller with and without leader election, webhook; fairness | `Terminates`, `FailureEndsProgram`, `CleanIsStopped` |

Every property is described where it is defined; every component's run also checks its
`TypeOK`. In `scenarios` the first state chooses
one of the environments, and `MCNext` takes the steps of `ControlPlane` in it.
`ReplacedInOrder` is `DeallocateFirst` there, `KeptInStep` is the invariant of
`ReleaseProofs` in the scenarios it is about, and `Settled` is `NoLeak` with `CachesAgree`. `NotFreeUnlessGivenUp` and `Settled` leave out an environment that breaks
them, as the table below says. A ledger in which nobody holds what is not written
down, and an entry has one owner, makes `Recorded` and `Exclusive` part of
`ImplementsService`.

Four runs end in a violation, each a disagreement between the code and what the
repository says of it (`findings` in `PROJECT.json`):

| Run | Property | What happens |
|---|---|---|
| `agent_unrecorded` | `AgentKept` | a restart between the creation of an agent pod and the write of its reference: the pod exists already, the reference never gets a name, the agent never becomes ready |
| `pool_in_use` | `UsersHavePool` | users of a pool are looked up by the pool's name instead of its network's, and the pool is deleted under them |
| `failed_handler` | `ErrorsLeaveNothing` | DeployAgent writes the image through the shared reference and fails; a later handler of the pass stores it |
| `agent_replaced` | `LeasesReconstructed` | the readiness of a new agent is written before its informer has listed: no event, no leases |

More counterexamples come from other values of the constants and have no
configuration here. Take the run named, give it this environment, and check the
property. For `scenarios` that is one scenario with one VM and `EitherNic`.

| Run | Change | Violated | What happens |
|---|---|---|---|
| `two_vms` | agent, lagPool | `Exclusive` | BuildCache acts on an informer copy older than its own write and frees an allocated address (`ippool/controller.go:359`) |
| `two_vms` | remove, crash | `Recorded` | a restart between cleanup's write and the finalizer's removal repeats the cleanup and deletes another VM's entry (`vmnetcfg/controller.go:299`) |
| `two_vms` | remove, lagGuest | `Recorded` | Allocate skips the write because the informer still shows the entry cleanup has deleted (`:208`) |
| `two_vms` | pauseCfg | `Exclusive` | every pass over a paused vmnetcfg releases its old address again, whoever has it (`:93`, `:294`) |
| `two_vms` | remove, hasty | `NoLeak` | a vmnetcfg is deleted before it has the finalizer (`:76`) |
| `scenarios` | change, giveUp | `ReplacedInOrder` | a conflict out of Sync's cleanup counts as in sync (`:262`) |
| `scenarios` | remove, pausePool | `CachesAgree` | BuildCache between cleanup's release and its write loads the entry again (`:315`) |
| `scenarios` | pauseCfg, giveUp, remove, lagCfg | `NotFree` | cleanup has released the address and gives up on the IPPool |
| `scenarios` | remove, change, crash | `CachesAgree` | after a restart OnRemove cleans up twice |
| `served` | change; the VM has one interface, m1 or m2 | `ChangesApplied` | Sync resets InSynced between the two steps of vm.OnChange, every time (`vm/controller.go:142`) |
| `leases` | Haste = reuse, no faults | `LeasesReconstructed`, `AddressesUnique` | an address that changes hands between two passes keeps its old lease (`agent/ippool/ippool.go:29`) |
| `leases` | `GuestsConfigured` without the condition on `spelled[m]` | that property | the MAC address is written in upper case or with hyphens: the guest has an entry and a lease, and is never answered (`dhcp.go:206`) |
| `leases` | `GuestsConfigured` without `~WellFormed` | that property | a malformed MAC address is recorded: every pass may end at it before it comes to another guest's entry (`dhcp.go:77`, `agent/ippool/controller.go:85`) |
| `admission` | Edits = anytime | `OfferedExactly` | a router or exclude list added while the caches are up is not revoked before the next rebuild |
| `admission` | Edits = recorded | `Rebuildable` | a router or exclude list may name a guest's address; BuildCache then fails for ever |
| `admission` | none | `ServerFree` | at creation the server's address is not compared with the exclude list (`validator.go:64`) |
| `pool_life` | pause | `GoodPodKept` | after a pause and resume MonitorAgent purges the new pod for the old one in the cache |
| `pool_life` | late, evict | `GoodPodKept` | MonitorAgent compares the new pod with the reference in a copy from before it was written, and purges the pod the stored pool refers to (`ippool/controller.go:443`) |
| `pool_life` | late, pause | `AgentKept`, `PauseTakesEffect`, `DeletionCompletes` | a pass on a copy from before the pause creates a pod, and the write of its reference is refused |
| `pool_life` | late, pause, delete | `NothingOutlives` | the same, and cleanup finds no reference when the pool is deleted |
| `pool_life` | relist, evict | `AgentKept` | the pod informer lists anew after the pod has gone: the resolver finds no pod in the cache to lead it to the pool, and nothing wakes the controller (`ippool/controller.go:130`) |
| `pool_life` | pause, busy | `PauseTakesEffect` | a pause refuses the write of the reference to the pod that DeployAgent has just created; cleanup finds no reference and stops |
| `pool_life` | pause, delete, hasty | `DeletionCompletes`, `PauseTakesEffect` | a pool is resumed while its old pod terminates: the reference has no name, and cleanup fails on it for ever |
| `pool_life` | delete; SameName <- OtherName | `NothingOutlives` | gauges are deleted under the network's name and stay (`ippool/controller.go:491`) |
| `pool_life` | delete, noAgent | `NothingOutlives` | without agents OnRemove cleans nothing up (`:258`) |
| `pool_life` | delete, busy, hasty | `NothingOutlives` | a pool is deleted during its first pass, before it has the finalizer |

So the passing runs do not say that the combinations above are safe. They say what
holds when these are kept apart.

**Bounds.** One network, with a reserved address and one or two free ones; one or two
VMs. Two VMs and one address make exhaustion and reuse happen; a second address lets a
VM move, and two interfaces of one VM are allocated in one pass. Agents and pauses of the
pool are together only where there is no VM; with VMs the proofs cover them. No counter is bounded in the control plane. In `Agent`, `MaxFaults` bounds how often
the agent is replaced or its pool not ready. In `PoolLife`, `MaxEvictions` bounds
evictions, there is one upgrade, and `MaxLate` bounds the passes on old copies: if every
pass were late, no write would ever be accepted. Two of them are enough for one to create
a pod that is not written down and for another to meet it. One pool is enough because pools share nothing but
the worker and, by their NADs' labels, users. In `ObjectCopies`, `MaxPasses` and
`MaxWrites` bound the passes of the worker and the writes of others: two passes of an
IPPool show what a failure leaves to the next, three of a vmnetcfg take it through
allocation, a change and a release. `Admission` has addresses of 4 bits, so that a
network can have a gap on either side, hosts, borders, and no host at all. Symmetry is
used for VMs, free addresses and MAC addresses in runs without liveness. MAC addresses
belong to one VM (`DistinctMacs`).

**Deadlock** is not checked in `scenarios`, `two_vms` and `served`, where nothing is
left to do once every VM has its address; in `pool_life`, where pools may all be gone; in
`object_copies`, where the bounds are used up; and in `process`, where a program that
has ended takes no step (that it ends is `Terminates`).

**Fairness.** Each goroutine goes on (weak fairness of the handler steps), each watch
event arrives, and a queued key is served although others return: work queues are
first in first out, hence strong fairness of `StartPool` and `StartCfg`. vm.OnChange
compares lists in the random order of Go's maps; now and then the order is that of the
spec and nothing is written, hence strong fairness of `VMUnchanged`; without it a VM
with two interfaces could be marked out of sync for ever. For the
agent: worker, informer and probe, the controllers' reconciliation, and a guest that
asks until it is answered. For pools: the worker, the pod cache, the IPPool informer, and
kubelet, which starts and ends pods; a queued pool is served (strong fairness of `Start`,
because `MaxLate` makes it wait for the informer now and then). For programs: every goroutine that can run does. Nothing is
assumed of users, restarts, replacements, evictions or signals; `EventuallyServed` and
`ChangesApplied` speak of behaviours in which restarts, or changes, stop.

## Proofs

Every theorem holds for any number of VMs, networks, addresses, MAC addresses, pools,
passes and faults, and for addresses of any width, the 32 bits of the code included. The hypotheses are the assumptions named in the modules that declare the
constants, which TLC evaluates in every run, and what is said below of the environment.
Each invariant was checked with TLC before it was proved.

| Theorem | Module | Property | Environment |
|---|---|---|---|
| `TypeCorrect` | `ControlPlaneLemmas` | `TypeOK` | any |
| `CalmCorrect` | `CalmProofs` | `CalmInv` | calm |
| `AddressesRecorded`, `AddressesExclusive`, `RecordedNotFree` | | `Recorded`, `Exclusive`, `NotFree` | calm |
| `ServiceImplemented` | | `ImplementsService` | calm |
| `StaticAddressesHonoured` | | `StaticHonoured` | calm, `OwnMacs` |
| `TidyCorrect` | `ReleaseProofs` | `TidyInv` | tidy |
| `ReleasedRecorded`, `ReleasedExclusive`, `ReleasedNotFree` | | `Recorded`, `Exclusive`, `NotFree` | tidy |
| `ReleaseImplemented` | | `ImplementsService` | tidy |
| `AgentTypes` | `AgentProofs` | `TypeOK` | any |
| `StoreMatchesCache`, `GuestsUnique` | | `LeasesMatchCache`, `AddressesUnique` | no `"reuse"` in `Haste` |
| `StoreReconstructed` | | `LeasesReconstructed` | `Haste = {}` |
| `AdmissionTypes`, `StaysEditable`, `ServicesDisjoint` | `AdmissionProofs` | `TypeOK`, `Editable`, `ServiceDisjoint` | any |
| `StaysRebuildable`, `LeasesStayRecorded`, `OffersExactly` | | `Rebuildable`, `LeaseRecorded`, `OfferedExactly` | `Edits = {}` |
| `LifeTypes` | `PoolLifeProofs` | `TypeOK` | any |
| `NothingOutlivesKept` | | `NothingOutlivesInOrder` | orderly, `Aligned`; late IPPool copies or pauses |
| `GoodPodSafe` | | `GoodPodKeptUnpaused` | orderly, no pause, `Aligned`; of late IPPool copies those with the stored reference |
| `CopiesTypes`, `InformerUntouched` | `ObjectCopiesProofs` | `TypeOK`, `InformerIntact` | any |
| `FailuresReverted`, `ResultsSent`, `StaleNotHeld` | | `ErrorsRevert`, `ChangesSent`, `StaleReleased` | any |
| `ProcessTypes`, `CleanEnd` | `ProcessProofs` | `TypeOK`, `CleanIsStopped` | any |

**Control plane.** In a calm environment no interface is changed, removed or paused,
and an ippool pass does not start before its last write has come back. Restarts, agents,
pauses of pools, static requests and the other lagging copies are all allowed. `Calm` is
a hypothesis of the theorems.

Neither `Recorded`, `Exclusive` nor `NotFree` is inductive. That a recorded address is
not free depends on what BuildCache loads, so on the copy its pass works on:
`PoolCopies` says that a copy which is not ready lacks no entry, because entries are
made only by writers whose fresh copy was ready. `CachesSound` relates caches and stored
entries. `PendingSound` covers an allocation between its two steps: as long as its copy
of the pool is fresh, the entry it is going to write is free or its own. `CfgCopies` and
`PassSound` say that no copy of a vmnetcfg gives anything to clean up. The proof has a
lemma per handler and combines them per worker.

The refinement follows from the same invariant. Every step but `AllocateRecords` keeps
the entries of all pools (`SameEntries`: an ippool pass that writes a stale copy is
refused, and OnChange's marks are no entries); `AllocateRecords` changes one entry, by
`PendingSound` from nobody's or its own. What is held is in the ledger by `Recorded`.

`StaticHonoured` needs more, because an address reaches a status from an entry, from the
MAC cache or from the request: `AsAsked` says that each of them, and the allocation under
way, has for an interface what some stored spec asks for it (`Granted`), and that the
copies handlers work on have no interface the stored spec lacks (`SpecsKept`). A MAC
address belongs to one VM by `DistinctMacs`; the hypothesis `OwnMacs`, that a user does
not give one to two interfaces of a VM either, makes the spec that asked the one that is
answered.

**Releases.** In a tidy environment VMs are removed once they are served and created
again once their vmnetcfg is gone, any number of them, and addresses go from one to the
next; there are static requests, and either agents or pauses of pools. Restarts, pauses
of vmnetcfgs and copies of a pool from before a worker's own write are left out because
the properties fail with them, as the table of counterexamples says. The rest is left out
because `InStep` does not hold with it: changes, hasty users, lagging copies of a vmnetcfg
and a cleanup that gives up leave records to be cleaned up in other ways, and a paused
pool with an agent loses its caches, after which cleanup finds its addresses unknown and
starts again from the first record.

`Sound` does not survive a release. In `InStep` a copy of a pool may have entries that
are gone, or lack some (`PoolViews`); the informer's has what is stored once it has seen
the vmnetcfg worker's last write, and one that is not ready lacks nothing. The caches know
of every entry but those that cleanup has released and not yet deleted (`CachesKnow`,
`Releasing`). A vmnetcfg that is being deleted is written by its worker alone, whose copy
of it is fresh (`CfgViews`), so OnRemove cleans up what is stored, once for each record
(`PassViews`). And every record is entered in its pool until cleanup has taken it out
(`EntriesKept`): what cleanup has left of the deleted vmnetcfg may be given to others, and
what it has not reached is still the VM's own, because no other has its MAC address. So
IsAllocated knows every address that cleanup asks for (`CleanupKnows`), the entry it
deletes is the VM's (`CleanupWrites`), and that is an `Erase` of an address that nobody
holds (`CleanupErases`).

**Agent.** `AgentInv`: the leases are those of poolCache in every state, within the
loops too (`Leases`), because a pass changes both in one iteration. That needs every
entry the loops meet to be absent or the same on the other side: `Copies` says that the
stored pool, the informer's copy, the copy a pass works on and poolCache are versions of
one history in which no address changes hands, which is where `"reuse"` is excluded.
`Loops` says what the iterations so far have settled, and `Progress` that the end of a
pass, or the event of the agent's readiness, leaves nothing out, unless an entry that
AddLease refuses is among those of the pass (`Clean`). Nothing is assumed of how MAC
addresses are written.

**Admission.** `EditInv` holds whenever and whatever users edit: a stored spec satisfies
the CRD, the validator and the mutator's comparison of the range (`SpecSound`), and the
server's address is neither in the caches nor recorded (`ServerSound`), because it is
immutable and revoked before anything is handed out. `LeasesSound` adds that leases and
records are inverse to each other and that the caches are what BuildCache makes of the
records. Edits while the caches are up, or to addresses that guests have, break it in the
code, as the table of counterexamples says, and are excluded by `Edits = {}`.
`ServicesDisjoint` and `OffersExactly` rest on arithmetic: the size of a network is a
power of two that divides the size of every larger one (`Pow2Divides`), so of two networks
that meet the larger one has the other's network address (`NestedNetworks`), which is what
`checkCIDR` looks for, and the borders NewIPSubnet computes are the network's
(`NetworkFacts`). That a recursive function satisfies its equations and that powers divide
each other are inductions. They use the library's fact that a set with a well-founded
relation has minimal elements, which takes a set and not an operator (`Least`,
`Induction`).

**Pools.** `Basics` has what every environment keeps. `NothingOutlives` is not inductive:
what cleanup takes away must not come back from a pass on an older copy, or from a pod
that DeployAgent has created and not yet written down. There are two arguments, one for
an informer that delivers at once and one for a late informer. `Order`, the first, rests
on the reference to the agent pod: one that is set is complete (`RefsKept`), a pool without one has neither
pod, caches nor gauges unless its pod is just being written down (`Unnamed`), and where
users wait, the copy of a pass differs from the stored pool by a status at most
(`CopyKept`). `Lag`, the second, has no pauses but copies of any age. A copy is of a
version the pool has had (`CopyLags`); a pool without a reference is as it was created,
and so are its copies (`FirstPass`), so nothing is deployed twice for it; and a pass on a
pool that is gone has a copy that says it is being deleted and names the reference
(`PassLags`), so that it ends with a cleanup of whatever it has deployed and built. That is
why `NothingOutlives` makes an exception of the pool the worker is at. `Aligned` says that a pool is named as its network; the code needs it, as
`pool_in_use` and the counterexample with `OtherName` show. For `GoodPodSafe`, `Agents`
adds what the pod cache may show (`SeenKept`: an older state of the very pod, because
none is created while the cache has another) and that after an upgrade the reference has
the new image before there are caches (`ImagesKept`). With a late informer `SeenLags`
takes their place: as long as the stored reference is that of the pod, the pod cache has
this pod or none. An assumption on `Uids` says that
there is always one that nobody remembers.

**Copies.** `CopiesInv` says who may share memory with whom between any two steps of a
pass (`Separate`, `Apart`): informer, the other worker and the copy to compare with have
cells of their own; only the object and the status given to a handler share.
`HandlerSound` relates status, argument and copy where a handler ends, and `RecordsSound`
the vmnetcfg's records to the addresses held. Each of the four things Go code does with
memory has a lemma (`SharedFacts`, `DeepCopiedFacts`, `ThroughFacts`, `AssignedFacts`),
and each handler one built from these.

**Programs.** `ProcessInv`: what a group's error says of its goroutines, what Cleanup can
have seen when it looked for the DHCP server, and that run receives from Cleanup only
after the group has ended.

Only model-checked, and why:

- all liveness (`EventuallyServed`, `GuestsConfigured`, `Terminates`,
  `FailureEndsProgram` and the properties of `pool_life` that lead somewhere), which the
  prover does not handle;
- `AllServed` and `Settled`, what is true at rest: the proof needs an invariant that
  says, of everything that is not yet as it should be, what is queued or on its way for
  it;
- the control plane under changes and pauses of vmnetcfgs, and under removals with
  restarts or lagging copies (`NotFreeUnlessGivenUp`, `ReplacedInOrder`, and the other
  properties of `scenarios` there), where what holds depends on which of these events
  come together.

## Not modelled

- AllocateIP and AddMAC as two critical sections. Allocate's reads of the informer's
  pool, HasMAC, AllocateIP and AddMAC for an interface are one step, and so are
  NewIPSubnet, NewMACSet, RevokeIP and the loop over the recorded addresses in BuildCache
  (`ippool/controller.go:364-412`), although each takes the lock for itself and an
  allocation may come in between. The unlocked accesses to the
  map of subnets (`ipam.go:36`) are not modelled either: Go leaves open what a race on a map does, the
  likely outcome is the end of the process, and restarts are in the model.
- The nil dereference in cleanup of an IPPool without status (`vmnetcfg/controller.go:324`):
  a restart as well.
- The refusals of checkNAD when an IPPool is created or updated, and in DeployAgent the
  errors of a NAD that is missing or lacks its cluster network's label: NADs are there all
  the time. That the NAD's labels cannot be written is in `IPPoolController` and left out
  of `PoolLife`.
- AddLease's refusal of a CIDR, which the webhook has parsed before; and two guests with
  one hardware address under two texts.
- Several networks in the runs: the proofs have any number, the runs one.
- The contents of the agent pod, and two pools whose agents have the same name
  (`util/common.go:28`).
- Logging, DHCP options, lease times, the lookup of NTP servers under the lease store's
  lock (`dhcp.go:112`), condition reasons and messages, the values of gauges.
- Flags, environment and files; generated clients; the code generators.
