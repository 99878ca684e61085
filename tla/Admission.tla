------------------------------ MODULE Admission ------------------------------
(***************************************************************************)
(* The life of an IPPool's addresses: what the webhook's mutator and       *)
(* validator, behind the rules of the CRD, let into the spec; what         *)
(* BuildCache and OnChange make of it; and the guests' addresses recorded  *)
(* in between.                                                             *)
(***************************************************************************)
EXTENDS IPv4, FiniteSets

CONSTANTS
  ServiceCIDR,  \* --service-cidr of the webhook
  Drafts,       \* specs that users submit
  Macs, NoMac,
  Edits         \* a subset of {"anytime", "recorded"}: when users add a router or an
                \* exclude list to a pool, besides while its caches are down, and to
                \* which addresses, besides those that no guest has

IPAM == INSTANCE Allocators WITH IPs <- Addr, NoIP <- Invalid

VARIABLES
  exists, spec,  \* the IPPool, and the part of its spec with addresses
  alloc,         \* status.ipv4.allocated
  ipam, ready,   \* the network's IPSubnet, and the CacheReady condition
  lease          \* status of the vmnetcfgs: the address each MAC address was given
vars == <<exists, spec, alloc, ipam, ready, lease>>

Spec4 == [cidr : CIDRs, start : Text, end : Text, server : Text, router : Text,
          exclude : SUBSET Text]
Excludes == {s.exclude : s \in Drafts}
Marks == {"RESERVED", "EXCLUDED"}

\* A marker in the status is no MAC address.
ASSUME ConstantsAssumption ==
  /\ ServiceCIDR \in CIDRs /\ Drafts \subseteq Spec4 /\ Drafts # {}
  /\ NoMac \notin Macs /\ Marks \cap (Macs \cup {NoMac}) = {}

Nothing == [a \in Text |-> NoMac]
Recorded == {a \in Text : alloc[a] \in Macs}

-----------------------------------------------------------------------------
\* The mutator, at creation.

MaskedIPs(s) == ({s.router} \cup s.exclude) \cap Addr

\* The first address of the network that is not masked and not its broadcast
\* address.
ServerCandidates(s) ==
  {a \in Addr : Contains(s.cidr, a) /\ a > Network(s.cidr) /\ a # Broadcast(s.cidr)} \ MaskedIPs(s)

ensureServerIP(s) ==
  IF s.server \in Addr THEN s.server
  ELSE CHOOSE a \in ServerCandidates(s) : \A b \in ServerCandidates(s) : a <= b

\* Mutant: a range that ends before it starts is let through.
ensurePoolRangeMutant(s) ==
  [accepted |-> TRUE,
   start |-> IF s.start \in Addr THEN s.start ELSE String(Succ(Network(s.cidr))),
   end |-> IF s.end \in Addr THEN s.end ELSE String(Pred(Broadcast(s.cidr)))]

ensurePoolRange(s) ==
  LET start == IF s.start \in Addr THEN s.start ELSE Succ(Network(s.cidr))
      end == IF s.end \in Addr THEN s.end ELSE Pred(Broadcast(s.cidr))
  IN [accepted |-> start <= end, start |-> String(start), end |-> String(end)]

MutatorAccepts(s) ==
  /\ Malformed \notin s.exclude /\ Empty \notin s.exclude
  /\ s.server \in Addr \/ ServerCandidates(s) # {}
  /\ ensurePoolRange(s).accepted

Mutated(s) ==
  [s EXCEPT !.server = ensureServerIP(s),
            !.start = ensurePoolRange(s).start, !.end = ensurePoolRange(s).end]

-----------------------------------------------------------------------------
\* The rules of the CRD, evaluated between mutator and validator.

FormatsValid(s) == {s.start, s.end, s.server} \subseteq Addr /\ s.router \in Addr \cup {Empty}

\* All addresses are immutable, but a router or an exclude list that was not there
\* may be added.
TransitionAllowed(old, new) ==
  /\ new.cidr = old.cidr /\ new.server = old.server
  /\ new.start = old.start /\ new.end = old.end
  /\ old.router # Empty => new.router = old.router
  /\ old.exclude # {} => new.exclude = old.exclude

-----------------------------------------------------------------------------
\* The validator, at creation and at every update of the object.

LoadPool(s) == Malformed \notin {s.start, s.end, s.server, s.router}

\* Mutant: only one of the two directions.
checkCIDRMutant(c) == ~Contains(ServiceCIDR, Network(c))
checkCIDR(c) == ~Contains(c, Network(ServiceCIDR)) /\ ~Contains(ServiceCIDR, Network(c))

IsHost(c, a) == Contains(c, a) /\ a # Network(c) /\ a # Broadcast(c)

\* Mutant: the network's own address may start the range.
checkPoolRangeMutant(s) ==
  \A a \in {s.start, s.end} \cap Addr : Contains(s.cidr, a) /\ a # Broadcast(s.cidr)

checkPoolRange(s) == \A a \in {s.start, s.end} \cap Addr : IsHost(s.cidr, a)

checkServerIP(s, unallocatables) ==
  s.server \in Addr =>
    IsHost(s.cidr, s.server) /\ s.server # s.router /\ s.server \notin unallocatables

checkRouter(s) == s.router \in Addr => IsHost(s.cidr, s.router)

\* The addresses that the status marks as excluded or gives to a guest.
LoadAllocated == {a \in Addr : alloc[a] \in Macs \cup {"EXCLUDED"}}

ValidatorAccepts(s, unallocatables) ==
  /\ LoadPool(s) /\ checkCIDR(s.cidr) /\ checkPoolRange(s)
  /\ checkServerIP(s, unallocatables) /\ checkRouter(s)

Create(s) ==
  /\ MutatorAccepts(s)
  /\ FormatsValid(Mutated(s)) /\ ValidatorAccepts(Mutated(s), {})
  /\ exists' = TRUE /\ spec' = Mutated(s)
  /\ UNCHANGED <<alloc, ipam, ready, lease>>

Update(router, exclude) ==
  LET s == [spec EXCEPT !.router = router, !.exclude = exclude] IN
  /\ exists /\ s # spec
  /\ "anytime" \in Edits \/ ~ipam.exists
  /\ "recorded" \in Edits \/ ({router} \cup exclude) \cap Recorded = {}
  /\ FormatsValid(s) /\ TransitionAllowed(spec, s) /\ ValidatorAccepts(s, LoadAllocated)
  /\ spec' = s
  /\ UNCHANGED <<exists, alloc, ipam, ready, lease>>

-----------------------------------------------------------------------------
\* The controller.

\* Mutant: the router is not revoked.
RevokedIPsMutant(s) == {s.server} \cup s.exclude
RevokedIPs(s) == {s.server, s.router} \cup s.exclude

EmptySubnet == IPAM!RevokeIP(IPAM!NewIPSubnet(spec.start .. spec.end), RevokedIPs(spec))

\* BuildCache fails in NewIPSubnet, or in AllocateIP at one of the recorded addresses
\* after it has loaded some of the others.
BuildCache ==
  /\ exists /\ ~ready
  /\ IF SubnetAccepted(spec.cidr, spec.start, spec.end)
     THEN \E loaded \in SUBSET (Recorded \cap EmptySubnet.free) :
            /\ Recorded \subseteq EmptySubnet.free => loaded = Recorded
            /\ ipam' = IPAM!AllocateIP(EmptySubnet, loaded)
            /\ ready' = (loaded = Recorded)
     ELSE UNCHANGED <<ipam, ready>>
  /\ UNCHANGED <<exists, spec, alloc, lease>>

\* Mutant: an address in the pool's range that is the server's is marked as excluded.
MarkedMutant(a) ==
  IF a \in spec.exclude \cup {spec.server} THEN "EXCLUDED"
  ELSE IF a = spec.router /\ IsIPInBetweenOf(a, spec.start, spec.end) THEN "RESERVED"
  ELSE alloc[a]

\* What OnChange leaves in the entry of an address.
Marked(a) ==
  IF a \in spec.exclude THEN "EXCLUDED"
  ELSE IF a \in {spec.server, spec.router} /\ IsIPInBetweenOf(a, spec.start, spec.end) THEN "RESERVED"
  ELSE alloc[a]

OnChange ==
  /\ exists /\ ipam.exists
  /\ alloc' = [a \in Text |-> Marked(a)]
  /\ UNCHANGED <<exists, spec, ipam, ready, lease>>

\* Allocate and cleanup of the vmnetcfg controller, in one step each.
Allocate(m) ==
  /\ ready /\ lease[m] = Invalid
  /\ \E a \in IPAM!AllocatableIPs(ipam, Invalid) :
       /\ alloc' = [alloc EXCEPT ![a] = m] /\ ipam' = IPAM!AllocateIP(ipam, {a})
       /\ lease' = [lease EXCEPT ![m] = a]
  /\ UNCHANGED <<exists, spec, ready>>

Release(m) ==
  /\ lease[m] # Invalid /\ IPAM!KnownIP(ipam, lease[m])
  /\ ipam' = IPAM!DeallocateIP(ipam, lease[m])
  /\ alloc' = [alloc EXCEPT ![lease[m]] = NoMac]
  /\ lease' = [lease EXCEPT ![m] = Invalid]
  /\ UNCHANGED <<exists, spec, ready>>

\* A restart, or a pause: OnChange then finds the network not initialized.
Drop ==
  /\ ipam.exists /\ ipam' = IPAM!NoSubnet /\ ready' = FALSE
  /\ UNCHANGED <<exists, spec, alloc, lease>>

-----------------------------------------------------------------------------
Init ==
  /\ exists = FALSE /\ spec \in {CHOOSE s \in Drafts : TRUE} /\ alloc = Nothing
  /\ ipam = IPAM!NoSubnet /\ ready = FALSE /\ lease = [m \in Macs |-> Invalid]

Next ==
  \/ ~exists /\ \E s \in Drafts : Create(s)
  \/ \E router \in Addr \cup {Empty} : \E exclude \in Excludes : Update(router, exclude)
  \/ BuildCache \/ OnChange \/ Drop
  \/ \E m \in Macs : Allocate(m) \/ Release(m)

Spec == Init /\ [][Next]_vars

-----------------------------------------------------------------------------
\* References: the addresses of a network, its first and its last.
NetAddrs(c) == {a \in Addr : a \div Size(c) = c.ip \div Size(c)}
Hosts(c) == {a \in NetAddrs(c) : \E b, d \in NetAddrs(c) : b < a /\ a < d}

\* Every variable has a value of its type, and no address is both free and used.
TypeOK ==
  /\ exists \in BOOLEAN /\ ready \in BOOLEAN
  /\ spec \in Spec4
  /\ alloc \in [Text -> Macs \cup Marks \cup {NoMac}]
  /\ ipam \in IPAM!Subnets /\ ipam.free \cap ipam.used = {}
  /\ lease \in [Macs -> Addr \cup {Invalid}]

\* Whatever mutator, CRD and validator let through, at creation and in every later
\* update, BuildCache can load after a restart: NewIPSubnet accepts the range, which
\* the validator itself never compares end with end, and no recorded address is
\* outside of it, revoked, or recorded for two.
Rebuildable ==
  exists =>
    /\ SubnetAccepted(spec.cidr, spec.start, spec.end)
    /\ Recorded \subseteq EmptySubnet.free
    /\ \A a, b \in Recorded : alloc[a] = alloc[b] => a = b

\* Once the caches are ready, IPAM offers exactly the host addresses of the network
\* between start and end that are not the server's, not the router's, not excluded
\* and not recorded for a guest: nothing special is handed out and nothing is lost.
OfferedExactly ==
  ready =>
    ipam.free = {a \in Hosts(spec.cidr) :
                   /\ spec.start <= a /\ a <= spec.end
                   /\ a \notin {spec.server, spec.router} \cup spec.exclude \cup Recorded}

\* What a virtual machine was given stays recorded for it in the IPPool, whatever
\* marks OnChange sets after a router or an exclude list was added.
LeaseRecorded == \A m \in Macs : lease[m] # Invalid => alloc[lease[m]] = m

\* No admitted pool shares an address with the cluster's services, although
\* checkCIDR only compares two network addresses with two networks.
ServiceDisjoint == exists => NetAddrs(spec.cidr) \cap NetAddrs(ServiceCIDR) = {}

\* A pool stays editable: an update that changes no address (one that pauses the
\* pool, say) passes the validator, whatever OnChange marked and guests got, unless
\* the pool was created with its server's address in the exclude list.
Editable ==
  exists /\ spec.server \notin spec.exclude => ValidatorAccepts(spec, LoadAllocated)

\* The comment of checkServerIP: the server's address "does NOT collide with any
\* allocated or excluded IP addresses".
ServerFree == exists => spec.server \notin spec.exclude \cup Recorded
=============================================================================
