----------------------------- MODULE Allocators -----------------------------
(***************************************************************************)
(* The controller's two in-memory allocators, per network: the IPAM of     *)
(* pkg/ipam (which addresses of the pool's range are free or used) and the *)
(* MAC cache of pkg/cache (which address a MAC address got). Both are pure *)
(* data here; the controllers' handlers call them. An operator whose name  *)
(* ends in "Mutant" is the next one with a slip in it, which some property *)
(* must notice.                                                            *)
(***************************************************************************)
EXTENDS FiniteSets

CONSTANTS
  IPs,    \* addresses
  Macs,   \* MAC addresses of virtual machine interfaces
  NoIP,   \* "0.0.0.0": the address a caller passes to get any free one
  NoMac   \* no entry in an IPPool's status.ipv4.allocated

ASSUME NoIPAssumption == NoIP \notin IPs

\* An IPSubnet: the key set of its "ips" map is free \cup used.
Subnets == [exists : BOOLEAN, free : SUBSET IPs, used : SUBSET IPs]
NoSubnet == [exists |-> FALSE, free |-> {}, used |-> {}]

NewIPSubnet(range) == [exists |-> TRUE, free |-> range, used |-> {}]

\* The addresses are no longer known to the subnet.
RevokeIP(s, ips) ==
  [exists |-> s.exists, free |-> s.free \ ips, used |-> s.used \ ips]

\* Mutant: a designated address is not looked up in the map of free ones.
AllocatableIPsMutant(s, designated) ==
  IF ~s.exists THEN {}
  ELSE IF designated = NoIP THEN s.free ELSE (s.free \cup s.used) \cap {designated}

\* The addresses AllocateIP may return for a designated address: iteration over
\* a Go map is in random order, so any free one when none is designated. The
\* call fails when there is none.
AllocatableIPs(s, designated) ==
  IF ~s.exists THEN {}
  ELSE IF designated = NoIP THEN s.free ELSE s.free \cap {designated}

\* Mutant: the address is not marked as used.
AllocateIPMutant(s, ips) ==
  [exists |-> s.exists, free |-> s.free, used |-> s.used \cup (s.free \cap ips)]

\* The addresses become used.
AllocateIP(s, ips) ==
  [exists |-> s.exists, free |-> s.free \ ips, used |-> s.used \cup (s.free \cap ips)]

\* IsAllocated fails on an unknown network or address.
KnownIP(s, ip) == s.exists /\ ip \in s.free \cup s.used

\* IsAllocated and, when it is, DeallocateIP.
DeallocateIP(s, ip) ==
  [exists |-> s.exists, used |-> s.used \ {ip},
   free |-> s.free \cup (s.used \cap {ip})]

GetUsed(s) == Cardinality(s.used)

\* A MACSet, as a total function: NoIP stands for an absent key.
MACSets == [exists : BOOLEAN, ip : [Macs -> IPs \cup {NoIP}]]
NoMACSet == [exists |-> FALSE, ip |-> [m \in Macs |-> NoIP]]

HasMAC(s, mac) == s.exists /\ s.ip[mac] # NoIP
AddMAC(s, mac, ip) ==
  [exists |-> s.exists, ip |-> [s.ip EXCEPT ![mac] = ip]]

DeleteMAC(s, mac) ==
  [exists |-> s.exists, ip |-> [s.ip EXCEPT ![mac] = NoIP]]

\* Mutant: only AllocateIP is skipped for the marks, AddMAC is not.
LoadedMACSetsMutant(alloc) ==
  LET keys == Macs \cup ({alloc[ip] : ip \in DOMAIN alloc} \ {NoMac})
  IN {s \in [exists : {TRUE}, ip : [keys -> IPs \cup {NoIP}]] :
        \A m \in keys : LET mine == {ip \in DOMAIN alloc : alloc[ip] = m}
                        IN IF mine = {} THEN s.ip[m] = NoIP ELSE s.ip[m] \in mine}

\* The MAC sets that NewMACSet and one AddMAC per entry of "alloc" can leave: a
\* MAC with several addresses keeps the one the random map order visits last.
LoadedMACSets(alloc) ==
  {s \in [exists : {TRUE}, ip : [Macs -> IPs \cup {NoIP}]] :
     \A m \in Macs : LET mine == {ip \in DOMAIN alloc : alloc[ip] = m}
                     IN IF mine = {} THEN s.ip[m] = NoIP ELSE s.ip[m] \in mine}
=============================================================================
