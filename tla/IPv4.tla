-------------------------------- MODULE IPv4 --------------------------------
(***************************************************************************)
(* The address arithmetic of pkg/util/network.go and of IPAM's             *)
(* NewIPSubnet, on addresses of Width bits instead of 32.                  *)
(***************************************************************************)
EXTENDS Integers

CONSTANT Width  \* bits of an address

ASSUME WidthAssumption == Width \in Nat \ {0}

\* 2 to the n-th power.
Pow2[n \in Nat] == IF n = 0 THEN 1 ELSE 2 * Pow2[n - 1]

Addr == 0 .. Pow2[Width] - 1

\* A string field of a spec holds an address, nothing, or what ParseAddr refuses.
\* The zero netip.Addr, which Next and Prev return at the ends, sorts before all
\* addresses.
Empty == -1
Malformed == -2
Invalid == -1
Text == Addr \cup {Empty, Malformed}

\* String of the zero netip.Addr is "invalid IP".
String(a) == IF a = Invalid THEN Malformed ELSE a

Succ(a) == IF a = Pow2[Width] - 1 THEN Invalid ELSE a + 1
Pred(a) == IF a = 0 THEN Invalid ELSE a - 1

\* "ip/len", where ip may have host bits set.
CIDRs == [ip : Addr, len : 0 .. Width]

\* LoadCIDR: the network address, the broadcast address, and the IPNet.
Size(c) == Pow2[Width - c.len]
Network(c) == c.ip - (c.ip % Size(c))
Broadcast(c) == Network(c) + Size(c) - 1
Contains(c, a) == a \in Addr /\ a - (a % Size(c)) = Network(c)

IsIPInBetweenOf(a, start, end) == {a, start, end} \subseteq Addr /\ start <= a /\ a <= end

\* NewIPSubnet builds a subnet from these, or fails.
SubnetAccepted(c, start, end) ==
  /\ Contains(c, start) /\ Contains(c, end)
  /\ start <= end /\ end # Broadcast(c)
=============================================================================
