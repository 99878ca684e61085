-------------------------- MODULE AdmissionProofs ---------------------------
(***************************************************************************)
(* What admission and the controller make of an IPPool's addresses, for    *)
(* any drafts, services, MAC addresses and address width.                  *)
(***************************************************************************)
EXTENDS Admission, TLAPS, WellFoundedInduction

\* Most leaves are first-order: Zenon is tried first, the SMT solver after it.
USE ZenonT(2), SMTT(20), ZenonT(20)

\* A stored spec passed the rules of the CRD and the validator, and the mutator's
\* comparison of the range.
SpecSound ==
  exists => FormatsValid(spec) /\ ValidatorAccepts(spec, {}) /\ spec.start <= spec.end

\* The server's address is neither in the caches nor recorded, and what is marked as
\* excluded is in the exclude list: that may be added, and never changed.
ServerSound ==
  /\ ~exists => alloc = Nothing /\ ipam = IPAM!NoSubnet
  /\ ready => ipam.exists
  /\ spec.server \notin ipam.free \cup ipam.used
  /\ exists => alloc[spec.server] \notin Macs
  /\ \A a \in Text : alloc[a] = "EXCLUDED" => a \in spec.exclude

EditInv == TypeOK /\ SpecSound /\ ServerSound

\* When users add a router or an exclude list only while the caches are down, and only
\* with addresses that no guest has: leases and records say the same, and the caches
\* are what BuildCache makes of the records.
LeasesSound ==
  /\ \A m \in Macs : lease[m] # Invalid => alloc[lease[m]] = m
  /\ \A a \in Text : alloc[a] \in Macs => lease[alloc[a]] = a
  /\ Recorded \subseteq EmptySubnet.free
  /\ ipam.exists => ipam.used = Recorded /\ ipam.free = EmptySubnet.free \ Recorded

AdmissionInv == EditInv /\ LeasesSound

-----------------------------------------------------------------------------
\* Powers of two, and the networks that have them as sizes.

\* A set of numbers has a least one, as < is well founded.
LEMMA Least ==
  ASSUME NEW T \in SUBSET Nat, T # {}
  PROVE  \E x \in T : \A y \in T : x <= y
<1> DEFINE R == OpToRel(<, Nat)
<1>1. IsWellFoundedOn(R, Nat)
  BY NatLessThanWellFounded
<1>2. \A x, y \in Nat : <<y, x>> \in R <=> y < x
  BY DEF OpToRel
<1> HIDE DEF R
<1>3. PICK x \in T : \A y \in T : <<y, x>> \notin R
  BY <1>1, WFMin
<1>4. \A y \in T : ~(y < x)
  BY <1>2, <1>3
<1> QED BY <1>4

\* Induction, for a set in place of a predicate.
LEMMA Induction ==
  ASSUME NEW S, 0 \in S, \A n \in Nat : n \in S => n + 1 \in S
  PROVE  Nat \subseteq S
<1> SUFFICES ASSUME Nat \ S # {} PROVE FALSE
  OBVIOUS
<1>1. PICK x \in Nat \ S : \A y \in Nat \ S : x <= y
  <2>1. Nat \ S \in SUBSET Nat
    OBVIOUS
  <2> QED BY <2>1, Least
<1>2. x # 0 /\ x - 1 \in Nat /\ x - 1 \in S
  BY <1>1
<1> QED BY <1>1, <1>2

\* g satisfies the equations of Pow2 up to n.
Powers(g, n) == g \in [0 .. n -> Nat] /\ g[0] = 1 /\ \A k \in 1 .. n : g[k] = 2 * g[k - 1]

\* The equations of Pow2 have a solution up to any number,
LEMMA PowersExist == \A n \in Nat : \E g : Powers(g, n)
<1> DEFINE S == {n \in Nat : \E g : Powers(g, n)}
<1>1. 0 \in S
  <2>1. Powers([k \in 0 .. 0 |-> 1], 0)
    BY DEF Powers
  <2> QED BY <2>1
<1>2. ASSUME NEW n \in Nat, n \in S PROVE n + 1 \in S
  <2>1. PICK g : Powers(g, n)
    BY <1>2
  <2> DEFINE h == [k \in 0 .. n + 1 |-> IF k = n + 1 THEN 2 * g[n] ELSE g[k]]
  <2>2. Powers(h, n + 1)
    BY <2>1 DEF Powers
  <2> QED BY <2>2
<1> HIDE DEF S
<1>3. Nat \subseteq S
  BY <1>1, <1>2, Induction
<1> QED BY <1>3 DEF S

\* ... and only one.
LEMMA PowersAgree ==
  ASSUME NEW n \in Nat, NEW m \in Nat, NEW g, NEW h, Powers(g, n), Powers(h, m)
  PROVE  \A k \in Nat : k <= n /\ k <= m => g[k] = h[k]
<1> DEFINE S == {k \in Nat : k <= n /\ k <= m => g[k] = h[k]}
<1>1. 0 \in S
  BY DEF Powers
<1>2. ASSUME NEW k \in Nat, k \in S PROVE k + 1 \in S
  BY <1>2 DEF Powers
<1> HIDE DEF S
<1>3. Nat \subseteq S
  BY <1>1, <1>2, Induction
<1> QED BY <1>3 DEF S

\* So Pow2 satisfies them.
LEMMA Pow2Def == Pow2 \in [Nat -> Nat] /\ Pow2[0] = 1 /\ \A n \in Nat : Pow2[n + 1] = 2 * Pow2[n]
<1> DEFINE P(n) == CHOOSE g : Powers(g, n)
           f == [n \in Nat |-> P(n)[n]]
<1>1. \A n \in Nat : Powers(P(n), n)
  BY PowersExist
<1> HIDE DEF P
<1>2. \A n \in Nat : f[n] \in Nat
  BY <1>1 DEF Powers
<1>3. f[0] = 1
  BY <1>1 DEF Powers
<1>4. ASSUME NEW n \in Nat PROVE f[n + 1] = 2 * f[n]
  <2>1. P(n + 1)[n] = P(n)[n]
    BY <1>1, PowersAgree
  <2>2. P(n + 1)[n + 1] = 2 * P(n + 1)[n]
    BY <1>1 DEF Powers
  <2> QED BY <2>1, <2>2
<1>5. f = [n \in Nat |-> f[n]]
  OBVIOUS
<1> HIDE DEF f
<1>6. f = [n \in Nat |-> IF n = 0 THEN 1 ELSE 2 * f[n - 1]]
  <2>1. ASSUME NEW n \in Nat PROVE f[n] = IF n = 0 THEN 1 ELSE 2 * f[n - 1]
    <3>1. CASE n = 0
      BY <1>3, <3>1
    <3>2. CASE n # 0
      <4>1. n - 1 \in Nat /\ (n - 1) + 1 = n
        BY <3>2
      <4> QED BY <1>4, <3>2, <4>1
    <3> QED BY <3>1, <3>2
  <2> QED BY <1>5, <2>1
<1>7. Pow2 = [n \in Nat |-> IF n = 0 THEN 1 ELSE 2 * Pow2[n - 1]]
  BY <1>6 DEF Pow2
<1>8. Pow2[0] = 1 /\ \A n \in Nat : Pow2[n + 1] = 2 * Pow2[n]
  BY <1>7
<1> DEFINE S == {n \in Nat : Pow2[n] \in Nat}
<1>9. 0 \in S /\ \A n \in Nat : n \in S => n + 1 \in S
  BY <1>8
<1> HIDE DEF S
<1>10. Nat \subseteq S
  BY <1>9, Induction
<1> QED BY <1>7, <1>8, <1>10 DEF S

\* A network has an address,
LEMMA Pow2Positive == \A n \in Nat : Pow2[n] \in Nat \ {0}
<1> DEFINE S == {n \in Nat : Pow2[n] \in Nat \ {0}}
<1>1. 0 \in S /\ \A n \in Nat : n \in S => n + 1 \in S
  BY Pow2Def
<1> HIDE DEF S
<1>2. Nat \subseteq S
  BY <1>1, Induction
<1> QED BY <1>2 DEF S

\* ... and the size of a smaller one divides that of a larger one.
LEMMA Pow2Divides ==
  ASSUME NEW i \in Nat, NEW j \in Nat, i <= j
  PROVE  \E k \in Nat : Pow2[j] = k * Pow2[i]
<1> DEFINE S == {d \in Nat : \E k \in Nat : Pow2[i + d] = k * Pow2[i]}
<1>1. 0 \in S
  <2>1. Pow2[i + 0] = 1 * Pow2[i]
    BY Pow2Positive
  <2> QED BY <2>1
<1>2. ASSUME NEW d \in Nat, d \in S PROVE d + 1 \in S
  <2>1. PICK k \in Nat : Pow2[i + d] = k * Pow2[i]
    BY <1>2
  <2>2. Pow2[i + (d + 1)] = 2 * Pow2[i + d]
    <3>1. i + d \in Nat /\ i + (d + 1) = (i + d) + 1
      OBVIOUS
    <3> QED BY <3>1, Pow2Def
  <2>3. Pow2[i + (d + 1)] = (2 * k) * Pow2[i]
    BY <2>1, <2>2, Pow2Positive
  <2> QED BY <2>3
<1> HIDE DEF S
<1>3. Nat \subseteq S
  BY <1>1, <1>2, Induction
<1>4. j - i \in Nat /\ i + (j - i) = j
  OBVIOUS
<1>5. j - i \in S
  BY <1>3, <1>4
<1> QED BY <1>4, <1>5 DEF S

\* Quotient and remainder.
LEMMA Division ==
  ASSUME NEW a \in Nat, NEW s \in Nat \ {0}
  PROVE  /\ a \div s \in Nat /\ a % s \in 0 .. s - 1
         /\ a = s * (a \div s) + (a % s)
OBVIOUS

\* The numbers that have a quotient are an interval.
LEMMA InBlock ==
  ASSUME NEW a \in Nat, NEW s \in Nat \ {0}, NEW q \in Nat
  PROVE  a \div s = q <=> s * q <= a /\ a <= s * q + s - 1
<1> DEFINE r == a \div s
           m == a % s
<1>1. r \in Nat /\ m \in 0 .. s - 1 /\ a = s * r + m
  BY Division
<1> HIDE DEF r, m
<1>2. CASE r = q
  BY <1>1, <1>2
<1>3. CASE r < q
  <2>1. r + 1 <= q
    BY <1>1, <1>3
  <2>2. s * (r + 1) <= s * q
    BY <1>1, <2>1
  <2>3. s * (r + 1) = s * r + s
    BY <1>1
  <2> QED BY <1>1, <1>3, <2>2, <2>3 DEF r
<1>4. CASE q < r
  <2>1. q + 1 <= r
    BY <1>1, <1>4
  <2>2. s * (q + 1) <= s * r
    BY <1>1, <2>1
  <2>3. s * (q + 1) = s * q + s
    BY <1>1
  <2> QED BY <1>1, <1>4, <2>2, <2>3 DEF r
<1> QED BY <1>1, <1>2, <1>3, <1>4 DEF r

\* The address space is a multiple of any network.
LEMMA SizeFacts ==
  ASSUME NEW c \in CIDRs
  PROVE  /\ Size(c) \in Nat \ {0} /\ c.ip \in Nat /\ Addr \subseteq Nat
         /\ \E k \in Nat : Pow2[Width] = k * Size(c)
<1>1. Width \in Nat /\ c.len \in 0 .. Width /\ c.ip \in Addr
  BY WidthAssumption DEF CIDRs
<1>2. Width - c.len \in Nat /\ Width - c.len <= Width
  BY <1>1
<1>3. Addr \subseteq Nat
  BY <1>1, Pow2Positive DEF Addr
<1> QED BY <1>1, <1>2, <1>3, Pow2Positive, Pow2Divides DEF Size

\* LoadCIDR: network and broadcast address are the first and the last address of the
\* network, neither of them overflows, and IPNet.Contains says yes to just those between.
LEMMA NetworkFacts ==
  ASSUME NEW c \in CIDRs
  PROVE  /\ Network(c) \in Addr /\ Broadcast(c) \in Addr
         /\ Network(c) = Size(c) * (c.ip \div Size(c)) /\ Broadcast(c) = Network(c) + Size(c) - 1
         /\ NetAddrs(c) = Network(c) .. Broadcast(c)
         /\ \A a \in Addr : Contains(c, a) <=> a \in NetAddrs(c)
<1> DEFINE s == Size(c)
           ip == c.ip
           q == ip \div s
           last == Pow2[Width] - 1
<1>1. s \in Nat \ {0} /\ ip \in Nat /\ Addr \subseteq Nat
  BY SizeFacts
<1>2. PICK k \in Nat : Pow2[Width] = k * s
  BY SizeFacts
<1>3. ip <= k * s - 1 /\ Addr = 0 .. k * s - 1
  BY <1>2 DEF Addr, CIDRs
<1>4. Network(c) = ip - (ip % s) /\ \A a \in Addr : Contains(c, a) <=> a - (a % s) = ip - (ip % s)
  BY DEF Network, Contains
<1>5. Broadcast(c) = Network(c) + s - 1 /\ NetAddrs(c) = {a \in Addr : a \div s = q}
  BY DEF Broadcast, NetAddrs
<1> HIDE DEF s, ip
<1>0. q \in Nat
  BY <1>1, Division
<1>6. /\ ip - (ip % s) = s * q
      /\ \A a \in Addr : a - (a % s) = s * q <=> a \div s = q
  <2>1. ASSUME NEW a \in Nat PROVE a \div s \in Nat /\ a - (a % s) = s * (a \div s)
    <3>1. a \div s \in Nat /\ a % s \in Nat /\ a = s * (a \div s) + (a % s)
      BY <1>1, Division
    <3> QED BY <1>1, <3>1
  <2>2. \A r, p \in Nat : s * r = s * p <=> r = p
    BY <1>1
  <2> QED BY <1>0, <1>1, <2>1, <2>2
<1>7. s * q <= ip /\ ip <= s * q + s - 1
  BY <1>0, <1>1, InBlock
<1>8. \A a \in Nat : a \div s = q <=> s * q <= a /\ a <= s * q + s - 1
  BY <1>0, <1>1, InBlock
<1> HIDE DEF q
<1>9. s * q + s - 1 <= k * s - 1
  <2>1. q < k
    <3> SUFFICES ASSUME k <= q PROVE FALSE
      BY <1>0, <1>1, <1>2
    <3>1. k * s <= s * q
      BY <1>0, <1>1, <1>2
    <3>2. k * s \in Nat /\ s * q \in Nat
      BY <1>0, <1>1, <1>2
    <3> QED BY <1>1, <1>3, <1>7, <3>1, <3>2
  <2>2. q + 1 <= k
    BY <1>0, <1>1, <1>2, <2>1
  <2>3. s * (q + 1) <= s * k
    BY <1>0, <1>1, <1>2, <2>2
  <2>4. s * (q + 1) = s * q + s /\ s * k = k * s
    BY <1>0, <1>1, <1>2
  <2> QED BY <1>0, <1>1, <1>2, <2>3, <2>4
<1>10. s * q \in Nat /\ k * s \in Nat
  BY <1>0, <1>1, <1>2
<1>11. s * q \in Addr /\ s * q + s - 1 \in Addr
  <2> DEFINE n == s * q
             e == k * s
  <2>1. n \in Nat /\ e \in Nat /\ n + s - 1 <= e - 1
    BY <1>9, <1>10
  <2> HIDE DEF n, e
  <2>2. n \in 0 .. e - 1 /\ n + s - 1 \in 0 .. e - 1
    BY <1>1, <2>1
  <2> QED BY <1>3, <2>2 DEF n, e
<1>12. NetAddrs(c) = (s * q) .. (s * q + s - 1)
  <2>1. NetAddrs(c) = {a \in Addr : a \div s = q}
    BY <1>5 DEF q
  <2>2. \A a \in Addr : a \in NetAddrs(c) <=> a \in (s * q) .. (s * q + s - 1)
    <3> DEFINE n == s * q
               In(a) == a \div s = q
    <3>1. n \in Nat
      BY <1>10
    <3>2. \A a \in Nat : In(a) <=> n <= a /\ a <= n + s - 1
      BY <1>8
    <3>3. \A a \in Addr : a \in NetAddrs(c) <=> In(a)
      BY <2>1
    <3> HIDE DEF n, In
    <3>4. \A a \in Nat : In(a) <=> a \in n .. n + s - 1
      BY <1>1, <3>1, <3>2
    <3> QED BY <1>1, <3>3, <3>4 DEF n
  <2>3. (s * q) .. (s * q + s - 1) \subseteq Addr
    <3> DEFINE n == s * q
               e == k * s
    <3>1. n \in Nat /\ e \in Nat /\ n + s - 1 <= e - 1
      BY <1>9, <1>10
    <3> HIDE DEF n, e
    <3>2. n .. n + s - 1 \subseteq 0 .. e - 1
      BY <1>1, <3>1
    <3> QED BY <1>3, <3>2 DEF n, e
  <2> QED BY <2>1, <2>2, <2>3
<1>13. \A a \in Addr : Contains(c, a) <=> a \in NetAddrs(c)
  BY <1>4, <1>5, <1>6 DEF q
<1>14. Network(c) = s * q /\ Broadcast(c) = s * q + s - 1
  BY <1>4, <1>5, <1>6
<1> QED BY <1>5, <1>11, <1>12, <1>13, <1>14 DEF s, q, ip

\* Of two networks that share an address, the larger one has the network address of
\* the smaller one.
LEMMA NestedNetworks ==
  ASSUME NEW c \in CIDRs, NEW d \in CIDRs, Width - c.len <= Width - d.len,
         NEW a \in NetAddrs(c) \cap NetAddrs(d)
  PROVE  Contains(d, Network(c))
<1> DEFINE s == Size(c)
           t == Size(d)
           q == c.ip \div s
           r == d.ip \div t
<1>1. /\ s \in Nat \ {0} /\ t \in Nat \ {0} /\ q \in Nat /\ r \in Nat
  BY SizeFacts, Division
<1>2. PICK k \in Nat : t = k * s
  <2>1. Width - c.len \in Nat /\ Width - d.len \in Nat
    BY WidthAssumption DEF CIDRs
  <2> QED BY <2>1, Pow2Divides DEF Size
<1>3. /\ Network(c) = s * q /\ Network(c) \in Addr /\ Network(d) = t * r
      /\ NetAddrs(c) = (s * q) .. (s * q + s - 1) /\ NetAddrs(d) = (t * r) .. (t * r + t - 1)
      /\ Contains(d, Network(c)) <=> Network(c) \in NetAddrs(d)
  BY NetworkFacts
<1> HIDE DEF s, t, q, r
<1>4. s * q \in Nat /\ t * r \in Nat /\ k * r \in Nat
  BY <1>1, <1>2
<1>5. /\ a \in Nat /\ s * q <= a /\ a <= s * q + s - 1
      /\ t * r <= a /\ a <= t * r + t - 1
  BY <1>1, <1>3, <1>4
<1>6. t * r = s * (k * r)
  BY <1>1, <1>2
<1>7. k * r <= q
  <2> DEFINE j == k * r
  <2> SUFFICES ASSUME q < j PROVE FALSE
    BY <1>1, <1>4
  <2>1. s * j <= a /\ a <= s * q + s - 1 /\ j \in Nat
    BY <1>4, <1>5, <1>6
  <2> HIDE DEF j
  <2>2. q + 1 <= j
    BY <1>1, <2>1
  <2>3. s * (q + 1) <= s * j
    BY <1>1, <2>1, <2>2
  <2>4. s * (q + 1) = s * q + s
    BY <1>1
  <2>5. s * j \in Nat
    BY <1>1, <2>1
  <2> QED BY <1>1, <1>4, <1>5, <2>1, <2>3, <2>4, <2>5
<1>8. t * r <= s * q
  <2> DEFINE j == k * r
  <2>1. j \in Nat /\ j <= q /\ t * r = s * j
    BY <1>4, <1>6, <1>7
  <2> HIDE DEF j
  <2>2. s * j <= s * q
    BY <1>1, <2>1
  <2> QED BY <2>1, <2>2
<1>9. s * q <= t * r + t - 1
  BY <1>1, <1>4, <1>5
<1>10. s * q \in (t * r) .. (t * r + t - 1)
  BY <1>1, <1>4, <1>8, <1>9
<1> QED BY <1>3, <1>10

-----------------------------------------------------------------------------
\* Operators.

\* What is no address sorts before all of them, and a range between addresses has
\* only addresses.
LEMMA AddrFacts ==
  /\ Text \subseteq Int /\ Addr \subseteq Text /\ Empty \in Text
  /\ Invalid \notin Addr /\ Empty \notin Addr /\ Malformed \notin Addr
  /\ \A s, e \in Addr : s .. e \subseteq Addr
<1>1. \A a \in Addr : a \in Int /\ a >= 0
  BY DEF Addr
<1>2. ASSUME NEW s \in Addr, NEW e \in Addr PROVE s .. e \subseteq Addr
  <2> DEFINE last == Pow2[Width] - 1
  <2>1. last \in Int
    BY WidthAssumption, Pow2Positive
  <2>2. s \in 0 .. last /\ e \in 0 .. last
    BY DEF Addr
  <2> HIDE DEF last
  <2>3. s .. e \subseteq 0 .. last
    BY <2>1, <2>2
  <2> QED BY <2>3 DEF Addr, last
<1> QED BY <1>1, <1>2 DEF Text, Empty, Malformed, Invalid

\* What BuildCache loads the records into: the range without what is revoked.
LEMMA EmptyFacts ==
  /\ EmptySubnet.exists = TRUE /\ EmptySubnet.used = {}
  /\ EmptySubnet.free = (spec.start .. spec.end) \ RevokedIPs(spec)
BY DEF EmptySubnet, IPAM!RevokeIP, IPAM!NewIPSubnet

\* ... which are addresses, and not the server's.
LEMMA EmptyTypes ==
  ASSUME spec.start \in Addr, spec.end \in Addr
  PROVE  EmptySubnet.free \subseteq Addr /\ spec.server \notin EmptySubnet.free
BY EmptyFacts, AddrFacts DEF RevokedIPs

\* A draft that is admitted has an address for everything but the router, and its
\* range does not end before it starts.
LEMMA CreateFacts ==
  ASSUME NEW s \in Drafts, Create(s)
  PROVE  /\ spec' \in Spec4 /\ FormatsValid(spec') /\ ValidatorAccepts(spec', {})
         /\ spec'.start <= spec'.end
<1> DEFINE m == Mutated(s)
           r == ensurePoolRange(s)
           server == ensureServerIP(s)
<1>1. s \in Spec4
  BY ConstantsAssumption
<1>2. /\ spec' = m /\ FormatsValid(m) /\ ValidatorAccepts(m, {}) /\ r.accepted
  BY DEF Create, MutatorAccepts
<1>3. m = [s EXCEPT !.server = server, !.start = r.start, !.end = r.end]
  BY DEF Mutated
<1> HIDE DEF m, server
<1>4. m.start = r.start /\ m.end = r.end /\ m.server = server /\ m.cidr = s.cidr /\ m.router = s.router
      /\ m.exclude = s.exclude
  BY <1>1, <1>3 DEF Spec4
<1>5. r.start \in Addr /\ r.end \in Addr /\ server \in Addr
  BY <1>2, <1>4 DEF FormatsValid
<1>6. m \in Spec4
  BY <1>1, <1>3, <1>5, AddrFacts DEF Spec4
<1>7. r.start <= r.end
  <2> DEFINE start == IF s.start \in Addr THEN s.start ELSE Succ(Network(s.cidr))
             end == IF s.end \in Addr THEN s.end ELSE Pred(Broadcast(s.cidr))
  <2>1. r.accepted = (start <= end) /\ r.start = String(start) /\ r.end = String(end)
    BY DEF ensurePoolRange
  <2> HIDE DEF start, end, r
  <2>2. String(start) = start /\ String(end) = end
    BY <1>5, <2>1, AddrFacts DEF String
  <2> QED BY <1>2, <2>1, <2>2
<1> QED BY <1>2, <1>4, <1>6, <1>7

\* An update adds a router or an exclude list, or both.
LEMMA UpdateFacts ==
  ASSUME spec \in Spec4, NEW router \in Addr \cup {Empty}, NEW exclude \in Excludes, Update(router, exclude)
  PROVE  /\ spec' \in Spec4 /\ FormatsValid(spec') /\ ValidatorAccepts(spec', {})
         /\ spec'.start = spec.start /\ spec'.end = spec.end /\ spec'.server = spec.server
         /\ spec'.router = router /\ spec'.exclude = exclude
         /\ spec.exclude # {} => exclude = spec.exclude
<1>1. exclude \in SUBSET Text
  BY ConstantsAssumption DEF Excludes, Spec4
<1>2. spec' = [spec EXCEPT !.router = router, !.exclude = exclude]
  BY DEF Update
<1>3. spec' \in Spec4
  BY <1>1, <1>2, AddrFacts DEF Spec4
<1>4. /\ spec'.start = spec.start /\ spec'.end = spec.end /\ spec'.server = spec.server
      /\ spec'.router = router /\ spec'.exclude = exclude
  BY <1>2 DEF Spec4
<1>5. /\ FormatsValid(spec') /\ ValidatorAccepts(spec', LoadAllocated) /\ TransitionAllowed(spec, spec')
  BY <1>2 DEF Update
<1>6. ValidatorAccepts(spec', {})
  BY <1>5 DEF ValidatorAccepts, checkServerIP
<1> QED BY <1>3, <1>4, <1>5, <1>6 DEF TransitionAllowed

-----------------------------------------------------------------------------
\* Every step, whenever users edit.

\* A subnet that BuildCache, Allocate or Release leaves.
LEMMA SubnetTypes ==
  ASSUME NEW s \in IPAM!Subnets, s.free \cap s.used = {}, NEW ips, NEW ip
  PROVE  /\ IPAM!AllocateIP(s, ips) \in IPAM!Subnets
         /\ IPAM!AllocateIP(s, ips).exists = s.exists
         /\ IPAM!AllocateIP(s, ips).free = s.free \ ips
         /\ IPAM!AllocateIP(s, ips).used = s.used \cup (s.free \cap ips)
         /\ IPAM!DeallocateIP(s, ip) \in IPAM!Subnets
         /\ IPAM!DeallocateIP(s, ip).exists = s.exists
         /\ IPAM!DeallocateIP(s, ip).free = s.free \cup (s.used \cap {ip})
         /\ IPAM!DeallocateIP(s, ip).used = s.used \ {ip}
BY DEF IPAM!AllocateIP, IPAM!DeallocateIP, IPAM!Subnets

\* ... and one that there is not.
LEMMA NoSubnetTypes ==
  /\ IPAM!NoSubnet \in IPAM!Subnets /\ IPAM!NoSubnet.exists = FALSE
  /\ IPAM!NoSubnet.free = {} /\ IPAM!NoSubnet.used = {}
BY DEF IPAM!NoSubnet, IPAM!Subnets

\* At the start there is no pool.
LEMMA EditInit == ASSUME Init PROVE EditInv
<1>1. spec \in Spec4
  BY ConstantsAssumption DEF Init
<1>2. \A a \in Text : Nothing[a] = NoMac
  BY DEF Nothing
<1>3. Nothing \in [Text -> Macs \cup Marks \cup {NoMac}] /\ NoMac # "EXCLUDED"
  BY ConstantsAssumption DEF Nothing, Marks
<1>4. TypeOK
  BY <1>1, <1>3, NoSubnetTypes DEF Init, TypeOK
<1>5. SpecSound /\ ServerSound
  BY <1>2, <1>3, NoSubnetTypes DEF Init, SpecSound, ServerSound
<1> QED BY <1>4, <1>5 DEF EditInv

\* The addresses of a stored spec.
LEMMA SpecFacts ==
  ASSUME EditInv, exists
  PROVE  /\ spec \in Spec4 /\ spec.start \in Addr /\ spec.end \in Addr /\ spec.server \in Addr
         /\ EmptySubnet.free \subseteq Addr /\ spec.server \notin EmptySubnet.free
<1>1. spec \in Spec4 /\ spec.start \in Addr /\ spec.end \in Addr /\ spec.server \in Addr
  BY DEF EditInv, TypeOK, SpecSound, FormatsValid
<1> QED BY <1>1, EmptyTypes

\* Create: nothing is recorded yet.
LEMMA CreateInv == ASSUME EditInv, ~exists, NEW s \in Drafts, Create(s) PROVE EditInv'
<1>1. /\ spec' \in Spec4 /\ FormatsValid(spec') /\ ValidatorAccepts(spec', {})
      /\ spec'.start <= spec'.end
  BY CreateFacts
<1>2. exists' = TRUE /\ UNCHANGED <<alloc, ipam, ready, lease>>
  BY DEF Create
<1>3. TypeOK'
  BY <1>1, <1>2 DEF EditInv, TypeOK
<1>4. SpecSound'
  BY <1>1 DEF SpecSound, FormatsValid, ValidatorAccepts
<1>5. \A a \in Text : alloc[a] = NoMac
  BY DEF EditInv, ServerSound, Nothing
<1>6. spec'.server \in Text
  BY <1>1 DEF Spec4
<1>7. NoMac \notin Macs /\ NoMac # "EXCLUDED"
  BY ConstantsAssumption DEF Marks
<1>8. ServerSound'
  BY <1>2, <1>5, <1>6, <1>7, NoSubnetTypes DEF EditInv, ServerSound
<1> QED BY <1>3, <1>4, <1>8 DEF EditInv

\* Update.
LEMMA UpdateInv ==
  ASSUME EditInv, NEW router \in Addr \cup {Empty}, NEW exclude \in Excludes, Update(router, exclude)
  PROVE  EditInv'
<1>1. /\ spec' \in Spec4 /\ FormatsValid(spec') /\ ValidatorAccepts(spec', {})
      /\ spec'.start = spec.start /\ spec'.end = spec.end /\ spec'.server = spec.server
      /\ spec'.exclude = exclude /\ (spec.exclude # {} => exclude = spec.exclude)
  BY UpdateFacts DEF EditInv, TypeOK
<1>2. exists /\ UNCHANGED <<exists, alloc, ipam, ready, lease>>
  BY DEF Update
<1>3. TypeOK'
  BY <1>1, <1>2 DEF EditInv, TypeOK
<1>4. SpecSound'
  BY <1>1, <1>2 DEF EditInv, SpecSound
<1>5. ServerSound'
  BY <1>1, <1>2 DEF EditInv, ServerSound
<1> QED BY <1>3, <1>4, <1>5 DEF EditInv

\* The subnet that BuildCache starts from.
LEMMA EmptyIsSubnet ==
  ASSUME EditInv, exists
  PROVE  EmptySubnet \in IPAM!Subnets /\ EmptySubnet.free \cap EmptySubnet.used = {}
<1>1. EmptySubnet = [exists |-> TRUE, free |-> EmptySubnet.free, used |-> {}]
  BY DEF EmptySubnet, IPAM!RevokeIP, IPAM!NewIPSubnet
<1>2. EmptySubnet.free \subseteq Addr
  BY SpecFacts
<1>3. PICK free \in SUBSET Addr : EmptySubnet = [exists |-> TRUE, free |-> free, used |-> {}]
  BY <1>1, <1>2
<1>4. [exists |-> TRUE, free |-> free, used |-> {}] \in IPAM!Subnets
  BY DEF IPAM!Subnets
<1> QED BY <1>3, <1>4

\* BuildCache: the caches get nothing but what is in the range and not revoked.
LEMMA BuildCacheInv == ASSUME EditInv, BuildCache PROVE EditInv'
<1>1. exists /\ UNCHANGED <<exists, spec, alloc, lease>>
  BY DEF BuildCache
<1>2. CASE UNCHANGED <<ipam, ready>>
  BY <1>1, <1>2 DEF EditInv, TypeOK, SpecSound, ServerSound
<1>3. CASE \E loaded \in SUBSET EmptySubnet.free :
             ipam' = IPAM!AllocateIP(EmptySubnet, loaded) /\ ready' = (loaded = Recorded)
  <2>1. PICK loaded \in SUBSET EmptySubnet.free :
          ipam' = IPAM!AllocateIP(EmptySubnet, loaded) /\ ready' = (loaded = Recorded)
    BY <1>3
  <2>2. EmptySubnet.exists = TRUE /\ spec.server \notin EmptySubnet.free /\ EmptySubnet.used = {}
    BY <1>1, SpecFacts, EmptyFacts
  <2>3. /\ ipam' \in IPAM!Subnets /\ ipam'.exists = TRUE
        /\ ipam'.free = EmptySubnet.free \ loaded /\ ipam'.used = loaded
    <3> DEFINE s == EmptySubnet
    <3>1. s \in IPAM!Subnets /\ s.free \cap s.used = {}
      BY <1>1, EmptyIsSubnet
    <3>2. ipam' = IPAM!AllocateIP(s, loaded) /\ s.exists = TRUE /\ s.used = {} /\ loaded \subseteq s.free
      BY <2>1, <2>2
    <3> HIDE DEF s
    <3>3. /\ ipam' \in IPAM!Subnets /\ ipam'.exists = s.exists
          /\ ipam'.free = s.free \ loaded /\ ipam'.used = s.used \cup (s.free \cap loaded)
      BY <3>1, <3>2, SubnetTypes
    <3>4. s.used \cup (s.free \cap loaded) = loaded
      BY <3>2
    <3> QED BY <3>2, <3>3, <3>4 DEF s
  <2>4. ready' \in BOOLEAN
    BY <2>1
  <2>5. TypeOK'
    BY <1>1, <2>3, <2>4 DEF EditInv, TypeOK
  <2>6. SpecSound' /\ ServerSound'
    BY <1>1, <2>2, <2>3 DEF EditInv, SpecSound, ServerSound
  <2> QED BY <2>5, <2>6 DEF EditInv
<1> QED BY <1>2, <1>3 DEF BuildCache

\* OnChange: the server's address is marked, if at all.
LEMMA OnChangeInv == ASSUME EditInv, OnChange PROVE EditInv'
<1>1. exists /\ UNCHANGED <<exists, spec, ipam, ready, lease>> /\ alloc' = [a \in Text |-> Marked(a)]
  BY DEF OnChange
<1>2. \A a \in Text : /\ alloc'[a] = Marked(a) /\ Marked(a) \in {"EXCLUDED", "RESERVED", alloc[a]}
                      /\ Marked(a) = "EXCLUDED" => a \in spec.exclude \/ alloc[a] = "EXCLUDED"
  BY <1>1 DEF Marked
<1>3. \A a \in Text : Marked(a) \in Macs \cup Marks \cup {NoMac}
  BY <1>2 DEF EditInv, TypeOK, Marks
<1>4. alloc' \in [Text -> Macs \cup Marks \cup {NoMac}]
  BY <1>1, <1>3
<1>5. "EXCLUDED" \notin Macs /\ "RESERVED" \notin Macs
  BY ConstantsAssumption DEF Marks
<1>6. spec.server \in Text
  BY <1>1, SpecFacts, AddrFacts
<1>7. TypeOK' /\ SpecSound'
  BY <1>1, <1>4 DEF EditInv, TypeOK, SpecSound
<1>8. ServerSound'
  BY <1>1, <1>2, <1>5, <1>6 DEF EditInv, ServerSound
<1> QED BY <1>7, <1>8 DEF EditInv

\* Allocate: what IPAM gives is free, and so not the server's.
LEMMA AllocateFacts ==
  ASSUME EditInv, NEW m \in Macs, Allocate(m)
  PROVE  /\ EditInv' /\ exists /\ ipam.exists /\ lease[m] = Invalid /\ UNCHANGED <<exists, spec, ready>>
         /\ \E a \in ipam.free : /\ a \in Addr
                                 /\ alloc' = [alloc EXCEPT ![a] = m] /\ lease' = [lease EXCEPT ![m] = a]
                                 /\ ipam'.exists /\ ipam'.free = ipam.free \ {a} /\ ipam'.used = ipam.used \cup {a}
<1>1. /\ ready /\ lease[m] = Invalid /\ UNCHANGED <<exists, spec, ready>> /\ ipam.exists
      /\ \E a \in ipam.free : /\ alloc' = [alloc EXCEPT ![a] = m] /\ ipam' = IPAM!AllocateIP(ipam, {a})
                              /\ lease' = [lease EXCEPT ![m] = a]
  BY DEF Allocate, IPAM!AllocatableIPs, EditInv, ServerSound
<1>2. exists
  BY <1>1, NoSubnetTypes DEF EditInv, ServerSound
<1>3. PICK a \in ipam.free : /\ alloc' = [alloc EXCEPT ![a] = m] /\ ipam' = IPAM!AllocateIP(ipam, {a})
                             /\ lease' = [lease EXCEPT ![m] = a]
  BY <1>1
<1>4. ipam \in IPAM!Subnets /\ ipam.free \cap ipam.used = {}
  BY DEF EditInv, TypeOK
<1>5. /\ ipam' \in IPAM!Subnets /\ ipam'.exists = ipam.exists
      /\ ipam'.free = ipam.free \ {a} /\ ipam'.used = ipam.used \cup {a}
  BY <1>3, <1>4, SubnetTypes
<1>6. a \in Addr /\ a \in Text
  BY <1>4, AddrFacts DEF IPAM!Subnets
<1>7. alloc' \in [Text -> Macs \cup Marks \cup {NoMac}] /\ lease' \in [Macs -> Addr \cup {Invalid}]
  BY <1>3, <1>6 DEF EditInv, TypeOK
<1>8. TypeOK' /\ SpecSound'
  BY <1>1, <1>4, <1>5, <1>7 DEF EditInv, TypeOK, SpecSound
<1>9. spec.server # a /\ spec.server \in Text /\ m # "EXCLUDED"
  BY <1>2, SpecFacts, AddrFacts, ConstantsAssumption DEF EditInv, ServerSound, Marks
<1>10. \A b \in Text : alloc'[b] = IF b = a THEN m ELSE alloc[b]
  BY <1>3 DEF EditInv, TypeOK
<1>11. ServerSound'
  BY <1>1, <1>2, <1>5, <1>9, <1>10 DEF EditInv, ServerSound
<1> QED BY <1>1, <1>2, <1>3, <1>5, <1>6, <1>8, <1>11 DEF EditInv

\* Release: the entry goes, and the address is free again.
LEMMA ReleaseFacts ==
  ASSUME EditInv, NEW m \in Macs, Release(m)
  PROVE  /\ EditInv' /\ exists /\ ipam.exists /\ UNCHANGED <<exists, spec, ready>>
         /\ \E a \in Addr : /\ lease[m] = a /\ a \in ipam.free \cup ipam.used
                            /\ alloc' = [alloc EXCEPT ![a] = NoMac] /\ lease' = [lease EXCEPT ![m] = Invalid]
                            /\ ipam'.exists /\ ipam'.free = ipam.free \cup {a} /\ ipam'.used = ipam.used \ {a}
<1> DEFINE a == lease[m]
<1>1. /\ a # Invalid /\ UNCHANGED <<exists, spec, ready>> /\ ipam.exists /\ a \in ipam.free \cup ipam.used
      /\ alloc' = [alloc EXCEPT ![a] = NoMac] /\ ipam' = IPAM!DeallocateIP(ipam, a)
      /\ lease' = [lease EXCEPT ![m] = Invalid]
  BY DEF Release, IPAM!KnownIP
<1>2. exists
  BY <1>1, NoSubnetTypes DEF EditInv, ServerSound
<1>3. a \in Addr /\ a \in Text
  BY <1>1, AddrFacts DEF EditInv, TypeOK
<1> HIDE DEF a
<1>4. ipam \in IPAM!Subnets /\ ipam.free \cap ipam.used = {}
  BY DEF EditInv, TypeOK
<1>5. /\ ipam' \in IPAM!Subnets /\ ipam'.exists = ipam.exists
      /\ ipam'.free = ipam.free \cup {a} /\ ipam'.used = ipam.used \ {a}
  <2>1. /\ ipam' \in IPAM!Subnets /\ ipam'.exists = ipam.exists
        /\ ipam'.free = ipam.free \cup (ipam.used \cap {a}) /\ ipam'.used = ipam.used \ {a}
    BY <1>1, <1>4, SubnetTypes
  <2>2. ipam.free \cup (ipam.used \cap {a}) = ipam.free \cup {a}
    BY <1>1
  <2> QED BY <2>1, <2>2
<1>6. alloc' \in [Text -> Macs \cup Marks \cup {NoMac}] /\ lease' \in [Macs -> Addr \cup {Invalid}]
  BY <1>1, <1>3 DEF EditInv, TypeOK
<1>7. TypeOK' /\ SpecSound'
  BY <1>1, <1>4, <1>5, <1>6 DEF EditInv, TypeOK, SpecSound
<1>8. spec.server # a /\ spec.server \in Text /\ NoMac \notin Macs /\ NoMac # "EXCLUDED"
  BY <1>1, <1>2, SpecFacts, AddrFacts, ConstantsAssumption DEF EditInv, ServerSound, Marks
<1>9. \A b \in Text : alloc'[b] = IF b = a THEN NoMac ELSE alloc[b]
  BY <1>1 DEF EditInv, TypeOK
<1>10. ServerSound'
  BY <1>1, <1>2, <1>5, <1>8, <1>9 DEF EditInv, ServerSound
<1> QED BY <1>1, <1>2, <1>3, <1>5, <1>7, <1>10 DEF EditInv, a

\* Whatever happens, the stored spec stays admissible and the server's address its own.
LEMMA EditStep == ASSUME EditInv, [Next]_vars PROVE EditInv'
<1>1. CASE UNCHANGED vars
  BY <1>1 DEF vars, EditInv, TypeOK, SpecSound, ServerSound
<1>2. CASE \E s \in Drafts : ~exists /\ Create(s)
  BY <1>2, CreateInv
<1>3. CASE \E router \in Addr \cup {Empty} : \E exclude \in Excludes : Update(router, exclude)
  BY <1>3, UpdateInv
<1>4. CASE BuildCache
  BY <1>4, BuildCacheInv
<1>5. CASE OnChange
  BY <1>5, OnChangeInv
<1>6. CASE Drop
  BY <1>6, NoSubnetTypes DEF Drop, EditInv, TypeOK, SpecSound, ServerSound
<1>7. CASE \E m \in Macs : Allocate(m) \/ Release(m)
  BY <1>7, AllocateFacts, ReleaseFacts
<1> QED BY <1>1, <1>2, <1>3, <1>4, <1>5, <1>6, <1>7 DEF Next

\* So it does throughout.
LEMMA EditSound == Spec => []EditInv
<1>1. Init => EditInv
  BY EditInit
<1>2. EditInv /\ [Next]_vars => EditInv'
  BY EditStep
<1> QED BY <1>1, <1>2, PTL DEF Spec

\* What mutator, CRD and validator let through always has the types that the
\* controller reads it with, and the caches never have an address both free and used.
THEOREM AdmissionTypes == Spec => []TypeOK
<1>1. EditInv => TypeOK
  BY DEF EditInv
<1> QED BY <1>1, EditSound, PTL

\* Whenever users edit, and whatever guests got: an update that changes no address
\* passes the validator, because the server's address is revoked before anything is
\* handed out and only marked as excluded if the exclude list has it.
THEOREM StaysEditable == Spec => []Editable
<1>1. EditInv => Editable
  <2> SUFFICES ASSUME EditInv, exists, spec.server \notin spec.exclude
               PROVE  ValidatorAccepts(spec, LoadAllocated)
    BY DEF Editable
  <2>1. ValidatorAccepts(spec, {}) /\ alloc[spec.server] \notin Macs
    BY DEF EditInv, SpecSound, ServerSound
  <2>2. alloc[spec.server] # "EXCLUDED"
    BY SpecFacts, AddrFacts DEF EditInv, ServerSound
  <2>3. spec.server \notin LoadAllocated
    BY <2>1, <2>2 DEF LoadAllocated
  <2> QED BY <2>1, <2>3 DEF ValidatorAccepts, checkServerIP
<1> QED BY <1>1, EditSound, PTL

\* Admission keeps pools off the services: checkCIDR compares two network addresses with
\* two networks, and that is enough because of any two networks that share an address the
\* larger one has the other's network address. For 32 bits as for any width, and whatever
\* users edit.
THEOREM ServicesDisjoint == Spec => []ServiceDisjoint
<1>1. EditInv => ServiceDisjoint
  <2> SUFFICES ASSUME EditInv, exists, NEW a \in NetAddrs(spec.cidr) \cap NetAddrs(ServiceCIDR)
               PROVE  FALSE
    BY DEF ServiceDisjoint
  <2> DEFINE c == spec.cidr
             d == ServiceCIDR
  <2>1. c \in CIDRs /\ d \in CIDRs /\ ~Contains(c, Network(d)) /\ ~Contains(d, Network(c))
    BY ConstantsAssumption DEF EditInv, TypeOK, Spec4, SpecSound, ValidatorAccepts, checkCIDR
  <2> HIDE DEF c, d
  <2>2. Width - c.len \in Int /\ Width - d.len \in Int
    BY <2>1, WidthAssumption DEF CIDRs
  <2>3. a \in NetAddrs(c) \cap NetAddrs(d)
    BY DEF c, d
  <2>4. CASE Width - c.len <= Width - d.len
    BY <2>1, <2>3, <2>4, NestedNetworks
  <2>5. CASE Width - d.len <= Width - c.len
    BY <2>1, <2>3, <2>5, NestedNetworks
  <2> QED BY <2>2, <2>4, <2>5
<1> QED BY <1>1, EditSound, PTL

-----------------------------------------------------------------------------
\* Every step, when edits leave the guests alone.

\* What is recorded after a step that changes one entry.
LEMMA RecordedFacts ==
  ASSUME EditInv, NEW a \in Text, NEW v, alloc' = [alloc EXCEPT ![a] = v]
  PROVE  /\ \A b \in Text : alloc'[b] = IF b = a THEN v ELSE alloc[b]
         /\ Recorded' = IF v \in Macs THEN Recorded \cup {a} ELSE Recorded \ {a}
<1>1. \A b \in Text : alloc'[b] = IF b = a THEN v ELSE alloc[b]
  BY DEF EditInv, TypeOK
<1> QED BY <1>1 DEF Recorded

\* The range and what is revoked only depend on the spec.
LEMMA EmptyStays == ASSUME UNCHANGED spec PROVE EmptySubnet' = EmptySubnet
BY DEF EmptySubnet, RevokedIPs, IPAM!RevokeIP, IPAM!NewIPSubnet

\* A new pool has no records, and no caches.
LEMMA CreateSound ==
  ASSUME AdmissionInv, ~exists, NEW s \in Drafts, Create(s) PROVE LeasesSound'
<1>1. UNCHANGED <<alloc, ipam, ready, lease>> /\ ipam.exists = FALSE /\ \A a \in Text : alloc[a] = NoMac
  BY NoSubnetTypes DEF Create, AdmissionInv, EditInv, ServerSound, Nothing
<1>2. Recorded' = {}
  BY <1>1, ConstantsAssumption DEF Recorded
<1> QED BY <1>1, <1>2, ConstantsAssumption DEF AdmissionInv, LeasesSound

\* An edit that leaves the guests' addresses alone revokes none of them.
LEMMA UpdateSound ==
  ASSUME AdmissionInv, Edits = {}, NEW router \in Addr \cup {Empty}, NEW exclude \in Excludes,
         Update(router, exclude)
  PROVE  LeasesSound'
<1>1. /\ UNCHANGED <<alloc, ipam, ready, lease>> /\ ~ipam.exists
      /\ ({router} \cup exclude) \cap Recorded = {}
  BY DEF Update
<1>2. /\ spec'.start = spec.start /\ spec'.end = spec.end /\ spec'.server = spec.server
      /\ spec'.router = router /\ spec'.exclude = exclude
  BY UpdateFacts DEF AdmissionInv, EditInv, TypeOK
<1>3. Recorded' = Recorded
  BY <1>1 DEF Recorded
<1>4. Recorded \subseteq (spec.start .. spec.end) \ RevokedIPs(spec)
  BY EmptyFacts DEF AdmissionInv, LeasesSound
<1>5. EmptySubnet'.free = (spec'.start .. spec'.end) \ RevokedIPs(spec')
  BY DEF EmptySubnet, RevokedIPs, IPAM!RevokeIP, IPAM!NewIPSubnet
<1>6. Recorded \subseteq (spec'.start .. spec'.end) \ RevokedIPs(spec')
  BY <1>1, <1>2, <1>4 DEF RevokedIPs
<1> QED BY <1>1, <1>3, <1>5, <1>6 DEF AdmissionInv, LeasesSound

\* BuildCache loads every record: none is outside of what it starts from.
LEMMA BuildCacheSound == ASSUME AdmissionInv, BuildCache PROVE LeasesSound'
<1>1. EditInv /\ exists /\ UNCHANGED <<exists, spec, alloc, lease>> /\ Recorded \subseteq EmptySubnet.free
  BY DEF BuildCache, AdmissionInv, LeasesSound
<1>2. Recorded' = Recorded /\ EmptySubnet' = EmptySubnet
  BY <1>1, EmptyStays DEF Recorded
<1>3. UNCHANGED ipam \/ ipam' = IPAM!AllocateIP(EmptySubnet, Recorded)
  BY <1>1 DEF BuildCache
<1>4. CASE UNCHANGED ipam
  BY <1>1, <1>2, <1>4 DEF AdmissionInv, LeasesSound
<1>5. CASE ipam' = IPAM!AllocateIP(EmptySubnet, Recorded)
  <2>1. /\ ipam'.free = EmptySubnet.free \ Recorded
        /\ ipam'.used = EmptySubnet.used \cup (EmptySubnet.free \cap Recorded)
    BY <1>1, <1>5, EmptyIsSubnet, SubnetTypes
  <2>2. EmptySubnet.used \cup (EmptySubnet.free \cap Recorded) = Recorded
    BY <1>1, EmptyFacts
  <2> QED BY <1>1, <1>2, <2>1, <2>2 DEF AdmissionInv, LeasesSound
<1> QED BY <1>3, <1>4, <1>5

\* OnChange marks what is revoked, and so no record.
LEMMA OnChangeSound == ASSUME AdmissionInv, OnChange PROVE LeasesSound'
<1>1. EditInv /\ exists /\ UNCHANGED <<exists, spec, ipam, ready, lease>> /\ alloc' = [a \in Text |-> Marked(a)]
  BY DEF OnChange, AdmissionInv
<1>2. \A a \in Recorded : a \notin RevokedIPs(spec)
  BY EmptyFacts DEF AdmissionInv, LeasesSound
<1>3. \A a \in Text : alloc'[a] = Marked(a) /\ (Marked(a) # alloc[a] => a \in RevokedIPs(spec) /\ Marked(a) \in Marks)
  BY <1>1 DEF Marked, RevokedIPs, Marks
<1>4. \A a \in Text : \/ alloc'[a] = alloc[a]
                      \/ alloc'[a] \notin Macs /\ alloc[a] \notin Macs
  BY <1>2, <1>3, ConstantsAssumption DEF Recorded
<1>5. Recorded' = Recorded /\ EmptySubnet' = EmptySubnet
  BY <1>1, <1>4, EmptyStays DEF Recorded
<1>6. \A m \in Macs : lease[m] # Invalid => alloc'[lease[m]] = m
  <2> SUFFICES ASSUME NEW m \in Macs, lease[m] # Invalid PROVE alloc'[lease[m]] = m
    OBVIOUS
  <2>1. lease[m] \in Text /\ alloc[lease[m]] = m
    BY AddrFacts DEF AdmissionInv, EditInv, TypeOK, LeasesSound
  <2> QED BY <1>4, <2>1
<1>7. \A a \in Text : alloc'[a] \in Macs => lease[alloc'[a]] = a
  BY <1>4 DEF AdmissionInv, LeasesSound
<1> QED BY <1>1, <1>5, <1>6, <1>7 DEF AdmissionInv, LeasesSound

\* A free address is not recorded, and the MAC address that gets it had none.
LEMMA AllocateSound == ASSUME AdmissionInv, NEW m \in Macs, Allocate(m) PROVE LeasesSound'
<1>1. EditInv
  BY DEF AdmissionInv
<1>2. /\ exists /\ ipam.exists /\ lease[m] = Invalid /\ UNCHANGED <<exists, spec, ready>>
      /\ \E a \in ipam.free : /\ a \in Addr
                              /\ alloc' = [alloc EXCEPT ![a] = m] /\ lease' = [lease EXCEPT ![m] = a]
                              /\ ipam'.exists /\ ipam'.free = ipam.free \ {a} /\ ipam'.used = ipam.used \cup {a}
  BY <1>1, AllocateFacts
<1>3. PICK a \in ipam.free : /\ a \in Addr
                             /\ alloc' = [alloc EXCEPT ![a] = m] /\ lease' = [lease EXCEPT ![m] = a]
                             /\ ipam'.exists /\ ipam'.free = ipam.free \ {a} /\ ipam'.used = ipam.used \cup {a}
  BY <1>2
<1>4. a \in Text /\ a # Invalid
  BY <1>3, AddrFacts
<1>5. /\ \A b \in Text : alloc'[b] = IF b = a THEN m ELSE alloc[b]
      /\ Recorded' = Recorded \cup {a}
  BY <1>1, <1>3, <1>4, RecordedFacts
<1>6. \A l \in Macs : lease'[l] = IF l = m THEN a ELSE lease[l]
  BY <1>1, <1>3 DEF EditInv, TypeOK
<1>7. ipam.used = Recorded /\ ipam.free = EmptySubnet.free \ Recorded
  BY <1>2 DEF AdmissionInv, LeasesSound
<1>8. EmptySubnet' = EmptySubnet
  BY <1>2, EmptyStays
<1>9. a \notin Recorded /\ a \in EmptySubnet.free /\ alloc[a] \notin Macs
  BY <1>3, <1>4, <1>7 DEF Recorded
<1>10. \A l \in Macs : lease'[l] # Invalid => alloc'[lease'[l]] = l
  <2> SUFFICES ASSUME NEW l \in Macs, l # m, lease[l] # Invalid PROVE alloc'[lease[l]] = l
    BY <1>4, <1>5, <1>6
  <2>1. lease[l] \in Text /\ alloc[lease[l]] = l
    BY <1>1, AddrFacts DEF AdmissionInv, EditInv, TypeOK, LeasesSound
  <2> QED BY <1>5, <1>9, <2>1
<1>11. \A b \in Text : alloc'[b] \in Macs => lease'[alloc'[b]] = b
  <2> SUFFICES ASSUME NEW b \in Text, b # a, alloc[b] \in Macs PROVE lease'[alloc[b]] = b
    BY <1>5, <1>6
  <2>1. lease[alloc[b]] = b /\ b \in Recorded
    BY DEF AdmissionInv, LeasesSound, Recorded
  <2>2. b \in Addr
    BY <1>1, <1>2, <2>1, SpecFacts DEF AdmissionInv, LeasesSound
  <2>3. alloc[b] # m
    BY <1>2, <2>1, <2>2, AddrFacts
  <2> QED BY <1>6, <2>1, <2>3
<1>12. /\ Recorded \cup {a} \subseteq EmptySubnet.free
       /\ ipam'.used = Recorded \cup {a} /\ ipam'.free = EmptySubnet.free \ (Recorded \cup {a})
  BY <1>3, <1>7, <1>9 DEF AdmissionInv, LeasesSound
<1> QED BY <1>5, <1>8, <1>10, <1>11, <1>12 DEF LeasesSound

\* A released address is free and not recorded.
LEMMA ReleaseSound == ASSUME AdmissionInv, NEW m \in Macs, Release(m) PROVE LeasesSound'
<1>1. EditInv
  BY DEF AdmissionInv
<1>2. PICK a \in Addr : /\ lease[m] = a
                        /\ alloc' = [alloc EXCEPT ![a] = NoMac] /\ lease' = [lease EXCEPT ![m] = Invalid]
                        /\ ipam'.exists /\ ipam'.free = ipam.free \cup {a} /\ ipam'.used = ipam.used \ {a}
                        /\ exists /\ ipam.exists /\ UNCHANGED spec
  BY <1>1, ReleaseFacts
<1>3. a \in Text /\ a # Invalid /\ alloc[a] = m
  BY <1>2, AddrFacts DEF AdmissionInv, LeasesSound
<1>4. /\ \A b \in Text : alloc'[b] = IF b = a THEN NoMac ELSE alloc[b]
      /\ Recorded' = Recorded \ {a}
  BY <1>1, <1>2, <1>3, RecordedFacts, ConstantsAssumption
<1>5. \A l \in Macs : lease'[l] = IF l = m THEN Invalid ELSE lease[l]
  BY <1>1, <1>2 DEF EditInv, TypeOK
<1>6. ipam.used = Recorded /\ ipam.free = EmptySubnet.free \ Recorded /\ Recorded \subseteq EmptySubnet.free
  BY <1>2 DEF AdmissionInv, LeasesSound
<1>7. EmptySubnet' = EmptySubnet
  BY <1>2, EmptyStays
<1>8. a \in Recorded
  BY <1>3 DEF Recorded
<1>9. \A l \in Macs : lease'[l] # Invalid => alloc'[lease'[l]] = l
  <2> SUFFICES ASSUME NEW l \in Macs, l # m, lease[l] # Invalid PROVE alloc'[lease[l]] = l
    BY <1>5
  <2>1. lease[l] \in Text /\ alloc[lease[l]] = l
    BY <1>1, AddrFacts DEF AdmissionInv, EditInv, TypeOK, LeasesSound
  <2> QED BY <1>3, <1>4, <2>1
<1>10. \A b \in Text : alloc'[b] \in Macs => lease'[alloc'[b]] = b
  <2> SUFFICES ASSUME NEW b \in Text, b # a, alloc[b] \in Macs PROVE lease'[alloc[b]] = b
    BY <1>4, ConstantsAssumption
  <2>1. lease[alloc[b]] = b
    BY DEF AdmissionInv, LeasesSound
  <2> QED BY <1>2, <1>5, <2>1
<1>11. /\ Recorded \ {a} \subseteq EmptySubnet.free
       /\ ipam'.used = Recorded \ {a} /\ ipam'.free = EmptySubnet.free \ (Recorded \ {a})
  BY <1>2, <1>6, <1>8
<1> QED BY <1>4, <1>7, <1>9, <1>10, <1>11 DEF LeasesSound

\* Caches that are down have nothing to agree with.
LEMMA DropSound == ASSUME AdmissionInv, Drop PROVE LeasesSound'
<1>1. UNCHANGED <<exists, spec, alloc, lease>> /\ ipam'.exists = FALSE
  BY NoSubnetTypes DEF Drop
<1>2. Recorded' = Recorded /\ EmptySubnet' = EmptySubnet
  BY <1>1, EmptyStays DEF Recorded
<1> QED BY <1>1, <1>2 DEF AdmissionInv, LeasesSound

\* At first nothing is recorded.
LEMMA LeasesInit == ASSUME Init PROVE LeasesSound
<1>1. ipam.exists = FALSE /\ \A a \in Text : alloc[a] = NoMac
  BY NoSubnetTypes DEF Init, Nothing
<1>2. \A m \in Macs : lease[m] = Invalid
  BY DEF Init
<1>3. Recorded = {}
  BY <1>1, ConstantsAssumption DEF Recorded
<1> QED BY <1>1, <1>2, <1>3, ConstantsAssumption DEF LeasesSound

\* With edits that leave the guests alone, leases and records say the same throughout,
\* and the caches are what BuildCache makes of the records.
LEMMA LeasesStaySound == ASSUME Edits = {} PROVE Spec => []AdmissionInv
<1>1. Init => AdmissionInv
  BY EditInit, LeasesInit DEF AdmissionInv
<1>2. ASSUME AdmissionInv, [Next]_vars PROVE LeasesSound'
  <2>1. CASE UNCHANGED vars
    <3>1. UNCHANGED <<exists, spec, alloc, ipam, lease>>
      BY <2>1 DEF vars
    <3>2. Recorded' = Recorded /\ EmptySubnet' = EmptySubnet
      BY <3>1, EmptyStays DEF Recorded
    <3> QED BY <1>2, <3>1, <3>2 DEF AdmissionInv, LeasesSound
  <2>2. CASE \E s \in Drafts : ~exists /\ Create(s)
    BY <1>2, <2>2, CreateSound
  <2>3. CASE \E router \in Addr \cup {Empty} : \E exclude \in Excludes : Update(router, exclude)
    BY <1>2, <2>3, UpdateSound
  <2>4. CASE BuildCache
    BY <1>2, <2>4, BuildCacheSound
  <2>5. CASE OnChange
    BY <1>2, <2>5, OnChangeSound
  <2>6. CASE Drop
    BY <1>2, <2>6, DropSound
  <2>7. CASE \E m \in Macs : Allocate(m) \/ Release(m)
    BY <1>2, <2>7, AllocateSound, ReleaseSound
  <2> QED BY <1>2, <2>1, <2>2, <2>3, <2>4, <2>5, <2>6, <2>7 DEF Next
<1>3. AdmissionInv /\ [Next]_vars => AdmissionInv'
  BY <1>2, EditStep DEF AdmissionInv
<1> QED BY <1>1, <1>3, PTL DEF Spec

\* A restart finds what BuildCache can load: NewIPSubnet accepts the stored range, and
\* every recorded address is in it, is not revoked, and is recorded for another guest
\* than any other. Edits while the caches are up, or to addresses that guests have,
\* are excluded: the code does not guard against them.
THEOREM StaysRebuildable == ASSUME Edits = {} PROVE Spec => []Rebuildable
<1>1. AdmissionInv => Rebuildable
  <2> SUFFICES ASSUME AdmissionInv, exists
               PROVE  /\ SubnetAccepted(spec.cidr, spec.start, spec.end)
                      /\ Recorded \subseteq EmptySubnet.free
                      /\ \A a, b \in Recorded : alloc[a] = alloc[b] => a = b
    BY DEF Rebuildable
  <2>1. {spec.start, spec.end} \subseteq Addr /\ checkPoolRange(spec) /\ spec.start <= spec.end
    BY DEF AdmissionInv, EditInv, SpecSound, FormatsValid, ValidatorAccepts
  <2>2. SubnetAccepted(spec.cidr, spec.start, spec.end)
    BY <2>1 DEF SubnetAccepted, checkPoolRange, IsHost
  <2>3. \A a \in Recorded : lease[alloc[a]] = a
    BY DEF AdmissionInv, LeasesSound, Recorded
  <2> QED BY <2>2, <2>3 DEF AdmissionInv, LeasesSound
<1> QED BY <1>1, LeasesStaySound, PTL

\* What a virtual machine was given stays recorded for it, whatever OnChange marks and
\* however often the caches are dropped and built again, with the same edits.
THEOREM LeasesStayRecorded == ASSUME Edits = {} PROVE Spec => []LeaseRecorded
<1>1. AdmissionInv => LeaseRecorded
  BY DEF AdmissionInv, LeasesSound, LeaseRecorded
<1> QED BY <1>1, LeasesStaySound, PTL

\* IPAM offers exactly the hosts of the network between start and end that are not the
\* server's, the router's, excluded or recorded: the range the validator checks at its two
\* ends only has no address that is not a host, and BuildCache, Allocate and cleanup neither
\* lose an address nor give one twice. With the same edits.
THEOREM OffersExactly == ASSUME Edits = {} PROVE Spec => []OfferedExactly
<1>1. AdmissionInv => OfferedExactly
  <2> SUFFICES ASSUME AdmissionInv, ready
               PROVE  ipam.free = {a \in Hosts(spec.cidr) :
                        /\ spec.start <= a /\ a <= spec.end
                        /\ a \notin {spec.server, spec.router} \cup spec.exclude \cup Recorded}
    BY DEF OfferedExactly
  <2> DEFINE c == spec.cidr
             start == spec.start
             end == spec.end
  <2>1. exists
    BY NoSubnetTypes DEF AdmissionInv, EditInv, ServerSound
  <2>2. ipam.free = ((start .. end) \ RevokedIPs(spec)) \ Recorded
    BY EmptyFacts DEF AdmissionInv, EditInv, ServerSound, LeasesSound
  <2>3. /\ c \in CIDRs /\ start \in Addr /\ end \in Addr /\ start <= end
        /\ IsHost(c, start) /\ IsHost(c, end)
    BY <2>1 DEF AdmissionInv, EditInv, TypeOK, Spec4, SpecSound, FormatsValid, ValidatorAccepts, checkPoolRange
  <2> HIDE DEF c, start, end
  <2>4. /\ Network(c) \in Addr /\ Broadcast(c) \in Addr /\ NetAddrs(c) = Network(c) .. Broadcast(c)
        /\ start \in NetAddrs(c) \ {Network(c), Broadcast(c)} /\ end \in NetAddrs(c) \ {Network(c), Broadcast(c)}
    BY <2>3, NetworkFacts DEF IsHost
  <2>5. Addr \subseteq Int
    BY AddrFacts
  <2>6. Network(c) < start /\ end < Broadcast(c) /\ Network(c) \in NetAddrs(c) /\ Broadcast(c) \in NetAddrs(c)
    <3> DEFINE n == Network(c)
               b == Broadcast(c)
    <3>1. n \in Int /\ b \in Int /\ NetAddrs(c) = n .. b /\ start \in Int /\ end \in Int
      BY <2>3, <2>4, <2>5
    <3>2. start \in (n .. b) \ {n, b} /\ end \in (n .. b) \ {n, b}
      BY <2>4
    <3> HIDE DEF n, b
    <3>3. n < start /\ end < b /\ n \in n .. b /\ b \in n .. b
      BY <3>1, <3>2
    <3> QED BY <3>1, <3>3 DEF n, b
  <2>7. \A a \in start .. end : a \in Hosts(c)
    BY <2>3, <2>4, <2>5, <2>6 DEF Hosts
  <2>8. Hosts(c) \subseteq Int
    BY <2>4, <2>5 DEF Hosts
  <2>9. start .. end = {a \in Hosts(c) : start <= a /\ a <= end}
    BY <2>3, <2>5, <2>7, <2>8
  <2> QED BY <2>2, <2>9 DEF RevokedIPs, c, start, end
<1> QED BY <1>1, LeasesStaySound, PTL
=============================================================================
