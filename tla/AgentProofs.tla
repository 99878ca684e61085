----------------------------- MODULE AgentProofs -----------------------------
(***************************************************************************)
(* The lease store follows the IPPool, for any addresses, MAC addresses    *)
(* and number of faults, as long as an address or a MAC address is only    *)
(* used again after the agent has caught up.                               *)
(***************************************************************************)
EXTENDS Agent, TLAPS

\* Most leaves are first-order: Zenon is tried first, the SMT solver after it.
USE ZenonT(2), SMTT(20), ZenonT(20)

\* The entries of f are entries of g.
Among(f, g) == \A ip \in IPs : f[ip] \in Macs => g[ip] = f[ip]
\* No address has a different MAC address in f and in g.
Agree(f, g) == \A ip \in IPs : f[ip] \in Macs /\ g[ip] \in Macs => f[ip] = g[ip]
\* No MAC address has two addresses.
OneEach(f) == \A ip, other \in IPs : f[ip] \in Macs /\ f[ip] = f[other] => ip = other
\* AddLease accepts the MAC address of every entry.
Clean(f) == \A ip \in IPs : f[ip] \in Macs => spelled[f[ip]] # "malformed"
\* A guest that runs keeps its entry.
Kept(f) == \A ip \in IPs : f[ip] \in up => pool.alloc[ip] = f[ip]

\* How far the informer and the worker are with the stored IPPool. The indexer's copy
\* loses its marks, not its entries.
Progress ==
  /\ current => /\ listed /\ seen.ready = pool.ready
                /\ Among(seen.alloc, pool.alloc) /\ Among(pool.alloc, seen.alloc)
  /\ ~listed => poolCache = NoEntries /\ ~queued /\ pc = "idle"
  /\ pc = "idle" => visit = {} /\ latest = NoEntries
  /\ pc # "idle" /\ ~queued => seen.ready /\ latest = Entries(seen.alloc)
  /\ agentReady => podReady
  /\ podReady /\ "probe" \notin Haste => listed

\* All copies of the entries are versions of one history, in which no address changes
\* hands.
Copies ==
  /\ OneEach(pool.alloc) /\ OneEach(seen.alloc) /\ OneEach(latest)
  /\ Agree(seen.alloc, pool.alloc) /\ Agree(latest, pool.alloc) /\ Agree(latest, seen.alloc)
  /\ Agree(poolCache, pool.alloc) /\ Agree(poolCache, seen.alloc) /\ Agree(poolCache, latest)
  /\ Kept(seen.alloc) /\ Kept(latest) /\ Kept(poolCache)

\* The two loops: what they have visited, and what a pass leaves.
Loops ==
  /\ pc = "remove" => /\ \A ip \in visit : poolCache[ip] # NoMac
                      /\ \A ip \in IPs \ visit : poolCache[ip] \in Macs => latest[ip] = poolCache[ip]
  /\ pc = "add" => /\ Among(poolCache, latest) /\ \A ip \in visit : latest[ip] # NoMac
                   /\ \A ip \in IPs \ visit : latest[ip] \in Macs => poolCache[ip] = latest[ip]
  /\ listed /\ ~queued /\ pc = "idle" /\ seen.ready =>
       /\ Among(poolCache, seen.alloc)
       /\ current /\ agentReady /\ "probe" \notin Haste /\ Clean(seen.alloc) => Among(seen.alloc, poolCache)

\* The leases are those of poolCache, always, and guests have configured entries of
\* the pool.
Leases ==
  /\ \A ip \in IPs, m \in Macs : poolCache[ip] = m <=> leases[m] = ip
  /\ \A m \in Macs : bound[m] # NoIP => m \in up /\ pool.alloc[bound[m]] = m

AgentInv == TypeOK /\ Progress /\ Copies /\ Loops /\ Leases

-----------------------------------------------------------------------------
\* A new pool and a new agent have their types.
LEMMA TypesInit == ASSUME Init PROVE TypeOK
<1> USE AgentAssumption DEF Init
<1>1. NewStatus \in Status /\ NoEntries \in [IPs -> Macs \cup {NoMac}]
  BY DEF NewStatus, NoEntries, Status
<1>2. faults \in 0..MaxFaults /\ leases \in [Macs -> IPs \cup {NoIP}] /\ bound \in [Macs -> IPs \cup {NoIP}]
  OBVIOUS
<1> QED BY <1>1, <1>2 DEF TypeOK

\* A step keeps the types.
LEMMA TypesStep ==
  ASSUME TypeOK, Next
  PROVE  TypeOK'
<1> USE AgentAssumption DEF TypeOK, Status, stored, informer, worker, guests
<1>1. CASE PoolReady
  BY <1>1 DEF PoolReady
<1>2. CASE PoolNotReady
  <2>1. faults' \in 0..MaxFaults
    BY <1>2 DEF PoolNotReady
  <2> QED BY <1>2, <2>1 DEF PoolNotReady
<1>3. CASE MonitorAgent
  BY <1>3 DEF MonitorAgent
<1>4. CASE Replaced
  <2>1. faults' \in 0..MaxFaults
    BY <1>4 DEF Replaced
  <2>2. NewStatus \in Status /\ NoEntries \in [IPs -> Macs \cup {NoMac}]
    BY DEF NewStatus, NoEntries
  <2> QED BY <1>4, <2>1, <2>2 DEF Replaced
<1>5. CASE ProbePasses
  BY <1>5 DEF ProbePasses
<1>6. CASE List
  BY <1>6 DEF List
<1>7. CASE Watch
  BY <1>7 DEF Watch
<1>8. CASE Sync
  <2>1. Entries(seen.alloc) \in [IPs -> Macs \cup {NoMac}]
    BY DEF Entries
  <2>2. CASE seen.ready
    <3>1. Entries(seen.alloc) \in [IPs -> Macs \cup {NoMac, Mark}]
      BY DEF Entries
    <3>2. seen' \in Status
      BY <1>8, <2>2, <3>1 DEF Sync, Update
    <3> QED BY <1>8, <2>1, <2>2, <3>2 DEF Sync, Update
  <2>3. CASE ~seen.ready
    BY <1>8, <2>3 DEF Sync, Update
  <2> QED BY <2>2, <2>3
<1>9. CASE SecondLoop
  BY <1>9 DEF SecondLoop
<1>10. CASE PassEnds
  BY <1>10 DEF PassEnds, Abort, NoEntries
<1>11. ASSUME NEW ip \in IPs, NEW m \in Macs, Record(ip, m) PROVE TypeOK'
  BY <1>11 DEF Record
<1>12. ASSUME NEW ip \in IPs, Unrecord(ip) PROVE TypeOK'
  BY <1>12 DEF Unrecord
<1>13. ASSUME NEW ip \in visit, Remove(ip) PROVE TypeOK'
  BY <1>13 DEF Remove, Abort, NoEntries, DeleteLease
<1>14. ASSUME NEW ip \in visit, Reassign(ip) PROVE TypeOK'
  BY <1>14 DEF Reassign
<1>15. ASSUME NEW ip \in visit, Add(ip) PROVE TypeOK'
  BY <1>15 DEF Add, Abort, NoEntries, AddLease, AddLeaseFails, checkLease
<1>16. ASSUME NEW m \in Macs, GuestStarts(m) PROVE TypeOK'
  BY <1>16 DEF GuestStarts
<1>17. ASSUME NEW m \in Macs, GuestStops(m) PROVE TypeOK'
  BY <1>17 DEF GuestStops
<1>18. ASSUME NEW m \in Macs, dhcpHandler(m) PROVE TypeOK'
  BY <1>18 DEF dhcpHandler, Lease
<1> QED BY <1>1, <1>2, <1>3, <1>4, <1>5, <1>6, <1>7, <1>8, <1>9, <1>10, <1>11, <1>12, <1>13, <1>14, <1>15, <1>16, <1>17, <1>18
        DEF Next, Controllers, Informer, Worker, Guest

\* The steps of the controllers keep the invariant: an address is recorded when the
\* agent has caught up and has no lease of it.
LEMMA ControllersInv ==
  ASSUME AgentInv, TypeOK', "reuse" \notin Haste, Controllers
  PROVE  AgentInv'
<1> USE AgentAssumption DEF TypeOK, Status, stored, informer, worker, guests
<1>1. CASE PoolReady
  <2> USE DEF PoolReady
  <2>1. Progress'
    BY <1>1 DEF AgentInv, Progress, Among
  <2>2. Copies'
    BY <1>1 DEF AgentInv, Progress, Among, Copies, OneEach, Agree, Kept
  <2>3. Loops'
    BY <1>1 DEF AgentInv, Progress, Copies, Loops, Among, Clean, Agree, OneEach
  <2>4. Leases'
    BY <1>1 DEF AgentInv, Copies, Loops, Leases, Kept, Agree, Among
  <2> QED BY <2>1, <2>2, <2>3, <2>4 DEF AgentInv
<1>2. CASE PoolNotReady
  <2> USE DEF PoolNotReady
  <2>1. Progress'
    BY <1>2 DEF AgentInv, Progress, Among
  <2>2. Copies'
    BY <1>2 DEF AgentInv, Progress, Among, Copies, OneEach, Agree, Kept
  <2>3. Loops'
    BY <1>2 DEF AgentInv, Progress, Copies, Loops, Among, Clean, Agree, OneEach
  <2>4. Leases'
    BY <1>2 DEF AgentInv, Copies, Loops, Leases, Kept, Agree, Among
  <2> QED BY <2>1, <2>2, <2>3, <2>4 DEF AgentInv
<1>3. CASE MonitorAgent
  <2> USE DEF MonitorAgent
  <2>1. Progress'
    BY <1>3 DEF AgentInv, Progress, Among
  <2>2. Copies'
    BY <1>3 DEF AgentInv, Progress, Among, Copies, OneEach, Agree, Kept
  <2>3. Loops'
    BY <1>3 DEF AgentInv, Progress, Copies, Loops, Among, Clean, Agree, OneEach
  <2>4. Leases'
    BY <1>3 DEF AgentInv, Copies, Loops, Leases, Kept, Agree, Among
  <2> QED BY <2>1, <2>2, <2>3, <2>4 DEF AgentInv
<1>4. ASSUME NEW ip \in IPs, NEW m \in Macs, Record(ip, m) PROVE AgentInv'
  <2> USE DEF Record, CaughtUp, Recorded
  <2>1. Progress'
    BY <1>4 DEF AgentInv, Progress, Among
  <2>2. Copies'
    <3>1. Among(seen.alloc, pool.alloc) /\ latest = NoEntries /\ Among(poolCache, seen.alloc)
      BY <1>4 DEF AgentInv, Progress, Loops
    <3>2. poolCache[ip] \notin Macs /\ latest[ip] \notin Macs /\ seen.alloc[ip] \notin Macs
      BY <1>4, <3>1 DEF Among, NoEntries
    <3>3. OneEach(pool'.alloc)
      BY <1>4 DEF AgentInv, Copies, OneEach
    <3> QED BY <1>4, <3>2, <3>3 DEF AgentInv, Copies, OneEach, Agree, Kept
  <2>3. Loops'
    BY <1>4 DEF AgentInv, Progress, Copies, Loops, Among, Clean, Agree, OneEach
  <2>4. Leases'
    BY <1>4 DEF AgentInv, Copies, Loops, Leases, Kept, Agree, Among
  <2> QED BY <2>1, <2>2, <2>3, <2>4 DEF AgentInv
<1>5. ASSUME NEW ip \in IPs, Unrecord(ip) PROVE AgentInv'
  <2> USE DEF Unrecord
  <2>1. Progress'
    BY <1>5 DEF AgentInv, Progress, Among
  <2>2. Copies'
    BY <1>5 DEF AgentInv, Progress, Among, Copies, OneEach, Agree, Kept
  <2>3. Loops'
    BY <1>5 DEF AgentInv, Progress, Copies, Loops, Among, Clean, Agree, OneEach
  <2>4. Leases'
    BY <1>5 DEF AgentInv, Copies, Loops, Leases, Kept, Agree, Among
  <2> QED BY <2>1, <2>2, <2>3, <2>4 DEF AgentInv
<1> QED BY <1>1, <1>2, <1>3, <1>4, <1>5 DEF Controllers

\* ... those of the agent pod and its informer.
LEMMA InformerInv ==
  ASSUME AgentInv, TypeOK', "reuse" \notin Haste, Replaced \/ ProbePasses \/ Informer
  PROVE  AgentInv'
<1> USE AgentAssumption DEF TypeOK, Status, stored, informer, worker, guests
<1>1. CASE Replaced
  <2> USE DEF Replaced, NewStatus, NoEntries
  <2>1. Progress'
    BY <1>1 DEF AgentInv, Progress, Among
  <2>2. Copies'
    BY <1>1 DEF AgentInv, Progress, Among, Copies, OneEach, Agree, Kept
  <2>3. Loops'
    BY <1>1 DEF AgentInv, Progress, Copies, Loops, Among, Clean, Agree, OneEach
  <2>4. Leases'
    BY <1>1 DEF AgentInv, Copies, Loops, Leases, Kept, Agree, Among
  <2> QED BY <2>1, <2>2, <2>3, <2>4 DEF AgentInv
<1>2. CASE ProbePasses
  <2> USE DEF ProbePasses
  <2>1. Progress'
    BY <1>2 DEF AgentInv, Progress, Among
  <2>2. Copies'
    BY <1>2 DEF AgentInv, Progress, Among, Copies, OneEach, Agree, Kept
  <2>3. Loops'
    BY <1>2 DEF AgentInv, Progress, Copies, Loops, Among, Clean, Agree, OneEach
  <2>4. Leases'
    BY <1>2 DEF AgentInv, Copies, Loops, Leases, Kept, Agree, Among
  <2> QED BY <2>1, <2>2, <2>3, <2>4 DEF AgentInv
<1>3. CASE List
  <2> USE DEF List, NoEntries
  <2>1. Progress'
    BY <1>3 DEF AgentInv, Progress, Among
  <2>2. Copies'
    BY <1>3 DEF AgentInv, Progress, Among, Copies, OneEach, Agree, Kept
  <2>3. Loops'
    BY <1>3 DEF AgentInv, Progress, Copies, Loops, Among, Clean, Agree, OneEach
  <2>4. Leases'
    BY <1>3 DEF AgentInv, Copies, Loops, Leases, Kept, Agree, Among
  <2> QED BY <2>1, <2>2, <2>3, <2>4 DEF AgentInv
<1>4. CASE Watch
  <2> USE DEF Watch
  <2>1. Progress'
    BY <1>4 DEF AgentInv, Progress, Among
  <2>2. Copies'
    BY <1>4 DEF AgentInv, Progress, Among, Copies, OneEach, Agree, Kept
  <2>3. Loops'
    BY <1>4 DEF AgentInv, Progress, Copies, Loops, Among, Clean, Agree, OneEach
  <2>4. Leases'
    BY <1>4 DEF AgentInv, Copies, Loops, Leases, Kept, Agree, Among
  <2> QED BY <2>1, <2>2, <2>3, <2>4 DEF AgentInv
<1> QED BY <1>1, <1>2, <1>3, <1>4 DEF Informer

\* ... those of the worker: no pass meets a lease it does not expect, so only a
\* malformed entry aborts one.
LEMMA WorkerInv ==
  ASSUME AgentInv, TypeOK', "reuse" \notin Haste, Worker
  PROVE  AgentInv'
<1> USE AgentAssumption DEF TypeOK, Status, stored, informer, worker, guests
<1>1. CASE Sync
  <2> USE DEF Sync, Update, Entries
  <2>1. Progress'
    BY <1>1 DEF AgentInv, Progress, Among
  <2>2. Copies'
    BY <1>1 DEF AgentInv, Progress, Among, Copies, OneEach, Agree, Kept
  <2>3. Loops'
    BY <1>1 DEF AgentInv, Progress, Copies, Loops, Among, Clean, Agree, OneEach
  <2>4. Leases'
    BY <1>1 DEF AgentInv, Copies, Loops, Leases, Kept, Agree, Among
  <2> QED BY <2>1, <2>2, <2>3, <2>4 DEF AgentInv
<1>2. CASE SecondLoop
  <2> USE DEF SecondLoop
  <2>1. Progress'
    BY <1>2 DEF AgentInv, Progress, Among
  <2>2. Copies'
    BY <1>2 DEF AgentInv, Progress, Among, Copies, OneEach, Agree, Kept
  <2>3. Loops'
    BY <1>2 DEF AgentInv, Progress, Copies, Loops, Among, Clean, Agree, OneEach
  <2>4. Leases'
    BY <1>2 DEF AgentInv, Copies, Loops, Leases, Kept, Agree, Among
  <2> QED BY <2>1, <2>2, <2>3, <2>4 DEF AgentInv
<1>3. CASE PassEnds
  <2> USE DEF PassEnds, Abort, NoEntries, Entries
  <2>1. Progress'
    BY <1>3 DEF AgentInv, Progress, Among
  <2>2. Copies'
    BY <1>3 DEF AgentInv, Progress, Among, Copies, OneEach, Agree, Kept
  <2>3. Loops'
    BY <1>3 DEF AgentInv, Progress, Copies, Loops, Among, Clean, Agree, OneEach
  <2>4. Leases'
    BY <1>3 DEF AgentInv, Copies, Loops, Leases, Kept, Agree, Among
  <2> QED BY <2>1, <2>2, <2>3, <2>4 DEF AgentInv
<1>4. ASSUME NEW ip \in visit, Remove(ip) PROVE AgentInv'
  <2> USE DEF Remove, Abort, NoEntries, DeleteLease, checkLease
  <2>1. Progress'
    BY <1>4 DEF AgentInv, Progress, Among
  <2>2. Copies'
    <3>1. UNCHANGED <<pool, seen, up>> /\ (latest' = latest \/ latest' = NoEntries)
      BY <1>4
    <3>2. \A i \in IPs : poolCache'[i] \in {poolCache[i], NoMac}
      BY <1>4 DEF AgentInv
    <3>3. OneEach(latest') /\ Agree(latest', pool.alloc) /\ Agree(latest', seen.alloc) /\ Kept(latest')
      BY <3>1 DEF AgentInv, Copies, OneEach, Agree, Kept
    <3>4. Agree(poolCache', pool.alloc) /\ Agree(poolCache', seen.alloc) /\ Kept(poolCache')
      BY <3>2 DEF AgentInv, Copies, Agree, Kept
    <3>5. Agree(poolCache', latest')
      BY <3>1, <3>2 DEF AgentInv, Copies, Agree
    <3> QED BY <3>1, <3>3, <3>4, <3>5 DEF AgentInv, Copies, OneEach, Agree, Kept
  <2>3. Loops'
    <3>1. checkLease(poolCache[ip])
      BY <1>4 DEF AgentInv, Loops, Leases
    <3> QED BY <1>4, <3>1 DEF AgentInv, Loops, Among
  <2>4. Leases'
    BY <1>4 DEF AgentInv, Copies, Loops, Leases, Kept, Agree, Among
  <2> QED BY <2>1, <2>2, <2>3, <2>4 DEF AgentInv
<1>5. ASSUME NEW ip \in visit, Reassign(ip) PROVE AgentInv'
  <2> USE DEF Reassign
  <2>1. Progress'
    BY <1>5 DEF AgentInv, Progress, Among
  <2>2. Copies'
    BY <1>5 DEF AgentInv, Progress, Among, Copies, OneEach, Agree, Kept
  <2>3. Loops'
    BY <1>5 DEF AgentInv, Progress, Copies, Loops, Among, Clean, Agree, OneEach
  <2>4. Leases'
    BY <1>5 DEF AgentInv, Copies, Loops, Leases, Kept, Agree, Among
  <2> QED BY <2>1, <2>2, <2>3, <2>4 DEF AgentInv
<1>6. ASSUME NEW ip \in visit, Add(ip) PROVE AgentInv'
  <2> USE DEF Add, Abort, NoEntries, AddLease, AddLeaseFails, checkLease
  <2>1. Progress'
    BY <1>6 DEF AgentInv, Progress, Among
  <2>2. Copies'
    <3>1. UNCHANGED <<pool, seen, up>> /\ (latest' = latest \/ latest' = NoEntries)
      BY <1>6 DEF stored, informer, guests
    <3>2. \A i \in IPs : poolCache'[i] = poolCache[i] \/ (poolCache'[i] = latest[i] /\ latest' = latest)
      BY <1>6 DEF AgentInv, TypeOK
    <3> QED BY <3>1, <3>2 DEF AgentInv, TypeOK, Copies, OneEach, Agree, Kept
  <2>3. Loops'
    <3>1. CASE poolCache[ip] # NoMac
      BY <1>6, <3>1 DEF AgentInv, Loops, Among
    <3>2. CASE poolCache[ip] = NoMac
      <4>1. latest[ip] \in Macs
        BY <1>6 DEF AgentInv, Loops
      <4>2. ~checkLease(latest[ip])
        BY <1>6, <3>2, <4>1 DEF AgentInv, Copies, Loops, Leases, OneEach, Among
      <4>3. CASE spelled[latest[ip]] # "malformed"
        BY <1>6, <3>2, <4>1, <4>2, <4>3 DEF AgentInv, Loops, Among
      <4>4. CASE spelled[latest[ip]] = "malformed"
        <5>1. /\ pc' = "idle" /\ UNCHANGED <<poolCache, seen, queued, spelled>>
              /\ Among(poolCache, latest) /\ ip \in IPs
          BY <1>6, <3>2, <4>4 DEF AgentInv, Loops
        <5>2. ASSUME ~queued
              PROVE  Among(poolCache, seen.alloc) /\ ~Clean(seen.alloc)
          <6>1. latest = Entries(seen.alloc)
            BY <1>6, <5>2 DEF AgentInv, Progress
          <6>2. Among(latest, seen.alloc)
            BY <6>1 DEF Entries, Among
          <6> QED BY <4>1, <4>4, <5>1, <6>2 DEF Among, Clean
        <5> QED BY <5>1, <5>2 DEF Loops, Among, Clean
      <4> QED BY <4>3, <4>4
    <3> QED BY <3>1, <3>2
  <2>4. Leases'
    BY <1>6 DEF AgentInv, Copies, Loops, Leases, Kept, Agree, Among
  <2> QED BY <2>1, <2>2, <2>3, <2>4 DEF AgentInv
<1> QED BY <1>1, <1>2, <1>3, <1>4, <1>5, <1>6 DEF Worker

\* ... and those of guests: one starts again when no lease of it is left that the pool
\* does not have.
LEMMA GuestInv ==
  ASSUME AgentInv, TypeOK', "reuse" \notin Haste, NEW m \in Macs, Guest(m)
  PROVE  AgentInv'
<1> USE AgentAssumption DEF TypeOK, Status, stored, informer, worker, guests
<1>1. CASE GuestStarts(m)
  <2> USE DEF GuestStarts, CaughtUp
  <2>1. Progress'
    BY <1>1 DEF AgentInv, Progress, Among
  <2>2. Copies'
    <3>1. Among(seen.alloc, pool.alloc) /\ latest = NoEntries /\ Among(poolCache, seen.alloc)
      BY <1>1 DEF AgentInv, Progress, Loops
    <3> QED BY <1>1, <3>1 DEF AgentInv, Copies, OneEach, Agree, Kept, Among, NoEntries
  <2>3. Loops'
    BY <1>1 DEF AgentInv, Progress, Copies, Loops, Among, Clean, Agree, OneEach
  <2>4. Leases'
    BY <1>1 DEF AgentInv, Copies, Loops, Leases, Kept, Agree, Among
  <2> QED BY <2>1, <2>2, <2>3, <2>4 DEF AgentInv
<1>2. CASE GuestStops(m)
  <2> USE DEF GuestStops
  <2>1. Progress'
    BY <1>2 DEF AgentInv, Progress, Among
  <2>2. Copies'
    BY <1>2 DEF AgentInv, Progress, Among, Copies, OneEach, Agree, Kept
  <2>3. Loops'
    BY <1>2 DEF AgentInv, Progress, Copies, Loops, Among, Clean, Agree, OneEach
  <2>4. Leases'
    BY <1>2 DEF AgentInv, Copies, Loops, Leases, Kept, Agree, Among
  <2> QED BY <2>1, <2>2, <2>3, <2>4 DEF AgentInv
<1>3. CASE dhcpHandler(m)
  <2> USE DEF dhcpHandler, Lease
  <2>1. Progress'
    BY <1>3 DEF AgentInv, Progress, Among
  <2>2. Copies'
    BY <1>3 DEF AgentInv, Progress, Among, Copies, OneEach, Agree, Kept
  <2>3. Loops'
    BY <1>3 DEF AgentInv, Progress, Copies, Loops, Among, Clean, Agree, OneEach
  <2>4. Leases'
    BY <1>3 DEF AgentInv, Copies, Loops, Leases, Kept, Agree, Among
  <2> QED BY <2>1, <2>2, <2>3, <2>4 DEF AgentInv
<1> QED BY <1>1, <1>2, <1>3 DEF Guest

-----------------------------------------------------------------------------
\* The agent's state is what the code can make of it, whatever the environment does.
THEOREM AgentTypes == Spec => []TypeOK
<1>1. Init => TypeOK
  BY TypesInit
<1>2. TypeOK /\ [Next]_vars => TypeOK'
  <2>1. ASSUME TypeOK, UNCHANGED vars PROVE TypeOK'
    BY <2>1 DEF TypeOK, vars, stored, informer, worker, guests
  <2> QED BY <2>1, TypesStep
<1> QED BY <1>1, <1>2, PTL DEF Spec

\* The invariant is inductive.
LEMMA AgentCorrect == ASSUME "reuse" \notin Haste PROVE Spec => []AgentInv
<1>1. Init => AgentInv
  <2> SUFFICES ASSUME Init PROVE AgentInv
    OBVIOUS
  <2> USE AgentAssumption DEF Init, NewStatus, NoEntries
  <2>1. TypeOK
    BY TypesInit
  <2>2. Progress /\ Loops
    BY DEF Progress, Loops
  <2>3. Copies
    BY DEF Copies, OneEach, Agree, Kept
  <2>4. Leases
    BY DEF Leases
  <2> QED BY <2>1, <2>2, <2>3, <2>4 DEF AgentInv
<1>2. AgentInv /\ [Next]_vars => AgentInv'
  <2>1. ASSUME AgentInv, UNCHANGED vars PROVE AgentInv'
    <3> USE <2>1 DEF AgentInv, vars, stored, informer, worker, guests
    <3>1. TypeOK' /\ Progress'
      BY DEF TypeOK, Progress, Among
    <3>2. Copies'
      BY DEF Copies, OneEach, Agree, Kept
    <3>3. Loops'
      BY DEF Loops, Among, Clean
    <3>4. Leases'
      BY DEF Leases
    <3> QED BY <3>1, <3>2, <3>3, <3>4
  <2>2. ASSUME AgentInv, Next PROVE AgentInv'
    <3>1. TypeOK'
      BY <2>2, TypesStep DEF AgentInv
    <3> QED BY <2>2, <3>1, ControllersInv, InformerInv, WorkerInv, GuestInv DEF Next
  <2> QED BY <2>1, <2>2
<1> QED BY <1>1, <1>2, PTL DEF Spec

\* The lease store and poolCache agree between two passes of
\* updatePoolCacheAndLeaseStore, however many versions of the IPPool a pass skipped,
\* provided that no address changed hands in them.
THEOREM StoreMatchesCache == ASSUME "reuse" \notin Haste PROVE Spec => []LeasesMatchCache
<1>1. AgentInv => LeasesMatchCache
  BY DEF AgentInv, Leases, LeasesMatchCache
<1> QED BY <1>1, AgentCorrect, PTL

\* No two guests configure the same address: the DHCP server answers with leases, and
\* a guest that runs only has a lease of an address that the IPPool records for it.
THEOREM GuestsUnique == ASSUME "reuse" \notin Haste PROVE Spec => []AddressesUnique
<1>1. AgentInv => AddressesUnique
  BY DEF AgentInv, Leases, AddressesUnique
<1> QED BY <1>1, AgentCorrect, PTL

\* When the agent is at rest its leases are the entries of the IPPool, as far as no
\* malformed MAC address ends the passes early, also after it was replaced: MonitorAgent reports the new pod ready once the informer has listed the
\* IPPools, and the UPDATE event of that report starts the pass that the list did not.
THEOREM StoreReconstructed ==
  ASSUME Haste = {} PROVE Spec => []LeasesReconstructed
<1>1. "reuse" \notin Haste /\ "probe" \notin Haste
  OBVIOUS
<1>2. AgentInv => LeasesReconstructed
  <2> SUFFICES ASSUME AgentInv, AtRest, NEW ip \in IPs, NEW m \in Macs
               PROVE  /\ leases[m] = ip => pool.alloc[ip] = m
                      /\ WellFormed /\ pool.alloc[ip] = m => leases[m] = ip
    BY DEF LeasesReconstructed
  <2>1. /\ Among(seen.alloc, pool.alloc) /\ Among(pool.alloc, seen.alloc)
        /\ Among(poolCache, seen.alloc) /\ (Clean(seen.alloc) => Among(seen.alloc, poolCache))
    BY <1>1 DEF AgentInv, Progress, Loops, AtRest, CaughtUp
  <2>2. poolCache[ip] = m => pool.alloc[ip] = m
    BY <2>1 DEF Among
  <2>3. ASSUME WellFormed PROVE Clean(seen.alloc)
    BY <2>1, <2>3 DEF WellFormed, Recorded, Clean, Among
  <2>4. ASSUME WellFormed, pool.alloc[ip] = m PROVE poolCache[ip] = m
    BY <2>1, <2>3, <2>4 DEF Among
  <2>5. poolCache[ip] = m <=> leases[m] = ip
    BY DEF AgentInv, Leases
  <2> QED BY <2>2, <2>4, <2>5
<1> QED BY <1>1, <1>2, AgentCorrect, PTL
=============================================================================
