--------------------------- MODULE ReleaseInvariant ---------------------------
(***************************************************************************)
(* Why addresses stay recorded and exclusive while VMs come and go and     *)
(* their addresses are given to others: an inductive invariant of the      *)
(* control plane in a tidy environment, where cleanup runs once for every  *)
(* record, on the copy of the vmnetcfg that is stored. ReleaseProofs has   *)
(* the proof.                                                              *)
(***************************************************************************)
EXTENDS ControlPlaneInvariant

\* VMs are removed once they are served, pools are paused or have agents, vmnetcfgs may
\* be written by hand. Not both of agents and pauses: a paused pool with an agent loses
\* its caches, and a cleanup that then fails half-way is repeated for all records.
Tidy ==
  /\ Env \subseteq {"remove", "static", "agent", "pausePool"}
  /\ ~({"agent", "pausePool"} \subseteq Env)

\* A copy of the IPPool of network "n" gives only addresses that may be given, has an
\* agent only where agents are deployed, and is paused only where users pause.
Proper(n, p) ==
  /\ RecordedIPs(p) \subseteq PoolRange[n] \ Revoked[n]
  /\ p.agent => "agent" \in Env
  /\ p.paused => "pausePool" \in Env

\* The copies of an IPPool. Entries come and go now, so a copy may have more or fewer
\* than are stored; the informer's has the same once it has seen the vmnetcfg worker's
\* last write, and a copy that is not ready lacks none.
PoolViews(n) ==
  LET s == pool[n]
      mine == pw.n = n
  IN /\ "informer" \in s.fresh => s.inf = s.api
     /\ "worker" \in s.fresh => mine /\ pw.obj = s.api
     /\ "worker" \notin s.unseen => s.inf.ready = s.api.ready
     /\ "guest" \notin s.unseen => Within(s.inf, s.api) /\ Within(s.api, s.inf)
     /\ s.inf.ready # "True" => Within(s.api, s.inf)
     /\ mine /\ pw.pc \in {"deploy", "build"} /\ pw.obj.ready # "True" =>
          s.api.ready # "True" /\ Within(s.api, pw.obj)
     /\ mine /\ pw.pc = "deploy" => "agent" \in Env
     /\ Proper(n, s.api) /\ Proper(n, s.inf) /\ (mine => Proper(n, pw.obj))

\* The pool without the entries of "ips".
Without(p, ips) ==
  [p EXCEPT !.alloc = [ip \in IPs |-> IF ip \in ips THEN NoMac ELSE p.alloc[ip]]]

\* The addresses cleanup has released in memory and not yet in the IPPool.
Releasing(n) ==
  IF cw.pc = "allocate" THEN {} ELSE {ip \in IPs : \E r \in cw.cur : r.net = n /\ r.ip = ip}

\* The caches know of every other entry, and are there if there is any.
CachesKnow(n) ==
  /\ CachesMatch(Without(pool[n].api, Releasing(n)), ipam[n], macs[n], PoolRange[n] \ Revoked[n])
  /\ RecordedIPs(pool[n].api) # {} => ipam[n].exists

PendingKnown ==
  /\ PendingSound
  /\ cw.pc = "allocate" => \A r \in cw.cur : ipam[r.net].exists

\* Copies of vmnetcfgs have records of their own interfaces only: no record is stale.
WellFormed(c) ==
  ~c.paused /\ \A r \in c.recs : r.mac \in MacsOf(c.nics) /\ r.state = "Allocated"

MacsOfVM(v) == UNION {MacsOf(nics) : nics \in Desired[v]}

\* The copies of a vmnetcfg. One that is being deleted is written by its worker alone,
\* whose copy of it is fresh.
CfgViews(v) ==
  LET s == cfg[v] IN
  /\ WellFormed(s.api) /\ WellFormed(s.inf)
  /\ "informer" \in s.fresh => s.inf = s.api
  /\ "worker" \in s.fresh => cw.v = v /\ cw.obj = s.api
  /\ s.api.deleting => s.api.exists /\ ~vm[v].alive
  /\ s.inf.deleting /\ "worker" \notin s.unseen => "informer" \in s.fresh
  /\ cw.v = v /\ cw.obj.deleting => "worker" \in s.fresh
  /\ vm[v].alive /\ s.api.exists => s.api.nics = prepareVmNetCfg(vm[v].nics)
  /\ vm[v].alive => MacsOf(vm[v].nics) \subseteq MacsOfVM(v)
  /\ MacsOf(s.api.nics) \subseteq MacsOfVM(v)

\* The pass under way: only OnRemove of a deleted object cleans up, and what it has not
\* cleaned up are records of that object.
PassViews ==
  /\ WellFormed(cw.obj) /\ cw.todo \subseteq cw.obj.nics
  /\ \A r \in cw.acc \cup cw.cur : r.mac \in MacsOf(cw.obj.nics) /\ r.state = "Allocated"
  /\ cw.pc # "allocate" => cw.acc = {}
  /\ cw.pc = "allocate" => cw.clean = {}
  /\ cw.pc # "allocate" /\ cw.clean \cup cw.cur # {} => cw.pc = "remove" /\ cw.obj.deleting
  /\ cw.pc # "allocate" => cw.clean \cup cw.cur \subseteq cw.obj.recs
  /\ cw.clean \cap cw.cur = {} /\ \A q, r \in cw.cur : q = r

Entered(r) == pool[r.net].api.alloc[r.ip] = r.mac

\* Every record of a vmnetcfg is entered in its pool until cleanup has taken it out.
EntriesKept ==
  /\ \A v \in VMs : \A r \in cfg[v].api.recs :
       \/ Entered(r)
       \/ cw.v = v /\ cw.pc = "remove" /\ cw.obj.deleting /\ r \notin cw.clean \cup cw.cur
  /\ \A r \in cw.acc : Entered(r)

\* The inductive invariant: caches, pools and vmnetcfgs agree up to the one record that
\* Allocate or cleanup is at.
InStep ==
  /\ \A n \in Nets : PoolViews(n) /\ CachesKnow(n)
  /\ \A v \in VMs : CfgViews(v)
  /\ PassViews /\ EntriesKept /\ PendingKnown
TidyInv == Tidy => InStep
=============================================================================
