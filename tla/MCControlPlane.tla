---------------------------- MODULE MCControlPlane ----------------------------
(***************************************************************************)
(* Instances of ControlPlane. A scenario is an environment and the         *)
(* interfaces that go with it; the first state chooses one and keeps it.   *)
(* There is one network, the address a3 is reserved, and MAC addresses are *)
(* named like VMs.                                                         *)
(***************************************************************************)
EXTENDS ReleaseInvariant, TLC

CONSTANTS Scenarios, n1, a3

VARIABLE scenario  \* one of Scenarios

Plane(s) == INSTANCE ReleaseInvariant WITH Env <- s.env, Desired <- s.desired

AllIPs == [n \in Nets |-> IPs]
OneRevoked == [n \in Nets |-> {a3}]
AnyNic(m) == [net |-> n1, mac |-> m, ip |-> NoIP]

\* Each VM has an interface of its own.
OneNic == [v \in VMs |-> {{AnyNic(v)}}]

\* One VM "w" with one of the sets of interfaces in "choices", the other VM absent.
Alone(w, choices) == [v \in VMs |-> IF v = w THEN choices ELSE {}]
EitherNic == {{AnyNic(m)} : m \in VMs}
BothNics == {AnyNic(m) : m \in VMs}

Scenario(env, desired) == [env |-> env, desired |-> desired]

\* The environment of the constants.
Given == {Scenario(Env, Desired)}

OneVM ==
  UNION {{Scenario({"agent", "lagGuest"}, Alone(w, {{AnyNic(w)}})),
          Scenario({"pausePool", "lagGuest"}, Alone(w, {{AnyNic(w)}})),
          Scenario({"lagCfg", "lagGuest"}, Alone(w, {BothNics})),
          Scenario({"pauseCfg", "giveUp", "remove", "lagCfg"}, Alone(w, EitherNic)),
          Scenario({"remove", "change", "crash"}, Alone(w, EitherNic))} : w \in VMs}

NoVMs == {Scenario({"agent", "pausePool"}, [v \in VMs |-> {}])}

\* Two VMs come and go, or vmnetcfgs written by hand ask for the same address.
TwoVMs ==
  {Scenario({"remove"}, OneNic)}
    \cup {Scenario({"static"}, [v \in VMs |-> {{[AnyNic(v) EXCEPT !.ip = ip]}}])
            : ip \in IPs \ {a3}}

Several == NoVMs \cup OneVM \cup TwoVMs

-----------------------------------------------------------------------------
\* The steps of ControlPlane. The scenario stays the same; it takes the place of the
\* constants in the steps that look at them.
Same == {scenario}

MCNext ==
  \/ \E s \in Same, v \in VMs : scenario' = s /\ Plane(s)!GiveVM(v)
  \/ \E s \in Same, v \in VMs : scenario' = s /\ Plane(s)!ChangeVM(v)
  \/ \E s \in Same, v \in VMs : scenario' = s /\ Plane(s)!RemoveVM(v)
  \/ \E s \in Same, v \in VMs : scenario' = s /\ Plane(s)!CreateCfg(v)
  \/ \E s \in Same, v \in VMs : scenario' = s /\ Plane(s)!PauseCfg(v)
  \/ \E s \in Same, n \in Nets : scenario' = s /\ Plane(s)!PausePool(n)
  \/ \E s \in Same : scenario' = s /\ Plane(s)!Crash
  \/ \E s \in Same, n \in Nets : scenario' = s /\ Plane(s)!StartPool(n)
  \/ \E s \in Same : scenario' = s /\ Plane(s)!BuildCache
  \/ \E s \in Same : scenario' = s /\ Plane(s)!PoolLabelsFail
  \/ \E s \in Same, v \in VMs : scenario' = s /\ Plane(s)!StartCfg(v)
  \/ \E s \in Same, nc \in cw.todo : scenario' = s /\ Plane(s)!AllocateRecovers(nc)
  \/ \E s \in Same, nc \in cw.todo : scenario' = s /\ Plane(s)!AllocateNew(nc)
  \/ \E s \in Same, nc \in cw.todo : scenario' = s /\ Plane(s)!AllocateNoAddress(nc)
  \/ \E s \in Same : scenario' = s /\ Plane(s)!CleanupUnrecords
  \/ \E s \in Same : scenario' = s /\ Plane(s)!CleanupGivesUp
  \/ \E n \in Nets : DeliverPool(n) /\ UNCHANGED scenario
  \/ \E v \in VMs : DeliverCfg(v) /\ UNCHANGED scenario
  \/ DeployAgent /\ UNCHANGED scenario
  \/ MonitorAgent /\ UNCHANGED scenario
  \/ PoolPaused /\ UNCHANGED scenario
  \/ PoolNotInitialized /\ UNCHANGED scenario
  \/ PoolUsage /\ UNCHANGED scenario
  \/ AllocateRefused /\ UNCHANGED scenario
  \/ AllocateRecords /\ UNCHANGED scenario
  \/ AllocateDone /\ UNCHANGED scenario
  \/ \E r \in cw.clean : CleanupReleases(r) /\ UNCHANGED scenario
  \/ \E r \in cw.clean : CleanupUnknown(r) /\ UNCHANGED scenario
  \/ Sync /\ UNCHANGED scenario
  \/ CfgOnChange /\ UNCHANGED scenario
  \/ CfgOnRemove /\ UNCHANGED scenario
  \/ \E v \in VMs : VMSkipped(v) /\ UNCHANGED scenario
  \/ \E v \in VMs : VMCreates(v) /\ UNCHANGED scenario
  \/ \E v \in VMs : VMUnchanged(v) /\ UNCHANGED scenario
  \/ \E v \in VMs : VMUpdates(v) /\ UNCHANGED scenario

MCInit == Init /\ scenario \in Scenarios
MCSpec == MCInit /\ [][MCNext]_<<vars, scenario>>
MCFairSpec == MCSpec /\ Fairness

FreeIPs == Permutations(IPs \ {a3})
AnyVMs == FreeIPs \cup Permutations(VMs)

-----------------------------------------------------------------------------
\* No recorded address is free in the IPAM, as long as cleanup does not give up
\* on an IPPool after it has released the address in the IPAM.
NotFreeUnlessGivenUp == "giveUp" \notin scenario.env => NotFree

\* Sync releases an old interface's address before Allocate takes a new one.
ReplacedInOrder == \A s \in Same : Plane(s)!DeallocateFirst

\* Where VMs come and go, or ask for the same address, caches, IPPools and vmnetcfgs
\* agree up to the record that Allocate or cleanup is at, so that the next VM is not
\* given an address whose entry is still there.
KeptInStep == \A s \in Same : Plane(s)!TidyInv

\* At rest cleanup has left no recorded address without its vmnetcfg, and the IPAM and
\* the MAC cache say what the IPPool says, unless a restart made OnRemove clean up
\* twice.
Settled == NoLeak /\ ("crash" \notin scenario.env => CachesAgree)
=============================================================================
