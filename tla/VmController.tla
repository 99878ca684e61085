----------------------------- MODULE VmController -----------------------------
(***************************************************************************)
(* The vm controller: OnChange gives every VirtualMachine with interfaces  *)
(* on multus networks a VirtualMachineNetworkConfig, and passes changes on *)
(* in two steps, first marking the vmnetcfg out-of-sync, then updating its *)
(* spec. A pass reads the informer's copy of the vmnetcfg and makes one    *)
(* call to the API server, so it is one step.                              *)
(***************************************************************************)
EXTENDS ControlPlaneState

\* prepareVmNetCfg: no address is carried over from the VirtualMachine.
prepareVmNetCfg(nics) == {[nc EXCEPT !.ip = NoIP] : nc \in nics}

\* Nothing to do for a VM that is gone or has no interface.
VMSkipped(v) ==
  /\ v \in vmQ /\ (~vm[v].alive \/ vm[v].nics = {})
  /\ vmQ' = vmQ \ {v}
  /\ UNCHANGED <<objects, memory, poolQ, cfgQ, pw, cw>>

\* Create fails, and is retried, if the informer has not seen the object yet.
VMCreates(v) ==
  /\ v \in vmQ /\ vm[v].alive /\ vm[v].nics # {} /\ ~cfg[v].inf.exists
  /\ IF cfg[v].api.exists THEN UNCHANGED <<cfg, vmQ>>
     ELSE /\ cfg' = [cfg EXCEPT ![v] =
                       Written(@, NewCfg(prepareVmNetCfg(vm[v].nics)), "other")]
          /\ vmQ' = vmQ \ {v}
  /\ UNCHANGED <<vm, pool, labelled, memory, poolQ, cfgQ, pw, cw>>

VMUnchanged(v) ==
  /\ v \in vmQ /\ vm[v].alive /\ vm[v].nics # {} /\ cfg[v].inf.exists
  /\ prepareVmNetCfg(vm[v].nics) = cfg[v].inf.nics
  /\ vmQ' = vmQ \ {v}
  /\ UNCHANGED <<objects, memory, poolQ, cfgQ, pw, cw>>

\* The lists of interfaces differ, or only look different: they are built in the
\* random order of a map. Out-of-sync already: the spec is updated. Otherwise the condition is set and
\* the VM enqueued again. A refused call is retried.
VMUpdates(v) ==
  LET s == cfg[v]
      nics == prepareVmNetCfg(vm[v].nics)
      fresh == "informer" \in s.fresh
      outOfSync == s.inf.inSynced = "False"
  IN /\ v \in vmQ /\ vm[v].alive /\ vm[v].nics # {} /\ s.inf.exists
     /\ nics # s.inf.nics \/ Cardinality(nics) > 1
     /\ cfg' = IF ~fresh THEN cfg
               ELSE [cfg EXCEPT ![v] = Written(s,
                      IF outOfSync THEN [s.api EXCEPT !.nics = nics]
                                   ELSE [s.api EXCEPT !.inSynced = "False"], "other")]
     /\ vmQ' = IF fresh /\ outOfSync THEN vmQ \ {v} ELSE vmQ
     /\ UNCHANGED <<vm, pool, labelled, memory, poolQ, cfgQ, pw, cw>>

VMOnChange(v) == VMSkipped(v) \/ VMCreates(v) \/ VMUnchanged(v) \/ VMUpdates(v)
=============================================================================
