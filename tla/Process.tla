------------------------------- MODULE Process -------------------------------
(***************************************************************************)
(* How the three programs start, fail and stop: the goroutines of "run" of *)
(* cmd/agent, cmd/controller and cmd/webhook, the error groups and         *)
(* contexts that tie them together, and the Cleanup goroutines that stop   *)
(* the HTTP server and the DHCP server and report over unbuffered          *)
(* channels. What the programs do in between is in Agent and ControlPlane. *)
(***************************************************************************)

CONSTANT Kinds  \* the programs to look at

\* "leader": the controller with leader election, "controller": without.
ASSUME KindsAssumption == Kinds \subseteq {"agent", "dryRun", "controller", "leader", "webhook"}

VARIABLES
  kind,      \* the program
  proc,      \* "up", or how it ended: "clean", "error", "panic", or
             \* "dies" in leader.RunOrDie
  signalled, \* SIGTERM has cancelled the context of SetupSignalContext
  ready,     \* ... when everything was started
  http,      \* s.Run: "new" (s.srv is nil), "set", "serving", "returned"
  shut,      \* srv.Shutdown has been called
  body,      \* agent.Run or the leader's callback: "running", "receiving", "returned"
  dhcp,      \* DHCPAllocator.Run: "new", "opened", "returned"
  server,    \* its server: "none", "serving", "dead", "closed"
  stored,    \* it is in a.servers
  listener,  \* Init and EventListener, the callback, or the webhook's run: "new",
             \* "created", "registered", "running", "returned"
  outer, inner,    \* first error of the two groups: "none", "closed", "failed"
  main,      \* "waiting" for the group, "receiving" from Cleanup
  httpStop, dhcpStop,  \* Cleanup goroutines: "waiting", "stopping", "ok", "failed"
  failed     \* something has failed to start
group == <<http, body, outer>>
agent == <<dhcp, server, stored, listener, inner>>
vars == <<kind, proc, signalled, ready, group, shut, agent, main, httpStop, dhcpStop, failed>>

Agents == {"agent", "dryRun"}
Controllers == {"controller", "leader"}

\* The contexts: a group's is done with its parent's, or at its first error.
egctxDone == signalled \/ outer # "none"
\* Mutant: the group of agent.Run does not derive from the context it is given.
innerDoneMutant == inner # "none"
innerDone == egctxDone \/ inner # "none"

First(old, new) == IF old = "none" THEN new ELSE old

Started ==
  /\ kind # "webhook" => http = "serving"
  /\ kind \in Agents => dhcp = "returned"
  /\ listener = "running"

Signal ==
  /\ ~signalled /\ signalled' = TRUE /\ ready' = Started
  /\ UNCHANGED <<kind, proc, group, shut, agent, main, httpStop, dhcpStop, failed>>

-----------------------------------------------------------------------------
\* The goroutine of s.Run.

HTTPSet ==
  /\ kind # "webhook" /\ http = "new" /\ http' = "set"
  /\ UNCHANGED <<kind, proc, signalled, ready, body, outer, shut, agent, main, httpStop, dhcpStop, failed>>

\* ListenAndServe gets the port or not, and returns at once after a Shutdown.
HTTPListens ==
  /\ http = "set"
  /\ \/ ~shut /\ http' = "serving" /\ UNCHANGED <<outer, failed>>
     \/ ~shut /\ http' = "returned" /\ outer' = First(outer, "failed") /\ failed' = TRUE
     \/ shut /\ http' = "returned" /\ outer' = First(outer, "closed") /\ UNCHANGED failed
  /\ UNCHANGED <<kind, proc, signalled, ready, body, shut, agent, main, httpStop, dhcpStop>>

HTTPReturns ==
  /\ http = "serving" /\ shut
  /\ http' = "returned" /\ outer' = First(outer, "closed")
  /\ UNCHANGED <<kind, proc, signalled, ready, body, shut, agent, main, httpStop, dhcpStop, failed>>

-----------------------------------------------------------------------------
\* The goroutines of agent.Run.

\* NewServer opens the socket and a goroutine serves it, or there is an error. A dry
\* run has no server.
DHCPOpens ==
  /\ kind \in Agents /\ dhcp = "new"
  /\ \/ kind = "agent" /\ dhcp' = "opened" /\ server' = "serving" /\ UNCHANGED <<inner, failed>>
     \/ kind = "agent" /\ dhcp' = "returned" /\ inner' = First(inner, "failed") /\ failed' = TRUE
        /\ UNCHANGED server
     \/ kind = "dryRun" /\ dhcp' = "returned" /\ UNCHANGED <<server, inner, failed>>
  /\ UNCHANGED <<kind, proc, signalled, ready, group, shut, stored, listener, main, httpStop, dhcpStop>>

DHCPStored ==
  /\ dhcp = "opened" /\ dhcp' = "returned" /\ stored' = TRUE
  /\ UNCHANGED <<kind, proc, signalled, ready, group, shut, server, listener, inner, main,
                 httpStop, dhcpStop, failed>>

\* Serve returns with an error, which is logged.
ServeFails ==
  /\ server = "serving" /\ server' = "dead"
  /\ UNCHANGED <<kind, proc, signalled, ready, group, shut, dhcp, stored, listener, inner, main,
                 httpStop, dhcpStop, failed>>

\* A step on the way to the listener that may fail, and how the program takes it.
Stage(from, to, failure) ==
  /\ listener = from
  /\ \/ listener' = to /\ UNCHANGED <<inner, proc, failed>>
     \/ /\ listener' = "returned" /\ failed' = TRUE /\ proc' = failure
        /\ inner' = IF kind \in Agents THEN First(inner, "failed") ELSE inner
  /\ UNCHANGED <<kind, signalled, ready, group, shut, dhcp, server, stored, main, httpStop, dhcpStop>>

\* The agent: a configuration from the file or the cluster, and a client for it.
EventHandlerInit == kind \in Agents /\ Stage("new", "running", "up")

\* The controller's callback panics when the CRDs cannot be applied, a controller does
\* not register or the informers do not start.
CreateCRDs == kind \in Controllers /\ Stage("new", "created", "panic")
Register == kind \in Controllers /\ Stage("created", "registered", "panic")
StartControllers == kind \in Controllers /\ Stage("registered", "running", "panic")

\* The webhook starts its informers, and then registers validators and mutators and
\* starts its server.
newCaches == kind = "webhook" /\ Stage("new", "registered", "error")
StartWebhookServer == kind = "webhook" /\ Stage("registered", "running", "error")

ListenerStarts ==
  \/ EventHandlerInit \/ CreateCRDs \/ Register \/ StartControllers
  \/ newCaches \/ StartWebhookServer

\* Its context is done; the event listener stops the agent's controller. RunOrDie may
\* end the program here, elected or not.
ListenerReturns ==
  /\ listener = "running" \/ (kind = "leader" /\ listener = "new")
  /\ innerDone
  /\ listener' = "returned"
  /\ \/ proc' = IF kind = "webhook" THEN "clean" ELSE proc
     \/ kind = "leader" /\ proc' = "dies"
  /\ UNCHANGED <<kind, signalled, ready, group, shut, dhcp, server, stored, inner, main,
                 httpStop, dhcpStop, failed>>

\* The leader lost its lease.
LeaseLost ==
  /\ kind = "leader" /\ listener = "running" /\ ~innerDone /\ proc' = "dies"
  /\ UNCHANGED <<kind, signalled, ready, group, shut, agent, main, httpStop, dhcpStop, failed>>

\* Mutant: the error of the group is logged and not returned.
BodyWaitsMutant ==
  /\ body = "running" /\ listener = "returned" /\ (kind \in Agents => dhcp = "returned")
  /\ body' = IF kind \in Agents THEN "receiving" ELSE "returned"
  /\ UNCHANGED <<kind, proc, signalled, ready, http, outer, shut, agent, main, httpStop, dhcpStop, failed>>

\* eg.Wait of agent.Run: an error is returned at once, else Cleanup's is waited for.
BodyWaits ==
  /\ body = "running" /\ listener = "returned" /\ (kind \in Agents => dhcp = "returned")
  /\ body' = IF kind \in Agents /\ inner = "none" THEN "receiving" ELSE "returned"
  /\ outer' = IF inner = "none" THEN outer ELSE First(outer, "failed")
  /\ UNCHANGED <<kind, proc, signalled, ready, http, shut, agent, main, httpStop, dhcpStop, failed>>

\* Mutant: the test for a server is the wrong way round.
DHCPStopsMutant ==
  /\ kind \in Agents /\ dhcpStop = "waiting" /\ innerDone
  /\ dhcpStop' = "ok"
  /\ UNCHANGED <<kind, proc, signalled, ready, group, shut, agent, main, httpStop, failed>>

\* dhcp.Cleanup: stop closes the server, if there is one by now.
DHCPStops ==
  /\ kind \in Agents /\ dhcpStop = "waiting" /\ innerDone
  /\ IF stored
     THEN server' = "closed" /\ dhcpStop' \in {"ok", "failed"}
     ELSE dhcpStop' = "ok" /\ UNCHANGED server
  /\ UNCHANGED <<kind, proc, signalled, ready, group, shut, dhcp, stored, listener, inner, main,
                 httpStop, failed>>

BodyReceives ==
  /\ body = "receiving" /\ dhcpStop \in {"ok", "failed"} /\ body' = "returned"
  /\ outer' = IF dhcpStop = "ok" THEN outer ELSE First(outer, "failed")
  /\ UNCHANGED <<kind, proc, signalled, ready, http, shut, agent, main, httpStop, dhcpStop, failed>>

-----------------------------------------------------------------------------
\* server.Cleanup: Shutdown closes the listener, and then waits for requests with a
\* context that is done already. Without s.srv it panics.
HTTPStops ==
  /\ kind # "webhook" /\ httpStop = "waiting" /\ egctxDone
  /\ IF http = "new" THEN proc' = "panic" /\ UNCHANGED <<shut, httpStop>>
     ELSE shut' = TRUE /\ httpStop' = "stopping" /\ UNCHANGED proc
  /\ UNCHANGED <<kind, signalled, ready, group, agent, main, dhcpStop, failed>>

\* Mutant: Cleanup sends the cause of the end and not the result of stop.
HTTPStoppedMutant ==
  /\ httpStop = "stopping" /\ httpStop' = outer
  /\ UNCHANGED <<kind, proc, signalled, ready, group, shut, agent, main, dhcpStop, failed>>
HTTPStopped ==
  /\ httpStop = "stopping" /\ httpStop' \in {"ok", "failed"}
  /\ UNCHANGED <<kind, proc, signalled, ready, group, shut, agent, main, dhcpStop, failed>>

\* eg.Wait of run.
MainWaits ==
  /\ kind # "webhook" /\ main = "waiting" /\ http = "returned" /\ body = "returned"
  /\ main' = "receiving" /\ proc' = IF outer = "failed" THEN "error" ELSE proc
  /\ UNCHANGED <<kind, signalled, ready, group, shut, agent, httpStop, dhcpStop, failed>>

MainReceives ==
  /\ main = "receiving" /\ httpStop \in {"ok", "failed"}
  /\ proc' = IF httpStop = "ok" THEN "clean" ELSE "error"
  /\ UNCHANGED <<kind, signalled, ready, group, shut, agent, main, httpStop, dhcpStop, failed>>

-----------------------------------------------------------------------------
Init ==
  /\ kind \in Kinds /\ proc = "up" /\ signalled = FALSE /\ ready = FALSE
  /\ http = "new" /\ shut = FALSE /\ body = "running" /\ dhcp = "new" /\ server = "none"
  /\ stored = FALSE /\ listener = "new" /\ outer = "none" /\ inner = "none"
  /\ main = "waiting" /\ httpStop = "waiting" /\ dhcpStop = "waiting" /\ failed = FALSE

Goroutines ==
  \/ HTTPSet \/ HTTPListens \/ HTTPReturns
  \/ DHCPOpens \/ DHCPStored \/ ListenerStarts \/ ListenerReturns \/ BodyWaits \/ BodyReceives
  \/ DHCPStops \/ HTTPStops \/ HTTPStopped \/ MainWaits \/ MainReceives

Next == proc = "up" /\ (Goroutines \/ Signal \/ ServeFails \/ LeaseLost)

\* Every goroutine that can run does.
Spec == Init /\ [][Next]_vars /\ WF_vars(proc = "up" /\ Goroutines)

-----------------------------------------------------------------------------
Errors == {"none", "closed", "failed"}
\* Every goroutine, group, server and channel is in one of the states that the code of
\* its program gives it.
TypeOK ==
  /\ kind \in Kinds /\ proc \in {"up", "clean", "error", "panic", "dies"}
  /\ signalled \in BOOLEAN /\ ready \in BOOLEAN /\ shut \in BOOLEAN
  /\ stored \in BOOLEAN /\ failed \in BOOLEAN
  /\ http \in {"new", "set", "serving", "returned"} /\ body \in {"running", "receiving", "returned"}
  /\ dhcp \in {"new", "opened", "returned"} /\ server \in {"none", "serving", "dead", "closed"}
  /\ listener \in {"new", "created", "registered", "running", "returned"} /\ outer \in Errors /\ inner \in Errors
  /\ main \in {"waiting", "receiving"}
  /\ {httpStop, dhcpStop} \subseteq {"waiting", "stopping", "ok", "failed"}

\* After SIGTERM the program ends, whatever it was doing: no goroutine waits for a
\* context nobody cancels or sends on a channel nobody reads while run waits for it.
Terminates == signalled ~> proc # "up"

\* A server or listener that does not start ends the program with an error, for
\* kubelet to start it again, unless it is being stopped anyway.
FailureEndsProgram == failed ~> (proc \in {"error", "panic", "dies"} \/ signalled)

\* "finished clean" is only said when both servers are stopped, if all was started
\* when the signal came.
CleanIsStopped ==
  proc = "clean" /\ ready /\ kind # "webhook" => http = "returned" /\ server # "serving"
=============================================================================
