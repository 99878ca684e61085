---------------------------- MODULE ProcessProofs ----------------------------
(***************************************************************************)
(* The programs only say that they finished clean when their servers are   *)
(* stopped, whichever programs are looked at. The invariant behind it is   *)
(* about what had happened when the signal came and when Cleanup looked    *)
(* for a DHCP server.                                                      *)
(***************************************************************************)
EXTENDS Process, TLAPS

\* The DHCP server is known to the allocator once Run has returned.
ServerKnown ==
  /\ dhcp = "new" => server = "none"
  /\ dhcp # "returned" => ~stored
  /\ dhcp = "returned" /\ ~stored => server = "none"
  /\ kind \notin Agents => dhcp = "new"

\* What a group's first error, and the end of the body, say of its goroutines.
ErrorsExplained ==
  /\ outer # "none" => http = "returned" \/ listener = "returned"
  /\ inner # "none" => \/ dhcp = "returned" /\ ~stored
                       \/ listener = "returned" /\ ~ready
  /\ body # "running" => listener = "returned"
  /\ body = "returned" /\ kind \in Agents => dhcpStop # "waiting" \/ inner # "none"

\* Cleanup acts when its context is done, and closes the server of an agent that was
\* started.
StopsExplained ==
  /\ dhcpStop # "waiting" => innerDone
  /\ ready => /\ listener \in {"running", "returned"} /\ signalled
              /\ kind \in Agents => dhcp = "returned"
              /\ dhcpStop # "waiting" => server # "serving"

\* run waits for the group before it receives from Cleanup.
EndExplained ==
  /\ main = "receiving" => http = "returned" /\ body = "returned"
  /\ proc = "clean" /\ kind # "webhook" => main = "receiving"

ProcessInv == TypeOK /\ ServerKnown /\ ErrorsExplained /\ StopsExplained /\ EndExplained

-----------------------------------------------------------------------------
\* A step of the programs keeps their types.
LEMMA TypesStep ==
  ASSUME TypeOK, Next
  PROVE  TypeOK'
<1> USE DEF TypeOK, Errors, First, group, agent
<1>1. CASE HTTPSet
  BY <1>1 DEF HTTPSet
<1>2. CASE HTTPListens
  <2>1. failed' \in BOOLEAN
    BY <1>2, Zenon DEF HTTPListens
  <2> QED BY <1>2, <2>1 DEF HTTPListens
<1>3. CASE HTTPReturns
  BY <1>3 DEF HTTPReturns
<1>4. CASE DHCPOpens
  <2>1. failed' \in BOOLEAN
    BY <1>4, Zenon DEF DHCPOpens
  <2> QED BY <1>4, <2>1 DEF DHCPOpens
<1>5. CASE DHCPStored
  BY <1>5 DEF DHCPStored
<1>6. CASE ListenerStarts
  BY <1>6 DEF ListenerStarts, EventHandlerInit, CreateCRDs, Register, StartControllers, newCaches, StartWebhookServer, Stage
<1>7. CASE ListenerReturns
  BY <1>7 DEF ListenerReturns
<1>8. CASE BodyWaits
  BY <1>8 DEF BodyWaits
<1>9. CASE BodyReceives
  BY <1>9 DEF BodyReceives
<1>10. CASE DHCPStops
  BY <1>10 DEF DHCPStops
<1>11. CASE HTTPStops
  <2>1. shut' \in BOOLEAN
    BY <1>11, Zenon DEF HTTPStops
  <2> QED BY <1>11, <2>1 DEF HTTPStops
<1>12. CASE HTTPStopped
  BY <1>12 DEF HTTPStopped
<1>13. CASE MainWaits
  BY <1>13 DEF MainWaits
<1>14. CASE MainReceives
  BY <1>14 DEF MainReceives
<1>15. CASE Signal
  BY <1>15 DEF Signal, Started
<1>16. CASE ServeFails
  BY <1>16 DEF ServeFails
<1>17. CASE LeaseLost
  BY <1>17 DEF LeaseLost
<1> QED BY <1>1, <1>2, <1>3, <1>4, <1>5, <1>6, <1>7, <1>8, <1>9, <1>10, <1>11, <1>12, <1>13, <1>14, <1>15, <1>16, <1>17 DEF Next, Goroutines

\* ... and the invariant.
LEMMA InvStep ==
  ASSUME ProcessInv, Next
  PROVE  ProcessInv'
<1>1. TypeOK /\ TypeOK'
  BY TypesStep DEF ProcessInv
<1> USE DEF ProcessInv, ServerKnown, ErrorsExplained, StopsExplained, EndExplained,
            innerDone, egctxDone, First, Agents, group, agent
<1>2. CASE HTTPSet
  BY <1>1, <1>2 DEF HTTPSet
<1>3. CASE HTTPListens
  BY <1>1, <1>3 DEF HTTPListens
<1>4. CASE HTTPReturns
  BY <1>1, <1>4 DEF HTTPReturns
<1>5. CASE DHCPOpens
  BY <1>1, <1>5 DEF DHCPOpens
<1>6. CASE DHCPStored
  BY <1>1, <1>6 DEF DHCPStored
<1>7. CASE ListenerStarts
  BY <1>1, <1>7 DEF ListenerStarts, EventHandlerInit, CreateCRDs, Register, StartControllers, newCaches, StartWebhookServer, Stage, Controllers
<1>8. CASE ListenerReturns
  BY <1>1, <1>8 DEF ListenerReturns
<1>9. CASE BodyWaits
  BY <1>1, <1>9 DEF BodyWaits
<1>10. CASE BodyReceives
  BY <1>1, <1>10 DEF BodyReceives
<1>11. CASE DHCPStops
  <2>1. CASE stored
    BY <1>1, <1>11, <2>1 DEF DHCPStops
  <2>2. CASE ~stored
    BY <1>1, <1>11, <2>2 DEF DHCPStops
  <2> QED BY <2>1, <2>2
<1>12. CASE HTTPStops
  BY <1>1, <1>12 DEF HTTPStops
<1>13. CASE HTTPStopped
  BY <1>1, <1>13 DEF HTTPStopped
<1>14. CASE MainWaits
  BY <1>1, <1>14 DEF MainWaits
<1>15. CASE MainReceives
  BY <1>1, <1>15 DEF MainReceives
<1>16. CASE Signal
  BY <1>1, <1>16 DEF Signal, Started
<1>17. CASE ServeFails
  BY <1>1, <1>17 DEF ServeFails
<1>18. CASE LeaseLost
  BY <1>1, <1>18 DEF LeaseLost
<1> QED BY <1>2, <1>3, <1>4, <1>5, <1>6, <1>7, <1>8, <1>9, <1>10, <1>11, <1>12, <1>13, <1>14, <1>15, <1>16, <1>17, <1>18 DEF Next, Goroutines

\* Every program is in a state it is meant to have.
THEOREM ProcessTypes == Spec => []TypeOK
<1>1. Init => TypeOK
  BY DEF Init, TypeOK, Errors
<1>2. TypeOK /\ [Next]_vars => TypeOK'
  <2>1. ASSUME TypeOK, UNCHANGED vars PROVE TypeOK'
    BY <2>1 DEF TypeOK, vars, group, agent
  <2> QED BY <2>1, TypesStep
<1> QED BY <1>1, <1>2, PTL DEF Spec

\* "finished clean" is only said by the agent and the controller when the HTTP server
\* has returned and no DHCP server serves, if all was started when the signal came:
\* Cleanup cannot have looked for the DHCP server before allocator.Run stored it.
THEOREM CleanEnd == Spec => []CleanIsStopped
<1>1. Init => ProcessInv
  BY DEF Init, ProcessInv, TypeOK, Errors, ServerKnown, ErrorsExplained, StopsExplained,
         EndExplained
<1>2. ProcessInv /\ [Next]_vars => ProcessInv'
  <2>1. ASSUME ProcessInv, UNCHANGED vars PROVE ProcessInv'
    BY <2>1 DEF ProcessInv, TypeOK, ServerKnown, ErrorsExplained, StopsExplained, EndExplained,
                innerDone, egctxDone, vars, group, agent
  <2> QED BY <2>1, InvStep
<1>3. ProcessInv => CleanIsStopped
  <2> SUFFICES ASSUME ProcessInv, proc = "clean", ready, kind # "webhook"
               PROVE  http = "returned" /\ server # "serving"
    BY DEF CleanIsStopped
  <2>1. http = "returned" /\ body = "returned"
    BY DEF ProcessInv, EndExplained
  <2>2. CASE kind \in Agents
    <3>1. CASE dhcpStop # "waiting"
      BY <2>1, <3>1 DEF ProcessInv, StopsExplained
    <3>2. CASE inner # "none"
      BY <2>1, <3>2 DEF ProcessInv, ServerKnown, ErrorsExplained
    <3> QED BY <2>1, <2>2, <3>1, <3>2 DEF ProcessInv, ErrorsExplained
  <2>3. CASE kind \notin Agents
    BY <2>1, <2>3 DEF ProcessInv, ServerKnown
  <2> QED BY <2>1, <2>2, <2>3
<1> QED BY <1>1, <1>2, <1>3, PTL DEF Spec
=============================================================================
