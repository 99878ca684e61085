---------------------------- MODULE AddressService ----------------------------
(***************************************************************************)
(* What the control plane promises, without controllers, caches, informers *)
(* and restarts: a ledger of which interface an address is written down    *)
(* for, and the addresses interfaces hold. An address is written down only *)
(* when it is nobody's, held only as written down, and crossed out only    *)
(* when nobody holds it.                                                   *)
(***************************************************************************)
CONSTANTS Nets, IPs, Macs, NoMac

VARIABLES
  ledger,  \* [Nets -> [IPs -> Macs \cup {NoMac}]]
  held     \* a set of <<network, address, MAC address>>
vars == <<ledger, held>>

Entries == {e \in Nets \X IPs \X Macs : ledger[e[1]][e[2]] = e[3]}

Record(n, ip, m) ==
  /\ ledger[n][ip] = NoMac
  /\ ledger' = [ledger EXCEPT ![n][ip] = m]
  /\ UNCHANGED held

Erase(n, ip) ==
  /\ \A e \in held : e[1] # n \/ e[2] # ip
  /\ ledger' = [ledger EXCEPT ![n][ip] = NoMac]
  /\ UNCHANGED held

\* Interfaces get addresses of theirs or let go of some.
Serve ==
  /\ UNCHANGED ledger
  /\ held' \subseteq Entries

Init == ledger = [n \in Nets |-> [ip \in IPs |-> NoMac]] /\ held = {}

Next ==
  \/ Serve
  \/ \E n \in Nets, ip \in IPs : Erase(n, ip) \/ \E m \in Macs : Record(n, ip, m)

Spec == Init /\ [][Next]_vars
=============================================================================
