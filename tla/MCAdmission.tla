---------------------------- MODULE MCAdmission ----------------------------
(***************************************************************************)
(* Admission on addresses of 4 bits. The services have 12..15. The drafts  *)
(* combine networks that are disjoint from the services, contain them, lie *)
(* within them, have no host, or are given with host bits set, with start, *)
(* end, server, router and exclude list missing, malformed, at the         *)
(* network's borders, outside of it, equal to one another or swapped.      *)
(***************************************************************************)
EXTENDS Admission, TLC

MCServiceCIDR == [ip |-> 12, len |-> 2]

MCDrafts ==
  [cidr : {[ip |-> 0, len |-> 1], [ip |-> 5, len |-> 1], [ip |-> 8, len |-> 2],
           [ip |-> 0, len |-> 0], [ip |-> 8, len |-> 1], [ip |-> 14, len |-> 3],
           [ip |-> 2, len |-> 3], [ip |-> 3, len |-> 4]},
   start : {Empty, Malformed, 0, 2, 5}, end : {Empty, Malformed, 3, 6, 7, 10},
   server : {Empty, Malformed, 0, 1, 3, 9}, router : {Empty, Malformed, 4, 1, 7},
   exclude : {{}, {1}, {3}, {5, 6}, {Malformed}, {9}}]
\* MAC addresses are interchangeable.
Symmetric == Permutations(Macs)
=============================================================================
