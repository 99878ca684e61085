----------------------------- MODULE MCPoolLife -----------------------------
(***************************************************************************)
(* PoolLife with one pool, which has the name of its network or another,   *)
(* in several environments.                                                *)
(***************************************************************************)
EXTENDS PoolLife

MCNetworkOf == [p \in Pools |-> CHOOSE n \in Networks : TRUE]
OtherName == [p \in Pools |-> NoNetwork]

MCEnvs ==
  {{"pause", "delete", "use"}, {"delete", "use", "upgrade", "evict"},
   {"pause", "delete", "upgrade", "evict"}, {"pause", "delete", "noAgent"},
   {"pause", "delete", "hasty"}, {"upgrade", "delete", "busy"},
   {"late", "evict", "upgrade"}, {"late", "delete", "evict"}, {"late", "delete", "use"}}
=============================================================================
