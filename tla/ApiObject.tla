------------------------------ MODULE ApiObject ------------------------------
(***************************************************************************)
(* One object of the Kubernetes API as the controllers of this repository  *)
(* see it: the stored object, the copy in the shared informer cache, and   *)
(* the copies handlers hold while they run.                                *)
(*                                                                         *)
(* Optimistic concurrency (resourceVersion) is modelled by the set "fresh" *)
(* of the holders whose copy is the stored version: a write succeeds       *)
(* exactly when its author is fresh and makes every other copy old.        *)
(* Holders: "informer", the "worker" whose handlers reconcile the object,  *)
(* and "guest", the copy another controller's worker took of it.           *)
(***************************************************************************)

Holder == {"informer", "worker", "guest"}

\* Everything there is to say about one object; "unseen": whose last write the
\* informer has not received yet.
ApiObjects(Obj) ==
  [api : Obj, inf : Obj, fresh : SUBSET Holder, unseen : SUBSET {"worker", "guest"}]

\* An object right after a (re)list: informer and store agree, no copies.
Listed(obj) ==
  [api |-> obj, inf |-> obj, fresh |-> {"informer"}, unseen |-> {}]

\* A successful Create, Update, UpdateStatus or Delete by "worker", "guest" or
\* anyone else ("other"). The worker goes on with the object the call returned.
Written(s, obj, author) ==
  [api |-> obj, inf |-> s.inf, fresh |-> {author} \cap {"worker"},
   unseen |-> s.unseen \cup ({author} \ {"other"})]

\* The watch event reaches the informer cache.
Delivered(s) ==
  [api |-> s.api, inf |-> s.api, fresh |-> s.fresh \cup {"informer"},
   unseen |-> {}]

\* "who" copies the object out of the informer cache.
Taken(s, who) ==
  [api |-> s.api, inf |-> s.inf, unseen |-> s.unseen,
   fresh |-> IF "informer" \in s.fresh THEN s.fresh \cup {who}
                                       ELSE s.fresh \ {who}]

\* "who" forgets its copy.
Dropped(s, who) ==
  [api |-> s.api, inf |-> s.inf, unseen |-> s.unseen,
   fresh |-> s.fresh \ {who}]

\* The worker sends "new" if it differs from its copy ("changed"): stored when
\* the copy is fresh, refused with a conflict otherwise.
Conflict(s, changed) == changed /\ "worker" \notin s.fresh
Saved(s, new, changed) ==
  IF changed /\ "worker" \in s.fresh THEN Written(s, new, "worker") ELSE s
=============================================================================
