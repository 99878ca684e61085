------------------------- MODULE ObjectCopiesProofs --------------------------
(***************************************************************************)
(* What handlers share, for any MAC addresses and any number of passes and *)
(* writes: the informer's object is never written into, an error takes     *)
(* back what its handler did, and what a handler did is sent.              *)
(***************************************************************************)
EXTENDS ObjectCopies, TLAPS

\* Most leaves are first-order: Zenon is tried first, the SMT solver after it.
USE ZenonT(2), SMTT(20), ZenonT(20)

Memory == [heap : [Holders -> Objects], at : [Holders -> [Fields -> Holders]]]

\* Nobody else's memory is behind these holders; the worker's argument may be the
\* informer's object, and status, object and the object to send share with one another.
Apart(m) ==
  /\ m \in Memory
  /\ \A f \in Fields :
       /\ \A h \in {"informer", "other", "origStatus"} : m.at[h][f] = h
       /\ m.at["obj"][f] \in {"obj", "status"} /\ m.at["status"][f] \in {"obj", "status"}
  /\ \E h \in {"arg", "informer"} : \A f \in Fields : m.at["arg"][f] = h
Separate(m) == Apart(m) /\ \A f \in Fields : m.at["obj"][f] = "obj"

\* v may be the value of field f.
Fits(f, v) == \A o \in Objects : [o EXCEPT ![f] = v] \in Objects

-----------------------------------------------------------------------------
\* The operators on memory.

\* An object is a function on its fields.
LEMMA ObjectIsFunction ==
  ASSUME NEW o \in Objects
  PROVE  /\ o = [f \in Fields |-> o[f]]
         /\ \A f \in Fields : \A v : [o EXCEPT ![f] = v] = [e \in Fields |-> IF e = f THEN v ELSE o[e]]
BY DEF Objects, Fields

\* What a holder holds is an object, field by field in the cells behind it.
LEMMA ValFacts ==
  ASSUME NEW m \in Memory, NEW h \in Holders
  PROVE  /\ Val(m, h) \in Objects
         /\ \A f \in Fields : Val(m, h)[f] = m.heap[m.at[h][f]][f]
<1>1. \A f \in Fields : Val(m, h)[f] = m.heap[m.at[h][f]][f]
  BY DEF Val
<1>2. \A f \in Fields : m.at[h][f] \in Holders
  BY DEF Memory
<1>3. \A f \in Fields : \E o \in Objects : Val(m, h)[f] = o[f]
  BY <1>1, <1>2 DEF Memory
<1>4. Val(m, h) = [f \in Fields |-> Val(m, h)[f]]
  BY DEF Val
<1> HIDE DEF Val
<1> QED BY <1>1, <1>3, <1>4 DEF Objects, Fields

\* h := g allocates nothing, and h's fields are where g's are.
LEMMA SharedFacts ==
  ASSUME NEW m \in Memory, NEW h \in Holders, NEW g \in Holders
  PROVE  /\ Shared(m, h, g) \in Memory /\ Shared(m, h, g).heap = m.heap
         /\ \A k \in Holders : Shared(m, h, g).at[k] = IF k = h THEN m.at[g] ELSE m.at[k]
BY DEF Memory, Shared

\* The fields of what was just allocated are its own.
LEMMA OwnFacts == \A h \in Holders : Own(h) \in [Fields -> Holders] /\ \A f \in Fields : Own(h)[f] = h
BY DEF Own

\* DeepCopy fills the cells of h and lets nobody else's be.
LEMMA DeepCopiedFacts ==
  ASSUME NEW m \in Memory, NEW h \in Holders, NEW g \in Holders
  PROVE  /\ DeepCopied(m, h, g) \in Memory
         /\ \A k \in Holders : /\ DeepCopied(m, h, g).heap[k] = IF k = h THEN Val(m, g) ELSE m.heap[k]
                               /\ DeepCopied(m, h, g).at[k] = IF k = h THEN Own(h) ELSE m.at[k]
BY ValFacts, OwnFacts DEF Memory, DeepCopied

\* n is m with v in field f of h, which is now in the cell of c.
Put(m, n, h, f, v, c) ==
  /\ n \in Memory
  /\ \A k \in Holders : \A e \in Fields :
       /\ n.heap[k][e] = IF k = c /\ e = f THEN v ELSE m.heap[k][e]
       /\ n.at[k][e] = IF k = h /\ e = f THEN c ELSE m.at[k][e]

\* A write through a pointer goes to the cell that is behind the field.
LEMMA ThroughFacts ==
  ASSUME NEW m \in Memory, NEW h \in Holders, NEW f \in Fields, NEW v, Fits(f, v)
  PROVE  Put(m, Through(m, h, f, v), h, f, v, m.at[h][f])
<1> DEFINE n == Through(m, h, f, v)
<1>1. n \in Memory /\ n.at = m.at
  BY DEF Memory, Through, Fits
<1>2. \A k \in Holders : n.heap[k] = IF k = m.at[h][f] THEN [m.heap[k] EXCEPT ![f] = v] ELSE m.heap[k]
  BY DEF Memory, Through
<1>3. \A k \in Holders : m.heap[k] \in Objects
  BY DEF Memory
<1> HIDE DEF n
<1>4. \A k \in Holders : \A e \in Fields : n.heap[k][e] = IF k = m.at[h][f] /\ e = f THEN v ELSE m.heap[k][e]
  <2> SUFFICES ASSUME NEW k \in Holders, NEW e \in Fields
               PROVE  n.heap[k][e] = IF k = m.at[h][f] /\ e = f THEN v ELSE m.heap[k][e]
    OBVIOUS
  <2>1. [m.heap[k] EXCEPT ![f] = v][e] = IF e = f THEN v ELSE m.heap[k][e]
    BY <1>3, ObjectIsFunction
  <2> QED BY <1>2, <2>1
<1>5. Put(m, n, h, f, v, m.at[h][f])
  BY <1>1, <1>4 DEF Put
<1> QED BY <1>5 DEF n

\* An assignment to a field gives it a cell of its own.
LEMMA AssignedFacts ==
  ASSUME NEW m \in Memory, NEW h \in Holders, NEW f \in Fields, NEW v, Fits(f, v)
  PROVE  Put(m, Assigned(m, h, f, v), h, f, v, h)
<1> DEFINE n == Assigned(m, h, f, v)
<1>1. n \in Memory /\ \A k \in Holders : n.at[k] = IF k = h THEN [m.at[k] EXCEPT ![f] = h] ELSE m.at[k]
  BY DEF Memory, Assigned, Fits
<1>2. \A k \in Holders : n.heap[k] = IF k = h THEN [m.heap[k] EXCEPT ![f] = v] ELSE m.heap[k]
  BY DEF Memory, Assigned
<1>3. \A k \in Holders : m.heap[k] \in Objects /\ m.at[k] \in [Fields -> Holders]
  BY DEF Memory
<1> HIDE DEF n
<1>4. \A k \in Holders : \A e \in Fields : n.heap[k][e] = IF k = h /\ e = f THEN v ELSE m.heap[k][e]
  BY <1>2, <1>3, ObjectIsFunction
<1>5. \A k \in Holders : \A e \in Fields : n.at[k][e] = IF k = h /\ e = f THEN h ELSE m.at[k][e]
  BY <1>1, <1>3
<1>6. Put(m, n, h, f, v, h)
  BY <1>1, <1>4, <1>5 DEF Put
<1> QED BY <1>6 DEF n

\* An object as it is created is an object.
LEMMA NewObjectFits == ASSUME kind \in Kinds PROVE NewObject \in Objects
<1>1. (CHOOSE mac \in Macs : TRUE) \in Macs
  BY ConstantsAssumption
<1> QED BY <1>1 DEF NewObject, Objects

\* What goes out of scope leaves the other cells alone.
LEMMA ForgottenFacts ==
  ASSUME kind \in Kinds, NEW m \in Memory, NEW hs \in SUBSET Holders
  PROVE  /\ Forgotten(m, hs) \in Memory
         /\ \A h \in Holders :
              /\ Forgotten(m, hs).heap[h] = IF h \in hs THEN NewObject ELSE m.heap[h]
              /\ Forgotten(m, hs).at[h] = IF h \in hs THEN Own(h) ELSE m.at[h]
BY NewObjectFits, OwnFacts DEF Memory, Forgotten

\* A holder keeps its object when the cells behind it keep their values.
LEMMA ValKept ==
  ASSUME NEW m \in Memory, NEW n \in Memory, NEW h \in Holders,
         \A f \in Fields : /\ n.at[h][f] = m.at[h][f]
                          /\ n.heap[m.at[h][f]][f] = m.heap[m.at[h][f]][f]
  PROVE  Val(n, h) = Val(m, h)
BY DEF Val

-----------------------------------------------------------------------------
\* What the writes of handlers leave alone.

Written(m, h, f, v) == {Through(m, h, f, v), Assigned(m, h, f, v)}

\* A write through the status, or an assignment to it, reaches the object to send at
\* most in the same field, and nobody else.
LEMMA StatusWritten ==
  ASSUME NEW m, Separate(m), NEW f \in Fields, NEW v, Fits(f, v), NEW n \in Written(m, "status", f, v)
  PROVE  /\ Separate(n)
         /\ \A k \in {"informer", "other", "origStatus", "arg"} : Val(n, k) = Val(m, k)
         /\ \A e \in Fields : Val(n, "status")[e] = IF e = f THEN v ELSE Val(m, "status")[e]
         /\ \A e \in Fields \ {f} : /\ Val(n, "obj")[e] = Val(m, "obj")[e]
                                   /\ n.at["status"][e] = m.at["status"][e]
         /\ n = Assigned(m, "status", f, v) => Val(n, "obj") = Val(m, "obj")
<1>1. m \in Memory /\ "status" \in Holders /\ m.at["status"][f] \in {"obj", "status"}
  BY DEF Separate, Apart, Holders
<1>2. PICK c \in {"obj", "status"} :
        Put(m, n, "status", f, v, c) /\ (n = Assigned(m, "status", f, v) => c = "status")
  <2>1. CASE n = Assigned(m, "status", f, v)
    BY <1>1, <2>1, AssignedFacts
  <2>2. CASE n # Assigned(m, "status", f, v)
    BY <1>1, <2>2, ThroughFacts DEF Written
  <2> QED BY <2>1, <2>2
<1>3. Separate(n)
  BY <1>2 DEF Separate, Apart, Put, Holders
<1>4. ASSUME NEW k \in {"informer", "other", "origStatus", "arg"} PROVE Val(n, k) = Val(m, k)
  <2>1. \A e \in Fields : m.at[k][e] \in Holders \ {"obj", "status"}
    BY DEF Separate, Apart, Holders
  <2>2. k \in Holders \ {"obj", "status"} /\ n \in Memory
    BY <1>2 DEF Holders, Put
  <2>3. \A e \in Fields : n.at[k][e] = m.at[k][e] /\ n.heap[m.at[k][e]][e] = m.heap[m.at[k][e]][e]
    BY <1>1, <1>2, <2>1, <2>2 DEF Put
  <2> QED BY <1>1, <2>2, <2>3, ValKept
<1>5. \A e \in Fields : Val(n, "status")[e] = IF e = f THEN v ELSE Val(m, "status")[e]
  <2>1. c \in Holders /\ \A e \in Fields : m.at["status"][e] \in Holders
    BY DEF Separate, Apart, Holders
  <2>2. ASSUME NEW e \in Fields
        PROVE  n.heap[n.at["status"][e]][e] = IF e = f THEN v ELSE m.heap[m.at["status"][e]][e]
    <3>1. n.at["status"][e] = IF e = f THEN c ELSE m.at["status"][e]
      BY <1>1, <1>2 DEF Put
    <3>2. \A k \in Holders : n.heap[k][e] = IF k = c /\ e = f THEN v ELSE m.heap[k][e]
      BY <1>2 DEF Put
    <3> QED BY <2>1, <3>1, <3>2
  <2> QED BY <2>2 DEF Val
<1>6. \A e \in Fields \ {f} : Val(n, "obj")[e] = Val(m, "obj")[e] /\ n.at["status"][e] = m.at["status"][e]
  BY <1>1, <1>2 DEF Separate, Apart, Put, Holders, Val
<1>7. ASSUME c = "status" PROVE Val(n, "obj") = Val(m, "obj")
  BY <1>1, <1>2, <1>7 DEF Separate, Apart, Put, Holders, Val
<1> QED BY <1>2, <1>3, <1>4, <1>5, <1>6, <1>7

\* A write to the copy of OnChange stays in it.
LEMMA ObjWritten ==
  ASSUME NEW m, Separate(m), NEW f \in Fields, NEW v, Fits(f, v), NEW n \in Written(m, "obj", f, v)
  PROVE  /\ Separate(n)
         /\ \A k \in {"informer", "other", "origStatus", "arg"} : Val(n, k) = Val(m, k)
<1>1. m \in Memory /\ "obj" \in Holders /\ m.at["obj"][f] = "obj"
  BY DEF Separate, Apart, Holders
<1>2. Put(m, n, "obj", f, v, "obj")
  BY <1>1, AssignedFacts, ThroughFacts DEF Written
<1>3. Separate(n)
  BY <1>2 DEF Separate, Apart, Put, Holders
<1>4. ASSUME NEW k \in {"informer", "other", "origStatus", "arg"} PROVE Val(n, k) = Val(m, k)
  <2>1. \A e \in Fields : m.at[k][e] \in Holders \ {"obj", "status"}
    BY DEF Separate, Apart, Holders
  <2>2. k \in Holders \ {"obj", "status"} /\ n \in Memory
    BY <1>2 DEF Holders, Put
  <2>3. \A e \in Fields : n.at[k][e] = m.at[k][e] /\ n.heap[m.at[k][e]][e] = m.heap[m.at[k][e]][e]
    BY <1>1, <1>2, <2>1, <2>2 DEF Put
  <2> QED BY <1>1, <2>2, <2>3, ValKept
<1> QED BY <1>3, <1>4

\* So does one to the copy of the other worker.
LEMMA OtherWritten ==
  ASSUME NEW m, Separate(m), NEW f \in Fields, NEW v, Fits(f, v), NEW n \in Written(m, "other", f, v)
  PROVE  Separate(n) /\ n.at = m.at /\ \A k \in Holders \ {"other"} : Val(n, k) = Val(m, k)
<1>1. m \in Memory /\ "other" \in Holders /\ m.at["other"][f] = "other"
  BY DEF Separate, Apart, Holders
<1>2. Put(m, n, "other", f, v, "other")
  BY <1>1, AssignedFacts, ThroughFacts DEF Written
<1>3. Separate(n)
  BY <1>2 DEF Separate, Apart, Put, Holders
<1>4. ASSUME NEW k \in Holders \ {"other"} PROVE Val(n, k) = Val(m, k)
  <2>1. \A e \in Fields : m.at[k][e] \in Holders \ {"other"}
    BY DEF Separate, Apart, Holders
  <2> QED BY <1>1, <1>2, <2>1, ValKept DEF Put
<1>5. n.at = m.at
  <2>1. \A k \in Holders : \A e \in Fields : n.at[k][e] = m.at[k][e]
    BY <1>1, <1>2 DEF Put
  <2>2. \A k \in Holders : n.at[k] = m.at[k]
    BY <1>1, <1>2, <2>1 DEF Put, Memory
  <2> QED BY <1>1, <1>2, <2>2 DEF Put, Memory
<1> QED BY <1>3, <1>4, <1>5

-----------------------------------------------------------------------------
\* Values that fit.

Records == [mac : Macs, state : States]

\* The fields of an object have values of their types,
LEMMA FieldTypes ==
  ASSUME NEW o \in Objects
  PROVE  /\ o.spec \in [paused : BOOLEAN, macs : SUBSET Macs]
         /\ o.conditions \in [Conds -> {"Unknown", "True", "False"}]
         /\ o.ipv4 \in {Nil} \cup {[entries |-> e] : e \in SUBSET {"VM", "RESERVED"}}
         /\ o.agentPodRef \in {Nil} \cup [image : 1 .. 2, named : BOOLEAN]
         /\ o.networkConfigs \subseteq Records
BY DEF Objects, Records

\* ... and a value of its type may be put into a field.
LEMMA FieldsFit ==
  /\ \A v \in [paused : BOOLEAN, macs : SUBSET Macs] : Fits("spec", v)
  /\ \A v \in [Conds -> {"Unknown", "True", "False"}] : Fits("conditions", v)
  /\ \A v \in {Nil} \cup {[entries |-> e] : e \in SUBSET {"VM", "RESERVED"}} : Fits("ipv4", v)
  /\ \A v \in {Nil} \cup [image : 1 .. 2, named : BOOLEAN] : Fits("agentPodRef", v)
  /\ \A v \in SUBSET Records : Fits("networkConfigs", v)
BY DEF Fits, Objects, Records

\* A condition is set by one of the two writes.
LEMMA CondWritten ==
  ASSUME NEW m \in Memory, NEW h \in Holders, NEW c, NEW v \in {"True", "False"},
         NEW x, x = [Val(m, h).conditions EXCEPT ![c] = v]
  PROVE  Fits("conditions", x) /\ WithCond(m, h, c, v) \in Written(m, h, "conditions", x)
<1>1. Val(m, h).conditions \in [Conds -> {"Unknown", "True", "False"}]
  BY ValFacts, FieldTypes
<1>2. x \in [Conds -> {"Unknown", "True", "False"}]
  BY <1>1
<1>3. WithCond(m, h, c, v) \in Written(m, h, "conditions", x)
  BY DEF WithCond, Written
<1> QED BY <1>2, <1>3, FieldsFit

-----------------------------------------------------------------------------
\* What copies leave alone.

\* n is m with a copy of g in h.
CopiedTo(m, n, h, g) ==
  /\ n \in Memory /\ Val(n, h) = Val(m, g)
  /\ \A k \in Holders : \A f \in Fields : n.at[k][f] = IF k = h THEN h ELSE m.at[k][f]
  /\ \A k \in Holders \ {h} : (\A f \in Fields : m.at[k][f] # h) => Val(n, k) = Val(m, k)

\* DeepCopy gives h the value of g, and keeps whatever has no field in h's cells.
LEMMA CopiedFacts ==
  ASSUME NEW m \in Memory, NEW h \in Holders, NEW g \in Holders, NEW n, n = DeepCopied(m, h, g)
  PROVE  CopiedTo(m, n, h, g)
<1>1. /\ n \in Memory
      /\ \A k \in Holders : /\ n.heap[k] = IF k = h THEN Val(m, g) ELSE m.heap[k]
                            /\ n.at[k] = IF k = h THEN Own(h) ELSE m.at[k]
  BY DeepCopiedFacts, SMTT(30)
<1>2. \A f \in Fields : n.at[h][f] = h
  BY <1>1, OwnFacts
<1>3. Val(n, h) = Val(m, g)
  BY <1>1, <1>2 DEF Val
<1>4. ASSUME NEW k \in Holders \ {h}, \A f \in Fields : m.at[k][f] # h PROVE Val(n, k) = Val(m, k)
  <2>1. \A f \in Fields : m.at[k][f] \in Holders
    BY DEF Memory
  <2>2. \A f \in Fields : n.at[k][f] = m.at[k][f] /\ n.heap[m.at[k][f]][f] = m.heap[m.at[k][f]][f]
    BY <1>1, <1>4, <2>1
  <2> QED BY <1>1, <2>2, ValKept
<1> QED BY <1>1, <1>2, <1>3, <1>4 DEF CopiedTo

\* OnChange and the generated handler copy their argument.
LEMMA ObjCopied ==
  ASSUME NEW m, Separate(m), NEW n, n = DeepCopied(m, "obj", "arg")
  PROVE  /\ Separate(n) /\ Val(n, "obj") = Val(m, "arg")
         /\ \A k \in {"informer", "other", "origStatus", "arg"} : Val(n, k) = Val(m, k)
<1>1. m \in Memory /\ CopiedTo(m, n, "obj", "arg")
  BY CopiedFacts DEF Separate, Apart, Holders
<1>2. Separate(n)
  BY <1>1 DEF Separate, Apart, CopiedTo, Holders
<1>3. \A k \in {"informer", "other", "origStatus", "arg"} : Val(n, k) = Val(m, k)
  BY <1>1 DEF Separate, Apart, CopiedTo, Holders
<1> QED BY <1>1, <1>2, <1>3 DEF CopiedTo

\* The other worker copies the informer's object.
LEMMA OtherCopied ==
  ASSUME NEW m, Separate(m), NEW n, n = DeepCopied(m, "other", "informer")
  PROVE  /\ Separate(n) /\ Val(n, "other") = Val(m, "informer")
         /\ \A k \in Holders : \A f \in Fields : n.at[k][f] = m.at[k][f]
         /\ \A k \in Holders \ {"other"} : Val(n, k) = Val(m, k)
<1>1. m \in Memory /\ CopiedTo(m, n, "other", "informer")
  BY CopiedFacts DEF Separate, Apart, Holders
<1>2. Separate(n)
  BY <1>1 DEF Separate, Apart, CopiedTo, Holders
<1>3. \A k \in Holders \ {"other"} : \A f \in Fields : m.at[k][f] # "other"
  BY DEF Separate, Apart, Holders
<1>4. \A k \in Holders : \A f \in Fields : n.at[k][f] = m.at[k][f]
  BY <1>1 DEF Separate, Apart, CopiedTo
<1> QED BY <1>1, <1>2, <1>3, <1>4 DEF CopiedTo

\* The end of a handler: its argument is a copy of what it sent, and the rest goes.
LEMMA SentMemory ==
  ASSUME kind \in Kinds, NEW m, Apart(m),
         NEW gone \in {{"obj", "origStatus", "status"}, {"obj", "origStatus", "status", "arg"}},
         NEW n, n = Forgotten(DeepCopied(m, "arg", "obj"), gone)
  PROVE  /\ Separate(n) /\ Val(n, "informer") = Val(m, "informer")
         /\ "arg" \notin gone => Val(n, "arg") = Val(m, "obj")
<1> DEFINE copied == DeepCopied(m, "arg", "obj")
<1>1. m \in Memory /\ CopiedTo(m, copied, "arg", "obj")
  BY CopiedFacts DEF Apart, Holders
<1>2. /\ n \in Memory
      /\ \A h \in Holders : /\ n.heap[h] = IF h \in gone THEN NewObject ELSE copied.heap[h]
                            /\ n.at[h] = IF h \in gone THEN Own(h) ELSE copied.at[h]
  <2>1. gone \in SUBSET Holders
    BY DEF Holders
  <2> QED BY <1>1, <2>1, ForgottenFacts DEF CopiedTo
<1> HIDE DEF copied
<1>3. \A h \in Holders : \A f \in Fields :
        n.at[h][f] = IF h \in gone \cup {"arg"} THEN h ELSE m.at[h][f]
  BY <1>1, <1>2, OwnFacts DEF CopiedTo
<1>4. Separate(n)
  BY <1>2, <1>3 DEF Separate, Apart, Holders
<1>5. ASSUME NEW k \in {"informer", "arg"} \ gone PROVE Val(n, k) = Val(copied, k)
  <2>1. k \in Holders /\ copied \in Memory
    BY <1>1 DEF Holders, CopiedTo
  <2>2. \A f \in Fields : copied.at[k][f] = k
    BY <1>1, <2>1 DEF Apart, CopiedTo
  <2>3. \A f \in Fields : n.at[k][f] = copied.at[k][f] /\ n.heap[copied.at[k][f]][f] = copied.heap[copied.at[k][f]][f]
    BY <1>2, <1>5, <2>1, <2>2, SMTT(30), ZenonT(60)
  <2> QED BY <1>2, <2>1, <2>3, ValKept
<1>6. Val(copied, "arg") = Val(m, "obj") /\ Val(copied, "informer") = Val(m, "informer")
  BY <1>1 DEF CopiedTo, Apart, Holders
<1> QED BY <1>4, <1>5, <1>6

-----------------------------------------------------------------------------
\* The invariant.

WorkerStates ==
  [at : {"DeployAgent", "BuildCache", "MonitorAgent", "Allocate", "Sync", "OnChange"},
   step : {"idle", "begins", "handles", "ends"}, err : {"none", "error", "conflict"}, current : BOOLEAN]

Types ==
  /\ kind \in Kinds /\ api \in Objects /\ fresh \in BOOLEAN /\ wk \in WorkerStates
  /\ oc \in [sending : BOOLEAN, current : BOOLEAN, asSpec : BOOLEAN] /\ held \subseteq Macs
  /\ passes \in 0 .. MaxPasses[kind] /\ writes \in 0 .. MaxWrites[kind]

Arg == Val(mem, "arg")

\* The generated handler compares with what its handler was given, and the handler
\* finds its status in its object.
HandlerSound ==
  /\ wk.step \in {"handles", "ends"} => Val(mem, "origStatus") = Arg
  /\ wk.step = "handles" => Obj = Arg /\ \A f \in Fields : mem.at["status"][f] = "obj"

\* Allocate and Sync start from the records that are stored, if theirs is the stored
\* version, and Sync has released what is not in its status any more.
RecordsSound ==
  /\ wk.step # "idle" /\ wk.at \in {"Allocate", "Sync"} /\ wk.current =>
       Arg.networkConfigs = api.networkConfigs
  /\ wk.step = "ends" /\ wk.at = "Allocate" => Obj.networkConfigs = Arg.networkConfigs
  /\ wk.step = "ends" /\ wk.at = "Sync" /\ wk.err = "none" =>
       (MacsOf(Arg.networkConfigs) \ MacsOf(Val(mem, "status").networkConfigs)) \cap held = {}

CopiesInv ==
  /\ Types /\ Separate(mem)
  /\ fresh => Val(mem, "informer") = api
  /\ HandlerSound /\ RecordsSound

\* The kind stays, and with it what an object is.
LEMMA SeparateStays ==
  ASSUME kind' = kind, Separate(mem') PROVE Separate(mem)' /\ Objects' = Objects
<1>1. Objects' = Objects
  BY DEF Objects, Conds
<1> QED BY <1>1 DEF Separate, Apart, Memory

\* A handler ends, and the worker goes on with what it sent or kept.
LEMMA SentInv ==
  ASSUME CopiesInv, NEW m, Apart(m), NEW changed \in BOOLEAN, Sent(m, changed),
         wk.step \in {"begins", "ends"}, held' \subseteq Macs,
         Val(m, "informer") = Val(mem, "informer"),
         wk.at = "Allocate" /\ wk.current /\ ~changed => Val(m, "obj").networkConfigs = api.networkConfigs
  PROVE  CopiesInv' /\ Val(mem, "informer")' = Val(mem, "informer")
<1> DEFINE accepted == changed /\ wk.current
<1>1. /\ Types /\ kind' = kind /\ passes' = passes /\ writes' = writes
      /\ api' = IF accepted THEN StatusOf(api, Val(m, "obj")) ELSE api
      /\ fresh' = IF accepted THEN FALSE ELSE fresh
      /\ oc' = IF accepted THEN [oc EXCEPT !.current = FALSE] ELSE oc
      /\ wk' = IF wk.at = "OnChange" THEN Idle
               ELSE [wk EXCEPT !.at = After[wk.at], !.step = "begins", !.err = "none"]
  BY DEF CopiesInv, Sent, bounds
<1>2. PICK gone \in {{"obj", "origStatus", "status"}, {"obj", "origStatus", "status", "arg"}} :
        mem' = Forgotten(DeepCopied(m, "arg", "obj"), gone) /\ (wk.at # "OnChange" => "arg" \notin gone)
  BY DEF Sent
<1>3. /\ Separate(mem') /\ Val(mem', "informer") = Val(m, "informer")
      /\ wk.at # "OnChange" => Val(mem', "arg") = Val(m, "obj")
  BY <1>1, <1>2, SentMemory DEF Types
<1>4. Val(m, "obj") \in Objects
  BY ValFacts DEF Apart, Holders
<1>5. StatusOf(api, Val(m, "obj")) \in Objects
    /\ StatusOf(api, Val(m, "obj")).networkConfigs = Val(m, "obj").networkConfigs
  BY <1>1, <1>4 DEF Types, StatusOf, Objects
<1>6. Separate(mem)' /\ Objects' = Objects
  BY <1>1, <1>3, SeparateStays
<1>7. wk' \in WorkerStates
  <2>1. wk \in WorkerStates /\ Idle \in WorkerStates
    BY <1>1 DEF Types, WorkerStates, Idle
  <2>2. CASE wk.at # "OnChange"
    <3>1. PICK next \in {"BuildCache", "MonitorAgent", "Sync", "OnChange"} : next = After[wk.at]
      BY <2>1, <2>2 DEF WorkerStates, After
    <3>2. wk' = [wk EXCEPT !.at = next, !.step = "begins", !.err = "none"]
      BY <1>1, <2>2, <3>1
    <3> QED BY <2>1, <3>2 DEF WorkerStates
  <2> QED BY <1>1, <2>1, <2>2
<1>8. Types'
  BY <1>1, <1>5, <1>6, <1>7 DEF Types
<1>9. (fresh => Val(mem, "informer") = api)'
  BY <1>1, <1>3 DEF CopiesInv
<1>10. wk'.step \in {"idle", "begins"} /\ (wk'.at \in {"Allocate", "Sync"} /\ wk'.step # "idle" => wk.at = "Allocate")
       /\ (wk'.step # "idle" => wk'.current = wk.current)
  BY <1>1 DEF Types, WorkerStates, Idle, After
<1>11. HandlerSound'
  BY <1>10 DEF HandlerSound
<1>12. RecordsSound'
  BY <1>1, <1>3, <1>5, <1>10 DEF RecordsSound, Arg
<1> QED BY <1>3, <1>6, <1>8, <1>9, <1>11, <1>12 DEF CopiesInv

\* Nothing that the invariant looks at changes but the stored object, of which nobody
\* has the latest version now.
LEMMA StoredInv ==
  ASSUME CopiesInv, api' \in Objects, fresh' = FALSE, wk' = [wk EXCEPT !.current = FALSE],
         UNCHANGED <<kind, held, passes>>, Separate(mem'), writes' \in 0 .. MaxWrites[kind],
         oc' \in [sending : BOOLEAN, current : BOOLEAN, asSpec : BOOLEAN],
         \A h \in Holders \ {"other"} : /\ Val(mem', h) = Val(mem, h)
                                        /\ \A f \in Fields : mem'.at[h][f] = mem.at[h][f]
  PROVE  CopiesInv'
<1>1. Separate(mem)' /\ Objects' = Objects
  BY SeparateStays
<1>2. wk' \in WorkerStates /\ wk'.at = wk.at /\ wk'.step = wk.step /\ wk'.err = wk.err /\ wk'.current = FALSE
  BY DEF CopiesInv, Types, WorkerStates
<1>3. Types'
  BY <1>1, <1>2 DEF CopiesInv, Types
<1>4. /\ Arg' = Arg /\ Obj' = Obj /\ Val(mem, "status")' = Val(mem, "status")
      /\ Val(mem, "origStatus")' = Val(mem, "origStatus") /\ \A f \in Fields : mem'.at["status"][f] = mem.at["status"][f]
  BY DEF Arg, Obj, Holders
<1>5. HandlerSound'
  BY <1>2, <1>4 DEF CopiesInv, HandlerSound
<1>6. RecordsSound'
  BY <1>2, <1>4 DEF CopiesInv, RecordsSound
<1> QED BY <1>1, <1>3, <1>5, <1>6 DEF CopiesInv

\* A user pauses or resumes: nothing in memory changes.
LEMMA PauseInv ==
  ASSUME CopiesInv, PauseObject
  PROVE  CopiesInv' /\ Val(mem, "informer")' = Val(mem, "informer")
<1>1. api' \in Objects
  BY DEF CopiesInv, Types, PauseObject, Stored, Objects
<1>2. writes' \in 0 .. MaxWrites[kind]
  BY ConstantsAssumption DEF CopiesInv, Types, PauseObject
<1>3. oc' \in [sending : BOOLEAN, current : BOOLEAN, asSpec : BOOLEAN]
  BY DEF CopiesInv, Types, PauseObject
<1>4. /\ fresh' = FALSE /\ wk' = [wk EXCEPT !.current = FALSE] /\ UNCHANGED <<kind, held, passes>> /\ mem' = mem
  BY DEF PauseObject, Stored
<1>5. Separate(mem')
  BY <1>4 DEF CopiesInv
<1> QED BY <1>1, <1>2, <1>3, <1>4, <1>5, StoredInv

\* A worker that has the old object keeps it.
LEMMA DeliverInv ==
  ASSUME CopiesInv, Deliver
  PROVE  CopiesInv' /\ Val(mem', "informer") = api
<1> DEFINE kept == IF mem.at["arg"] = mem.at["informer"] THEN DeepCopied(mem, "arg", "arg") ELSE mem
<1>1. /\ mem \in Memory /\ Separate(mem) /\ Types
  BY DEF CopiesInv, Separate, Apart
<1>2. /\ kept \in Memory
      /\ \A k \in Holders : Val(kept, k) = Val(mem, k)
      /\ \A k \in Holders \ {"arg"} : \A f \in Fields : kept.at[k][f] = mem.at[k][f]
      /\ \A f \in Fields : kept.at["arg"][f] = "arg"
  <2>1. CASE mem.at["arg"] = mem.at["informer"]
    <3>1. CopiedTo(mem, kept, "arg", "arg")
      BY <1>1, <2>1, CopiedFacts DEF Holders
    <3>2. \A k \in Holders \ {"arg"} : \A f \in Fields : mem.at[k][f] # "arg"
      BY <1>1 DEF Separate, Apart, Holders
    <3> HIDE DEF kept
    <3> QED BY <3>1, <3>2 DEF CopiedTo, Holders
  <2>2. CASE mem.at["arg"] # mem.at["informer"]
    <3>1. mem.at["arg"] \in [Fields -> Holders] /\ mem.at["informer"] \in [Fields -> Holders]
      BY <1>1 DEF Memory, Holders
    <3>2. \A f \in Fields : mem.at["arg"][f] = "arg"
      BY <1>1, <2>2, <3>1 DEF Separate, Apart
    <3> QED BY <1>1, <2>2, <3>2
  <2> QED BY <2>1, <2>2
<1>3. mem' = [kept EXCEPT !.heap["informer"] = api, !.at["informer"] = Own("informer")]
  BY DEF Deliver
<1> HIDE DEF kept
<1>4. /\ mem' \in Memory
      /\ \A k \in Holders : mem'.heap[k] = IF k = "informer" THEN api ELSE kept.heap[k]
      /\ \A k \in Holders : mem'.at[k] = IF k = "informer" THEN Own("informer") ELSE kept.at[k]
  BY <1>1, <1>2, <1>3, OwnFacts DEF Memory, Types, Holders
<1>5. \A k \in Holders : \A f \in Fields :
        mem'.at[k][f] = IF k \in {"arg", "informer"} THEN k ELSE mem.at[k][f]
  BY <1>2, <1>4, OwnFacts
<1>6. Separate(mem')
  BY <1>1, <1>4, <1>5 DEF Separate, Apart, Holders
<1>7. ASSUME NEW k \in Holders \ {"informer"} PROVE Val(mem', k) = Val(mem, k)
  <2>1. \A f \in Fields : kept.at[k][f] \in Holders \ {"informer"}
    BY <1>1, <1>2 DEF Separate, Apart, Holders
  <2>2. \A f \in Fields : mem'.at[k][f] = kept.at[k][f] /\ mem'.heap[kept.at[k][f]][f] = kept.heap[kept.at[k][f]][f]
    BY <1>4, <2>1
  <2> QED BY <1>2, <1>4, <2>2, ValKept
<1>8. Val(mem', "informer") = api
  <2>1. \A f \in Fields : mem'.heap[mem'.at["informer"][f]][f] = api[f]
    BY <1>4, <1>5 DEF Holders
  <2>2. api = [f \in Fields |-> api[f]]
    BY <1>1, ObjectIsFunction DEF Types
  <2> QED BY <2>1, <2>2 DEF Val
<1>9. UNCHANGED <<kind, api, wk, oc, held, passes, writes>> /\ fresh' = TRUE
  BY DEF Deliver, bounds
<1>10. Separate(mem)' /\ Types'
  BY <1>1, <1>6, <1>9, SeparateStays DEF Types
<1>11. /\ Arg' = Arg /\ Obj' = Obj /\ Val(mem, "status")' = Val(mem, "status")
       /\ Val(mem, "origStatus")' = Val(mem, "origStatus") /\ \A f \in Fields : mem'.at["status"][f] = mem.at["status"][f]
  BY <1>5, <1>7 DEF Arg, Obj, Holders
<1>12. HandlerSound' /\ RecordsSound'
  BY <1>9, <1>11 DEF CopiesInv, HandlerSound, RecordsSound
<1> QED BY <1>8, <1>9, <1>10, <1>12 DEF CopiesInv

\* The worker gets the informer's object itself, and so the stored one if that is fresh.
LEMMA StartInv ==
  ASSUME CopiesInv, Start
  PROVE  CopiesInv' /\ Val(mem, "informer")' = Val(mem, "informer")
<1>1. mem \in Memory /\ Types
  BY DEF CopiesInv, Separate, Apart
<1>2. /\ mem' \in Memory /\ mem'.heap = mem.heap
      /\ \A k \in Holders : mem'.at[k] = IF k = "arg" THEN mem.at["informer"] ELSE mem.at[k]
  <2>1. mem' = Shared(mem, "arg", "informer")
    BY DEF Start
  <2> QED BY <1>1, <2>1, SharedFacts DEF Holders
<1>3. Separate(mem')
  BY <1>1, <1>2 DEF CopiesInv, Separate, Apart, Holders
<1>4. Val(mem', "informer") = Val(mem, "informer") /\ Val(mem', "arg") = Val(mem, "informer")
  <2>1. mem'.heap = mem.heap /\ mem'.at["informer"] = mem.at["informer"] /\ mem'.at["arg"] = mem.at["informer"]
    BY <1>2 DEF Holders
  <2> QED BY <2>1 DEF Val
<1>5. /\ UNCHANGED <<kind, api, fresh, oc, held, writes>> /\ passes < MaxPasses[kind] /\ passes' = passes + 1
      /\ wk' = [at |-> First, step |-> "begins", err |-> "none", current |-> fresh]
  BY DEF Start
<1>6. passes' \in 0 .. MaxPasses[kind]
  BY <1>1, <1>5, ConstantsAssumption DEF Types
<1>7. wk' \in WorkerStates /\ wk'.step = "begins" /\ wk'.current = fresh
  BY <1>1, <1>5 DEF Types, WorkerStates, First
<1>8. Separate(mem)' /\ Types'
  BY <1>1, <1>3, <1>5, <1>6, <1>7, SeparateStays DEF Types
<1>9. HandlerSound'
  BY <1>7 DEF HandlerSound
<1>10. RecordsSound'
  BY <1>4, <1>5, <1>7 DEF CopiesInv, RecordsSound, Arg
<1> QED BY <1>4, <1>5, <1>8, <1>9, <1>10 DEF CopiesInv

\* The generated handler makes its two copies and shares the status with the object.
LEMMA BeginsInv ==
  ASSUME CopiesInv, syncBegins
  PROVE  CopiesInv' /\ Val(mem, "informer")' = Val(mem, "informer")
<1> DEFINE orig == DeepCopied(mem, "origStatus", "arg")
           obj == DeepCopied(orig, "obj", "arg")
<1>1. mem \in Memory /\ Separate(mem) /\ Types
  BY DEF CopiesInv, Separate, Apart
<1>2. CopiedTo(mem, orig, "origStatus", "arg")
  BY <1>1, CopiedFacts DEF Holders
<1>3. mem' = Shared(obj, "status", "obj")
  BY DEF syncBegins
<1> HIDE DEF orig
<1>4. /\ Separate(orig) /\ Val(orig, "origStatus") = Arg
      /\ Val(orig, "arg") = Arg /\ Val(orig, "informer") = Val(mem, "informer")
  BY <1>1, <1>2 DEF CopiedTo, Separate, Apart, Holders, Arg
<1>5. /\ Separate(obj) /\ Val(obj, "obj") = Arg
      /\ \A k \in {"informer", "origStatus", "arg"} : Val(obj, k) = Val(orig, k)
  BY <1>4, ObjCopied
<1> HIDE DEF obj
<1>6. obj \in Memory
  BY <1>5 DEF Separate, Apart
<1>7. /\ mem' \in Memory /\ mem'.heap = obj.heap
      /\ \A k \in Holders : mem'.at[k] = IF k = "status" THEN obj.at["obj"] ELSE obj.at[k]
  BY <1>3, <1>6, SharedFacts DEF Holders
<1>8. Separate(mem') /\ \A f \in Fields : mem'.at["status"][f] = "obj"
  BY <1>5, <1>7 DEF Separate, Apart, Holders
<1>9. \A k \in {"informer", "origStatus", "arg", "obj"} : Val(mem', k) = Val(obj, k)
  BY <1>7 DEF Val, Holders
<1>10. /\ UNCHANGED <<kind, api, fresh, oc, held, passes, writes>>
       /\ wk.step = "begins" /\ wk' = [wk EXCEPT !.step = "handles"]
  BY DEF syncBegins, bounds
<1>11. wk' \in WorkerStates /\ wk'.step = "handles" /\ wk'.at = wk.at /\ wk'.current = wk.current
  BY <1>1, <1>10 DEF Types, WorkerStates
<1>12. Separate(mem)' /\ Types'
  BY <1>1, <1>8, <1>10, <1>11, SeparateStays DEF Types
<1>13. Arg' = Arg /\ Val(mem', "origStatus") = Arg /\ Obj' = Arg /\ Val(mem', "informer") = Val(mem, "informer")
  BY <1>4, <1>5, <1>9 DEF Arg, Obj
<1>14. HandlerSound'
  BY <1>8, <1>13 DEF HandlerSound
<1>15. RecordsSound'
  BY <1>10, <1>11, <1>13 DEF CopiesInv, RecordsSound
<1> QED BY <1>10, <1>12, <1>13, <1>14, <1>15 DEF CopiesInv

\* A handler is through, having written at most into its status.
LEMMA HandledInv ==
  ASSUME CopiesInv, wk.step = "handles", NEW m, Separate(m),
         \A k \in {"informer", "origStatus", "arg"} : Val(m, k) = Val(mem, k),
         NEW err \in {"none", "error", "conflict"}, NEW caches \in SUBSET Macs,
         Handled(m, err, caches),
         wk.at = "Allocate" => Val(m, "obj").networkConfigs = Arg.networkConfigs,
         wk.at = "Sync" /\ err = "none" =>
           (MacsOf(Arg.networkConfigs) \ MacsOf(Val(m, "status").networkConfigs)) \cap caches = {}
  PROVE  CopiesInv' /\ Val(mem, "informer")' = Val(mem, "informer")
<1>1. Types /\ mem' = m /\ held' = caches /\ UNCHANGED <<kind, api, fresh, oc, passes, writes>>
  BY DEF CopiesInv, Handled, bounds
<1>2. wk' \in WorkerStates /\ wk'.step = "ends" /\ wk'.at = wk.at /\ wk'.current = wk.current /\ wk'.err = err
  BY <1>1 DEF Types, WorkerStates, Handled
<1>3. Separate(mem)' /\ Types'
  BY <1>1, <1>2, SeparateStays DEF Types
<1>4. Arg' = Arg /\ Val(mem', "origStatus") = Val(mem, "origStatus") /\ Val(mem', "informer") = Val(mem, "informer")
  BY <1>1 DEF Arg
<1>5. HandlerSound'
  BY <1>2, <1>4 DEF CopiesInv, HandlerSound
<1>6. RecordsSound'
  BY <1>1, <1>2, <1>4 DEF CopiesInv, RecordsSound, Obj
<1> QED BY <1>1, <1>3, <1>4, <1>5, <1>6 DEF CopiesInv

\* DeployAgent writes the image, and then the reference, through its status.
LEMMA DeployAgentInv ==
  ASSUME CopiesInv, DeployAgent
  PROVE  CopiesInv' /\ Val(mem, "informer")' = Val(mem, "informer")
<1> DEFINE image == ImageWritten(2)
<1>1. /\ Separate(mem) /\ wk.step = "handles" /\ wk.at = "DeployAgent" /\ held \in SUBSET Macs
      /\ mem \in Memory
  BY DEF CopiesInv, Types, DeployAgent, Handling, Separate, Apart
<1>2. /\ Separate(image) /\ \A k \in {"informer", "origStatus", "arg"} : Val(image, k) = Val(mem, k)
  <2>1. Obj.agentPodRef \in {Nil} \cup [image : 1 .. 2, named : BOOLEAN]
    BY <1>1, ValFacts, FieldTypes DEF Obj, Holders
  <2>2. PICK ref \in [image : 1 .. 2, named : BOOLEAN] : image \in Written(mem, "status", "agentPodRef", ref)
    <3>1. CASE Obj.agentPodRef = Nil
      <4>1. [image |-> 2, named |-> FALSE] \in [image : 1 .. 2, named : BOOLEAN]
        OBVIOUS
      <4> QED BY <3>1, <4>1 DEF ImageWritten, Written
    <3>2. CASE Obj.agentPodRef # Nil
      BY <2>1, <3>2 DEF ImageWritten, Written
    <3> QED BY <3>1, <3>2
  <2> HIDE DEF image
  <2>3. Fits("agentPodRef", ref) /\ "agentPodRef" \in Fields
    BY FieldsFit DEF Fields
  <2> QED BY <1>1, <2>2, <2>3, StatusWritten
<1> HIDE DEF image
<1> DEFINE named == Through(image, "status", "agentPodRef", [image |-> 2, named |-> TRUE])
<1>3. /\ Separate(named) /\ \A k \in {"informer", "origStatus", "arg"} : Val(named, k) = Val(mem, k)
  <2>1. [image |-> 2, named |-> TRUE] \in [image : 1 .. 2, named : BOOLEAN]
    OBVIOUS
  <2>2. Fits("agentPodRef", [image |-> 2, named |-> TRUE]) /\ "agentPodRef" \in Fields
    BY <2>1, FieldsFit DEF Fields
  <2>3. named \in Written(image, "status", "agentPodRef", [image |-> 2, named |-> TRUE])
    BY DEF Written
  <2> HIDE DEF named
  <2> QED BY <1>2, <2>2, <2>3, StatusWritten
<1> HIDE DEF named
<1>4. \E m \in {mem, image, named} : \E err \in {"none", "error"} : Handled(m, err, held)
  BY DEF DeployAgent, image, named
<1> QED BY <1>1, <1>2, <1>3, <1>4, HandledInv

\* BuildCache and MonitorAgent write nothing.
LEMMA ReadersInv ==
  ASSUME CopiesInv, BuildCache \/ MonitorAgent
  PROVE  CopiesInv' /\ Val(mem, "informer")' = Val(mem, "informer")
<1>1. /\ Separate(mem) /\ wk.step = "handles" /\ wk.at \in {"BuildCache", "MonitorAgent"}
      /\ held \in SUBSET Macs /\ \E err \in {"none", "error"} : Handled(mem, err, held)
  BY DEF CopiesInv, Types, BuildCache, MonitorAgent, Handling
<1> QED BY <1>1, HandledInv

\* Allocate assigns a new slice to its status, which leaves the object alone.
LEMMA AllocateInv ==
  ASSUME CopiesInv, Allocate
  PROVE  CopiesInv' /\ Val(mem, "informer")' = Val(mem, "informer")
<1>1. /\ Separate(mem) /\ wk.step = "handles" /\ wk.at = "Allocate" /\ held \in SUBSET Macs
      /\ mem \in Memory /\ Obj = Arg
  BY DEF CopiesInv, Types, Allocate, Handling, Separate, Apart, HandlerSound
<1>2. Obj.spec.macs \in SUBSET Macs
  BY <1>1, ValFacts, FieldTypes DEF Obj, Holders
<1> DEFINE records == {[mac |-> mac, state |-> "Allocated"] : mac \in Obj.spec.macs}
           m == Assigned(mem, "status", "networkConfigs", records)
<1>3. CASE \E err \in {"error", "conflict"} : \E caches \in SUBSET Macs : Handled(mem, err, caches)
  BY <1>1, <1>3, HandledInv DEF Obj
<1>4. CASE Handled(m, "none", held \cup Obj.spec.macs)
  <2>1. records \in SUBSET Records
    BY <1>2 DEF Records, States
  <2> HIDE DEF records
  <2>2. Fits("networkConfigs", records) /\ "networkConfigs" \in Fields
    BY <2>1, FieldsFit DEF Fields
  <2>3. m \in Written(mem, "status", "networkConfigs", records)
    BY DEF Written
  <2>4. /\ Separate(m) /\ Val(m, "obj") = Obj
        /\ \A k \in {"informer", "origStatus", "arg"} : Val(m, k) = Val(mem, k)
    BY <1>1, <2>2, <2>3, StatusWritten DEF Obj
  <2>5. held \cup Obj.spec.macs \in SUBSET Macs
    BY <1>1, <1>2
  <2> HIDE DEF m
  <2> QED BY <1>1, <1>4, <2>4, <2>5, HandledInv
<1>5. \/ \E err \in {"error", "conflict"} : \E caches \in SUBSET Macs : Handled(mem, err, caches)
      \/ Handled(m, "none", held \cup Obj.spec.macs)
  <2>1. \A got \in SUBSET Obj.spec.macs : held \cup got \in SUBSET Macs
    BY <1>1, <1>2
  <2> QED BY <1>1, <2>1 DEF Allocate
<1> QED BY <1>3, <1>4, <1>5

\* Sync marks the stale records in the status, and cleanup finds them in the object,
\* because a write through the status is one through the object then.
LEMMA SyncInv ==
  ASSUME CopiesInv, Sync
  PROVE  CopiesInv' /\ Val(mem, "informer")' = Val(mem, "informer")
<1> DEFINE gone == {nc \in Obj.networkConfigs : nc.mac \notin Obj.spec.macs}
           kept == Obj.networkConfigs \ gone
           records == kept \cup {[nc EXCEPT !.state = "Stale"] : nc \in gone}
           marked == Through(mem, "status", "networkConfigs", records)
           stale == MacsOf({nc \in Val(marked, "obj").networkConfigs : nc.state = "Stale"})
           final == Assigned(marked, "status", "networkConfigs", kept)
<1>1. /\ Separate(mem) /\ wk.step = "handles" /\ wk.at = "Sync" /\ held \in SUBSET Macs
      /\ mem \in Memory /\ Obj = Arg /\ \A f \in Fields : mem.at["status"][f] = "obj"
  <2>1. Handling("Sync")
    BY DEF Sync
  <2> QED BY <2>1 DEF CopiesInv, Types, Handling, Separate, Apart, HandlerSound
<1>2. Obj.networkConfigs \in SUBSET Records /\ "networkConfigs" \in Fields
  <2>1. Obj \in Objects
    BY <1>1, ValFacts DEF Obj, Holders
  <2> QED BY <2>1, FieldTypes DEF Fields
<1>3. gone \in SUBSET Records /\ kept \in SUBSET Records /\ kept \cup gone = Obj.networkConfigs
  BY <1>2
<1>4. \A nc \in Records : /\ [nc EXCEPT !.state = "Stale"] \in Records
                          /\ [nc EXCEPT !.state = "Stale"].state = "Stale"
                          /\ [nc EXCEPT !.state = "Stale"].mac = nc.mac /\ nc.mac \in Macs
  BY DEF Records, States
<1>5. \/ \E err \in {"none", "error"} : (err = "none" => Obj.conditions["InSynced"] = "True") /\ Handled(mem, err, held)
      \/ Handled(final, "none", held \ stale)
      \/ \E released \in SUBSET stale : \E err \in {"error", "conflict"} : Handled(marked, err, held \ released)
  BY DEF Sync
<1> HIDE DEF gone, kept
<1>6. /\ records \in SUBSET Records
      /\ \A nc \in gone : \E r \in records : r.state = "Stale" /\ r.mac = nc.mac
  BY <1>3, <1>4
<1> HIDE DEF records
<1>7. Fits("networkConfigs", records) /\ Fits("networkConfigs", kept)
  BY <1>3, <1>6, FieldsFit
<1>8. marked \in Written(mem, "status", "networkConfigs", records)
  BY DEF Written
<1>9. Put(mem, marked, "status", "networkConfigs", records, "obj")
  BY <1>1, <1>2, <1>7, ThroughFacts DEF Holders
<1> HIDE DEF marked
<1>10. /\ Separate(marked) /\ \A k \in {"informer", "origStatus", "arg"} : Val(marked, k) = Val(mem, k)
  BY <1>1, <1>2, <1>7, <1>8, StatusWritten
<1>11. Val(marked, "obj").networkConfigs = records
  <2>1. marked.at["obj"]["networkConfigs"] = "obj"
    BY <1>2, <1>10 DEF Separate
  <2>2. marked.heap["obj"]["networkConfigs"] = records
    BY <1>2, <1>9 DEF Put, Holders
  <2> QED BY <1>2, <2>1, <2>2 DEF Val
<1>12. final \in Written(marked, "status", "networkConfigs", kept)
  BY DEF Written
<1> HIDE DEF final
<1>13. /\ Separate(final) /\ \A k \in {"informer", "origStatus", "arg"} : Val(final, k) = Val(mem, k)
       /\ Val(final, "status")["networkConfigs"] = kept
  BY <1>2, <1>7, <1>10, <1>12, StatusWritten
<1>14. \A nc \in gone : nc.mac \in stale
  BY <1>6, <1>11 DEF MacsOf
<1>15. CASE \E err \in {"none", "error"} : (err = "none" => Obj.conditions["InSynced"] = "True") /\ Handled(mem, err, held)
  <2>1. \A f \in Fields : Val(mem, "status")[f] = Obj[f]
    BY <1>1 DEF Val, Obj, Separate, Apart
  <2>2. MacsOf(Arg.networkConfigs) \ MacsOf(Val(mem, "status").networkConfigs) = {}
    BY <1>1, <1>2, <2>1
  <2> QED BY <1>1, <1>15, <2>2, HandledInv
<1>16. CASE Handled(final, "none", held \ stale)
  <2> HIDE DEF stale
  <2>1. (MacsOf(Arg.networkConfigs) \ MacsOf(Val(final, "status").networkConfigs)) \cap (held \ stale) = {}
    BY <1>1, <1>3, <1>13, <1>14 DEF MacsOf
  <2>2. held \ stale \in SUBSET Macs
    BY <1>1
  <2> QED BY <1>1, <1>13, <1>16, <2>1, <2>2, HandledInv
<1>17. CASE \E released \in SUBSET stale : \E err \in {"error", "conflict"} : Handled(marked, err, held \ released)
  <2>1. PICK released \in SUBSET stale, err \in {"error", "conflict"} : Handled(marked, err, held \ released)
    BY <1>17
  <2>2. held \ released \in SUBSET Macs
    BY <1>1
  <2> QED BY <1>1, <1>10, <2>1, <2>2, HandledInv
<1> QED BY <1>5, <1>15, <1>16, <1>17

-----------------------------------------------------------------------------
\* The end of a generated status handler: s is the status it has come to.

EndsWith(s) ==
  /\ \A f \in Fields \ {"conditions"} : s[f] = IF wk.err = "none" THEN Val(mem, "status")[f] ELSE Arg[f]
  /\ wk.err # "none" => \A c \in Conds \ {CondOf[wk.at]} : s.conditions[c] = Arg.conditions[c]
  /\ api' = IF s # Arg /\ wk.current THEN StatusOf(api, s) ELSE api
  /\ UNCHANGED held

\* After an error the status is the one that was copied before the handler was called.
LEMMA RevertedFacts ==
  ASSUME CopiesInv, wk.step = "ends", NEW m, m = Reverted
  PROVE  /\ Separate(m) /\ \A k \in {"informer", "origStatus", "obj"} : Val(m, k) = Val(mem, k)
         /\ Val(m, "status") = IF wk.err = "none" THEN Val(mem, "status") ELSE Arg
<1>1. mem \in Memory /\ Separate(mem) /\ Val(mem, "origStatus") = Arg
  BY DEF CopiesInv, Separate, Apart, HandlerSound
<1>2. CASE wk.err = "none"
  BY <1>1, <1>2 DEF Reverted
<1>3. CASE wk.err # "none"
  <2>1. CopiedTo(mem, m, "status", "origStatus")
    BY <1>1, <1>3, CopiedFacts DEF Reverted, Holders
  <2>2. Separate(m)
    BY <1>1, <2>1 DEF Separate, Apart, CopiedTo, Holders
  <2>3. \A k \in {"informer", "origStatus", "obj"} : Val(m, k) = Val(mem, k)
    BY <1>1, <2>1 DEF Separate, Apart, CopiedTo, Holders
  <2> QED BY <1>1, <1>3, <2>1, <2>2, <2>3 DEF CopiedTo
<1> QED BY <1>2, <1>3

\* Then the condition of the handler is set in it.
LEMMA SetErrorFacts ==
  ASSUME CopiesInv, wk.step = "ends", NEW m, m = SetError(Reverted, CondOf[wk.at])
  PROVE  /\ Separate(m) /\ Val(m, "informer") = Val(mem, "informer") /\ Val(m, "origStatus") = Arg
         /\ \A f \in Fields \ {"conditions"} :
              /\ Val(m, "status")[f] = IF wk.err = "none" THEN Val(mem, "status")[f] ELSE Arg[f]
              /\ Val(m, "obj")[f] = Obj[f]
         /\ wk.err # "none" => \A c \in Conds \ {CondOf[wk.at]} :
              Val(m, "status").conditions[c] = Arg.conditions[c]
<1> DEFINE n == Reverted
           cond == CondOf[wk.at]
           v == IF wk.err = "error" THEN "False" ELSE "True"
           conds == Val(n, "status").conditions
           x == [conds EXCEPT ![cond] = v]
<1>1. /\ Separate(n) /\ Val(n, "informer") = Val(mem, "informer")
      /\ Val(n, "origStatus") = Val(mem, "origStatus") /\ Val(n, "obj") = Obj
      /\ Val(n, "status") = IF wk.err = "none" THEN Val(mem, "status") ELSE Arg
  BY RevertedFacts DEF Obj
<1>2. m = WithCond(n, "status", cond, v)
  BY DEF SetError
<1> HIDE DEF n, cond
<1>3. n \in Memory
  BY <1>1 DEF Separate, Apart
<1>4. Fits("conditions", x) /\ m \in Written(n, "status", "conditions", x) /\ "conditions" \in Fields
  BY <1>2, <1>3, CondWritten DEF Holders, Fields
<1>5. conds \in [Conds -> {"Unknown", "True", "False"}]
  BY <1>3, ValFacts, FieldTypes DEF Holders
<1>6. \A c \in Conds \ {cond} : x[c] = conds[c]
  BY <1>5
<1>7. Val(mem, "origStatus") = Arg
  BY DEF CopiesInv, HandlerSound
<1> HIDE DEF x
<1>8. /\ Separate(m) /\ \A k \in {"informer", "origStatus"} : Val(m, k) = Val(n, k)
      /\ Val(m, "status").conditions = x
      /\ \A e \in Fields \ {"conditions"} : /\ Val(m, "status")[e] = Val(n, "status")[e]
                                            /\ Val(m, "obj")[e] = Val(n, "obj")[e]
  BY <1>1, <1>4, StatusWritten
<1>9. wk.err # "none" => \A c \in Conds \ {cond} : Val(m, "status").conditions[c] = Arg.conditions[c]
  BY <1>1, <1>6, <1>8
<1> QED BY <1>1, <1>7, <1>8, <1>9 DEF cond

\* The generated handler sends the status it has come to, if it differs from its copy.
LEMMA EndsInv ==
  ASSUME CopiesInv, syncEnds
  PROVE  /\ CopiesInv' /\ Val(mem, "informer")' = Val(mem, "informer")
         /\ \E s \in Objects : EndsWith(s)
<1> DEFINE m == SetError(Reverted, CondOf[wk.at])
           changed == Val(m, "origStatus") # Val(m, "status")
           n == IF changed THEN Shared(m, "obj", "status") ELSE m
           s == Val(m, "status")
<1>1. wk.step = "ends" /\ Sent(n, changed) /\ held' = held
  BY DEF syncEnds
<1>2. /\ Separate(m) /\ Val(m, "informer") = Val(mem, "informer") /\ Val(m, "origStatus") = Arg
      /\ \A f \in Fields \ {"conditions"} :
           /\ s[f] = IF wk.err = "none" THEN Val(mem, "status")[f] ELSE Arg[f]
           /\ Val(m, "obj")[f] = Obj[f]
      /\ wk.err # "none" => \A c \in Conds \ {CondOf[wk.at]} : s.conditions[c] = Arg.conditions[c]
  BY <1>1, SetErrorFacts
<1> HIDE DEF m
<1>3. m \in Memory /\ s \in Objects
  BY <1>2, ValFacts DEF Separate, Apart, Holders
<1>4. Apart(n) /\ Val(n, "informer") = Val(m, "informer") /\ (changed => Val(n, "obj") = s)
      /\ (~changed => n = m)
  <2>1. CASE changed
    <3>1. /\ n \in Memory /\ n.heap = m.heap
          /\ \A k \in Holders : n.at[k] = IF k = "obj" THEN m.at["status"] ELSE m.at[k]
      BY <1>3, <2>1, SharedFacts DEF Holders
    <3> HIDE DEF n
    <3>2. Apart(n)
      BY <1>2, <3>1 DEF Separate, Apart, Holders
    <3>3. Val(n, "informer") = Val(m, "informer") /\ Val(n, "obj") = s
      BY <3>1 DEF Val, Holders
    <3> QED BY <2>1, <3>2, <3>3
  <2>2. CASE ~changed
    BY <1>2, <2>2 DEF Separate
  <2> QED BY <2>1, <2>2
<1> HIDE DEF n
<1>5. wk.at = "Allocate" /\ wk.current /\ ~changed => Val(n, "obj").networkConfigs = api.networkConfigs
  <2>1. wk.at = "Allocate" /\ wk.current => Obj.networkConfigs = api.networkConfigs
    BY <1>1 DEF CopiesInv, RecordsSound
  <2>2. ~changed => Val(n, "obj")["networkConfigs"] = Obj["networkConfigs"]
    BY <1>2, <1>4 DEF Fields
  <2> QED BY <2>1, <2>2
<1>6. held' \subseteq Macs
  BY <1>1 DEF CopiesInv, Types
<1>7. CopiesInv' /\ Val(mem, "informer")' = Val(mem, "informer")
  BY <1>1, <1>2, <1>4, <1>5, <1>6, SentInv
<1>8. api' = IF s # Arg /\ wk.current THEN StatusOf(api, s) ELSE api
  BY <1>1, <1>2, <1>4 DEF Sent
<1>9. EndsWith(s)
  BY <1>1, <1>2, <1>8 DEF EndsWith
<1> QED BY <1>3, <1>7, <1>9

-----------------------------------------------------------------------------
\* OnChange.

\* A condition that OnChange sets is set in its copy only.
LEMMA ObjCondWritten ==
  ASSUME NEW m, Separate(m), NEW c, NEW v \in {"True", "False"}, NEW n, n = WithCond(m, "obj", c, v)
  PROVE  /\ Separate(n) /\ Val(n, "informer") = Val(m, "informer") /\ Val(n, "arg") = Val(m, "arg")
<1> DEFINE x == [Val(m, "obj").conditions EXCEPT ![c] = v]
<1>1. m \in Memory
  BY DEF Separate, Apart
<1>2. Fits("conditions", x) /\ n \in Written(m, "obj", "conditions", x) /\ "conditions" \in Fields
  BY <1>1, CondWritten DEF Holders, Fields
<1> HIDE DEF x
<1> QED BY <1>2, ObjWritten

\* OnChange starts with a copy of its argument.
LEMMA CopiedSeparate ==
  ASSUME CopiesInv
  PROVE  /\ Separate(Copied) /\ Val(Copied, "informer") = Val(mem, "informer") /\ Val(Copied, "arg") = Arg
         /\ Arg \in Objects
<1>1. Separate(mem)
  BY DEF CopiesInv
<1>2. Arg \in Objects
  BY <1>1, ValFacts DEF Arg, Separate, Apart, Holders
<1> QED BY <1>1, <1>2, ObjCopied DEF Copied, Arg

\* Whatever it has written to the copy, it may send.
LEMMA ChangeSent ==
  ASSUME CopiesInv, wk.step = "begins", wk.at = "OnChange", held' \subseteq Macs,
         NEW m, Separate(m), Val(m, "informer") = Val(mem, "informer"),
         Ends(m) \/ Sent(m, FALSE)
  PROVE  CopiesInv' /\ Val(mem, "informer")' = Val(mem, "informer")
<1>1. PICK changed \in BOOLEAN : Sent(m, changed)
  BY DEF Ends
<1>2. Apart(m)
  BY DEF Separate
<1> QED BY <1>1, <1>2, SentInv

\* OnChange of the ippool controller writes to its copy, which it may send.
LEMMA PoolOnChangeInv ==
  ASSUME CopiesInv, PoolOnChange
  PROVE  CopiesInv' /\ Val(mem, "informer")' = Val(mem, "informer")
<1> DEFINE ipv4 == Arg.ipv4
           ref == Assigned(Copied, "obj", "agentPodRef", Nil)
           stopped == WithCond(ref, "obj", "Stopped", "True")
           started == WithCond(Copied, "obj", "Stopped", "False")
           unready == WithCond(started, "obj", "CacheReady", "False")
           filled == IF ipv4 = Nil
                     THEN Assigned(started, "obj", "ipv4", [entries |-> {"RESERVED"}])
                     ELSE Through(started, "obj", "ipv4", [ipv4 EXCEPT !.entries = @ \cup {"RESERVED"}])
           ok(m) == Separate(m) /\ Val(m, "informer") = Val(mem, "informer")
<1>1. /\ ok(Copied) /\ Arg \in Objects
  BY CopiedSeparate
<1>2. ok(ref)
  <2>1. Fits("agentPodRef", Nil) /\ "agentPodRef" \in Fields
    BY FieldsFit DEF Fields
  <2>2. ref \in Written(Copied, "obj", "agentPodRef", Nil)
    BY DEF Written
  <2> HIDE DEF ref
  <2> QED BY <1>1, <2>1, <2>2, ObjWritten
<1>3. ok(stopped)
  <2> HIDE DEF ref
  <2> QED BY <1>2, ObjCondWritten
<1>4. ok(started)
  BY <1>1, ObjCondWritten
<1>5. ok(unready)
  <2> HIDE DEF started
  <2> QED BY <1>4, ObjCondWritten
<1>6. ok(filled)
  <2> HIDE DEF started
  <2>1. Arg.ipv4 \in {Nil} \cup {[entries |-> e] : e \in SUBSET {"VM", "RESERVED"}}
    BY <1>1, FieldTypes
  <2>2. PICK e \in SUBSET {"VM", "RESERVED"} : filled \in Written(started, "obj", "ipv4", [entries |-> e])
    <3>1. CASE ipv4 = Nil
      BY <3>1 DEF Written
    <3>2. CASE ipv4 # Nil
      <4>1. PICK e \in SUBSET {"VM", "RESERVED"} : ipv4 = [entries |-> e]
        BY <2>1, <3>2
      <4>2. [ipv4 EXCEPT !.entries = @ \cup {"RESERVED"}] = [entries |-> e \cup {"RESERVED"}]
        BY <4>1
      <4> QED BY <3>2, <4>2 DEF Written
    <3> QED BY <3>1, <3>2
  <2>3. Fits("ipv4", [entries |-> e]) /\ "ipv4" \in Fields
    BY FieldsFit DEF Fields
  <2> HIDE DEF filled
  <2> QED BY <1>4, <2>2, <2>3, ObjWritten
<1>7. /\ wk.step = "begins" /\ wk.at = "OnChange" /\ held' = held
      /\ Sent(Copied, FALSE) \/ \E m \in {stopped, unready, filled} : Ends(m)
  BY DEF PoolOnChange, Changing, Arg
<1>8. held' \subseteq Macs
  BY <1>7 DEF CopiesInv, Types
<1> HIDE DEF stopped, unready, filled
<1> QED BY <1>1, <1>3, <1>5, <1>6, <1>7, <1>8, ChangeSent

\* So does that of the vmnetcfg controller, which has released what it takes back.
LEMMA CfgOnChangeInv ==
  ASSUME CopiesInv, CfgOnChange
  PROVE  CopiesInv' /\ Val(mem, "informer")' = Val(mem, "informer")
<1> DEFINE ncs == Arg.networkConfigs
           pending == {[nc EXCEPT !.state = "Pending"] : nc \in ncs}
           disabled == WithCond(Copied, "obj", "Disabled", "True")
           cleaned == Through(disabled, "obj", "networkConfigs", pending)
           enabled == WithCond(Copied, "obj", "Disabled", "False")
           ok(m) == Separate(m) /\ Val(m, "informer") = Val(mem, "informer")
<1>1. /\ ok(Copied) /\ Arg \in Objects
  BY CopiedSeparate
<1>2. ok(disabled) /\ ok(enabled)
  BY <1>1, ObjCondWritten
<1>3. ok(cleaned)
  <2>1. pending \in SUBSET Records
    BY <1>1, FieldTypes DEF Records, States
  <2> HIDE DEF disabled, pending
  <2>2. Fits("networkConfigs", pending) /\ "networkConfigs" \in Fields
    BY <2>1, FieldsFit DEF Fields
  <2>3. cleaned \in Written(disabled, "obj", "networkConfigs", pending)
    BY DEF Written
  <2> HIDE DEF cleaned
  <2> QED BY <1>2, <2>2, <2>3, ObjWritten
<1>4. /\ wk.step = "begins" /\ wk.at = "OnChange" /\ \E released : held' = held \ released
      /\ Sent(Copied, FALSE) \/ \E m \in {cleaned, enabled} : Ends(m)
  BY DEF CfgOnChange, Changing, Arg
<1>5. held' \subseteq Macs
  BY <1>4 DEF CopiesInv, Types
<1> HIDE DEF cleaned, enabled
<1> QED BY <1>1, <1>2, <1>3, <1>4, <1>5, ChangeSent DEF enabled

-----------------------------------------------------------------------------
\* The other worker.

\* m is the memory with something else for the other worker.
OtherOnly(m) ==
  /\ Separate(m)
  /\ \A h \in Holders \ {"other"} : /\ Val(m, h) = Val(mem, h)
                                    /\ \A f \in Fields : m.at[h][f] = mem.at[h][f]

\* What the other worker does to its copy concerns nobody else.
LEMMA OtherKeeps ==
  ASSUME CopiesInv, OtherOnly(mem'), UNCHANGED <<kind, api, fresh, wk, held, passes>>,
         writes' \in 0 .. MaxWrites[kind],
         oc' \in [sending : BOOLEAN, current : BOOLEAN, asSpec : BOOLEAN]
  PROVE  CopiesInv' /\ Val(mem, "informer")' = Val(mem, "informer")
<1>1. Separate(mem)' /\ Objects' = Objects
  BY SeparateStays DEF OtherOnly
<1>2. Types'
  BY <1>1 DEF CopiesInv, Types
<1>3. /\ Arg' = Arg /\ Obj' = Obj /\ Val(mem, "status")' = Val(mem, "status")
      /\ Val(mem, "origStatus")' = Val(mem, "origStatus") /\ Val(mem, "informer")' = Val(mem, "informer")
      /\ \A f \in Fields : mem'.at["status"][f] = mem.at["status"][f]
  BY DEF OtherOnly, Arg, Obj, Holders
<1>4. HandlerSound' /\ RecordsSound'
  BY <1>3 DEF CopiesInv, HandlerSound, RecordsSound
<1> QED BY <1>1, <1>2, <1>3, <1>4 DEF CopiesInv

\* A change of its copy is one of them.
LEMMA OtherReadyInv ==
  ASSUME CopiesInv, NEW m, OtherOnly(m), NEW asSpec \in BOOLEAN, OtherReady(m, asSpec)
  PROVE  CopiesInv' /\ Val(mem, "informer")' = Val(mem, "informer")
<1>1. /\ mem' = m /\ UNCHANGED <<kind, api, fresh, wk, held, passes>>
      /\ oc' = [sending |-> TRUE, current |-> fresh, asSpec |-> asSpec]
      /\ writes < MaxWrites[kind] /\ writes' = writes + 1
  BY DEF OtherReady
<1>2. writes' \in 0 .. MaxWrites[kind]
  BY <1>1, ConstantsAssumption DEF CopiesInv, Types
<1>3. oc' \in [sending : BOOLEAN, current : BOOLEAN, asSpec : BOOLEAN]
  BY <1>1 DEF CopiesInv, Types
<1> QED BY <1>1, <1>2, <1>3, OtherKeeps

\* The copy it starts from, and any write to it.
LEMMA OtherCopy ==
  ASSUME CopiesInv
  PROVE  /\ OtherOnly(DeepCopied(mem, "other", "informer"))
         /\ \A m : OtherOnly(m) => /\ m \in Memory /\ Val(m, "other") \in Objects
                                   /\ Val(m, "informer") = Val(mem, "informer")
<1>1. Separate(mem)
  BY DEF CopiesInv
<1>2. OtherOnly(DeepCopied(mem, "other", "informer"))
  BY <1>1, OtherCopied DEF OtherOnly
<1>3. ASSUME NEW m, OtherOnly(m)
      PROVE  m \in Memory /\ Val(m, "other") \in Objects /\ Val(m, "informer") = Val(mem, "informer")
  BY <1>3, ValFacts DEF OtherOnly, Separate, Apart, Holders
<1> QED BY <1>2, <1>3

\* A write to its copy keeps everybody else's.
LEMMA OtherWrites ==
  ASSUME NEW m, OtherOnly(m), NEW f \in Fields, NEW v, Fits(f, v), NEW n \in Written(m, "other", f, v)
  PROVE  OtherOnly(n)
<1>1. Separate(n) /\ n.at = m.at /\ \A k \in Holders \ {"other"} : Val(n, k) = Val(m, k)
  BY OtherWritten DEF OtherOnly
<1> QED BY <1>1 DEF OtherOnly

\* Allocate and cleanup of the vmnetcfg controller write to their copy of the IPPool.
LEMMA EntryInv ==
  ASSUME CopiesInv, RecordEntry \/ UnrecordEntry
  PROVE  CopiesInv' /\ Val(mem, "informer")' = Val(mem, "informer")
<1> DEFINE m == DeepCopied(mem, "other", "informer")
           ipv4 == Val(m, "other").ipv4
<1>1. OtherOnly(m) /\ Val(m, "other") \in Objects
  BY OtherCopy
<1>2. \/ ipv4 = Nil /\ OtherReady(Assigned(m, "other", "ipv4", [entries |-> {"VM"}]), FALSE)
      \/ ipv4 # Nil /\ OtherReady(Through(m, "other", "ipv4", [ipv4 EXCEPT !.entries = @ \cup {"VM"}]), FALSE)
      \/ ipv4 # Nil /\ OtherReady(Through(m, "other", "ipv4", [ipv4 EXCEPT !.entries = @ \ {"VM"}]), FALSE)
  BY DEF RecordEntry, UnrecordEntry
<1> HIDE DEF m
<1>3. ipv4 # Nil => \E e \in SUBSET {"VM", "RESERVED"} : ipv4 = [entries |-> e]
  BY <1>1, FieldTypes
<1>4. \E e \in SUBSET {"VM", "RESERVED"} : \E n \in Written(m, "other", "ipv4", [entries |-> e]) : OtherReady(n, FALSE)
  <2>1. CASE ipv4 = Nil
    BY <1>2, <2>1 DEF Written
  <2>2. CASE ipv4 # Nil
    <3>1. PICK e \in SUBSET {"VM", "RESERVED"} : ipv4 = [entries |-> e]
      BY <1>3, <2>2
    <3>2. /\ [ipv4 EXCEPT !.entries = @ \cup {"VM"}] = [entries |-> e \cup {"VM"}]
          /\ [ipv4 EXCEPT !.entries = @ \ {"VM"}] = [entries |-> e \ {"VM"}]
      BY <3>1
    <3>3. e \cup {"VM"} \in SUBSET {"VM", "RESERVED"} /\ e \ {"VM"} \in SUBSET {"VM", "RESERVED"}
      OBVIOUS
    <3> HIDE DEF ipv4
    <3> QED BY <1>2, <2>2, <3>2, <3>3 DEF Written
  <2> QED BY <2>1, <2>2
<1>5. PICK e \in SUBSET {"VM", "RESERVED"} :
        \E n \in Written(m, "other", "ipv4", [entries |-> e]) : OtherReady(n, FALSE)
  BY <1>4
<1>6. Fits("ipv4", [entries |-> e]) /\ "ipv4" \in Fields
  BY FieldsFit DEF Fields
<1>7. PICK n \in Written(m, "other", "ipv4", [entries |-> e]) : OtherReady(n, FALSE)
  BY <1>5
<1>8. OtherOnly(n)
  BY <1>1, <1>6, OtherWrites
<1> QED BY <1>7, <1>8, OtherReadyInv

\* OnChange of the vm controller writes to its copy of the network config.
LEMMA VMChangedInv ==
  ASSUME CopiesInv, VMChanged
  PROVE  CopiesInv' /\ Val(mem, "informer")' = Val(mem, "informer")
<1> DEFINE m == DeepCopied(mem, "other", "informer")
           old == Val(m, "other").spec
           changed(macs) == Assigned(m, "other", "spec", [old EXCEPT !.macs = macs])
           marked(macs) == WithCond(changed(macs), "other", "InSynced", "False")
<1>1. OtherOnly(m) /\ Val(m, "other") \in Objects
  BY OtherCopy
<1>2. PICK macs \in SUBSET Macs : OtherReady(changed(macs), TRUE) \/ OtherReady(marked(macs), FALSE)
  BY DEF VMChanged
<1> HIDE DEF m
<1> DEFINE spec == [old EXCEPT !.macs = macs]
           n == Assigned(m, "other", "spec", spec)
<1>3. OtherOnly(n)
  <2>1. spec \in [paused : BOOLEAN, macs : SUBSET Macs]
    BY <1>1, FieldTypes
  <2> HIDE DEF spec
  <2>2. Fits("spec", spec) /\ "spec" \in Fields
    BY <2>1, FieldsFit DEF Fields
  <2>3. n \in Written(m, "other", "spec", spec)
    BY DEF Written
  <2> HIDE DEF n
  <2> QED BY <1>1, <2>2, <2>3, OtherWrites
<1>4. \/ OtherReady(n, TRUE)
      \/ OtherReady(WithCond(n, "other", "InSynced", "False"), FALSE)
  BY <1>2
<1> HIDE DEF n
<1>5. OtherOnly(WithCond(n, "other", "InSynced", "False"))
  <2> DEFINE x == [Val(n, "other").conditions EXCEPT !["InSynced"] = "False"]
             c == WithCond(n, "other", "InSynced", "False")
  <2>1. n \in Memory
    BY <1>3, OtherCopy
  <2>2. Fits("conditions", x) /\ c \in Written(n, "other", "conditions", x) /\ "conditions" \in Fields
    BY <2>1, CondWritten DEF Holders, Fields
  <2> HIDE DEF x, c
  <2>3. OtherOnly(c)
    BY <1>3, <2>2, OtherWrites
  <2> QED BY <2>3 DEF c
<1> QED BY <1>3, <1>4, <1>5, OtherReadyInv

\* A write that is accepted outdates what the worker has; its own copy is forgotten.
LEMMA OtherSendsInv ==
  ASSUME CopiesInv, OtherSends
  PROVE  CopiesInv' /\ Val(mem, "informer")' = Val(mem, "informer")
<1> DEFINE new == Val(mem, "other")
<1>1. Separate(mem) /\ mem \in Memory /\ Types
  BY DEF CopiesInv, Separate, Apart
<1>2. /\ mem' \in Memory
      /\ \A h \in Holders : /\ mem'.heap[h] = IF h = "other" THEN NewObject ELSE mem.heap[h]
                            /\ mem'.at[h] = IF h = "other" THEN Own(h) ELSE mem.at[h]
  <2>1. mem' = Forgotten(mem, {"other"}) /\ {"other"} \in SUBSET Holders
    BY DEF OtherSends, Holders
  <2> QED BY <1>1, <2>1, ForgottenFacts DEF Types
<1>3. \A h \in Holders : \A f \in Fields : mem'.at[h][f] = mem.at[h][f]
  <2>1. \A f \in Fields : mem.at["other"][f] = "other" /\ Own("other")[f] = "other"
    BY <1>1, OwnFacts DEF Separate, Apart, Holders
  <2> QED BY <1>2, <2>1
<1>4. Separate(mem')
  BY <1>1, <1>2, <1>3 DEF Separate, Apart, Holders
<1>5. ASSUME NEW k \in Holders \ {"other"} PROVE Val(mem', k) = Val(mem, k)
  <2>1. \A f \in Fields : mem.at[k][f] \in Holders \ {"other"}
    BY <1>1 DEF Separate, Apart, Holders
  <2>2. \A f \in Fields : mem'.at[k][f] = mem.at[k][f] /\ mem'.heap[mem.at[k][f]][f] = mem.heap[mem.at[k][f]][f]
    BY <1>2, <1>3, <2>1
  <2> QED BY <1>1, <1>2, <2>2, ValKept
<1>6. /\ oc' = [sending |-> FALSE, current |-> FALSE, asSpec |-> FALSE]
      /\ UNCHANGED <<kind, held, passes, writes>>
  BY DEF OtherSends, bounds
<1>7. oc' \in [sending : BOOLEAN, current : BOOLEAN, asSpec : BOOLEAN] /\ writes' \in 0 .. MaxWrites[kind]
  BY <1>1, <1>6 DEF Types
<1>8. CASE oc.current
  <2>1. new \in Objects /\ api \in Objects
    BY <1>1, ValFacts DEF Types, Holders
  <2>2. [api EXCEPT !.spec = new.spec] \in Objects /\ StatusOf(api, new) \in Objects
    BY <2>1 DEF Objects, StatusOf
  <2>3. /\ api' \in {[api EXCEPT !.spec = new.spec], StatusOf(api, new)} /\ fresh' = FALSE
        /\ wk' = [wk EXCEPT !.current = FALSE]
    BY <1>8 DEF OtherSends, Stored
  <2>4. api' \in Objects
    BY <2>2, <2>3
  <2>5. CopiesInv'
    BY <1>3, <1>4, <1>5, <1>6, <1>7, <2>3, <2>4, StoredInv
  <2> QED BY <1>5, <2>5 DEF Holders
<1>9. CASE ~oc.current
  <2>1. UNCHANGED <<api, fresh, wk>>
    BY <1>9 DEF OtherSends
  <2>2. OtherOnly(mem')
    BY <1>3, <1>4, <1>5 DEF OtherOnly
  <2> QED BY <1>6, <1>7, <2>1, <2>2, OtherKeeps
<1> QED BY <1>8, <1>9

-----------------------------------------------------------------------------
\* Every step.

\* At the start nothing is shared, and the informer has the stored object.
LEMMA InitInv == ASSUME Init PROVE CopiesInv
<1>1. NewObject \in Objects
  BY NewObjectFits DEF Init
<1>2. api \in Objects
  <2>1. PICK ref \in {Nil} \cup [image : {1}, named : {TRUE}] :
          api = [NewObject EXCEPT !.agentPodRef = IF kind = "ippool" THEN ref ELSE Nil]
    BY DEF Init
  <2>2. PICK r \in {Nil} \cup [image : 1 .. 2, named : BOOLEAN] : api = [NewObject EXCEPT !["agentPodRef"] = r]
    <3>1. ref \in {Nil} \cup [image : 1 .. 2, named : BOOLEAN]
      <4>1. ASSUME ref \in [image : {1}, named : {TRUE}] PROVE ref \in [image : 1 .. 2, named : BOOLEAN]
        <5>1. ref = [image |-> ref.image, named |-> ref.named] /\ ref.image \in {1} /\ ref.named \in {TRUE}
          BY <4>1
        <5>2. ref.named \in BOOLEAN
          BY <5>1, Zenon
        <5>3. ref.image \in 1 .. 2
          BY <5>1
        <5> QED BY <5>1, <5>2, <5>3
      <4> QED BY <4>1
    <3> QED BY <2>1, <3>1
  <2>3. Fits("agentPodRef", r)
    BY FieldsFit
  <2> QED BY <1>1, <2>2, <2>3 DEF Fits
<1>3. /\ mem \in Memory
      /\ \A h \in Holders : mem.heap[h] = IF h = "informer" THEN api ELSE NewObject
      /\ \A h \in Holders : mem.at[h] = Own(h)
  BY <1>1, <1>2, OwnFacts DEF Init, Memory
<1>4. \A h \in Holders : \A f \in Fields : mem.at[h][f] = h
  BY <1>3, OwnFacts
<1>5. Separate(mem)
  BY <1>3, <1>4 DEF Separate, Apart, Holders
<1>6. Val(mem, "informer") = api
  <2>1. \A f \in Fields : mem.heap[mem.at["informer"][f]][f] = api[f]
    BY <1>3, <1>4 DEF Holders
  <2>2. api = [f \in Fields |-> api[f]]
    BY <1>2, ObjectIsFunction
  <2> QED BY <2>1, <2>2 DEF Val
<1>7. Types
  BY <1>2, ConstantsAssumption DEF Init, Types, WorkerStates, Idle
<1>8. HandlerSound /\ RecordsSound
  BY DEF Init, Idle, HandlerSound, RecordsSound
<1> QED BY <1>5, <1>6, <1>7, <1>8 DEF CopiesInv

\* The memory of the process stays as the handlers rely on, and only Deliver gives the
\* informer another object: the stored one.
LEMMA CopiesStep ==
  ASSUME CopiesInv, [Next]_vars
  PROVE  /\ CopiesInv'
         /\ \/ Val(mem, "informer")' = Val(mem, "informer")
            \/ Deliver /\ Val(mem, "informer")' = api
<1>1. CASE UNCHANGED vars
  <2>1. /\ UNCHANGED <<kind, api, fresh, mem, wk, oc, held, passes, writes>>
    BY <1>1 DEF vars
  <2>2. OtherOnly(mem')
    BY <2>1 DEF OtherOnly, CopiesInv
  <2> QED BY <2>1, <2>2, OtherKeeps DEF CopiesInv, Types
<1>2. CASE PauseObject
  BY <1>2, PauseInv
<1>3. CASE Deliver
  BY <1>3, DeliverInv
<1>4. CASE Start
  BY <1>4, StartInv
<1>5. CASE syncBegins
  BY <1>5, BeginsInv
<1>6. CASE Handlers
  BY <1>6, DeployAgentInv, ReadersInv, AllocateInv, SyncInv DEF Handlers
<1>7. CASE syncEnds
  BY <1>7, EndsInv
<1>8. CASE PoolOnChange \/ CfgOnChange
  BY <1>8, PoolOnChangeInv, CfgOnChangeInv
<1>9. CASE Other
  BY <1>9, EntryInv, VMChangedInv, OtherSendsInv DEF Other
<1> QED BY <1>1, <1>2, <1>3, <1>4, <1>5, <1>6, <1>7, <1>8, <1>9 DEF Next, Worker

\* Only the generated status handler goes on after a handler.
LEMMA OnlyEnds ==
  ASSUME CopiesInv, Next, wk.step = "ends", wk'.step # "ends"
  PROVE  syncEnds
<1>1. wk \in WorkerStates
  BY DEF CopiesInv, Types
<1>2. ~PauseObject /\ ~OtherSends
  BY <1>1 DEF PauseObject, OtherSends, WorkerStates
<1>3. ~Deliver /\ ~Start /\ ~syncBegins
  BY DEF Deliver, Start, syncBegins
<1>4. ~Handlers
  BY DEF Handlers, DeployAgent, BuildCache, MonitorAgent, Allocate, Sync, Handling
<1>5. ~PoolOnChange /\ ~CfgOnChange
  BY DEF PoolOnChange, CfgOnChange, Changing
<1>6. ~RecordEntry /\ ~UnrecordEntry /\ ~VMChanged
  BY DEF RecordEntry, UnrecordEntry, VMChanged, OtherReady
<1> QED BY <1>2, <1>3, <1>4, <1>5, <1>6 DEF Next, Worker, Other

\* So the invariant holds throughout.
LEMMA CopiesSound == Spec => []CopiesInv
<1>1. Init => CopiesInv
  BY InitInv
<1>2. CopiesInv /\ [Next]_vars => CopiesInv'
  BY CopiesStep
<1> QED BY <1>1, <1>2, PTL DEF Spec

\* Every variable that holds an object holds one, whoever's memory is behind its fields,
\* and the worker, the other one and the counters stay in their ranges.
THEOREM CopiesTypes == Spec => []TypeOK
<1>1. CopiesInv => TypeOK
  <2> SUFFICES ASSUME CopiesInv PROVE TypeOK
    OBVIOUS
  <2>1. Types /\ mem \in Memory
    BY DEF CopiesInv, Separate, Apart
  <2>2. mem.at \in [Holders -> [Fields -> Holders]] /\ \A h \in Holders : Val(mem, h) \in Objects
    BY <2>1, ValFacts DEF Memory
  <2>3. /\ wk.at \in DOMAIN After \cup {"OnChange"} /\ wk.step \in {"idle", "begins", "handles", "ends"}
        /\ wk.err \in {"none", "error", "conflict"} /\ wk.current \in BOOLEAN
    BY <2>1 DEF Types, WorkerStates, After
  <2>4. oc.sending \in BOOLEAN /\ oc.current \in BOOLEAN /\ oc.asSpec \in BOOLEAN
    BY <2>1 DEF Types
  <2> QED BY <2>1, <2>2, <2>3, <2>4 DEF Types, TypeOK
<1> QED BY <1>1, CopiesSound, PTL

\* Workers read the informer's object and never write into it: their copies share
\* nothing with it, whatever the generated handlers and theirs share among themselves.
THEOREM InformerUntouched == Spec => InformerIntact
<1>1. CopiesInv /\ [Next]_vars =>
        [Val(mem, "informer")' # Val(mem, "informer") =>
           ~fresh /\ fresh' /\ Val(mem, "informer")' = api]_vars
  BY CopiesStep DEF Deliver
<1> QED BY <1>1, CopiesSound, PTL DEF Spec, InformerIntact

\* The generated status handler goes back to the copy it made before it called the
\* handler, so that what is stored after an error differs from what was read by the
\* handler's condition at most.
THEOREM FailuresReverted == Spec => ErrorsRevert
<1>1. ASSUME CopiesInv, Next, wk.step = "ends", wk'.step # "ends", wk.err # "none", api' # api
      PROVE  /\ \A f \in Fields \ {"spec", "conditions"} : api'[f] = Arg[f]
             /\ \A c \in Conds \ {CondOf[wk.at]} : api'.conditions[c] = Arg.conditions[c]
  <2>1. PICK s \in Objects : EndsWith(s)
    BY <1>1, OnlyEnds, EndsInv
  <2>2. api' = StatusOf(api, s)
    BY <1>1, <2>1 DEF EndsWith
  <2>3. \A f \in Fields \ {"spec"} : api'[f] = s[f]
    BY <2>2, ObjectIsFunction DEF StatusOf, Fields
  <2>4. api'["conditions"] = s["conditions"]
    BY <2>3 DEF Fields
  <2> QED BY <1>1, <2>1, <2>3, <2>4 DEF EndsWith
<1>2. CopiesInv /\ [Next]_vars =>
        [wk.step = "ends" /\ wk'.step # "ends" /\ wk.err # "none" /\ api' # api =>
           LET read == Val(mem, "arg") IN
           /\ \A f \in Fields \ {"spec", "conditions"} : api'[f] = read[f]
           /\ \A c \in Conds \ {CondOf[wk.at]} : api'.conditions[c] = read.conditions[c]]_vars
  BY <1>1 DEF Arg
<1> QED BY <1>2, CopiesSound, PTL DEF Spec, ErrorsRevert

\* The comparison that saves a write is with a copy that the handler cannot have
\* written to, so that no change of its is taken for none.
THEOREM ResultsSent == Spec => ChangesSent
<1>1. ASSUME CopiesInv, Next, wk.step = "ends", wk'.step # "ends", wk.err = "none", wk.current,
             NEW f \in Fields \ {"spec", "conditions"}, Val(mem, "status")[f] # Arg[f]
      PROVE  api'[f] = Val(mem, "status")[f]
  <2>1. PICK s \in Objects : EndsWith(s)
    BY <1>1, OnlyEnds, EndsInv
  <2>2. s[f] = Val(mem, "status")[f]
    BY <1>1, <2>1 DEF EndsWith
  <2>3. api' = StatusOf(api, s)
    BY <1>1, <2>1, <2>2 DEF EndsWith
  <2>4. api'[f] = s[f]
    BY <2>3, ObjectIsFunction DEF StatusOf, Fields
  <2> QED BY <2>2, <2>4
<1>2. CopiesInv /\ [Next]_vars =>
        [wk.step = "ends" /\ wk'.step # "ends" /\ wk.err = "none" /\ wk.current =>
           \A f \in Fields \ {"spec", "conditions"} :
             LET new == Val(mem, "status")[f]
             IN new # Val(mem, "arg")[f] => api'[f] = new]_vars
  BY <1>1 DEF Arg
<1> QED BY <1>2, CopiesSound, PTL DEF Spec, ChangesSent

\* Sync marks stale records through the status and cleanup looks for them in the
\* object, which is the same memory: no record is dropped with its address still held.
THEOREM StaleNotHeld == Spec => StaleReleased
<1>1. ASSUME CopiesInv, Next, wk.step = "ends", wk'.step # "ends", wk.at = "Sync"
      PROVE  (MacsOf(api.networkConfigs) \ MacsOf(api'.networkConfigs)) \cap held' = {}
  <2>1. PICK s \in Objects : EndsWith(s)
    BY <1>1, OnlyEnds, EndsInv
  <2>2. held' = held
    BY <2>1 DEF EndsWith
  <2>3. CASE api' = api
    BY <2>3
  <2>4. CASE api' # api
    <3>1. wk.current /\ api' = StatusOf(api, s)
      BY <2>1, <2>4 DEF EndsWith
    <3>2. api'["networkConfigs"] = s["networkConfigs"]
      BY <3>1, ObjectIsFunction DEF StatusOf, Fields
    <3>3. s["networkConfigs"] = IF wk.err = "none" THEN Val(mem, "status")["networkConfigs"] ELSE Arg["networkConfigs"]
      BY <2>1 DEF EndsWith, Fields
    <3>4. Arg.networkConfigs = api.networkConfigs
      BY <1>1, <3>1 DEF CopiesInv, RecordsSound
    <3>5. CASE wk.err = "none"
      BY <1>1, <2>2, <3>2, <3>3, <3>4, <3>5 DEF CopiesInv, RecordsSound
    <3>6. CASE wk.err # "none"
      BY <3>2, <3>3, <3>4, <3>6
    <3> QED BY <3>5, <3>6
  <2> QED BY <2>3, <2>4
<1>2. CopiesInv /\ [Next]_vars =>
        [wk.step = "ends" /\ wk'.step # "ends" /\ wk.at = "Sync" =>
           (MacsOf(api.networkConfigs) \ MacsOf(api'.networkConfigs)) \cap held' = {}]_vars
  BY <1>1
<1> QED BY <1>2, CopiesSound, PTL DEF Spec, StaleReleased
=============================================================================
