------------------------------ MODULE OwnedProofs ------------------------------
(***************************************************************************)
(* TeamCity objects of one namespace never touch each other's objects,      *)
(* proved for every number of them, every spec and label users may give     *)
(* them, and caches that lag.                                               *)
(***************************************************************************)
EXTENDS OwnedProperties, TLAPS

(* Labels *)

\* The labels of a TeamCity object hold the default one, and no other of its key
\* (GetLabels).
LEMMA DefaultLabelWins ==
    ASSUME NEW i, NEW labels
    PROVE  /\ <<"name", i>> \in GetLabels(i, labels)
           /\ \A pair \in GetLabels(i, labels) : pair[1] = "name" => pair[2] = i
  BY DEF GetLabels, mergeLabels, getDefaultLabelsFromInstanceName, Keys

\* So do those of its StatefulSets, which add a role (GetStatefulSetCommonLabels).
LEMMA CommonLabelsKeepName ==
    ASSUME NEW i, NEW role, NEW labels
    PROVE  /\ <<"name", i>> \in GetStatefulSetCommonLabels(i, role, labels)
           /\ \A pair \in GetStatefulSetCommonLabels(i, role, labels) :
                 pair[1] = "name" => pair[2] = i
  BY DefaultLabelWins DEF GetStatefulSetCommonLabels, mergeLabels, Keys

\* And those of a node, which add its name (GetStatefulSetLabels).
LEMMA NodeLabelsKeepName ==
    ASSUME NEW i, NEW o, NEW role, NEW labels
    PROVE  \A pair \in GetStatefulSetLabels(i, o, role, labels) :
              pair[1] = "name" => pair[2] = i
  <1> SUFFICES ASSUME NEW pair \in GetStatefulSetLabels(i, o, role, labels),
                      pair[1] = "name"
               PROVE  pair[2] = i
    OBVIOUS
  <1>1. pair \in GetStatefulSetCommonLabels(i, role, labels) \/ pair = <<"node-name", o>>
    BY DEF GetStatefulSetLabels, mergeLabels
  <1>2. pair # <<"node-name", o>>
    OBVIOUS
  <1> QED
    BY <1>1, <1>2, CommonLabelsKeepName

\* Labels are made of the pairs there are.
LEMMA LabelsType ==
    ASSUME NEW i \in Instances, NEW o \in NodeNames, NEW role \in {"main", "secondary"},
           NEW labels, labels \subseteq LabelPairs
    PROVE  /\ GetLabels(i, labels) \subseteq LabelPairs
           /\ GetStatefulSetLabels(i, o, role, labels) \subseteq LabelPairs
  <1>1. GetLabels(i, labels) \subseteq LabelPairs
    BY LabelsAssumption DEF GetLabels, mergeLabels
  <1>2. <<"role", role>> \in LabelPairs /\ <<"node-name", o>> \in LabelPairs
    BY LabelsAssumption
  <1> QED
    BY <1>1, <1>2 DEF GetStatefulSetLabels, GetStatefulSetCommonLabels, mergeLabels

\* The labels of an object without a node name, too.
LEMMA ObjectLabelsType ==
    ASSUME NEW i \in Instances, NEW labels, labels \subseteq LabelPairs
    PROVE  GetLabels(i, labels) \subseteq LabelPairs
  BY LabelsAssumption DEF GetLabels, mergeLabels

-------------------------------------------------------------------------------
(* Passes *)

\* There are six builders, and each has its name.
LEMMA BuilderValues ==
    /\ DOMAIN Builders = 1 .. 6 /\ Len(Builders) = 6
    /\ \A k \in 1 .. 6 :
          Builders[k] \in {"PersistentVolumeClaim", "ServiceAccount", "Service",
                           "Ingress", "StatefulSet", "SecondaryStatefulSet"}
  BY DEF Builders

\* Nobody's name is no TeamCity object, a spec lists names there are, of a size each.
LEMMA SpecType ==
    /\ NoOwner \notin Instances /\ NoTC \notin Specs
    /\ \A spec \in Specs, k \in DOMAIN Builders :
          /\ Wanted(spec, Builders[k]) \subseteq KindOf(Builders[k]) \cup {NoName}
          /\ Wanted(spec, Builders[k]) \subseteq Names \cup {NoName}
          /\ \A o \in Wanted(spec, Builders[k]) : spec.want[Builders[k]][o] \in Nat
    /\ \A spec \in Specs : spec.labels \subseteq LabelPairs
  <1>1. \A k \in DOMAIN Builders : KindOf(Builders[k]) \subseteq Names
    BY BuilderValues DEF KindOf, Names
  <1> QED
    BY <1>1, KindsAssumption, SpecsAssumption

\* The end of a pass is well typed, and deletes nothing.
LEMMA IdleType ==
    ASSUME pass' = IdlePass
    PROVE  PassTypeOK' /\ TodoIsOwn'
  <1>1. PassTypeOK'
    BY BuilderValues DEF IdlePass, PassTypeOK, At
  <1> QED
    BY <1>1 DEF TodoIsOwn, At, IdlePass

PassRecord ==
    [pc : {"idle", "list", "delete", "apply"}, instance : Instances \cup {NoOwner},
     inst : Specs \cup {NoTC}, builder : DOMAIN Builders, todo : SUBSET (Names \cup {NoName})]

\* So is where a pass goes from a loop; only the loop itself goes on deleting.
LEMMA NextLoopType ==
    ASSUME NEW p \in PassRecord, p.instance \in Instances, p.inst \in Specs,
           \/ p.pc = "delete" /\ p.todo \subseteq Names
           \/ p.pc = "apply" /\ p.todo \subseteq Wanted(p.inst, Builders[p.builder]),
           pass' = NextLoop(p)
    PROVE  PassTypeOK' /\ (At("delete")' => pass' = p)
  <1> DEFINE wanted == Wanted(p.inst, Builders[p.builder])
  <1>1. CASE p.todo # {}
    <2>1. pass' = p
      BY <1>1 DEF NextLoop
    <2> QED
      BY <2>1 DEF PassTypeOK, PassRecord, At, Builder
  <1>2. CASE p.todo = {} /\ p.pc = "delete" /\ wanted # {}
    <2>1. pass' = [p EXCEPT !.pc = "apply", !.todo = wanted]
      BY <1>2 DEF NextLoop
    <2>2. wanted \subseteq Names \cup {NoName}
      BY SpecType DEF PassRecord
    <2>3. pass' \in PassRecord /\ pass'.pc = "apply"
      BY <2>1, <2>2 DEF PassRecord
    <2>4. /\ pass'.instance = p.instance /\ pass'.inst = p.inst
          /\ pass'.builder = p.builder /\ pass'.todo = wanted
      BY <2>1 DEF PassRecord
    <2> QED
      BY <2>3, <2>4 DEF PassTypeOK, PassRecord, At, Builder
  <1>3. CASE pass' = IdlePass
    BY <1>3, IdleType DEF At, IdlePass
  <1>4. CASE /\ p.builder # Len(Builders)
             /\ pass' = [p EXCEPT !.pc = "list", !.builder = p.builder + 1]
    <2>1. p.builder + 1 \in DOMAIN Builders
      BY <1>4, BuilderValues DEF PassRecord
    <2> QED
      BY <1>4, <2>1 DEF PassTypeOK, PassRecord, At
  <1> QED
    BY <1>1, <1>2, <1>3, <1>4 DEF NextLoop

-------------------------------------------------------------------------------
(* What happens to objects *)

\* The part of the invariant that speaks of objects and their caches.
ObjectsInv ==
    /\ objects \in [Names -> Object \cup {Absent}] /\ seen \in [Names -> Object \cup {Absent}]
    /\ LabelsNameOwners /\ CacheKnowsOwners

\* The variables that hold neither objects nor the pass.
RestTypeOK ==
    /\ tc \in [Instances -> Specs \cup {NoTC}]
    /\ queued \subseteq Instances /\ delayed \subseteq Instances /\ missed \subseteq Instances
    /\ events \in [Names -> SUBSET Instances]
    /\ edits \in 0 .. MaxEdits /\ tampers \in 0 .. MaxTampers /\ faults \in 0 .. MaxFaults

\* The invariant in these parts.
LEMMA InvariantParts ==
    /\ OwnedInv <=> ObjectsInv /\ RestTypeOK /\ PassTypeOK /\ TodoIsOwn
    /\ OwnedInv' <=> ObjectsInv' /\ RestTypeOK' /\ PassTypeOK' /\ TodoIsOwn'
  BY DEF OwnedInv, OwnedTypeOK, ObjectsInv, RestTypeOK

\* Objects nobody touches are as before.
LEMMA ObjectsStay ==
    ASSUME ObjectsInv, UNCHANGED <<objects, seen>>
    PROVE  ObjectsInv'
  BY DEF ObjectsInv, LabelsNameOwners, CacheKnowsOwners, Exists

\* An event is for TeamCity objects there are.
LEMMA WriteType ==
    ASSUME events \in [Names -> SUBSET Instances], NEW o, NEW new, Write(o, new)
    PROVE  events' \in [Names -> SUBSET Instances]
  BY DEF Write, Controllers

\* A cache may learn the latest of an object, lose it, or be filled afresh.
LEMMA CacheMoves ==
    ASSUME ObjectsInv, UNCHANGED objects,
           \/ \E o \in Names : seen' = [seen EXCEPT ![o] = objects[o]]
           \/ \E o \in Names : seen' = [seen EXCEPT ![o] = Absent]
           \/ seen' = objects
    PROVE  ObjectsInv'
  <1>1. \A o \in Names : seen'[o] \in {seen[o], objects[o], Absent}
    BY DEF ObjectsInv
  <1>2. seen' \in [Names -> Object \cup {Absent}]
    BY DEF ObjectsInv
  <1>3. LabelsNameOwners'
    BY <1>1 DEF ObjectsInv, LabelsNameOwners, Exists
  <1>4. CacheKnowsOwners'
    BY <1>1 DEF ObjectsInv, CacheKnowsOwners, Exists
  <1> QED
    BY <1>2, <1>3, <1>4 DEF ObjectsInv

\* An object may be written if its labels name its controller, and the cache shows
\* neither controlled by another.
LEMMA ObjectWritten ==
    ASSUME ObjectsInv, NEW o \in Names, NEW new \in Object, NamesItsOwner(new),
           seen[o] # Absent /\ new.owner \in Instances => seen[o].owner \in {NoOwner, new.owner},
           objects' = [objects EXCEPT ![o] = new], UNCHANGED seen
    PROVE  ObjectsInv'
  <1>1. /\ objects'[o] = new
        /\ \A other \in Names \ {o} : objects'[other] = objects[other]
    BY DEF ObjectsInv
  <1>2. objects' \in [Names -> Object \cup {Absent}]
    BY DEF ObjectsInv
  <1>3. LabelsNameOwners' /\ CacheKnowsOwners'
    BY <1>1 DEF ObjectsInv, LabelsNameOwners, CacheKnowsOwners, Exists
  <1> QED
    BY <1>2, <1>3 DEF ObjectsInv

\* It may go, at once or once nobody uses it; its controller stays the same till then.
LEMMA ObjectDeleted ==
    ASSUME ObjectsInv, NEW o \in Names, Exists(o), NEW left \in Deletion(o) \cup {Absent},
           objects' = [objects EXCEPT ![o] = left], UNCHANGED seen
    PROVE  /\ ObjectsInv'
           /\ \A other \in Names : Exists(other)' =>
                  Exists(other) /\ objects'[other].owner = objects[other].owner
  <1>1. CASE left = Absent
    <2>1. /\ objects'[o] = Absent
          /\ \A other \in Names \ {o} : objects'[other] = objects[other]
      BY <1>1 DEF ObjectsInv
    <2>2. objects' \in [Names -> Object \cup {Absent}]
      BY <1>1 DEF ObjectsInv
    <2> QED
      BY <2>1, <2>2 DEF ObjectsInv, LabelsNameOwners, CacheKnowsOwners, Exists
  <1>2. CASE left = [objects[o] EXCEPT !.terminating = TRUE]
    <2>1. objects[o] \in Object
      BY DEF ObjectsInv, Exists
    <2>2. /\ left \in Object /\ left.owner = objects[o].owner
          /\ left.labels = objects[o].labels
      BY <1>2, <2>1 DEF Object
    <2>3. NamesItsOwner(left)
      BY <2>2 DEF ObjectsInv, LabelsNameOwners, NamesItsOwner
    <2>4. seen[o] # Absent /\ left.owner \in Instances => seen[o].owner \in {NoOwner, left.owner}
      BY <2>2 DEF ObjectsInv, CacheKnowsOwners
    <2>5. ObjectsInv'
      BY <2>2, <2>3, <2>4, ObjectWritten
    <2>6. /\ objects'[o] = left
          /\ \A other \in Names \ {o} : objects'[other] = objects[other]
      BY DEF ObjectsInv
    <2> QED
      BY <2>2, <2>5, <2>6 DEF Exists
  <1> QED
    BY <1>1, <1>2 DEF Deletion

\* What a pass is about to delete stays its own while others act.
LEMMA TodoStays ==
    ASSUME PassTypeOK, TodoIsOwn, UNCHANGED pass,
           \A o \in Names : Exists(o)' =>
               \/ Exists(o) /\ objects'[o].owner = objects[o].owner
               \/ objects'[o].owner = NoOwner
    PROVE  PassTypeOK' /\ TodoIsOwn'
  <1>1. PassTypeOK'
    BY DEF PassTypeOK, At, Builder
  <1>2. At("delete") => pass.todo \subseteq Names
    BY DEF PassTypeOK
  <1> QED
    BY <1>1, <1>2 DEF TodoIsOwn, At

-------------------------------------------------------------------------------
(* The steps of a pass *)

\* The invariant holds before the operator starts.
LEMMA InitOwnedInv == Init => OwnedInv
  <1> SUFFICES ASSUME Init PROVE OwnedInv
    OBVIOUS
  <1>1. ObjectsInv
    BY DEF Init, ObjectsInv, LabelsNameOwners, CacheKnowsOwners, Exists
  <1>2. RestTypeOK
    BY SpecsAssumption, BoundsAssumption DEF Init, RestTypeOK
  <1>3. PassTypeOK /\ TodoIsOwn
    BY BuilderValues DEF Init, IdlePass, PassTypeOK, TodoIsOwn, At
  <1> QED
    BY <1>1, <1>2, <1>3, InvariantParts

\* A pass starts with a copy of the TeamCity object, or ends at once.
LEMMA StartPassKept ==
    ASSUME OwnedInv, NEW i \in Instances, StartPass(i)
    PROVE  OwnedInv'
  <1>1. ObjectsInv'
    BY ObjectsStay, InvariantParts DEF StartPass
  <1>2. RestTypeOK'
    BY InvariantParts DEF StartPass, RestTypeOK, counters
  <1>3. CASE pass' = IdlePass
    BY <1>1, <1>2, <1>3, IdleType, InvariantParts
  <1>4. CASE /\ tc[i] # NoTC
             /\ pass' = [IdlePass EXCEPT !.pc = "list", !.instance = i, !.inst = tc[i]]
    <2>1. tc[i] \in Specs
      BY <1>4, InvariantParts DEF RestTypeOK
    <2>2. pass' = [pc |-> "list", instance |-> i, inst |-> tc[i], builder |-> 1, todo |-> {}]
      BY <1>4 DEF IdlePass
    <2>3. pass'.pc = "list" /\ pass'.instance = i /\ pass'.inst = tc[i]
      BY <2>2
    <2>4. pass' \in PassRecord
      BY <2>1, <2>2, BuilderValues DEF PassRecord
    <2>5. PassTypeOK' /\ TodoIsOwn'
      BY <2>1, <2>3, <2>4 DEF PassTypeOK, PassRecord, TodoIsOwn, At
    <2> QED
      BY <1>1, <1>2, <2>5, InvariantParts
  <1> QED
    BY <1>3, <1>4 DEF StartPass

\* What a builder finds obsolete carries the label of the pass's TeamCity object.
LEMMA ObsoleteIsLabelled ==
    ASSUME OwnedInv, At("list"), NEW o \in GetObsoleteObjects
    PROVE  o \in Names /\ seen[o] # Absent /\ <<"name", pass.instance>> \in seen[o].labels
  <1>1. pass.builder \in 1 .. 6
    BY BuilderValues DEF OwnedInv, OwnedTypeOK, PassTypeOK
  <1>2. <<"name", pass.instance>> \in SelectorLabels
    BY DefaultLabelWins DEF SelectorLabels
  <1>3. <<"name", pass.instance>> \in
            GetStatefulSetCommonLabels(pass.instance, "secondary", pass.inst.labels)
    BY CommonLabelsKeepName
  <1>4. Builder \in {"PersistentVolumeClaim", "ServiceAccount", "Service", "Ingress",
                     "StatefulSet", "SecondaryStatefulSet"}
    BY <1>1, BuilderValues DEF Builder
  <1>5. \/ o \in ObsoletePersistentVolumeClaims \/ o \in ObsoleteServiceAccounts
        \/ o \in ObsoleteServices \/ o \in ObsoleteIngresses
        \/ o \in ObsoleteSecondaryStatefulSets
    BY <1>4 DEF GetObsoleteObjects
  <1> QED
    BY <1>2, <1>3, <1>5
    DEF ObsoletePersistentVolumeClaims, ObsoleteServiceAccounts, ObsoleteServices,
        ObsoleteIngresses, ObsoleteSecondaryStatefulSets, Listed, MatchingLabels, Names

\* So it is the pass's own, or nobody's, at the API server too, however old the cache.
LEMMA ObsoleteIsOwn ==
    ASSUME OwnedInv, At("list"), NEW o \in GetObsoleteObjects, Exists(o)
    PROVE  objects[o].owner \in {NoOwner, pass.instance}
  <1>1. o \in Names /\ seen[o] # Absent /\ <<"name", pass.instance>> \in seen[o].labels
    BY ObsoleteIsLabelled
  <1>2. seen[o].owner = pass.instance /\ pass.instance # NoOwner
    BY <1>1, SpecType DEF OwnedInv, LabelsNameOwners, NamesItsOwner
  <1>3. objects[o] \in Object
    BY <1>1 DEF OwnedInv, OwnedTypeOK, Exists
  <1> QED
    BY <1>1, <1>2, <1>3 DEF OwnedInv, CacheKnowsOwners, Object

\* The listing keeps the invariant.
LEMMA ListObsoleteKept ==
    ASSUME OwnedInv, ListObsolete
    PROVE  OwnedInv'
  <1> DEFINE p == [pass EXCEPT !.pc = "delete", !.todo = GetObsoleteObjects]
  <1>1. ObjectsInv' /\ RestTypeOK'
    BY ObjectsStay, InvariantParts DEF ListObsolete, RestTypeOK, counters
  <1>2. At("list") /\ pass' = NextLoop(p)
    BY DEF ListObsolete
  <1>3. GetObsoleteObjects \subseteq Names
    BY <1>2, ObsoleteIsLabelled
  <1>4. /\ p \in PassRecord /\ p.instance \in Instances /\ p.inst \in Specs
        /\ p.pc = "delete" /\ p.todo \subseteq Names
    BY <1>2, <1>3, InvariantParts DEF PassTypeOK, PassRecord, At
  <1>5. PassTypeOK' /\ (At("delete")' => pass' = p)
    BY <1>2, <1>4, NextLoopType
  <1>6. ASSUME pass' = p, NEW o \in pass'.todo, Exists(o)'
        PROVE  objects'[o].owner \in {NoOwner, pass'.instance}
    <2>1. o \in GetObsoleteObjects /\ Exists(o) /\ pass'.instance = pass.instance
      BY <1>6, <1>4, InvariantParts DEF ListObsolete, Exists, PassTypeOK
    <2> QED
      BY <1>2, <2>1, ObsoleteIsOwn DEF ListObsolete
  <1>7. TodoIsOwn'
    BY <1>5, <1>6 DEF TodoIsOwn
  <1> QED
    BY <1>1, <1>5, <1>7, InvariantParts

\* What is deleted was the pass's own or nobody's, and so is what is left to delete.
LEMMA DeleteObsoleteKept ==
    ASSUME OwnedInv, DeleteObsolete
    PROVE  OwnedInv'
  <1>1. RestTypeOK'
    <2>1. events' \in [Names -> SUBSET Instances]
      BY WriteType, InvariantParts DEF DeleteObsolete, RestTypeOK
    <2> QED
      BY <2>1, InvariantParts DEF DeleteObsolete, RestTypeOK, counters, Retry, PassTypeOK, At
  <1>2. PICK o \in pass.todo :
            IF Exists(o)
            THEN /\ \E left \in Deletion(o) : objects' = [objects EXCEPT ![o] = left]
                 /\ pass' = NextLoop([pass EXCEPT !.todo = @ \ {o}])
            ELSE pass' = IdlePass /\ UNCHANGED objects
    BY DEF DeleteObsolete, Retry, Write
  <1>3. pass \in PassRecord /\ pass.todo \subseteq Names /\ pass.pc = "delete"
        /\ pass.instance \in Instances /\ pass.inst \in Specs /\ UNCHANGED seen
    BY InvariantParts DEF DeleteObsolete, PassTypeOK, PassRecord, At
  <1>4. CASE ~ Exists(o)
    <2>1. ObjectsInv'
      BY <1>2, <1>3, <1>4, ObjectsStay, InvariantParts
    <2> QED
      BY <1>1, <1>2, <1>4, <2>1, IdleType, InvariantParts
  <1>5. CASE Exists(o)
    <2> DEFINE p == [pass EXCEPT !.todo = @ \ {o}]
    <2>1. PICK left \in Deletion(o) : objects' = [objects EXCEPT ![o] = left]
      BY <1>2, <1>5
    <2>2. /\ ObjectsInv'
          /\ \A other \in Names : Exists(other)' =>
                 Exists(other) /\ objects'[other].owner = objects[other].owner
      BY <1>3, <1>5, <2>1, ObjectDeleted, InvariantParts
    <2>3. /\ p \in PassRecord /\ p.instance \in Instances /\ p.inst \in Specs
          /\ p.pc = "delete" /\ p.todo \subseteq pass.todo /\ p.instance = pass.instance
      BY <1>3 DEF PassRecord
    <2>4. pass' = NextLoop(p)
      BY <1>2, <1>5
    <2>5. PassTypeOK' /\ (At("delete")' => pass' = p)
      BY <1>3, <2>3, <2>4, NextLoopType
    <2>6. ASSUME pass' = p, NEW other \in pass'.todo, Exists(other)'
          PROVE  objects'[other].owner \in {NoOwner, pass'.instance}
      <3>1. other \in pass.todo /\ other \in Names
        BY <1>3, <2>3, <2>6
      <3>2. objects'[other].owner = objects[other].owner /\ Exists(other)
        BY <2>2, <2>6, <3>1
      <3>3. objects[other].owner \in {NoOwner, pass.instance}
        BY <1>3, <3>1, <3>2, InvariantParts DEF TodoIsOwn, At
      <3> QED
        BY <2>3, <2>6, <3>2, <3>3
    <2>7. TodoIsOwn'
      BY <2>5, <2>6 DEF TodoIsOwn
    <2> QED
      BY <1>1, <2>2, <2>5, <2>7, InvariantParts
  <1> QED
    BY <1>4, <1>5

\* What Update writes is an object of the pass's TeamCity object, labelled so.
LEMMA UpdateType ==
    ASSUME OwnedInv, At("apply"), NEW o \in Names, o \in pass.todo
    PROVE  /\ Update(o) \in Object /\ Update(o).owner = pass.instance
           /\ seen[o] = Absent \/ o \notin NodeNames \/ SetControllerReference(o)
                => NamesItsOwner(Update(o))
  <1> DEFINE labels == IF o \in NodeNames
                       THEN IF seen[o] = Absent THEN LabelsOfNode(o) ELSE seen[o].labels
                       ELSE SelectorLabels
             terminating == seen[o] # Absent /\ seen[o].terminating
             config == pass.inst.want[Builder][o]
  <1>1. /\ pass.instance \in Instances /\ pass.inst \in Specs /\ pass.builder \in DOMAIN Builders
        /\ o \in Wanted(pass.inst, Builder) /\ seen[o] \in Object \cup {Absent}
    BY InvariantParts DEF PassTypeOK, At, ObjectsInv
  <1>2. config \in Nat /\ pass.inst.labels \subseteq LabelPairs
    BY <1>1, SpecType DEF Builder
  <1>3. labels \subseteq LabelPairs
    <2>1. CASE o \in NodeNames /\ seen[o] = Absent
      BY <1>1, <1>2, <2>1, LabelsType DEF LabelsOfNode
    <2>2. CASE o \in NodeNames /\ seen[o] # Absent
      BY <1>1, <2>2 DEF Object
    <2>3. CASE o \notin NodeNames
      BY <1>1, <1>2, <2>3, ObjectLabelsType DEF SelectorLabels
    <2> QED
      BY <2>1, <2>2, <2>3
  <1>4. terminating \in BOOLEAN
    BY <1>1 DEF Object
  <1>5. /\ Update(o).labels = labels /\ Update(o).owner = pass.instance
        /\ Update(o) = [labels |-> labels, owner |-> pass.instance,
                        config |-> config, terminating |-> terminating]
    BY DEF Update
  <1>6. Update(o) \in Object
    <2> HIDE DEF labels, config, terminating
    <2> QED
      BY <1>1, <1>2, <1>3, <1>4, <1>5 DEF Object
  <1>7. ASSUME seen[o] = Absent \/ o \notin NodeNames \/ SetControllerReference(o),
               NEW pair \in labels, pair[1] = "name"
        PROVE  pair[2] = pass.instance
    <2>1. CASE o \in NodeNames /\ seen[o] = Absent
      BY <1>7, <2>1, NodeLabelsKeepName DEF LabelsOfNode
    <2>2. CASE o \in NodeNames /\ seen[o] # Absent
      <3>1. pair \in seen[o].labels /\ SetControllerReference(o)
        BY <1>7, <2>2
      <3>2. seen[o].owner \in Instances /\ pair[2] = seen[o].owner
        BY <1>7, <2>2, <3>1, InvariantParts DEF ObjectsInv, LabelsNameOwners, NamesItsOwner
      <3> QED
        BY <3>1, <3>2, SpecType DEF SetControllerReference
    <2>3. CASE o \notin NodeNames
      BY <1>7, <2>3, DefaultLabelWins DEF SelectorLabels
    <2> QED
      BY <2>1, <2>2, <2>3
  <1> QED
    BY <1>1, <1>5, <1>6, <1>7 DEF NamesItsOwner

\* Creation and update write nothing that another TeamCity object controls.
LEMMA CreateOrUpdateKept ==
    ASSUME OwnedInv, CreateOrUpdate
    PROVE  OwnedInv'
  <1>1. RestTypeOK'
    <2>1. events' \in [Names -> SUBSET Instances]
      BY WriteType, InvariantParts DEF CreateOrUpdate, RestTypeOK
    <2> QED
      BY <2>1, InvariantParts DEF CreateOrUpdate, RestTypeOK, counters, Retry, PassTypeOK, At
  <1>2. PICK o \in pass.todo :
            IF CreateOrUpdateSucceeds(o)
            THEN /\ objects' = IF NothingToSend(o) THEN objects
                               ELSE [objects EXCEPT ![o] = Update(o)]
                 /\ pass' = NextLoop([pass EXCEPT !.todo = @ \ {o}])
            ELSE pass' = IdlePass /\ UNCHANGED objects
    BY DEF CreateOrUpdate, Retry, Write
  <1>3. /\ pass \in PassRecord /\ pass.instance \in Instances /\ pass.inst \in Specs
        /\ pass.pc = "apply" /\ At("apply") /\ pass.todo \subseteq Wanted(pass.inst, Builder)
        /\ pass.todo \subseteq Names \cup {NoName} /\ UNCHANGED seen
    BY InvariantParts DEF CreateOrUpdate, PassTypeOK, PassRecord, At
  <1>4. CASE ~ CreateOrUpdateSucceeds(o)
    <2>1. ObjectsInv'
      BY <1>2, <1>3, <1>4, ObjectsStay, InvariantParts
    <2> QED
      BY <1>1, <1>2, <1>4, <2>1, IdleType, InvariantParts
  <1>5. CASE CreateOrUpdateSucceeds(o)
    <2> DEFINE p == [pass EXCEPT !.todo = @ \ {o}]
    <2>1. o \in Names /\ (seen[o] = Absent \/ SetControllerReference(o))
      BY <1>3, <1>5 DEF CreateOrUpdateSucceeds
    <2>2. /\ Update(o) \in Object /\ Update(o).owner = pass.instance
          /\ NamesItsOwner(Update(o))
      BY <1>3, <2>1, UpdateType
    <2>3. ObjectsInv'
      <3>1. CASE NothingToSend(o)
        BY <1>2, <1>3, <1>5, <3>1, ObjectsStay, InvariantParts
      <3>2. CASE ~ NothingToSend(o)
        <4>1. objects' = [objects EXCEPT ![o] = Update(o)]
          BY <1>2, <1>5, <3>2
        <4>2. seen[o] # Absent => seen[o].owner \in {NoOwner, Update(o).owner}
          BY <2>1, <2>2 DEF SetControllerReference
        <4> QED
          BY <1>3, <2>1, <2>2, <4>1, <4>2, ObjectWritten, InvariantParts
      <3> QED
        BY <3>1, <3>2
    <2>4. /\ p \in PassRecord /\ p.instance \in Instances /\ p.inst \in Specs
          /\ p.pc = "apply" /\ p.todo \subseteq Wanted(p.inst, Builders[p.builder])
      BY <1>3 DEF PassRecord, Builder
    <2>5. pass' = NextLoop(p)
      BY <1>2, <1>5
    <2>6. PassTypeOK' /\ (At("delete")' => pass' = p)
      BY <2>4, <2>5, NextLoopType
    <2>7. TodoIsOwn'
      BY <2>4, <2>6 DEF TodoIsOwn, At
    <2> QED
      BY <1>1, <2>3, <2>6, <2>7, InvariantParts
  <1> QED
    BY <1>4, <1>5

-------------------------------------------------------------------------------
(* The end of a pass, and everybody else *)

\* A pass that fails deletes nothing, and comes back.
LEMMA PassEndsKept ==
    ASSUME OwnedInv, PreconditionsFail \/ ApiError \/ Crash
    PROVE  OwnedInv'
  <1>1. pass' = IdlePass
    BY DEF PreconditionsFail, ApiError, Crash, Retry
  <1>2. ObjectsInv'
    BY ObjectsStay, CacheMoves, InvariantParts DEF PreconditionsFail, ApiError, Crash
  <1>3. faults' \in 0 .. MaxFaults /\ UNCHANGED <<tc, edits, tampers>>
    BY BoundsAssumption, InvariantParts
    DEF PreconditionsFail, ApiError, Crash, Fault, RestTypeOK
  <1>4. queued' \subseteq Instances /\ missed' \subseteq Instances
    BY InvariantParts DEF PreconditionsFail, ApiError, Crash, RestTypeOK
  <1>5. events' \in [Names -> SUBSET Instances]
    BY InvariantParts DEF PreconditionsFail, ApiError, Crash, RestTypeOK
  <1>6. delayed' \subseteq Instances
    BY InvariantParts
    DEF PreconditionsFail, ApiError, Crash, Retry, RestTypeOK, PassTypeOK, At
  <1>7. RestTypeOK'
    BY <1>3, <1>4, <1>6, <1>5, InvariantParts DEF RestTypeOK
  <1> QED
    BY <1>1, <1>2, <1>7, IdleType, InvariantParts

\* Queues, informers and users' edits touch no object.
LEMMA QueuesKept ==
    ASSUME OwnedInv,
           \/ \E i \in Instances : TimerFires(i) \/ ApplyTeamCity(i) \/ DeleteTeamCity(i)
           \/ \E o \in Names : Sync(o) \/ MissDeletion(o)
           \/ Resync
    PROVE  OwnedInv'
  <1>1. UNCHANGED <<pass, objects>>
    BY DEF TimerFires, ApplyTeamCity, DeleteTeamCity, Sync, MissDeletion, Resync
  <1>2. ObjectsInv'
    BY ObjectsStay, CacheMoves, InvariantParts
    DEF TimerFires, ApplyTeamCity, DeleteTeamCity, Sync, MissDeletion, Resync
  <1>3. PassTypeOK' /\ TodoIsOwn'
    BY <1>1, TodoStays, InvariantParts DEF Exists
  <1>4. tc' \in [Instances -> Specs \cup {NoTC}]
    <2>1. ASSUME NEW i \in Instances, ApplyTeamCity(i)
          PROVE  tc' \in [Instances -> Specs \cup {NoTC}]
      <3>1. PICK spec \in Requests[i] : tc' = [tc EXCEPT ![i] = spec]
        BY <2>1 DEF ApplyTeamCity
      <3>2. spec \in Specs
        BY <3>1 DEF Specs
      <3> QED
        BY <3>1, <3>2, InvariantParts DEF RestTypeOK
    <2>2. ASSUME NEW i \in Instances, DeleteTeamCity(i)
          PROVE  tc' \in [Instances -> Specs \cup {NoTC}]
      BY <2>2, InvariantParts DEF DeleteTeamCity, RestTypeOK
    <2> QED
      BY <2>1, <2>2, InvariantParts
      DEF TimerFires, Sync, MissDeletion, Resync, RestTypeOK
  <1>5. /\ edits' \in 0 .. MaxEdits /\ faults' \in 0 .. MaxFaults
        /\ tampers' \in 0 .. MaxTampers
    <2>1. edits' = edits \/ (edits < MaxEdits /\ edits' = edits + 1)
      BY DEF TimerFires, ApplyTeamCity, DeleteTeamCity, Sync, MissDeletion, Resync, counters
    <2>2. tampers' = tampers
      BY DEF TimerFires, ApplyTeamCity, DeleteTeamCity, Sync, MissDeletion, Resync, counters
    <2>3. faults' = faults \/ (faults < MaxFaults /\ faults' = faults + 1)
      BY DEF TimerFires, ApplyTeamCity, DeleteTeamCity, Sync, MissDeletion, Resync, Fault,
             counters
    <2> QED
      BY <2>1, <2>2, <2>3, BoundsAssumption, InvariantParts DEF RestTypeOK
  <1>6. ASSUME NEW o \in Names, Sync(o) \/ MissDeletion(o)
        PROVE  events[o] \subseteq Instances /\ events' = [events EXCEPT ![o] = {}]
    BY <1>6, InvariantParts DEF Sync, MissDeletion, RestTypeOK
  <1>7. events' \in [Names -> SUBSET Instances]
    <2>1. CASE \E o \in Names : Sync(o) \/ MissDeletion(o)
      BY <1>6, <2>1, InvariantParts DEF RestTypeOK
    <2> QED
      BY <2>1, InvariantParts
      DEF TimerFires, ApplyTeamCity, DeleteTeamCity, Resync, RestTypeOK
  <1>8. queued' \subseteq Instances /\ missed' \subseteq Instances
    <2>1. CASE \E o \in Names : Sync(o) \/ MissDeletion(o)
      BY <1>6, <2>1, InvariantParts DEF Sync, MissDeletion, RestTypeOK
    <2> QED
      BY <2>1, InvariantParts
      DEF TimerFires, ApplyTeamCity, DeleteTeamCity, Resync, RestTypeOK
  <1>9. delayed' \subseteq Instances
    BY InvariantParts
    DEF TimerFires, ApplyTeamCity, DeleteTeamCity, Sync, MissDeletion, Resync, RestTypeOK
  <1>10. RestTypeOK'
    BY <1>4, <1>5, <1>7, <1>8, <1>9 DEF RestTypeOK
  <1> QED
    BY <1>2, <1>3, <1>10, InvariantParts

\* Others only delete objects, keep their controllers, or make objects of nobody.
LEMMA OthersKept ==
    ASSUME OwnedInv, NEW o \in Names, CollectGarbage(o) \/ ReleaseClaim(o) \/ Tamper(o)
    PROVE  OwnedInv'
  <1>1. UNCHANGED <<tc, seen, queued, delayed, pass, edits, faults>>
    BY DEF CollectGarbage, ReleaseClaim, Tamper, counters
  <1>2. RestTypeOK'
    <2>1. events' \in [Names -> SUBSET Instances]
      BY WriteType, InvariantParts DEF CollectGarbage, ReleaseClaim, Tamper, RestTypeOK
    <2>2. missed' \subseteq Instances
      BY InvariantParts DEF CollectGarbage, ReleaseClaim, Tamper, Controllers, RestTypeOK
    <2> QED
      BY <1>1, <2>1, <2>2, BoundsAssumption, InvariantParts
      DEF CollectGarbage, ReleaseClaim, Tamper, counters, RestTypeOK
  <1> DEFINE Kept == \A other \in Names : Exists(other)' =>
                        \/ Exists(other) /\ objects'[other].owner = objects[other].owner
                        \/ objects'[other].owner = NoOwner
  <1>3. ASSUME Exists(o), NEW left \in Deletion(o) \cup {Absent},
               Write(o, left)
        PROVE  ObjectsInv' /\ Kept
    BY <1>1, <1>3, ObjectDeleted, InvariantParts DEF Write
  <1>4. ASSUME Exists(o), Write(o, [objects[o] EXCEPT !.config = @ + 1])
        PROVE  ObjectsInv' /\ Kept
    <2> DEFINE new == [objects[o] EXCEPT !.config = @ + 1]
    <2>1. objects[o] \in Object
      BY <1>4, InvariantParts DEF ObjectsInv, Exists
    <2>2. new \in Object /\ new.owner = objects[o].owner /\ new.labels = objects[o].labels
      BY <2>1 DEF Object
    <2>3. objects' = [objects EXCEPT ![o] = new]
      BY <1>4 DEF Write
    <2>4. NamesItsOwner(new)
      BY <1>4, <2>2, InvariantParts DEF ObjectsInv, LabelsNameOwners, NamesItsOwner
    <2>5. seen[o] # Absent /\ new.owner \in Instances => seen[o].owner \in {NoOwner, new.owner}
      BY <1>4, <2>2, InvariantParts DEF ObjectsInv, CacheKnowsOwners
    <2> HIDE DEF new
    <2>6. ObjectsInv'
      BY <1>1, <2>2, <2>3, <2>4, <2>5, ObjectWritten, InvariantParts
    <2>7. Kept
      BY <1>4, <2>2, <2>3, InvariantParts DEF ObjectsInv, Exists
    <2> QED
      BY <2>6, <2>7
  <1>5. ASSUME NEW labels \in StrangerLabels,
               Write(o, [labels |-> labels, owner |-> NoOwner, config |-> 1,
                         terminating |-> FALSE])
        PROVE  ObjectsInv' /\ Kept
    <2> DEFINE new == [labels |-> labels, owner |-> NoOwner, config |-> 1,
                       terminating |-> FALSE]
    <2>1. labels \subseteq LabelPairs /\ "name" \notin Keys(labels)
      BY LabelsAssumption
    <2>2. new \in Object /\ new.owner = NoOwner /\ new.labels = labels
      BY <2>1 DEF Object
    <2>3. objects' = [objects EXCEPT ![o] = new]
      BY <1>5 DEF Write
    <2> HIDE DEF new
    <2>4. NamesItsOwner(new)
      BY <2>1, <2>2 DEF NamesItsOwner, Keys
    <2>5. ObjectsInv'
      BY <1>1, <2>2, <2>3, <2>4, SpecType, ObjectWritten, InvariantParts
    <2>6. Kept
      BY <2>2, <2>3, InvariantParts DEF ObjectsInv, Exists
    <2> QED
      BY <2>5, <2>6
  <1>6. ObjectsInv' /\ Kept
    <2>1. CASE CollectGarbage(o)
      BY <1>3, <2>1 DEF CollectGarbage
    <2>2. CASE ReleaseClaim(o)
      BY <1>3, <2>2 DEF ReleaseClaim
    <2>3. CASE Tamper(o)
      BY <1>3, <1>4, <1>5, <2>3 DEF Tamper
    <2> QED
      BY <2>1, <2>2, <2>3
  <1>7. PassTypeOK' /\ TodoIsOwn'
    BY <1>1, <1>6, TodoStays, InvariantParts
  <1> QED
    BY <1>2, <1>6, <1>7, InvariantParts

\* Every step keeps the invariant.
LEMMA StepOwnedInv == OwnedInv /\ [Next]_vars => OwnedInv'
  <1> SUFFICES ASSUME OwnedInv, [Next]_vars PROVE OwnedInv'
    OBVIOUS
  <1>1. CASE UNCHANGED vars
    <2>1. ObjectsInv' /\ RestTypeOK'
      BY <1>1, ObjectsStay, InvariantParts DEF vars, RestTypeOK
    <2>2. PassTypeOK' /\ TodoIsOwn'
      BY <1>1, TodoStays, InvariantParts DEF vars, Exists
    <2> QED
      BY <2>1, <2>2, InvariantParts
  <1>2. CASE PassStep
    BY <1>2, ListObsoleteKept, DeleteObsoleteKept, CreateOrUpdateKept DEF PassStep
  <1>3. CASE \E i \in Instances : StartPass(i)
    BY <1>3, StartPassKept
  <1>4. CASE PreconditionsFail \/ ApiError \/ Crash
    BY <1>4, PassEndsKept
  <1>5. CASE \/ \E i \in Instances : TimerFires(i) \/ ApplyTeamCity(i) \/ DeleteTeamCity(i)
             \/ \E o \in Names : Sync(o) \/ MissDeletion(o)
             \/ Resync
    BY <1>5, QueuesKept
  <1>6. CASE \E o \in Names : CollectGarbage(o) \/ ReleaseClaim(o) \/ Tamper(o)
    BY <1>6, OthersKept
  <1> QED
    BY <1>1, <1>2, <1>3, <1>4, <1>5, <1>6 DEF Next, UserStep

\* At all times labels name the controllers, no cache shows an object as another's, and
\* what a pass is about to delete is its own, whatever the bounds, specs and labels.
THEOREM OwnedInvariant == Spec => []OwnedInv
  <1>1. Init => OwnedInv
    BY InitOwnedInv
  <1>2. OwnedInv /\ [Next]_vars => OwnedInv'
    BY StepOwnedInv
  <1> QED
    BY <1>1, <1>2, PTL DEF Spec

-------------------------------------------------------------------------------
(* Isolation *)

\* Only deletions and writes of a pass change an object in a step of a pass.
LEMMA OnlyPassStepsTouch ==
    ASSUME Next, objects' # objects, pass' # pass
    PROVE  DeleteObsolete \/ CreateOrUpdate
  <1>1. ASSUME NEW i \in Instances, StartPass(i) \/ TimerFires(i) \/ ApplyTeamCity(i)
                                     \/ DeleteTeamCity(i)
        PROVE  FALSE
    BY <1>1 DEF StartPass, TimerFires, ApplyTeamCity, DeleteTeamCity
  <1>2. ASSUME NEW o \in Names, Sync(o) \/ MissDeletion(o) \/ CollectGarbage(o)
                                 \/ ReleaseClaim(o) \/ Tamper(o)
        PROVE  FALSE
    BY <1>2 DEF Sync, MissDeletion, CollectGarbage, ReleaseClaim, Tamper
  <1>3. ~ ListObsolete /\ ~ PreconditionsFail /\ ~ ApiError /\ ~ Crash /\ ~ Resync
    BY DEF ListObsolete, PreconditionsFail, ApiError, Crash, Resync
  <1> QED
    BY <1>1, <1>2, <1>3 DEF Next, PassStep, UserStep

\* In a state of the invariant, they change nothing that is another's.
LEMMA StepIsolation ==
    ASSUME OwnedInv, Next, NEW o \in Names, Exists(o), objects'[o] # objects[o], pass' # pass
    PROVE  objects[o].owner \in {NoOwner, pass.instance}
  <1>1. DeleteObsolete \/ CreateOrUpdate
    BY OnlyPassStepsTouch
  <1>2. objects \in [Names -> Object \cup {Absent}]
    BY InvariantParts DEF ObjectsInv
  <1>3. CASE DeleteObsolete
    <2>1. o \in pass.todo /\ At("delete")
      BY <1>2, <1>3 DEF DeleteObsolete, Write
    <2> QED
      BY <2>1, InvariantParts DEF TodoIsOwn
  <1>4. CASE CreateOrUpdate
    <2>1. CreateOrUpdateSucceeds(o) /\ ~ NothingToSend(o)
      BY <1>2, <1>4 DEF CreateOrUpdate, Write
    <2> QED
      BY <2>1 DEF CreateOrUpdateSucceeds, SetControllerReference
  <1> QED
    BY <1>1, <1>3, <1>4

\* No pass ever changes or deletes an object another TeamCity object controls, however
\* many there are, whatever they are called, ask for and label, and however late and out
\* of order the caches learn of it (reconcileDelete deletes by name, after a listing).
THEOREM TeamCitiesAreIsolated == Spec => Isolation
  <1> DEFINE Isolated == \A o \in Names :
                 Exists(o) /\ objects'[o] # objects[o] /\ pass' # pass
                     => objects[o].owner \in {NoOwner, pass.instance}
  <1>1. OwnedInv /\ [Next]_vars => [Isolated]_vars
    BY StepIsolation DEF vars
  <1>2. Spec => []OwnedInv
    BY OwnedInvariant
  <1> QED
    BY <1>1, <1>2, PTL DEF Spec, Isolation

-------------------------------------------------------------------------------
(* Responsibilities *)

\* With a heap size and claims in order the verdict is that on the responsibilities,
\* for every number of nodes and whatever responsibilities they have.
THEOREM WebhookVerdict ==
    ASSUME NEW form, ~ (form.xmx <= 0),
           \A claim \in form.claims : validateCustomPersistentVolumeClaim(claim)
    PROVE  FollowsReadme(form)
  <1> DEFINE verdict == validateResponsibilitiesOfAllNodes(form)
  <1>1. validateCommonFields(form) = verdict
    BY DEF validateCommonFields, validateXmxPercentage,
           validateAllCustomPersistentVolumeClaimsInObject, Admitted
  <1>2. getAllResponsibilitiesFromAllNodes(form) = form.main \cup Secondary(form)
    BY DEF getAllResponsibilitiesFromAllNodes, Secondary
  <1>3. (\A k \in DOMAIN form.secondaries : validateNodeResponsibilities(form.secondaries[k]))
          <=> Secondary(form) \subseteq validSecondaryNodeResponsibilities
    BY DEF validateNodeResponsibilities, Secondary
  <1>4. Secondary(form) \subseteq validSecondaryNodeResponsibilities
          <=> /\ Secondary(form) \subseteq allTeamCityResponsibilities
              /\ MainNode \notin Secondary(form)
    BY ResponsibilitiesAssumption
    DEF validSecondaryNodeResponsibilities, allTeamCityResponsibilities
  <1>5. validateMainNodeResponsibilities(form) = Admitted
          <=> /\ {MainNode, UserData} \subseteq form.main
              /\ form.main \subseteq allTeamCityResponsibilities
    BY DEF validateMainNodeResponsibilities, Admitted, validMainNodeResponsibilities,
           minimumRequiredMainNodeResponsibilities
  <1>6. CASE allNodesHaveEmptyResponsibility(form)
    <2>1. form.main = {} /\ Secondary(form) = {}
      BY <1>2, <1>6 DEF allNodesHaveEmptyResponsibility
    <2>2. verdict.error = Admitted /\ verdict.warnings = {}
      BY <1>6 DEF validateResponsibilitiesOfAllNodes, Verdict
    <2> QED
      BY <1>1, <2>1, <2>2 DEF FollowsReadme, ResponsibilitiesAreValid, SomeAreWithNobody
  <1>7. CASE /\ ~ allNodesHaveEmptyResponsibility(form)
             /\ ~ ResponsibilitiesAreValid(form)
    <2>1. \/ validateMainNodeResponsibilities(form) # Admitted
          \/ \E k \in DOMAIN form.secondaries :
                 ~ validateNodeResponsibilities(form.secondaries[k])
      BY <1>3, <1>4, <1>5, <1>7 DEF ResponsibilitiesAreValid
    <2>2. verdict.error # Admitted /\ verdict.warnings = {}
      BY <1>7, <2>1
      DEF validateResponsibilitiesOfAllNodes, Verdict, Admitted
    <2> QED
      BY <1>1, <1>7, <2>2 DEF FollowsReadme
  <1>8. CASE /\ ~ allNodesHaveEmptyResponsibility(form)
             /\ ResponsibilitiesAreValid(form)
    <2>1. /\ {MainNode, UserData} \subseteq form.main
          /\ MainNode \notin Secondary(form)
          /\ form.main \cup Secondary(form) \subseteq allTeamCityResponsibilities
      BY <1>2, <1>8 DEF ResponsibilitiesAreValid, allNodesHaveEmptyResponsibility
    <2>2. verdict = Verdict(Admitted, validatePresenceOfAllResponsibilities(form))
      BY <1>3, <1>4, <1>5, <1>8, <2>1 DEF validateResponsibilitiesOfAllNodes
    <2>3. verdict.warnings # {} <=> SomeAreWithNobody(form)
      BY <1>2, <2>1, <2>2
      DEF validatePresenceOfAllResponsibilities, SomeAreWithNobody, Verdict
    <2> QED
      BY <1>1, <1>8, <2>2, <2>3 DEF FollowsReadme, Verdict
  <1> QED
    BY <1>6, <1>7, <1>8

\* No edit gets past the webhook that the README forbids, of any TeamCity object, for any
\* number of nodes (ValidateCreate, ValidateUpdate).
THEOREM EditsFollowReadme == Spec => WebhookFollowsReadme
  <1> DEFINE Follows == \A i \in Instances : tc'[i] \notin {tc[i], NoTC}
                            => ResponsibilitiesAreValid(FormOf(tc'[i]))
  <1>1. ASSUME NEW form, ValidateCreate(form).error = Admitted
        PROVE  ResponsibilitiesAreValid(form)
    <2>1. validateCommonFields(form).error = Admitted
      BY <1>1 DEF ValidateCreate, Verdict
    <2>2. /\ ~ (form.xmx <= 0)
          /\ \A claim \in form.claims : validateCustomPersistentVolumeClaim(claim)
      BY <2>1 DEF validateCommonFields, validateXmxPercentage,
                  validateAllCustomPersistentVolumeClaimsInObject, Verdict, Admitted
    <2> QED
      BY <2>1, <2>2, WebhookVerdict DEF FollowsReadme
  <1>2. ASSUME OwnedInv, NEW i \in Instances, ApplyTeamCity(i)
        PROVE  Follows
    <2>1. PICK spec \in Requests[i] : /\ ValidateCreate(FormOf(spec)).error = Admitted
                                      /\ tc' = [tc EXCEPT ![i] = spec]
      BY <1>2 DEF ApplyTeamCity
    <2>2. /\ tc'[i] = spec
          /\ \A other \in Instances \ {i} : tc'[other] = tc[other]
      BY <1>2, <2>1, InvariantParts DEF RestTypeOK
    <2> QED
      BY <1>1, <2>1, <2>2
  <1>3. ASSUME OwnedInv, NEW i \in Instances, DeleteTeamCity(i)
        PROVE  Follows
    BY <1>3, InvariantParts DEF DeleteTeamCity, RestTypeOK
  <1>4. ASSUME UNCHANGED tc
        PROVE  Follows
    BY <1>4
  <1>5. ASSUME OwnedInv, Next
        PROVE  Follows
    <2>1. \/ \E i \in Instances : ApplyTeamCity(i) \/ DeleteTeamCity(i)
          \/ UNCHANGED tc
      BY <1>5
      DEF Next, PassStep, ListObsolete, DeleteObsolete, CreateOrUpdate, StartPass,
          TimerFires, PreconditionsFail, ApiError, Crash, Resync, Sync, MissDeletion,
          CollectGarbage, ReleaseClaim, UserStep, Tamper
    <2> QED
      BY <1>2, <1>3, <1>4, <1>5, <2>1
  <1>6. OwnedInv /\ [Next]_vars => [Follows]_vars
    BY <1>5
  <1>7. Spec => []OwnedInv
    BY OwnedInvariant
  <1> QED
    BY <1>6, <1>7, PTL DEF Spec, WebhookFollowsReadme
===============================================================================
