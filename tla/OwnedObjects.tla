----------------------------- MODULE OwnedObjects -----------------------------
(***************************************************************************)
(* The objects the operator keeps for its TeamCity objects: claims,         *)
(* service accounts, services, ingresses and the StatefulSets of nodes.     *)
(* Several TeamCity objects of a namespace share one worker, one cache and  *)
(* the names of the objects.  A pass goes through the ResourceBuilders in   *)
(* their order; each first deletes what it finds by label and the spec no   *)
(* longer lists, then creates or updates what the spec lists.  Every step   *)
(* of a pass reads the cache or calls the API server once; users, informers *)
(* and the garbage collector act between steps.                             *)
(*                                                                          *)
(* Simplifications.  Upgrades, recreates and the status of the TeamCity     *)
(* object are those of Reconciler, which keeps one object and no labels.    *)
(* The config of an object is one number for all that Update overwrites; of *)
(* a claim it is the storage it requests, and for StatefulSets Extends says *)
(* which config has all that another one sets, and more.  The cache catches *)
(* up with the latest state of an object at once, and all its events come   *)
(* then.  A TeamCity object is created under an old name only when nothing  *)
(* of the old one is left.                                                  *)
(***************************************************************************)
EXTENDS Labels, Webhook, FiniteSets

CONSTANTS
    Instances,          \* names of TeamCity objects
    Claims, Accounts, Services, Ingresses, NodeNames,   \* names by kind
    NoName,             \* the empty name
    NoOwner, Absent, NoTC,
    Extends,            \* the pairs of configs whose second only adds to the first
    LabelPairs,         \* the <<key, value>> pairs labels are made of
    Initially,          \* the TeamCity objects there are before the operator starts
    Requests,           \* what users may ask each TeamCity object to be
    Strangers,          \* names users may give to objects of their own
    StrangerLabels,     \* the labels of those
    FaultKinds,         \* what may go wrong
    MaxEdits, MaxTampers, MaxFaults,    \* bounds on users and faults, each
    MaxDisturbances,                    \* and together
    MaxBehind           \* bound on the objects whose latest state the cache lacks

Names == Claims \cup Accounts \cup Services \cup Ingresses \cup NodeNames

Builders == <<"PersistentVolumeClaim", "ServiceAccount", "Service", "Ingress",
              "StatefulSet", "SecondaryStatefulSet">>

KindOf(builder) ==
    CASE builder = "PersistentVolumeClaim" -> Claims
      [] builder = "ServiceAccount"        -> Accounts
      [] builder = "Service"               -> Services
      [] builder = "Ingress"               -> Ingresses
      [] builder = "StatefulSet"           -> NodeNames
      [] builder = "SecondaryStatefulSet"  -> NodeNames

Wanted(spec, builder) == DOMAIN spec.want[builder]

Specs == UNION {Requests[i] : i \in Instances}
         \cup ({init[i] : init \in Initially, i \in Instances} \ {NoTC})

\* An object: its labels, its controller, its config, and whether it is a deleted
\* claim that pods still use.
Object == [labels : SUBSET LabelPairs, owner : Instances \cup {NoOwner},
           config : Nat, terminating : BOOLEAN]

\* Objects of different kinds are told apart by their names.
ASSUME KindsAssumption ==
    /\ \A kinds \in {<<Claims, Accounts>>, <<Claims, Services>>, <<Claims, Ingresses>>,
                     <<Claims, NodeNames>>, <<Accounts, Services>>, <<Accounts, Ingresses>>,
                     <<Accounts, NodeNames>>, <<Services, Ingresses>>,
                     <<Services, NodeNames>>, <<Ingresses, NodeNames>>} :
          kinds[1] \cap kinds[2] = {}
    /\ NoName \notin Names /\ NoOwner \notin Instances /\ Absent \notin Object

\* A spec lists names of each builder's kind, at least the claim of the data directory.
ASSUME SpecsAssumption ==
    /\ \A init \in Initially : init \in [Instances -> Specs \cup {NoTC}]
    /\ NoTC \notin Specs
    /\ \A spec \in Specs :
          /\ spec.labels \subseteq LabelPairs
          /\ Wanted(spec, "PersistentVolumeClaim") # {}
          /\ \A b \in DOMAIN Builders :
                /\ Wanted(spec, Builders[b]) \subseteq KindOf(Builders[b]) \cup {NoName}
                /\ \A o \in Wanted(spec, Builders[b]) : spec.want[Builders[b]][o] \in Nat

\* A node has one role: a name that a spec lists twice would be two builders' to write.
ASSUME RolesAssumption ==
    \A spec \in Specs :
        Wanted(spec, "StatefulSet") \cap Wanted(spec, "SecondaryStatefulSet") \subseteq {NoName}

\* Users leave the operator's label to the operator.
ASSUME LabelsAssumption ==
    /\ \A i \in Instances : getDefaultLabelsFromInstanceName(i) \subseteq LabelPairs
    /\ \A o \in NodeNames : <<"node-name", o>> \in LabelPairs
    /\ <<"role", "main">> \in LabelPairs /\ <<"role", "secondary">> \in LabelPairs
    /\ \A labels \in StrangerLabels :
          labels \subseteq LabelPairs /\ "name" \notin Keys(labels)

ASSUME ExtendsAssumption == Extends \subseteq Nat \X Nat

ASSUME BoundsAssumption ==
    /\ MaxEdits \in Nat /\ MaxTampers \in Nat /\ MaxFaults \in Nat
    /\ MaxDisturbances \in Nat /\ MaxBehind \in Nat \ {0}

VARIABLES
    tc,         \* the TeamCity objects: labels, wanted objects, form
    objects,    \* the objects at the API server
    seen,       \* the objects in the informer caches
    events,     \* the TeamCity objects an object's latest events are yet to queue
    queued,     \* TeamCity objects on the work queue
    delayed,    \* TeamCity objects that return to it after a back-off or interval
    missed,     \* TeamCity objects that a lost or filtered event did not queue
    pass,       \* the pass in progress
    edits, tampers, faults

vars == <<tc, objects, seen, events, queued, delayed, missed, pass, edits, tampers, faults>>
counters == <<edits, tampers, faults>>

Exists(o) == objects[o] # Absent
Owned(i) == {o \in Names : Exists(o) /\ objects[o].owner = i}

\* pass.inst is the copy of TeamCity object pass.instance the pass works on,
\* builder its place among Builders, todo the names the loop at hand has left.
IdlePass == [pc |-> "idle", instance |-> NoOwner, inst |-> NoTC, builder |-> 1, todo |-> {}]
At(pc) == pass.pc = pc
Builder == Builders[pass.builder]

Init ==
    /\ tc \in Initially
    /\ objects = [o \in Names |-> Absent] /\ seen = objects
    /\ events = [o \in Names |-> {}]
    /\ queued = {i \in Instances : tc[i] # NoTC} /\ delayed = {} /\ missed = {}
    /\ pass = IdlePass
    /\ edits = 0 /\ tampers = 0 /\ faults = 0

Behind(o) == seen[o] # objects[o] \/ events[o] # {}
CacheKeepsUp == Cardinality({o \in Names : Behind(o)}) < MaxBehind

MayDisturb == edits + tampers + faults < MaxDisturbances

Fault(kind) ==
    /\ kind \in FaultKinds /\ faults < MaxFaults /\ MayDisturb
    /\ faults' = faults + 1

-------------------------------------------------------------------------------
(* Events *)

\* Mutation: the deletion of a claim is no event.
EventPassesUnlessDeleted(o, old, new) ==
    /\ old # new
    /\ IF new = Absent THEN o \notin Claims
       ELSE old = Absent \/ (o \in Claims \cup NodeNames => old.config # new.config)

\* DeepDerivative of the specs: what is unset in the old one is not compared.
OnlyAdds(o, old, new) == o \in NodeNames /\ <<old.config, new.config>> \in Extends

\* A change of what the old spec sets is an event of a claim or a StatefulSet; any change
\* is one of the kinds without a filter.
EventPasses(o, old, new) ==
    /\ old # new
    /\ \/ old = Absent \/ new = Absent
       \/ o \in Claims \cup NodeNames => old.config # new.config /\ ~ OnlyAdds(o, old, new)

\* An event queues the controllers of the object's old and new version.
Controllers(versions) == {v.owner : v \in versions \ {Absent}} \cap Instances

\* Every write at the API server is an event of its own, whenever the cache learns of it.
Write(o, new) ==
    /\ objects' = [objects EXCEPT ![o] = new]
    /\ events' = [events EXCEPT ![o] = @ \cup
           (IF EventPasses(o, objects[o], new) THEN Controllers({objects[o], new}) ELSE {})]

-------------------------------------------------------------------------------
(* What the builders select, create and write *)

SelectorLabels == GetLabels(pass.instance, pass.inst.labels)
Listed(names, selector) ==
    {o \in names : seen[o] # Absent /\ MatchingLabels(selector, seen[o].labels)}

ObsoletePersistentVolumeClaims ==
    Listed(Claims, SelectorLabels) \ Wanted(pass.inst, "PersistentVolumeClaim")

\* There is at most one account in the spec, possibly none.
ObsoleteServiceAccounts ==
    Listed(Accounts, SelectorLabels) \ Wanted(pass.inst, "ServiceAccount")

ObsoleteServices == Listed(Services, SelectorLabels) \ Wanted(pass.inst, "Service")

ObsoleteIngresses == Listed(Ingresses, SelectorLabels) \ Wanted(pass.inst, "Ingress")

\* By the labels the StatefulSet was created with: its role then, and the labels
\* the TeamCity object had then.
ObsoleteSecondaryStatefulSets ==
    Listed(NodeNames,
           GetStatefulSetCommonLabels(pass.instance, "secondary", pass.inst.labels))
        \ Wanted(pass.inst, "SecondaryStatefulSet")

\* The main node's builder has no obsolete objects.
GetObsoleteObjects ==
    CASE Builder = "PersistentVolumeClaim" -> ObsoletePersistentVolumeClaims
      [] Builder = "ServiceAccount"        -> ObsoleteServiceAccounts
      [] Builder = "Service"               -> ObsoleteServices
      [] Builder = "Ingress"               -> ObsoleteIngresses
      [] Builder = "StatefulSet"           -> {}
      [] Builder = "SecondaryStatefulSet"  -> ObsoleteSecondaryStatefulSets

\* The labels BuildObjectList gives a new StatefulSet; no update changes them.
LabelsOfNode(o) ==
    GetStatefulSetLabels(pass.instance, o,
        IF Builder = "StatefulSet" THEN "main" ELSE "secondary", pass.inst.labels)

\* The builders' Update, of an object as the cache has it.
Update(o) ==
    [labels |-> IF o \in NodeNames
                THEN IF seen[o] = Absent THEN LabelsOfNode(o) ELSE seen[o].labels
                ELSE SelectorLabels,
     owner |-> pass.instance,
     config |-> pass.inst.want[Builder][o],
     terminating |-> seen[o] # Absent /\ seen[o].terminating]

\* SetControllerReference refuses what another object controls.
SetControllerReference(o) == seen[o].owner \in {NoOwner, pass.instance}

\* The API server does not let a claim shrink.
Rejected(old, new) == new.config < old.config

\* What Update leaves as it was is not sent; services and StatefulSets always are,
\* for Update drops what the API server has filled in.
NothingToSend(o) ==
    seen[o] = Update(o) /\ o \notin Services \cup NodeNames

\* CreateOrUpdate succeeds: the name is given, the cache is right about what it
\* creates or overwrites, and neither it nor the API server refuses.
CreateOrUpdateSucceeds(o) ==
    /\ o # NoName
    /\ \/ seen[o] = Absent /\ ~ Exists(o)
       \/ /\ seen[o] # Absent /\ SetControllerReference(o)
          /\ \/ NothingToSend(o)
             \/ seen[o] = objects[o] /\ ~ (o \in Claims /\ Rejected(objects[o], Update(o)))

-------------------------------------------------------------------------------
(* Passes *)

\* Mutation: an error is not returned.
DropError == pass' = IdlePass /\ UNCHANGED delayed
Retry == pass' = IdlePass /\ delayed' = delayed \cup {pass.instance}

StartPass(i) ==
    /\ At("idle") /\ i \in queued
    /\ queued' = queued \ {i} /\ missed' = missed \ {i}
    /\ pass' = IF tc[i] = NoTC THEN IdlePass
               ELSE [IdlePass EXCEPT !.pc = "list", !.instance = i, !.inst = tc[i]]
    /\ UNCHANGED <<tc, objects, seen, events, delayed>> /\ UNCHANGED counters

\* Once a loop is done: from deletions to what is wanted, then to the next builder.
NextLoop(p) ==
    LET wanted == Wanted(p.inst, Builders[p.builder])
    IN  IF p.todo # {} THEN p
        ELSE IF p.pc = "delete" /\ wanted # {} THEN [p EXCEPT !.pc = "apply", !.todo = wanted]
        ELSE IF p.builder = Len(Builders) THEN IdlePass
        ELSE [p EXCEPT !.pc = "list", !.builder = p.builder + 1]

\* reconcileDelete: list what is obsolete, ...
ListObsolete ==
    /\ At("list")
    /\ pass' = NextLoop([pass EXCEPT !.pc = "delete", !.todo = GetObsoleteObjects])
    /\ UNCHANGED <<tc, objects, seen, events, queued, delayed, missed>> /\ UNCHANGED counters

\* A claim in use stays until its pods are gone; all else goes at once.
Deletion(o) ==
    {Absent} \cup IF o \in Claims THEN {[objects[o] EXCEPT !.terminating = TRUE]} ELSE {}

\* ... and delete it by name, whoever controls it by now.  NotFound ends the pass.
DeleteObsolete ==
    /\ At("delete") /\ CacheKeepsUp
    /\ \E o \in pass.todo :
          IF Exists(o)
          THEN /\ \E left \in Deletion(o) : Write(o, left)
               /\ pass' = NextLoop([pass EXCEPT !.todo = @ \ {o}])
               /\ UNCHANGED delayed
          ELSE Retry /\ UNCHANGED <<objects, events>>
    /\ UNCHANGED <<tc, seen, queued, missed>> /\ UNCHANGED counters

\* reconcileCreateOrUpdate.
CreateOrUpdate ==
    /\ At("apply") /\ CacheKeepsUp
    /\ \E o \in pass.todo :
          IF CreateOrUpdateSucceeds(o)
          THEN /\ IF NothingToSend(o) THEN UNCHANGED <<objects, events>>
                  ELSE Write(o, Update(o))
               /\ pass' = NextLoop([pass EXCEPT !.todo = @ \ {o}])
               /\ UNCHANGED delayed
          ELSE Retry /\ UNCHANGED <<objects, events>>
    /\ UNCHANGED <<tc, seen, queued, missed>> /\ UNCHANGED counters

\* validatePreconditions: the main node has not rolled out yet.
PreconditionsFail ==
    /\ At("apply") /\ Builder = "SecondaryStatefulSet"
    /\ pass.todo = Wanted(pass.inst, Builder)
    /\ Fault("precondition") /\ Retry
    /\ UNCHANGED <<tc, objects, seen, events, queued, missed, edits, tampers>>

\* A call whose error ends the pass fails before it has any effect.
ApiError ==
    /\ ~ At("idle")
    /\ Fault("error") /\ Retry
    /\ UNCHANGED <<tc, objects, seen, events, queued, missed, edits, tampers>>

\* A restarted operator, or a new leader: caches filled afresh, everything queued.
Crash ==
    /\ Fault("crash")
    /\ pass' = IdlePass /\ delayed' = {} /\ missed' = {}
    /\ queued' = {i \in Instances : tc[i] # NoTC} /\ seen' = objects
    /\ events' = [o \in Names |-> {}]
    /\ UNCHANGED <<tc, objects, edits, tampers>>

TimerFires(i) ==
    /\ i \in delayed
    /\ delayed' = delayed \ {i} /\ queued' = queued \cup {i}
    /\ UNCHANGED <<tc, objects, seen, events, missed, pass>> /\ UNCHANGED counters

-------------------------------------------------------------------------------
(* Informers *)

Sync(o) ==
    /\ Behind(o)
    /\ seen' = [seen EXCEPT ![o] = objects[o]]
    /\ queued' = queued \cup events[o] /\ events' = [events EXCEPT ![o] = {}]
    /\ UNCHANGED <<tc, objects, delayed, missed, pass>> /\ UNCHANGED counters

\* A deletion learnt from a relist is filtered out for claims and StatefulSets, and
\* whatever events there were before it are lost.
MissDeletion(o) ==
    /\ o \in Claims \cup NodeNames /\ seen[o] # Absent /\ ~ Exists(o)
    /\ Fault("relist")
    /\ seen' = [seen EXCEPT ![o] = Absent]
    /\ missed' = missed \cup events[o] /\ events' = [events EXCEPT ![o] = {}]
    /\ UNCHANGED <<tc, objects, queued, delayed, pass, edits, tampers>>

\* Every so often an informer sends its objects again: only those of TeamCity, of
\* services, accounts and ingresses pass the filters.
Resync ==
    /\ missed # {}
    /\ queued' = queued \cup {i \in Instances : tc[i] # NoTC}
    /\ missed' = {}
    /\ UNCHANGED <<tc, objects, seen, events, delayed, pass>> /\ UNCHANGED counters

-------------------------------------------------------------------------------
(* Users and the garbage collector *)

FormOf(spec) ==
    [xmx |-> spec.xmx, main |-> spec.main, secondaries |-> spec.secondaries,
     claims |-> {[named |-> o # NoName, mounted |-> o \in spec.mounts] :
                    o \in Wanted(spec, "PersistentVolumeClaim")}]

\* The webhook lets through what it admits; creation and update check the same form.
ApplyTeamCity(i) ==
    /\ edits < MaxEdits /\ MayDisturb /\ edits' = edits + 1
    /\ tc[i] = NoTC => Owned(i) = {} /\ pass.instance # i
    /\ \E spec \in Requests[i] \ {tc[i]} :
          /\ ValidateCreate(FormOf(spec)).error = Admitted
          /\ tc' = [tc EXCEPT ![i] = spec]
    /\ queued' = queued \cup {i}
    /\ UNCHANGED <<objects, seen, events, delayed, missed, pass, tampers, faults>>

DeleteTeamCity(i) ==
    /\ tc[i] # NoTC
    /\ edits < MaxEdits /\ MayDisturb /\ edits' = edits + 1
    /\ tc' = [tc EXCEPT ![i] = NoTC] /\ queued' = queued \cup {i}
    /\ UNCHANGED <<objects, seen, events, delayed, missed, pass, tampers, faults>>

CollectGarbage(o) ==
    /\ Exists(o) /\ ~ objects[o].terminating /\ CacheKeepsUp
    /\ objects[o].owner \in {i \in Instances : tc[i] = NoTC}
    /\ \E left \in Deletion(o) : Write(o, left)
    /\ UNCHANGED <<tc, seen, queued, delayed, missed, pass>> /\ UNCHANGED counters

\* The last pod that used the claim is gone.
ReleaseClaim(o) ==
    /\ Exists(o) /\ objects[o].terminating /\ CacheKeepsUp
    /\ Write(o, Absent)
    /\ UNCHANGED <<tc, seen, queued, delayed, missed, pass>> /\ UNCHANGED counters

\* Users delete an object by hand, change it, or make one of their own.  What they add to
\* a StatefulSet is filtered out, and stays until a pass comes for another reason.
Tamper(o) ==
    /\ CacheKeepsUp
    /\ tampers < MaxTampers /\ MayDisturb /\ tampers' = tampers + 1
    /\ \/ Exists(o) /\ UNCHANGED missed /\ \E left \in Deletion(o) : Write(o, left)
       \/ LET new == [objects[o] EXCEPT !.config = @ + 1]
          IN  /\ Exists(o) /\ Write(o, new)
              /\ missed' = missed \cup
                    IF OnlyAdds(o, objects[o], new) THEN Controllers({new}) ELSE {}
       \/ /\ ~ Exists(o) /\ o \in Strangers /\ UNCHANGED missed
          /\ \E labels \in StrangerLabels :
                Write(o, [labels |-> labels, owner |-> NoOwner, config |-> 1,
                          terminating |-> FALSE])
    /\ UNCHANGED <<tc, seen, queued, delayed, pass, edits, faults>>

PassStep == ListObsolete \/ DeleteObsolete \/ CreateOrUpdate

UserStep ==
    \/ \E i \in Instances : ApplyTeamCity(i) \/ DeleteTeamCity(i)
    \/ \E o \in Names : Tamper(o)

Next ==
    \/ PassStep
    \/ \E i \in Instances : StartPass(i) \/ TimerFires(i)
    \/ PreconditionsFail \/ ApiError \/ Crash \/ Resync
    \/ \E o \in Names : Sync(o) \/ MissDeletion(o) \/ CollectGarbage(o) \/ ReleaseClaim(o)
    \/ UserStep

(***************************************************************************)
(* The worker, its queue, the informers with their resyncs, and the garbage *)
(* collector keep going; nobody owes an edit, a fault or the end of a pod.  *)
(* The queue is first in, first out, so every object on it gets its turn.   *)
(***************************************************************************)
Fairness ==
    /\ WF_vars(PassStep) /\ WF_vars(Resync)
    /\ \A i \in Instances : SF_vars(StartPass(i)) /\ WF_vars(TimerFires(i))
    /\ WF_vars(\E o \in Names : Sync(o)) /\ WF_vars(\E o \in Names : CollectGarbage(o))

Spec == Init /\ [][Next]_vars
FairSpec == Spec /\ Fairness
===============================================================================
