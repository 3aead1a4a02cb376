---------------------------- MODULE OwnedRestProofs ---------------------------
(***************************************************************************)
(* The operator rests only when every TeamCity object has what it asks for: *)
(* proved for every number of them, whatever users and faults do to their   *)
(* objects, and caches that lag.                                            *)
(***************************************************************************)
EXTENDS OwnedProofs

(* Kinds and labels *)

\* No name is of two kinds.
LEMMA KindsDisjoint ==
    /\ Claims \cap NodeNames = {} /\ Accounts \cap NodeNames = {}
    /\ Services \cap NodeNames = {} /\ Ingresses \cap NodeNames = {}
    /\ Claims \cap Accounts = {} /\ Claims \cap Services = {} /\ Claims \cap Ingresses = {}
    /\ Accounts \cap Services = {} /\ Accounts \cap Ingresses = {}
    /\ Services \cap Ingresses = {}
  <1> DEFINE Kinds == {<<Claims, Accounts>>, <<Claims, Services>>, <<Claims, Ingresses>>,
                       <<Claims, NodeNames>>, <<Accounts, Services>>, <<Accounts, Ingresses>>,
                       <<Accounts, NodeNames>>, <<Services, Ingresses>>,
                       <<Services, NodeNames>>, <<Ingresses, NodeNames>>}
  <1>1. \A kinds \in Kinds : kinds[1] \cap kinds[2] = {}
    BY KindsAssumption
  <1>2. /\ <<Claims, NodeNames>> \in Kinds /\ <<Accounts, NodeNames>> \in Kinds
        /\ <<Services, NodeNames>> \in Kinds /\ <<Ingresses, NodeNames>> \in Kinds
        /\ <<Claims, Accounts>> \in Kinds /\ <<Claims, Services>> \in Kinds
        /\ <<Claims, Ingresses>> \in Kinds /\ <<Accounts, Services>> \in Kinds
        /\ <<Accounts, Ingresses>> \in Kinds /\ <<Services, Ingresses>> \in Kinds
    OBVIOUS
  <1> HIDE DEF Kinds
  <1>3. \A x, y : <<x, y>>[1] = x /\ <<x, y>>[2] = y
    OBVIOUS
  <1>4. \A x, y : <<x, y>> \in Kinds => x \cap y = {}
    BY <1>1, <1>3
  <1> QED
    BY <1>2, <1>4

\* What one builder wants is none of an earlier builder's to delete.
LEMMA EarlierKinds ==
    ASSUME NEW builder \in DOMAIN Builders, NEW k \in 1 .. builder - 1,
           NEW o \in KindOf(Builders[builder]), o \in KindOf(Builders[k])
    PROVE  Builders[k] = "StatefulSet"
  <1>1. builder \in 1 .. 6 /\ k \in 1 .. 5 /\ k < builder
    BY BuilderValues
  <1> QED
    BY <1>1, KindsDisjoint DEF KindOf, Builders

\* Nor does an earlier builder want a node of a later one's.
LEMMA EarlierUnwanted ==
    ASSUME NEW spec \in Specs, NEW builder \in DOMAIN Builders, NEW k \in 1 .. builder - 1,
           NEW o \in NodeNames, o \in Wanted(spec, Builders[builder])
    PROVE  o \notin Wanted(spec, Builders[k])
  <1>1. builder \in 1 .. 6 /\ k \in 1 .. 5 /\ k < builder /\ k \in DOMAIN Builders
    BY BuilderValues
  <1>2. o \in Names /\ o # NoName
    BY KindsAssumption DEF Names
  <1>3. /\ o \in KindOf(Builders[builder])
        /\ o \in Wanted(spec, Builders[k]) => o \in KindOf(Builders[k])
    BY <1>1, <1>2, SpecType
  <1>4. o \in Wanted(spec, Builders[k]) => k = 5 /\ builder = 6
    BY <1>1, <1>3, KindsDisjoint DEF KindOf, Builders
  <1> QED
    BY <1>2, <1>4, RolesAssumption DEF Builders

\* The labels of a TeamCity object that keeps them.
OwnLabels(i) == (CHOOSE spec \in SpecsOf(i) : TRUE).labels

\* All its specs have these.
LEMMA LabelsKept ==
    ASSUME NEW i, KeepsLabels(i), NEW spec \in SpecsOf(i)
    PROVE  spec.labels = OwnLabels(i)
  <1>1. (CHOOSE other \in SpecsOf(i) : TRUE) \in SpecsOf(i)
    OBVIOUS
  <1> QED
    BY <1>1 DEF KeepsLabels, OwnLabels

\* A claim is traceable only with labels that stay and without users' own claims.
LEMMA TraceableClaims ==
    ASSUME NEW i, NEW o \in Claims, o \in Traceable(i)
    PROVE  KeepsLabels(i) /\ Strangers \cap Claims = {}
  BY DEF Traceable

-------------------------------------------------------------------------------
(* Specs and claims *)

\* A pass works on one of the specs of its TeamCity object.
SpecsInv ==
    /\ \A i \in Instances : tc[i] # NoTC => tc[i] \in SpecsOf(i)
    /\ ~ At("idle") => pass.inst \in SpecsOf(pass.instance)

\* Without users' own claims, a claim has the labels of the TeamCity object that controls
\* it, if that one keeps them.
ClaimsInv ==
    Strangers \cap Claims = {} => \A o \in Claims : Exists(o) =>
        /\ objects[o].owner \in Instances
        /\ KeepsLabels(objects[o].owner) =>
              objects[o].labels = GetLabels(objects[o].owner, OwnLabels(objects[o].owner))

\* The strengthened invariant.
RestParts == OwnedInv /\ SpecsInv /\ ClaimsInv /\ CacheTells

-------------------------------------------------------------------------------
(* Writes *)

\* What a write without an event must leave as it was.
Harmless(o, new) ==
    Exists(o) /\ new # Absent =>
        /\ objects[o].owner \in Instances => new.owner = objects[o].owner
        /\ new.owner # objects[o].owner => seen[o] = objects[o]
        /\ \A i \in Instances :
              new.owner = i /\ o \in Traceable(i) \cap (Claims \cup NodeNames) =>
                  new.labels = objects[o].labels

\* A write after which there is no more to delete than before.
Fades(o, new) ==
    new # Absent /\ new.owner \in Instances =>
        /\ Exists(o) /\ new.owner = objects[o].owner /\ new.labels = objects[o].labels
        /\ ~ new.terminating => ~ objects[o].terminating

\* A write of which no event tells a controller leaves the object under it, as it was, or
\* only adds to a StatefulSet.
LEMMA UntoldWrite ==
    ASSUME RestParts, NEW o \in Names, NEW new, Write(o, new), Harmless(o, new),
           NEW i \in Instances, i \notin events'[o], Exists(o), objects[o].owner = i
    PROVE  /\ new # Absent /\ new.owner = i
           /\ new = objects[o] \/ o \in Claims \cup NodeNames
           /\ new.config = objects[o].config \/ OnlyAdds(o, objects[o], new)
  <1>1. /\ i \notin events[o]
        /\ ~ EventPasses(o, objects[o], new) \/ i \notin Controllers({objects[o], new})
    BY DEF RestParts, OwnedInv, OwnedTypeOK, Write
  <1>2. i \in Controllers({objects[o], new})
    BY DEF Controllers, Exists
  <1>3. ~ EventPasses(o, objects[o], new)
    BY <1>1, <1>2
  <1> QED
    BY <1>3 DEF EventPasses, Harmless, Exists

\* After a harmless write the cache still tells.
LEMMA WriteTells ==
    ASSUME RestParts, NEW o \in Names, NEW new, Write(o, new), Harmless(o, new),
           UNCHANGED seen
    PROVE  CacheTells'
  <1>1. /\ objects'[o] = new /\ \A p \in Names \ {o} : objects'[p] = objects[p]
        /\ events[o] \subseteq events'[o] /\ \A p \in Names \ {o} : events'[p] = events[p]
    BY DEF RestParts, OwnedInv, OwnedTypeOK, Write
  <1> SUFFICES ASSUME NEW i \in Instances \ events'[o],
                      \/ new # Absent /\ new.owner = i
                      \/ seen[o] # Absent /\ seen[o].owner = i
               PROVE  /\ new # Absent /\ new.owner = i /\ seen[o] # Absent
                      /\ o \notin NodeNames => seen[o].config = new.config
                      /\ o \in Traceable(i) => seen[o].labels = new.labels
                      /\ o \notin Claims \cup NodeNames => seen[o] = new
    BY <1>1 DEF RestParts, CacheTells, Exists
  <1>2. i \notin events[o]
    BY <1>1
  <1>3. seen[o] # Absent /\ seen[o].owner = i => Exists(o) /\ objects[o].owner = i
    BY <1>2 DEF RestParts, CacheTells
  <1>4. CASE Exists(o) /\ objects[o].owner = i
    <2>1. /\ seen[o] # Absent
          /\ o \notin NodeNames => seen[o].config = objects[o].config
          /\ o \in Traceable(i) => seen[o].labels = objects[o].labels
          /\ o \notin Claims \cup NodeNames => seen[o] = objects[o]
      BY <1>2, <1>4 DEF RestParts, CacheTells
    <2>2. /\ new # Absent /\ new.owner = i
          /\ o \notin NodeNames => new.config = objects[o].config
          /\ new = objects[o] \/ o \in Claims \cup NodeNames
      BY <1>4, UntoldWrite DEF OnlyAdds
    <2>3. o \in Traceable(i) => new.labels = objects[o].labels
      BY <1>4, <2>2 DEF Harmless
    <2> QED
      BY <2>1, <2>2, <2>3
  <1>5. CASE new # Absent /\ new.owner = i /\ ~ (Exists(o) /\ objects[o].owner = i)
    <2>1. i \in Controllers({objects[o], new})
      BY <1>5 DEF Controllers
    <2>2. ~ EventPasses(o, objects[o], new)
      BY <2>1 DEF RestParts, OwnedInv, OwnedTypeOK, Write
    <2>3. /\ Exists(o) /\ o \in Claims \cup NodeNames
          /\ o \notin NodeNames => new.config = objects[o].config
      BY <1>5, <2>2 DEF EventPasses, OnlyAdds, Exists
    <2>4. seen[o] = objects[o] /\ (o \in Traceable(i) => new.labels = objects[o].labels)
      BY <1>5, <2>3 DEF Harmless
    <2> QED
      BY <1>5, <2>3, <2>4 DEF Exists
  <1> QED
    BY <1>3, <1>4, <1>5

\* What a write makes of a claim, when users have none of their own.
ClaimLabelled(o, new) ==
    Strangers \cap Claims = {} /\ o \in Claims /\ new # Absent =>
        /\ new.owner \in Instances
        /\ KeepsLabels(new.owner) => new.labels = GetLabels(new.owner, OwnLabels(new.owner))

\* A write that loses nothing, unless an event tells.
Careful(o, new) == Harmless(o, new) /\ ClaimLabelled(o, new)

\* What a pass creates or updates is written with care.
LEMMA UpdateCareful ==
    ASSUME RestParts, At("apply"), NEW o \in Names, o \in pass.todo,
           CreateOrUpdateSucceeds(o), ~ NothingToSend(o)
    PROVE  Careful(o, Update(o))
  <1> DEFINE i == pass.instance
  <1>1. /\ OwnedInv /\ Update(o).owner = i /\ i \in Instances /\ Update(o) \in Object
        /\ pass.inst \in SpecsOf(i)
    BY UpdateType DEF RestParts, SpecsInv, OwnedInv, OwnedTypeOK, PassTypeOK, At
  <1>2. o \in Claims => Update(o).labels = GetLabels(i, pass.inst.labels)
    BY KindsDisjoint DEF Update, SelectorLabels
  <1>3. KeepsLabels(i) => pass.inst.labels = OwnLabels(i)
    BY <1>1, LabelsKept
  <1>4. ClaimLabelled(o, Update(o))
    BY <1>1, <1>2, <1>3 DEF ClaimLabelled
  <1>5. Exists(o) => seen[o] = objects[o] /\ objects[o].owner \in {NoOwner, i}
    BY DEF CreateOrUpdateSucceeds, SetControllerReference
  <1>6. ASSUME Exists(o), o \in Traceable(i) \cap (Claims \cup NodeNames)
        PROVE  Update(o).labels = objects[o].labels
    <2>1. CASE o \in NodeNames
      BY <1>5, <1>6, <2>1 DEF Update, Exists
    <2>2. CASE o \in Claims
      <3>1. KeepsLabels(i) /\ Strangers \cap Claims = {}
        BY <1>6, <2>2, TraceableClaims
      <3>2. objects[o].owner = i
        BY <1>5, <1>6, <2>2, <3>1, SpecType DEF RestParts, ClaimsInv
      <3> QED
        BY <1>2, <1>3, <1>6, <2>2, <3>1, <3>2 DEF RestParts, ClaimsInv
    <2> QED
      BY <1>6, <2>1, <2>2
  <1>7. Harmless(o, Update(o))
    BY <1>1, <1>5, <1>6, SpecType DEF Harmless
  <1> QED
    BY <1>4, <1>7 DEF Careful

\* So are deletions, by whomever.
LEMMA DeletionCareful ==
    ASSUME RestParts, NEW o \in Names, Exists(o), NEW left \in Deletion(o) \cup {Absent}
    PROVE  Careful(o, left) /\ Fades(o, left) /\ (left # Absent => left.terminating)
  <1>1. CASE left = Absent
    BY <1>1 DEF Careful, Harmless, ClaimLabelled, Fades
  <1>2. CASE left = [objects[o] EXCEPT !.terminating = TRUE]
    <2>1. objects[o] \in Object
      BY DEF RestParts, OwnedInv, OwnedTypeOK, Exists
    <2>2. /\ left.owner = objects[o].owner /\ left.labels = objects[o].labels
          /\ left.terminating
      BY <1>2, <2>1 DEF Object
    <2>3. Harmless(o, left) /\ Fades(o, left)
      BY <2>2 DEF Harmless, Fades
    <2>4. ClaimLabelled(o, left)
      BY <2>2 DEF ClaimLabelled, RestParts, ClaimsInv
    <2> QED
      BY <2>2, <2>3, <2>4 DEF Careful
  <1> QED
    BY <1>1, <1>2 DEF Deletion

\* What is added unseen is missed.
UnseenIsMissed(o, new) ==
    new # Absent /\ OnlyAdds(o, objects[o], new) => Controllers({new}) \subseteq missed'

\* And what the garbage collector and users do, who make only objects of nobody.
LEMMA OthersCareful ==
    ASSUME RestParts, NEW o \in Names, CollectGarbage(o) \/ ReleaseClaim(o) \/ Tamper(o)
    PROVE  \E new : /\ Write(o, new) /\ Careful(o, new) /\ Fades(o, new)
                   /\ UnseenIsMissed(o, new)
  <1>1. CASE Exists(o) /\ \E left \in Deletion(o) \cup {Absent} : Write(o, left)
    <2>1. PICK left \in Deletion(o) \cup {Absent} : Write(o, left)
      BY <1>1
    <2>2. UnseenIsMissed(o, left)
      BY <2>1, KindsDisjoint DEF Deletion, OnlyAdds, UnseenIsMissed
    <2> QED
      BY <1>1, <2>1, <2>2, DeletionCareful
  <1>2. CASE /\ Exists(o) /\ Write(o, [objects[o] EXCEPT !.config = @ + 1])
             /\ OnlyAdds(o, objects[o], [objects[o] EXCEPT !.config = @ + 1])
                   => Controllers({[objects[o] EXCEPT !.config = @ + 1]}) \subseteq missed'
    <2> DEFINE new == [objects[o] EXCEPT !.config = @ + 1]
    <2>1. objects[o] \in Object
      BY <1>2 DEF RestParts, OwnedInv, OwnedTypeOK, Exists
    <2>2. /\ new.owner = objects[o].owner /\ new.labels = objects[o].labels
          /\ new.terminating = objects[o].terminating
      BY <2>1 DEF Object
    <2> HIDE DEF new
    <2>3. Harmless(o, new) /\ Fades(o, new)
      BY <1>2, <2>2 DEF Harmless, Fades
    <2>4. ClaimLabelled(o, new)
      BY <1>2, <2>2 DEF ClaimLabelled, RestParts, ClaimsInv
    <2>5. Write(o, new) /\ UnseenIsMissed(o, new)
      BY <1>2 DEF new, UnseenIsMissed
    <2> QED
      BY <2>3, <2>4, <2>5 DEF Careful
  <1>3. CASE ~ Exists(o) /\ o \in Strangers /\ \E labels \in StrangerLabels :
                Write(o, [labels |-> labels, owner |-> NoOwner, config |-> 1,
                          terminating |-> FALSE])
    <2>1. PICK labels \in StrangerLabels :
              Write(o, [labels |-> labels, owner |-> NoOwner, config |-> 1,
                        terminating |-> FALSE])
      BY <1>3
    <2> DEFINE new == [labels |-> labels, owner |-> NoOwner, config |-> 1,
                       terminating |-> FALSE]
    <2>2. new.owner \notin Instances /\ Controllers({new}) = {}
      BY SpecType DEF Controllers
    <2>3. Write(o, new)
      BY <2>1
    <2> HIDE DEF new
    <2>4. Careful(o, new) /\ Fades(o, new)
      BY <1>3, <2>2 DEF Careful, Harmless, ClaimLabelled, Fades
    <2>5. UnseenIsMissed(o, new)
      BY <2>2 DEF UnseenIsMissed
    <2> QED
      BY <2>3, <2>4, <2>5
  <1>4. CASE CollectGarbage(o) \/ ReleaseClaim(o)
    BY <1>1, <1>4 DEF CollectGarbage, ReleaseClaim
  <1>5. CASE Tamper(o)
    BY <1>1, <1>2, <1>3, <1>5 DEF Tamper
  <1> QED
    BY <1>4, <1>5

\* A step does to the objects and what is known of them one of these.
ObjectsMove ==
    \/ UNCHANGED <<objects, seen, events>>
    \/ /\ \E o \in Names : \E new : Write(o, new) /\ Careful(o, new)
       /\ UNCHANGED seen
    \/ \E o \in Names : Sync(o) \/ MissDeletion(o)
    \/ Crash

\* Each does.
LEMMA StepMoves ==
    ASSUME RestParts, Next
    PROVE  ObjectsMove
  <1>1. CASE DeleteObsolete
    <2>1. PICK o \in pass.todo :
              IF Exists(o) THEN \E left \in Deletion(o) : Write(o, left)
              ELSE UNCHANGED <<objects, events>>
      BY <1>1 DEF DeleteObsolete
    <2>2. o \in Names /\ UNCHANGED seen
      BY <1>1 DEF DeleteObsolete, RestParts, OwnedInv, OwnedTypeOK, PassTypeOK
    <2> QED
      BY <2>1, <2>2, DeletionCareful DEF ObjectsMove
  <1>2. CASE CreateOrUpdate
    <2>1. PICK o \in pass.todo :
              IF CreateOrUpdateSucceeds(o) /\ ~ NothingToSend(o) THEN Write(o, Update(o))
              ELSE UNCHANGED <<objects, events>>
      BY <1>2 DEF CreateOrUpdate
    <2>2. o \in Names \cup {NoName} /\ UNCHANGED seen /\ At("apply")
      BY <1>2 DEF CreateOrUpdate, RestParts, OwnedInv, OwnedTypeOK, PassTypeOK
    <2>3. CreateOrUpdateSucceeds(o) => o # NoName
      BY DEF CreateOrUpdateSucceeds
    <2> QED
      BY <2>1, <2>2, <2>3, UpdateCareful DEF ObjectsMove
  <1>3. CASE \E o \in Names : CollectGarbage(o) \/ ReleaseClaim(o) \/ Tamper(o)
    <2>1. UNCHANGED seen
      BY <1>3 DEF CollectGarbage, ReleaseClaim, Tamper
    <2> QED
      BY <1>3, <2>1, OthersCareful DEF ObjectsMove
  <1>4. CASE \/ ListObsolete \/ PreconditionsFail \/ ApiError \/ Resync
             \/ \E i \in Instances : StartPass(i) \/ TimerFires(i) \/ ApplyTeamCity(i)
                                         \/ DeleteTeamCity(i)
    BY <1>4
    DEF ObjectsMove, ListObsolete, PreconditionsFail, ApiError, Resync, StartPass,
        TimerFires, ApplyTeamCity, DeleteTeamCity
  <1>5. CASE Crash \/ \E o \in Names : Sync(o) \/ MissDeletion(o)
    BY <1>5 DEF ObjectsMove
  <1> QED
    BY <1>1, <1>2, <1>3, <1>4, <1>5 DEF Next, PassStep, UserStep

\* After each the cache tells.
LEMMA CacheTellsKept ==
    ASSUME RestParts, ObjectsMove
    PROVE  CacheTells'
  <1> DEFINE Right(o) == \A i \in Instances \ events[o] :
                 (Exists(o) /\ objects[o].owner = i) \/ (seen[o] # Absent /\ seen[o].owner = i) =>
                     /\ Exists(o) /\ objects[o].owner = i /\ seen[o] # Absent
                     /\ o \notin NodeNames => seen[o].config = objects[o].config
                     /\ o \in Traceable(i) => seen[o].labels = objects[o].labels
                     /\ o \notin Claims \cup NodeNames => seen[o] = objects[o]
  <1>1. CASE UNCHANGED <<objects, seen, events>>
    BY <1>1 DEF RestParts, CacheTells, Exists
  <1>2. CASE /\ \E o \in Names : \E new : Write(o, new) /\ Careful(o, new)
             /\ UNCHANGED seen
    BY <1>2, WriteTells DEF Careful
  <1>3. ASSUME NEW o \in Names, Sync(o) \/ MissDeletion(o)
        PROVE  CacheTells'
    <2>1. /\ UNCHANGED objects
          /\ \A p \in Names \ {o} : seen'[p] = seen[p] /\ events'[p] = events[p]
          /\ seen'[o] = objects[o] /\ (seen'[o] # Absent => Exists(o))
      BY <1>3 DEF Sync, MissDeletion, RestParts, OwnedInv, OwnedTypeOK, Exists
    <2>2. ASSUME NEW p \in Names
          PROVE  Right(p)'
      <3>1. CASE p = o
        BY <2>1, <3>1 DEF Exists
      <3>2. CASE p # o
        BY <2>1, <2>2, <3>2 DEF RestParts, CacheTells, Exists
      <3> QED
        BY <3>1, <3>2
    <2> QED
      BY <2>2 DEF CacheTells
  <1>4. CASE Crash
    BY <1>4 DEF Crash, CacheTells, Exists
  <1> QED
    BY <1>1, <1>2, <1>3, <1>4 DEF ObjectsMove

\* And claims are labelled.
LEMMA ClaimsKept ==
    ASSUME RestParts, ObjectsMove
    PROVE  ClaimsInv'
  <1>1. CASE UNCHANGED objects
    BY <1>1 DEF RestParts, ClaimsInv, Exists
  <1>2. ASSUME NEW o \in Names, NEW new, Write(o, new), Careful(o, new)
        PROVE  ClaimsInv'
    <2>1. objects'[o] = new /\ \A p \in Names \ {o} : objects'[p] = objects[p]
      BY <1>2 DEF Write, RestParts, OwnedInv, OwnedTypeOK
    <2>2. Claims \subseteq Names
      BY DEF Names
    <2> QED
      BY <1>2, <2>1, <2>2 DEF RestParts, ClaimsInv, Careful, ClaimLabelled, Exists
  <1>3. \/ UNCHANGED objects
        \/ \E o \in Names : \E new : Write(o, new) /\ Careful(o, new)
    BY DEF ObjectsMove, Sync, MissDeletion, Crash
  <1> QED
    BY <1>1, <1>2, <1>3

\* What a loop turns into works on the same spec.
LEMMA NextLoopSpec ==
    ASSUME NEW p \in PassRecord, pass' = NextLoop(p), p.inst \in SpecsOf(p.instance)
    PROVE  ~ At("idle")' => pass'.inst \in SpecsOf(pass'.instance)
  BY DEF NextLoop, PassRecord, At, IdlePass

\* Passes and users use only specs there are.
LEMMA SpecsKept ==
    ASSUME RestParts, Next
    PROVE  SpecsInv'
  <1>1. /\ tc \in [Instances -> Specs \cup {NoTC}] /\ pass \in PassRecord
        /\ \A i \in Instances : tc[i] # NoTC => tc[i] \in SpecsOf(i)
        /\ ~ At("idle") => pass.inst \in SpecsOf(pass.instance)
    BY DEF RestParts, OwnedInv, OwnedTypeOK, PassTypeOK, PassRecord, SpecsInv
  <1>2. \A i \in Instances : tc'[i] # NoTC => tc'[i] \in SpecsOf(i)
    <2>1. CASE UNCHANGED tc
      BY <1>1, <2>1
    <2>2. ASSUME NEW i \in Instances, ApplyTeamCity(i) \/ DeleteTeamCity(i)
          PROVE  \E spec \in Requests[i] \cup {NoTC} : tc' = [tc EXCEPT ![i] = spec]
      BY <2>2 DEF ApplyTeamCity, DeleteTeamCity
    <2>3. CASE \E i \in Instances : ApplyTeamCity(i) \/ DeleteTeamCity(i)
      <3>1. PICK i \in Instances :
                \E spec \in Requests[i] \cup {NoTC} : tc' = [tc EXCEPT ![i] = spec]
        BY <2>2, <2>3
      <3> QED
        BY <1>1, <3>1 DEF SpecsOf
    <2>4. UNCHANGED tc \/ \E i \in Instances : ApplyTeamCity(i) \/ DeleteTeamCity(i)
      BY DEF Next, PassStep, ListObsolete, DeleteObsolete, CreateOrUpdate, StartPass,
             TimerFires, PreconditionsFail, ApiError, Crash, Resync, Sync, MissDeletion,
             CollectGarbage, ReleaseClaim, UserStep, Tamper
    <2> QED
      BY <2>1, <2>3, <2>4
  <1>3. ~ At("idle")' => pass'.inst \in SpecsOf(pass'.instance)
    <2>1. CASE UNCHANGED pass
      BY <1>1, <2>1 DEF At
    <2>2. CASE pass' = IdlePass
      BY <2>2 DEF At, IdlePass
    <2>3. ASSUME NEW i \in Instances, tc[i] # NoTC,
                 pass' = [IdlePass EXCEPT !.pc = "list", !.instance = i, !.inst = tc[i]]
          PROVE  pass'.inst \in SpecsOf(pass'.instance)
      BY <1>1, <2>3 DEF IdlePass
    <2>4. ASSUME ~ At("idle"), NEW p \in PassRecord, pass' = NextLoop(p),
                 p.inst = pass.inst, p.instance = pass.instance
          PROVE  ~ At("idle")' => pass'.inst \in SpecsOf(pass'.instance)
      BY <1>1, <2>4, NextLoopSpec
    <2>5. CASE PassStep
      <3>1. CASE ListObsolete
        <4>1. GetObsoleteObjects \subseteq Names
          BY <3>1, ObsoleteIsLabelled DEF RestParts, ListObsolete
        <4>2. [pass EXCEPT !.pc = "delete", !.todo = GetObsoleteObjects] \in PassRecord
          BY <1>1, <4>1 DEF PassRecord
        <4> QED
          BY <1>1, <2>4, <3>1, <4>2 DEF ListObsolete, At, PassRecord
      <3>2. CASE DeleteObsolete \/ CreateOrUpdate
        <4>1. ~ At("idle")
          BY <3>2 DEF DeleteObsolete, CreateOrUpdate, At
        <4>2. \/ pass' = IdlePass
              \/ \E o \in pass.todo : pass' = NextLoop([pass EXCEPT !.todo = @ \ {o}])
          BY <3>2 DEF DeleteObsolete, CreateOrUpdate, Retry
        <4>3. ASSUME NEW o
              PROVE  /\ [pass EXCEPT !.todo = @ \ {o}] \in PassRecord
                     /\ [pass EXCEPT !.todo = @ \ {o}].inst = pass.inst
                     /\ [pass EXCEPT !.todo = @ \ {o}].instance = pass.instance
          BY <1>1 DEF PassRecord
        <4> QED
          BY <2>2, <2>4, <4>1, <4>2, <4>3
      <3> QED
        BY <2>5, <3>1, <3>2 DEF PassStep
    <2>6. \/ UNCHANGED pass \/ pass' = IdlePass \/ PassStep
          \/ \E i \in Instances : /\ tc[i] # NoTC
                                  /\ pass' = [IdlePass EXCEPT !.pc = "list", !.instance = i,
                                                              !.inst = tc[i]]
      BY DEF Next, StartPass, Retry,
             TimerFires, PreconditionsFail, ApiError, Crash, Resync, Sync, MissDeletion,
             CollectGarbage, ReleaseClaim, UserStep, Tamper, ApplyTeamCity, DeleteTeamCity
    <2> QED
      BY <2>1, <2>2, <2>3, <2>5, <2>6
  <1> QED
    BY <1>2, <1>3 DEF SpecsInv

\* The strengthened invariant holds at first, ...
LEMMA InitRestParts == Init => RestParts
  <1> SUFFICES ASSUME Init PROVE RestParts
    OBVIOUS
  <1>1. OwnedInv
    BY InitOwnedInv
  <1>2. SpecsInv
    BY DEF Init, SpecsInv, SpecsOf, At, IdlePass
  <1>3. ClaimsInv /\ CacheTells
    <2>1. Claims \subseteq Names
      BY DEF Names
    <2> QED
      BY <2>1 DEF Init, ClaimsInv, CacheTells, Exists
  <1> QED
    BY <1>1, <1>2, <1>3 DEF RestParts

\* ... and after every step.
LEMMA StepRestParts == RestParts /\ [Next]_vars => RestParts'
  <1> SUFFICES ASSUME RestParts, [Next]_vars PROVE RestParts'
    OBVIOUS
  <1>1. OwnedInv'
    BY StepOwnedInv DEF RestParts
  <1>2. CASE Next
    BY <1>1, <1>2, StepMoves, CacheTellsKept, ClaimsKept, SpecsKept DEF RestParts
  <1>3. CASE UNCHANGED vars
    <2>1. ObjectsMove
      BY <1>3 DEF vars, ObjectsMove
    <2>2. SpecsInv'
      BY <1>3 DEF vars, RestParts, SpecsInv, At
    <2> QED
      BY <1>1, <2>1, <2>2, CacheTellsKept, ClaimsKept DEF RestParts
  <1> QED
    BY <1>2, <1>3

-------------------------------------------------------------------------------
(* What a pass has done *)

\* A builder's work on a TeamCity object outlasts a step.
Lasts(i, builder) ==
    /\ \A o \in Wanted(tc[i], builder) \cap Names :
          Applied(i, builder, o) => Applied(i, builder, o)'
    /\ Leftover(i, builder)' \subseteq Leftover(i, builder)

\* It does when no object changes, ...
LEMMA NothingMoves ==
    ASSUME NEW i, NEW builder, UNCHANGED objects, tc'[i] = tc[i]
    PROVE  Lasts(i, builder)
  BY DEF Lasts, Applied, Leftover, Found, HasLabelsOf, Exists

\* What a write that only adds to a StatefulSet makes of what the builder wants, it wants.
AddsAsWanted(i, builder, o, new) ==
    OnlyAdds(o, objects[o], new) /\ new # Absent /\ new.owner = i
    /\ o \in Wanted(tc[i], builder)
        => new.config = tc[i].want[builder][o]

\* ... and after a careful write of which no event tells, if it leaves nothing new to
\* delete and adds nothing else.
LEMMA WriteLasts ==
    ASSUME RestParts, NEW i \in Instances, NEW k \in DOMAIN Builders, tc'[i] = tc[i],
           NEW o \in Names, NEW new, Write(o, new), Careful(o, new), i \notin events'[o],
           \/ Fades(o, new)
           \/ new # Absent /\ new.owner # i
           \/ o \in Wanted(tc[i], Builders[k])
           \/ o \notin KindOf(Builders[k])
           \/ Builders[k] = "StatefulSet",
           AddsAsWanted(i, Builders[k], o, new)
    PROVE  Lasts(i, Builders[k])
  <1> DEFINE builder == Builders[k]
  <1>1. objects'[o] = new /\ \A p \in Names \ {o} : objects'[p] = objects[p]
    BY DEF Write, RestParts, OwnedInv, OwnedTypeOK
  <1>2. ASSUME NEW p \in Wanted(tc[i], builder) \cap Names, Applied(i, builder, p)
        PROVE  Applied(i, builder, p)'
    <2>1. CASE p # o
      BY <1>1, <1>2, <2>1 DEF Applied, HasLabelsOf, Exists
    <2>2. CASE p = o
      <3>1. /\ Exists(o) /\ objects[o].owner = i /\ o # NoName
            /\ objects[o].config = tc[i].want[builder][o]
            /\ o \notin NodeNames \cup Claims => HasLabelsOf(i, o)
        BY <1>2, <2>2 DEF Applied
      <3>2. /\ new # Absent /\ new.owner = i
            /\ new.config = objects[o].config \/ OnlyAdds(o, objects[o], new)
            /\ new = objects[o] \/ o \in Claims \cup NodeNames
        BY <3>1, UntoldWrite DEF Careful
      <3>3. new.config = tc[i].want[builder][o]
        BY <1>2, <2>2, <3>1, <3>2 DEF AddsAsWanted
      <3> QED
        BY <1>1, <2>2, <3>1, <3>2, <3>3 DEF Applied, HasLabelsOf, Exists
    <2> QED
      BY <2>1, <2>2
  <1>3. ASSUME NEW p \in Leftover(i, builder)'
        PROVE  p \in Leftover(i, builder)
    <2>1. /\ p \in KindOf(builder) \cap Traceable(i) /\ p \notin Wanted(tc[i], builder)
          /\ objects'[p] # Absent /\ objects'[p].owner = i /\ ~ objects'[p].terminating
          /\ builder # "StatefulSet" /\ Found(i, p)'
      BY <1>3 DEF Leftover, Exists
    <2>2. p \in Names
      BY <2>1 DEF Traceable
    <2>3. CASE p # o
      BY <1>1, <2>1, <2>2, <2>3 DEF Leftover, Found, Exists
    <2>4. CASE p = o
      <3>1. Fades(o, new) /\ new # Absent /\ new.owner = i
        BY <1>1, <2>1, <2>4
      <3>2. /\ Exists(o) /\ new.owner = objects[o].owner /\ new.labels = objects[o].labels
            /\ ~ objects[o].terminating
        BY <1>1, <2>1, <2>4, <3>1 DEF Fades
      <3> QED
        BY <1>1, <2>1, <2>4, <3>1, <3>2 DEF Leftover, Found, Exists
    <2> QED
      BY <2>3, <2>4
  <1> QED
    BY <1>2, <1>3 DEF Lasts

\* What a builder was done with, it is done with after a step that its work outlasts.
LEMMA DoneLasts ==
    ASSUME RestParts, NEW i \in Instances, NEW k \in DOMAIN Builders, tc[i] # NoTC,
           tc'[i] = tc[i], Lasts(i, Builders[k]), BuilderDone(i, Builders[k])
    PROVE  BuilderDone(i, Builders[k])'
  <1>1. Wanted(tc[i], Builders[k]) \subseteq Names \cup {NoName}
    BY SpecType DEF RestParts, OwnedInv, OwnedTypeOK
  <1> QED
    BY <1>1 DEF BuilderDone, AppliedBy, Lasts, Applied

\* What a pass p has behind it stays behind it.
LEMMA BehindLasts ==
    ASSUME RestParts, NEW i \in Instances, tc[i] # NoTC, tc'[i] = tc[i],
           NEW p \in PassRecord, PassBehind(p, i),
           \A k \in DOMAIN Builders :
               p.pc = "idle" \/ p.instance # i \/ k <= p.builder => Lasts(i, Builders[k])
    PROVE  PassBehind(p, i)'
  <1>1. CASE p.pc = "idle" \/ p.instance # i
    BY <1>1, DoneLasts DEF PassBehind
  <1>2. CASE ~ (p.pc = "idle" \/ p.instance # i)
    <2> DEFINE builder == Builders[p.builder]
    <2>1. p.builder \in 1 .. 6
      BY BuilderValues DEF PassRecord
    <2>2. /\ p.inst = tc[i]
          /\ \A k \in 1 .. p.builder - 1 : BuilderDone(i, Builders[k])
          /\ p.pc = "delete" => Leftover(i, builder) \subseteq p.todo
          /\ p.pc = "apply" =>
                /\ Leftover(i, builder) = {}
                /\ \A o \in Wanted(tc[i], builder) \ p.todo : Applied(i, builder, o)
      BY <1>2 DEF PassBehind
    <2>3. \A k \in 1 .. p.builder - 1 : BuilderDone(i, Builders[k])'
      BY <1>2, <2>1, <2>2, BuilderValues, DoneLasts
    <2>4. /\ Leftover(i, builder)' \subseteq Leftover(i, builder)
          /\ \A o \in Wanted(tc[i], builder) \cap Names :
                Applied(i, builder, o) => Applied(i, builder, o)'
      BY <2>1, BuilderValues DEF Lasts
    <2>5. Wanted(tc[i], builder) \subseteq Names \cup {NoName}
      BY <2>1, BuilderValues, SpecType DEF RestParts, OwnedInv, OwnedTypeOK
    <2>6. \A o : Applied(i, builder, o) => o # NoName
      BY DEF Applied
    <2> QED
      BY <1>2, <2>2, <2>3, <2>4, <2>5, <2>6 DEF PassBehind
  <1> QED
    BY <1>1, <1>2

\* At the end of a loop there is what there was during it.
LEMMA NextLoopBehind ==
    ASSUME NEW p \in PassRecord, p.instance \in Instances, p.pc \in {"delete", "apply"},
           NEW i \in Instances, PassBehind(p, i)', pass' = NextLoop(p)
    PROVE  PassBehind(pass, i)'
  <1> DEFINE builder == Builders[p.builder]
             wanted == Wanted(p.inst, builder)
  <1>1. p.builder \in 1 .. 6 /\ DOMAIN Builders = 1 .. 6 /\ Len(Builders) = 6
    BY BuilderValues DEF PassRecord
  <1>2. CASE p.todo # {}
    BY <1>2 DEF NextLoop, PassBehind
  <1>3. CASE p.instance # i
    <2>1. pass'.pc = "idle" \/ pass'.instance # i
      BY <1>3 DEF NextLoop, PassRecord, IdlePass
    <2>2. \A k \in DOMAIN Builders : BuilderDone(i, Builders[k])'
      BY <1>3 DEF PassBehind
    <2> QED
      BY <2>1, <2>2 DEF PassBehind
  <1>4. CASE p.instance = i /\ p.todo = {}
    <2>1. /\ p.inst = tc'[i]
          /\ \A k \in 1 .. p.builder - 1 : BuilderDone(i, Builders[k])'
          /\ Leftover(i, builder)' = {}
          /\ p.pc = "apply" =>
                \A o \in Wanted(tc[i], builder)' \ p.todo : Applied(i, builder, o)'
      BY <1>4 DEF PassBehind
    <2>2. CASE p.pc = "delete" /\ wanted # {}
      <3>1. pass' = [p EXCEPT !.pc = "apply", !.todo = wanted]
        BY <1>4, <2>2 DEF NextLoop
      <3>2. /\ pass'.pc = "apply" /\ pass'.instance = i /\ pass'.inst = p.inst
            /\ pass'.builder = p.builder /\ pass'.todo = wanted
        BY <1>4, <3>1 DEF PassRecord
      <3>3. wanted = Wanted(tc'[i], builder)
        BY <2>1
      <3> HIDE DEF wanted
      <3> QED
        BY <2>1, <3>2, <3>3 DEF PassBehind, Wanted
    <2>3. CASE p.pc = "apply" \/ wanted = {}
      <3>1. \A o \in Wanted(tc[i], builder)' : Applied(i, builder, o)'
        BY <1>4, <2>1, <2>3 DEF Wanted
      <3>2. BuilderDone(i, builder)'
        BY <2>1, <3>1 DEF BuilderDone, AppliedBy, Wanted
      <3>3. \A k \in 1 .. p.builder : BuilderDone(i, Builders[k])'
        BY <1>1, <2>1, <3>2
      <3>4. CASE p.builder = 6
        <4>1. pass' = IdlePass
          BY <1>1, <1>4, <2>3, <3>4 DEF NextLoop
        <4> QED
          BY <1>1, <3>3, <3>4, <4>1 DEF PassBehind, IdlePass
      <3>5. CASE p.builder # 6
        <4>1. pass' = [p EXCEPT !.pc = "list", !.builder = p.builder + 1]
          BY <1>1, <1>4, <2>3, <3>5 DEF NextLoop
        <4>2. /\ pass'.pc = "list" /\ pass'.instance = i /\ pass'.inst = p.inst
              /\ pass'.builder = p.builder + 1
          BY <1>4, <4>1 DEF PassRecord
        <4>3. 1 .. pass'.builder - 1 = 1 .. p.builder
          BY <1>1, <4>2
        <4> QED
          BY <2>1, <3>3, <4>2, <4>3 DEF PassBehind
      <3> QED
        BY <3>4, <3>5
    <2> QED
      BY <2>2, <2>3
  <1> QED
    BY <1>2, <1>3, <1>4

-------------------------------------------------------------------------------
(* Who will be told *)

\* Only the start of its pass makes a TeamCity object one that nothing will queue.
LEMMA ToldLasts ==
    ASSUME RestParts, Next, NEW i \in Instances, tc'[i] # NoTC, ~ StartPass(i), Told(i)
    PROVE  Told(i)'
  <1>1. /\ events \in [Names -> SUBSET Instances]
        /\ i \in queued \cup delayed \cup missed \/ \E o \in Names : i \in events[o]
    BY DEF RestParts, OwnedInv, OwnedTypeOK, Told
  <1>2. ASSUME NEW j \in Instances \ {i}, StartPass(j)
        PROVE  Told(i)'
    BY <1>1, <1>2 DEF StartPass, Told
  <1>3. CASE DeleteObsolete \/ CreateOrUpdate
    <2>1. /\ UNCHANGED <<queued, missed>> /\ delayed \subseteq delayed'
          /\ UNCHANGED events \/ \E o \in pass.todo : \E new : Write(o, new)
      BY <1>3 DEF DeleteObsolete, CreateOrUpdate, Retry
    <2>2. \A o \in Names : events[o] \subseteq events'[o]
      BY <1>1, <2>1 DEF Write
    <2> QED
      BY <1>1, <2>1, <2>2 DEF Told
  <1>4. ASSUME NEW o \in Names, CollectGarbage(o) \/ ReleaseClaim(o) \/ Tamper(o)
        PROVE  Told(i)'
    <2>1. /\ UNCHANGED <<queued, delayed>> /\ missed \subseteq missed'
          /\ \E new : Write(o, new)
      BY <1>4 DEF CollectGarbage, ReleaseClaim, Tamper
    <2>2. \A p \in Names : events[p] \subseteq events'[p]
      BY <1>1, <2>1 DEF Write
    <2> QED
      BY <1>1, <2>1, <2>2 DEF Told
  <1>5. CASE ListObsolete \/ PreconditionsFail \/ ApiError
    BY <1>1, <1>5 DEF ListObsolete, PreconditionsFail, ApiError, Retry, Told
  <1>6. ASSUME NEW j \in Instances, TimerFires(j) \/ ApplyTeamCity(j) \/ DeleteTeamCity(j)
        PROVE  Told(i)'
    BY <1>1, <1>6 DEF TimerFires, ApplyTeamCity, DeleteTeamCity, Told
  <1>7. CASE Crash \/ Resync
    BY <1>7 DEF Crash, Resync, Told
  <1>8. ASSUME NEW o \in Names, Sync(o) \/ MissDeletion(o)
        PROVE  Told(i)'
    <2>1. \A p \in Names \ {o} : events'[p] = events[p]
      BY <1>1, <1>8 DEF Sync, MissDeletion
    <2> QED
      BY <1>1, <1>8, <2>1 DEF Sync, MissDeletion, Told
  <1> QED
    BY <1>2, <1>3, <1>4, <1>5, <1>6, <1>7, <1>8 DEF Next, PassStep, UserStep

\* An edit of a TeamCity object queues it.
LEMMA EditIsTold ==
    ASSUME RestParts, Next, NEW i \in Instances, tc'[i] # tc[i]
    PROVE  Told(i)'
  <1>1. \E j \in Instances : ApplyTeamCity(j) \/ DeleteTeamCity(j)
    BY DEF Next, PassStep, ListObsolete, DeleteObsolete, CreateOrUpdate, StartPass,
           TimerFires, PreconditionsFail, ApiError, Crash, Resync, Sync, MissDeletion,
           CollectGarbage, ReleaseClaim, UserStep, Tamper
  <1>2. PICK j \in Instances : ApplyTeamCity(j) \/ DeleteTeamCity(j)
    BY <1>1
  <1>3. j = i
    BY <1>2 DEF ApplyTeamCity, DeleteTeamCity, RestParts, OwnedInv, OwnedTypeOK
  <1> QED
    BY <1>2, <1>3 DEF ApplyTeamCity, DeleteTeamCity, Told

-------------------------------------------------------------------------------
(* The steps of the worker, for a TeamCity object nothing will queue *)

\* What the steps below have in common.
Untold(i) ==
    /\ RestParts /\ tc[i] # NoTC /\ tc'[i] = tc[i] /\ ~ Told(i) /\ ~ Told(i)'
    /\ PassBehind(pass, i)

\* A builder lists everything it has to delete.
LEMMA LeftoverIsListed ==
    ASSUME RestParts, NEW i \in Instances, ~ Told(i), At("list"), pass.instance = i,
           pass.inst = tc[i]
    PROVE  Leftover(i, Builder) \subseteq GetObsoleteObjects
  <1> SUFFICES ASSUME NEW o \in Leftover(i, Builder) PROVE o \in GetObsoleteObjects
    OBVIOUS
  <1>1. /\ o \in KindOf(Builder) \cap Traceable(i) /\ o \notin Wanted(tc[i], Builder)
        /\ Exists(o) /\ objects[o].owner = i /\ Builder # "StatefulSet" /\ Found(i, o)
    BY DEF Leftover
  <1>2. o \in Names /\ i \notin events[o]
    BY <1>1 DEF Traceable, Told
  <1>3. seen[o] # Absent /\ seen[o].labels = objects[o].labels
    BY <1>1, <1>2 DEF RestParts, CacheTells
  <1>4. Builder \in {"PersistentVolumeClaim", "ServiceAccount", "Service", "Ingress",
                     "SecondaryStatefulSet"}
    BY <1>1, BuilderValues DEF Builder, RestParts, OwnedInv, OwnedTypeOK, PassTypeOK
  <1>5. CASE Builder = "SecondaryStatefulSet"
    BY <1>1, <1>3, <1>5
    DEF KindOf, Found, GetObsoleteObjects, ObsoleteSecondaryStatefulSets, Listed
  <1>6. CASE Builder # "SecondaryStatefulSet"
    <2>1. o \in KindOf(Builder) /\ o \notin NodeNames
      BY <1>1, <1>4, <1>6, KindsDisjoint DEF KindOf
    <2>2. MatchingLabels(SelectorLabels, seen[o].labels)
      BY <1>1, <1>3, <2>1 DEF Found, SelectorLabels
    <2> QED
      BY <1>1, <1>3, <1>4, <1>6, <2>1, <2>2
      DEF KindOf, GetObsoleteObjects, Listed, ObsoletePersistentVolumeClaims,
          ObsoleteServiceAccounts, ObsoleteServices, ObsoleteIngresses
  <1> QED
    BY <1>5, <1>6

\* A pass that lists what is obsolete has nothing left that it will not delete.
LEMMA ListObsoleteBehind ==
    ASSUME NEW i \in Instances, Untold(i), ListObsolete
    PROVE  PassBehind(pass, i)'
  <1>1. /\ pass \in PassRecord /\ pass.instance \in Instances /\ At("list")
        /\ GetObsoleteObjects \subseteq Names
    BY ObsoleteIsLabelled
    DEF Untold, RestParts, ListObsolete, OwnedInv, OwnedTypeOK, PassTypeOK, PassRecord, At
  <1>2. PICK p : p = [pass EXCEPT !.pc = "delete", !.todo = GetObsoleteObjects]
    OBVIOUS
  <1>3. /\ p \in PassRecord /\ p.pc = "delete" /\ p.instance = pass.instance
        /\ p.inst = pass.inst /\ p.builder = pass.builder /\ p.todo = GetObsoleteObjects
    BY <1>1, <1>2 DEF PassRecord
  <1>4. PassBehind(p, i)
    <2>1. CASE pass.instance # i
      BY <1>1, <1>3, <2>1 DEF Untold, PassBehind
    <2>2. CASE pass.instance = i
      <3>1. /\ pass.inst = tc[i]
            /\ \A k \in 1 .. pass.builder - 1 : BuilderDone(i, Builders[k])
        BY <1>1, <2>2 DEF Untold, PassBehind, At
      <3>2. Leftover(i, Builder) \subseteq GetObsoleteObjects
        BY <1>1, <2>2, <3>1, LeftoverIsListed DEF Untold
      <3> QED
        BY <1>3, <2>2, <3>1, <3>2 DEF PassBehind, Builder
    <2> QED
      BY <2>1, <2>2
  <1>5. \A k \in DOMAIN Builders : Lasts(i, Builders[k])
    BY NothingMoves DEF Untold, ListObsolete
  <1>6. PassBehind(p, i)'
    BY <1>3, <1>4, <1>5, BehindLasts DEF Untold
  <1>7. pass' = NextLoop(p)
    BY <1>2 DEF ListObsolete
  <1> QED
    BY <1>1, <1>3, <1>6, <1>7, NextLoopBehind

\* One that deletes something has one thing less to delete; one that finds it gone
\* returns.
LEMMA DeleteObsoleteBehind ==
    ASSUME NEW i \in Instances, Untold(i), DeleteObsolete
    PROVE  PassBehind(pass, i)'
  <1>1. /\ pass \in PassRecord /\ pass.instance \in Instances /\ pass.pc = "delete"
        /\ pass.todo \subseteq Names
    BY DEF Untold, RestParts, DeleteObsolete, OwnedInv, OwnedTypeOK, PassTypeOK, PassRecord, At
  <1>2. PICK o \in pass.todo :
            IF Exists(o)
            THEN /\ \E left \in Deletion(o) : Write(o, left)
                 /\ pass' = NextLoop([pass EXCEPT !.todo = @ \ {o}])
            ELSE Retry /\ UNCHANGED objects
    BY DEF DeleteObsolete
  <1>3. o \in Names /\ \A j \in Names : i \notin events'[j]
    BY <1>1, <1>2 DEF Untold, Told
  <1>4. CASE ~ Exists(o)
    <2>1. i # pass.instance
      BY <1>2, <1>4 DEF Retry, Untold, Told
    <2>2. \A k \in DOMAIN Builders : BuilderDone(i, Builders[k])
      BY <2>1 DEF Untold, PassBehind
    <2>3. \A k \in DOMAIN Builders : BuilderDone(i, Builders[k])'
      BY <1>2, <1>4, <2>2, NothingMoves, DoneLasts DEF Untold
    <2> QED
      BY <1>2, <1>4, <2>3 DEF Retry, IdlePass, PassBehind
  <1>5. CASE Exists(o)
    <2>1. PICK left \in Deletion(o) : Write(o, left)
      BY <1>2, <1>5
    <2>2. Careful(o, left) /\ Fades(o, left) /\ (left # Absent => left.terminating)
      BY <1>3, <1>5, DeletionCareful DEF Untold
    <2>3. \A k \in DOMAIN Builders : Lasts(i, Builders[k])
      <3>1. left # Absent => ~ OnlyAdds(o, objects[o], left)
        BY <2>1, KindsDisjoint DEF Deletion, OnlyAdds
      <3> QED
        BY <1>3, <2>1, <2>2, <3>1, WriteLasts DEF Untold, AddsAsWanted
    <2>4. PICK old : old = pass
      OBVIOUS
    <2>5. PassBehind(old, i)'
      BY <1>1, <2>3, <2>4, BehindLasts DEF Untold
    <2>6. PICK p : p = [old EXCEPT !.todo = @ \ {o}]
      OBVIOUS
    <2>7. /\ p \in PassRecord /\ p.pc = "delete" /\ p.instance = old.instance
          /\ p.inst = old.inst /\ p.builder = old.builder /\ p.todo = old.todo \ {o}
          /\ old.pc = "delete"
      BY <1>1, <2>4, <2>6 DEF PassRecord
    <2>8. \A builder : o \notin Leftover(i, builder)'
      <3>1. objects'[o] = left
        BY <1>3, <2>1 DEF Write, Untold, RestParts, OwnedInv, OwnedTypeOK
      <3> QED
        BY <2>2, <3>1 DEF Leftover, Exists
    <2>9. PassBehind(p, i)'
      BY <2>5, <2>7, <2>8 DEF PassBehind
    <2>10. pass' = NextLoop(p)
      BY <1>2, <1>5, <2>4, <2>6
    <2> QED
      BY <1>1, <2>4, <2>7, <2>9, <2>10, NextLoopBehind
  <1> QED
    BY <1>4, <1>5

\* What is written, or found to be so already, is what the spec asks for.
LEMMA WrittenIsApplied ==
    ASSUME NEW i \in Instances, Untold(i), CreateOrUpdate, pass.instance = i,
           NEW builder, builder = Builder, NEW o \in pass.todo, CreateOrUpdateSucceeds(o),
           IF NothingToSend(o) THEN UNCHANGED objects ELSE Write(o, Update(o))
    PROVE  Applied(i, builder, o)'
  <1>1. /\ At("apply") /\ pass.inst = tc[i] /\ o \in Names /\ o # NoName
        /\ objects \in [Names -> Object \cup {Absent}] /\ OwnedInv
        /\ Update(o) \in Object
    <2>1. OwnedInv /\ o # NoName
      BY DEF Untold, RestParts, CreateOrUpdateSucceeds
    <2>2. At("apply") /\ o \in Names
      BY <2>1 DEF CreateOrUpdate, OwnedInv, OwnedTypeOK, PassTypeOK
    <2> QED
      BY <2>1, <2>2, UpdateType DEF Untold, PassBehind, At, OwnedInv, OwnedTypeOK
  <1>2. /\ Update(o).owner = i /\ Update(o).config = tc[i].want[Builder][o]
        /\ o \notin NodeNames => Update(o).labels = GetLabels(i, tc[i].labels)
    BY <1>1 DEF Update, SelectorLabels
  <1>3. CASE ~ NothingToSend(o)
    <2>1. objects'[o] = Update(o) /\ Update(o) # Absent
      BY <1>1, <1>3, KindsAssumption DEF Write
    <2> QED
      BY <1>1, <1>2, <2>1 DEF Applied, HasLabelsOf, Exists, Untold
  <1>4. CASE NothingToSend(o)
    <2>1. seen[o] = Update(o) /\ seen[o] # Absent /\ i \notin events[o]
      BY <1>1, <1>4, KindsAssumption DEF NothingToSend, Untold, Told
    <2>2. /\ Exists(o) /\ objects[o].owner = i /\ seen[o].config = objects[o].config
          /\ o \notin Claims \cup NodeNames => seen[o] = objects[o]
      BY <1>1, <1>2, <1>4, <2>1 DEF Untold, RestParts, CacheTells, NothingToSend
    <2>3. UNCHANGED objects
      BY <1>4
    <2> QED
      BY <1>1, <1>2, <2>1, <2>2, <2>3 DEF Applied, HasLabelsOf, Exists, Untold
  <1> QED
    BY <1>3, <1>4

\* A pass that creates or updates something has one thing less to do, and undoes nothing;
\* one that fails returns.
LEMMA CreateOrUpdateBehind ==
    ASSUME NEW i \in Instances, Untold(i), CreateOrUpdate
    PROVE  PassBehind(pass, i)'
  <1>1. /\ pass \in PassRecord /\ pass.instance \in Instances /\ pass.pc = "apply"
        /\ At("apply") /\ pass.todo \subseteq Names \cup {NoName}
        /\ pass.todo \subseteq Wanted(pass.inst, Builder) /\ pass.inst \in Specs
    BY DEF Untold, RestParts, CreateOrUpdate, OwnedInv, OwnedTypeOK, PassTypeOK, PassRecord, At
  <1>2. PICK o \in pass.todo :
            IF CreateOrUpdateSucceeds(o)
            THEN /\ IF NothingToSend(o) THEN UNCHANGED objects ELSE Write(o, Update(o))
                 /\ pass' = NextLoop([pass EXCEPT !.todo = @ \ {o}])
            ELSE Retry /\ UNCHANGED objects
    BY DEF CreateOrUpdate
  <1>3. CASE ~ CreateOrUpdateSucceeds(o)
    <2>1. i # pass.instance
      BY <1>2, <1>3 DEF Retry, Untold, Told
    <2>2. \A k \in DOMAIN Builders : BuilderDone(i, Builders[k])
      BY <2>1 DEF Untold, PassBehind
    <2>3. \A k \in DOMAIN Builders : BuilderDone(i, Builders[k])'
      BY <1>2, <1>3, <2>2, NothingMoves, DoneLasts DEF Untold
    <2> QED
      BY <1>2, <1>3, <2>3 DEF Retry, IdlePass, PassBehind
  <1>4. CASE CreateOrUpdateSucceeds(o)
    <2>1. o \in Names /\ \A j \in Names : i \notin events'[j]
      BY <1>1, <1>4 DEF CreateOrUpdateSucceeds, Untold, Told
    <2>2. pass.builder \in 1 .. 6 /\ DOMAIN Builders = 1 .. 6 /\ NoName \notin Names
      BY <1>1, BuilderValues, KindsAssumption DEF PassRecord
    <2>3. /\ o \in Wanted(pass.inst, Builders[pass.builder])
          /\ o \in KindOf(Builders[pass.builder])
      BY <1>1, <2>1, <2>2, SpecType DEF Builder
    <2>4. pass.instance = i => pass.inst = tc[i]
      BY <1>1 DEF Untold, PassBehind
    <2>5. ASSUME NEW k \in DOMAIN Builders, pass.instance # i \/ k <= pass.builder
          PROVE  Lasts(i, Builders[k])
      <3>1. CASE NothingToSend(o)
        BY <1>2, <1>4, <3>1, NothingMoves DEF Untold
      <3>2. CASE ~ NothingToSend(o)
        <4>1. /\ Write(o, Update(o)) /\ Careful(o, Update(o))
              /\ Update(o) # Absent /\ Update(o).owner = pass.instance
          BY <1>1, <1>2, <1>4, <2>1, <3>2, UpdateCareful, UpdateType, KindsAssumption
          DEF Untold, RestParts
        <4>2. CASE pass.instance # i
          BY <2>1, <4>1, <4>2, WriteLasts DEF Untold, AddsAsWanted
        <4>3. CASE pass.instance = i /\ k = pass.builder
          <5>1. Update(o).config = tc[i].want[Builders[k]][o]
            BY <2>4, <4>3 DEF Update, Builder
          <5> QED
            BY <2>1, <2>3, <2>4, <4>1, <4>3, <5>1, WriteLasts DEF Untold, AddsAsWanted
        <4>4. CASE pass.instance = i /\ k < pass.builder
          <5>1. o \notin KindOf(Builders[k]) \/ Builders[k] = "StatefulSet"
            <6>1. k \in 1 .. pass.builder - 1
              BY <2>2, <4>4
            <6> QED
              BY <2>2, <2>3, <6>1, EarlierKinds
          <5>2. o \in NodeNames => o \notin Wanted(tc[i], Builders[k])
            <6>1. tc[i] = pass.inst /\ k \in 1 .. pass.builder - 1
              BY <2>2, <2>4, <4>4
            <6> QED
              BY <1>1, <2>1, <2>2, <2>3, <6>1, EarlierUnwanted
          <5> QED
            BY <2>1, <4>1, <5>1, <5>2, WriteLasts DEF Untold, AddsAsWanted, OnlyAdds
        <4> QED
          BY <2>2, <2>5, <4>2, <4>3, <4>4
      <3> QED
        BY <3>1, <3>2
    <2>6. PICK old : old = pass
      OBVIOUS
    <2>7. PassBehind(old, i)'
      BY <1>1, <2>5, <2>6, BehindLasts DEF Untold
    <2>8. PICK p : p = [old EXCEPT !.todo = @ \ {o}]
      OBVIOUS
    <2>9. /\ p \in PassRecord /\ p.pc = "apply" /\ p.instance = old.instance
          /\ p.inst = old.inst /\ p.builder = old.builder /\ p.todo = old.todo \ {o}
          /\ old.pc = "apply"
      BY <1>1, <2>6, <2>8 DEF PassRecord
    <2>10. old.instance = i => Applied(i, Builders[old.builder], o)'
      BY <1>2, <1>4, <2>6, WrittenIsApplied DEF Builder
    <2>11. PassBehind(p, i)'
      <3>1. CASE old.instance # i
        BY <2>7, <2>9, <3>1 DEF PassBehind
      <3>2. CASE old.instance = i
        <4>1. /\ old.inst = tc'[i]
              /\ \A k \in 1 .. old.builder - 1 : BuilderDone(i, Builders[k])'
              /\ Leftover(i, Builders[old.builder])' = {}
              /\ \A name \in Wanted(tc[i], Builders[old.builder])' \ old.todo :
                    Applied(i, Builders[old.builder], name)'
          BY <2>7, <2>9, <3>2 DEF PassBehind
        <4>2. \A name \in Wanted(tc[i], Builders[old.builder])' \ p.todo :
                  Applied(i, Builders[old.builder], name)'
          BY <2>9, <2>10, <3>2, <4>1
        <4> QED
          BY <2>9, <3>2, <4>1, <4>2 DEF PassBehind
      <3> QED
        BY <3>1, <3>2
    <2>12. pass' = NextLoop(p)
      BY <1>2, <1>4, <2>6, <2>8
    <2> QED
      BY <1>1, <2>6, <2>9, <2>11, <2>12, NextLoopBehind
  <1> QED
    BY <1>3, <1>4

\* Nor does anybody else undo what a pass has done without an event that tells.
LEMMA OthersBehind ==
    ASSUME NEW i \in Instances, Untold(i), Next, ~ PassStep
    PROVE  PassBehind(pass, i)'
  <1>1. /\ pass \in PassRecord /\ \A o \in Names : i \notin events'[o]
    BY DEF Untold, RestParts, OwnedInv, OwnedTypeOK, PassTypeOK, PassRecord, Told
  <1>2. \A k \in DOMAIN Builders : Lasts(i, Builders[k])
    <2>1. CASE UNCHANGED objects
      BY <2>1, NothingMoves DEF Untold
    <2>2. ASSUME NEW o \in Names, CollectGarbage(o) \/ ReleaseClaim(o) \/ Tamper(o)
          PROVE  \A k \in DOMAIN Builders : Lasts(i, Builders[k])
      <3>1. PICK new : /\ Write(o, new) /\ Careful(o, new) /\ Fades(o, new)
                       /\ UnseenIsMissed(o, new)
        BY <2>2, OthersCareful DEF Untold
      <3>2. new # Absent /\ OnlyAdds(o, objects[o], new) => new.owner # i
        BY <3>1 DEF UnseenIsMissed, Controllers, Untold, Told
      <3> QED
        BY <1>1, <3>1, <3>2, WriteLasts DEF Untold, AddsAsWanted
    <2>3. UNCHANGED objects \/ \E o \in Names : CollectGarbage(o) \/ ReleaseClaim(o) \/ Tamper(o)
      BY DEF Next, UserStep, StartPass, TimerFires, PreconditionsFail, ApiError, Crash, Resync,
             Sync, MissDeletion, ApplyTeamCity, DeleteTeamCity
    <2> QED
      BY <2>1, <2>2, <2>3
  <1>3. PICK p : p = pass
    OBVIOUS
  <1>4. PassBehind(p, i)'
    BY <1>1, <1>2, <1>3, BehindLasts DEF Untold
  <1>5. CASE UNCHANGED pass
    BY <1>3, <1>4, <1>5
  <1>6. CASE ~ (p.pc = "idle" \/ p.instance # i)
    <2>1. ~ At("idle") /\ pass.instance = i
      BY <1>3, <1>6 DEF At
    <2>2. ~ PreconditionsFail /\ ~ ApiError /\ ~ Crash
      BY <2>1 DEF PreconditionsFail, ApiError, Crash, Retry, Untold, Told
    <2>3. UNCHANGED pass
      BY <2>1, <2>2
      DEF Next, UserStep, StartPass, TimerFires, Resync, Sync, MissDeletion, ApplyTeamCity,
          DeleteTeamCity, CollectGarbage, ReleaseClaim, Tamper
    <2> QED
      BY <1>5, <2>3
  <1>7. CASE (p.pc = "idle" \/ p.instance # i) /\ pass' # pass
    <2>1. pass'.pc = "idle" \/ pass'.instance # i
      <3>1. CASE \E j \in Instances : StartPass(j)
        <4>1. PICK j \in Instances : StartPass(j)
          BY <3>1
        <4>2. j # i
          BY <4>1 DEF StartPass, Untold, Told
        <4> QED
          BY <4>1, <4>2 DEF StartPass, IdlePass
      <3>2. CASE pass' = IdlePass
        BY <3>2 DEF IdlePass
      <3> QED
        BY <1>7, <3>1, <3>2
        DEF Next, UserStep, TimerFires, PreconditionsFail, ApiError, Crash, Resync, Retry,
            Sync, MissDeletion, ApplyTeamCity, DeleteTeamCity, CollectGarbage, ReleaseClaim,
            Tamper
    <2>2. \A k \in DOMAIN Builders : BuilderDone(i, Builders[k])'
      BY <1>4, <1>7 DEF PassBehind
    <2> QED
      BY <2>1, <2>2 DEF PassBehind
  <1> QED
    BY <1>5, <1>6, <1>7

-------------------------------------------------------------------------------
(* Rest *)

\* At first everything is queued, ...
LEMMA InitOwnedRest == Init => OwnedRestInv
  BY InitRestParts DEF Init, RestParts, OwnedRestInv, Told

\* ... and after a step what nothing will queue has had its pass.
LEMMA StepOwnedRest ==
    RestParts /\ OwnedRestInv /\ [Next]_vars => OwnedRestInv'
  <1> SUFFICES ASSUME RestParts, OwnedRestInv, [Next]_vars PROVE OwnedRestInv'
    OBVIOUS
  <1>1. CacheTells'
    BY StepRestParts DEF RestParts
  <1>2. CASE Next
    <2>1. ASSUME NEW i \in Instances, tc'[i] # NoTC, ~ Told(i)'
          PROVE  PassBehind(pass, i)'
      <3>1. CASE StartPass(i)
        <4>1. /\ tc'[i] = tc[i]
              /\ pass' = [IdlePass EXCEPT !.pc = "list", !.instance = i, !.inst = tc[i]]
          BY <2>1, <3>1 DEF StartPass
        <4>2. /\ pass'.pc = "list" /\ pass'.instance = i /\ pass'.inst = tc'[i]
              /\ pass'.builder = 1
          BY <4>1 DEF IdlePass
        <4>3. \A k \in 1 .. pass'.builder - 1 : FALSE
          BY <4>2
        <4> QED
          BY <4>2, <4>3 DEF PassBehind
      <3>2. CASE ~ StartPass(i)
        <4>1. ~ Told(i) /\ tc'[i] = tc[i]
          BY <1>2, <2>1, <3>2, ToldLasts, EditIsTold
        <4>2. Untold(i)
          BY <2>1, <4>1 DEF Untold, OwnedRestInv
        <4> QED
          BY <1>2, <4>2, ListObsoleteBehind, DeleteObsoleteBehind, CreateOrUpdateBehind,
             OthersBehind DEF PassStep
      <3> QED
        BY <3>1, <3>2
    <2> QED
      BY <1>1, <2>1 DEF OwnedRestInv
  <1>3. CASE UNCHANGED vars
    <2>1. ASSUME NEW i \in Instances, tc'[i] # NoTC, ~ Told(i)'
          PROVE  PassBehind(pass, i)'
      <3>1. PICK p : p = pass
        OBVIOUS
      <3>2. tc[i] # NoTC /\ tc'[i] = tc[i] /\ ~ Told(i) /\ UNCHANGED <<objects, pass>>
        BY <1>3, <2>1 DEF vars, Told
      <3>3. PassBehind(p, i) /\ p \in PassRecord
        BY <3>1, <3>2
        DEF OwnedRestInv, RestParts, OwnedInv, OwnedTypeOK, PassTypeOK, PassRecord
      <3>4. PassBehind(p, i)'
        BY <3>2, <3>3, NothingMoves, BehindLasts
      <3> QED
        BY <3>1, <3>2, <3>4
    <2> QED
      BY <1>1, <2>1 DEF OwnedRestInv
  <1> QED
    BY <1>2, <1>3

\* At all times the cache is behind only on what an event will tell, and a TeamCity object
\* that nothing will queue has had, or is having, a pass for what it is, whose work holds:
\* however many objects and passes there are, whatever fails and whoever tampers.
THEOREM OwnedRestInvariant == Spec => []OwnedRestInv
  <1>1. Init => RestParts /\ OwnedRestInv
    BY InitRestParts, InitOwnedRest
  <1>2. RestParts /\ OwnedRestInv /\ [Next]_vars => (RestParts /\ OwnedRestInv)'
    BY StepRestParts, StepOwnedRest
  <1> QED
    BY <1>1, <1>2, PTL DEF Spec

\* A worker at rest has given every TeamCity object what it asks for, and deleted what its
\* selectors find of the rest, unless an event of a deletion was missed or users only added
\* to what a StatefulSet sets
\* (reconcileCreateOrUpdate, reconcileDelete and the filters of predicate.go).
THEOREM RestIsOwned == Spec => []RestMeansOwned
  <1>1. ASSUME OwnedInv, OwnedRestInv, AtRest, NEW i \in Instances, tc[i] # NoTC, i \notin missed
        PROVE  NothingFoundIsLeft(i) /\ \A k \in DOMAIN Builders : AppliedBy(i, Builders[k])
    <2>1. ~ Told(i) /\ pass.pc = "idle"
      BY <1>1 DEF AtRest, Behind, Told, At
    <2>2. \A k \in DOMAIN Builders : BuilderDone(i, Builders[k])
      BY <1>1, <2>1 DEF OwnedRestInv, PassBehind
    <2>3. ASSUME NEW o \in (Owned(i) \cap Traceable(i)) \ WantedNames(tc[i]), Found(i, o)
          PROVE  objects[o].terminating
      <3>1. o \in Names /\ Exists(o) /\ objects[o].owner = i
        BY <2>3 DEF Owned
      <3>2. PICK k \in DOMAIN Builders : o \in KindOf(Builders[k]) /\ Builders[k] # "StatefulSet"
        BY <3>1, BuilderValues DEF KindOf, Builders, Names
      <3>3. o \notin Wanted(tc[i], Builders[k])
        BY <2>3 DEF WantedNames
      <3> QED
        BY <2>2, <2>3, <3>1, <3>2, <3>3 DEF BuilderDone, Leftover
    <2> QED
      BY <2>2, <2>3 DEF BuilderDone, NothingFoundIsLeft
  <1>2. OwnedInv /\ OwnedRestInv => RestMeansOwned
    BY <1>1 DEF RestMeansOwned
  <1> QED
    BY <1>2, OwnedInvariant, OwnedRestInvariant, PTL
===============================================================================
