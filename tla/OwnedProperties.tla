---------------------------- MODULE OwnedProperties ---------------------------
(***************************************************************************)
(* What the operator owes the objects it keeps, and what the webhook owes   *)
(* its users.                                                               *)
(***************************************************************************)
EXTENDS OwnedObjects

PassTypeOK ==
    /\ pass \in [pc : {"idle", "list", "delete", "apply"}, instance : Instances \cup {NoOwner},
                 inst : Specs \cup {NoTC}, builder : DOMAIN Builders,
                 todo : SUBSET (Names \cup {NoName})]
    /\ ~ At("idle") => pass.instance \in Instances /\ pass.inst \in Specs
    /\ At("delete") => pass.todo \subseteq Names
    /\ At("apply") => pass.todo \subseteq Wanted(pass.inst, Builder)

OwnedTypeOK ==
    /\ tc \in [Instances -> Specs \cup {NoTC}]
    /\ objects \in [Names -> Object \cup {Absent}] /\ seen \in [Names -> Object \cup {Absent}]
    /\ events \in [Names -> SUBSET Instances]
    /\ queued \subseteq Instances /\ delayed \subseteq Instances /\ missed \subseteq Instances
    /\ PassTypeOK
    /\ edits \in 0 .. MaxEdits /\ tampers \in 0 .. MaxTampers /\ faults \in 0 .. MaxFaults

\* The label that tells TeamCity objects apart names the controller, if it is there.
NamesItsOwner(object) ==
    \A pair \in object.labels :
        pair[1] = "name" => object.owner \in Instances /\ pair[2] = object.owner

LabelsNameOwners ==
    \A o \in Names : /\ Exists(o) => NamesItsOwner(objects[o])
                     /\ seen[o] # Absent => NamesItsOwner(seen[o])

CacheKnowsOwners ==
    \A o \in Names :
        Exists(o) /\ seen[o] # Absent /\ objects[o].owner \in Instances
            => seen[o].owner \in {NoOwner, objects[o].owner}

TodoIsOwn ==
    At("delete") => \A o \in pass.todo :
        Exists(o) => objects[o].owner \in {NoOwner, pass.instance}

\* The inductive invariant behind Isolation: labels name the controller, whatever labels
\* the TeamCity object has of its own (GetLabels); a cache that is behind never shows a
\* controlled object as another's (CreateOrUpdate creates only what the cache lacks);
\* so nothing a pass is about to delete belongs to another TeamCity object.
OwnedInv == OwnedTypeOK /\ LabelsNameOwners /\ CacheKnowsOwners /\ TodoIsOwn

\* A pass changes or deletes an object only if its own TeamCity object or nobody
\* controls it: TeamCity objects of one namespace that compete for names, change
\* their labels, or take over what another gave up never touch each other's objects,
\* although deletions go by a listing of the cache (GetObsoleteObjects, reconcileDelete).
Isolation ==
    [][ \A o \in Names :
          Exists(o) /\ objects'[o] # objects[o] /\ pass' # pass
            => objects[o].owner \in {NoOwner, pass.instance} ]_vars

AtRest == At("idle") /\ queued = {} /\ delayed = {} /\ \A o \in Names : ~ Behind(o)

HasLabelsOf(i, o) == objects[o].labels = GetLabels(i, tc[i].labels)

\* StatefulSets keep their first labels.  A claim may keep labels of the TeamCity
\* object that were taken back: a pass that compares with a cache of before finds
\* nothing to send, and the labels are no event when they come.
Applied(i, builder, o) ==
    /\ o # NoName /\ Exists(o) /\ objects[o].owner = i
    /\ objects[o].config = tc[i].want[builder][o]
    /\ o \notin NodeNames \cup Claims => HasLabelsOf(i, o)

AppliedBy(i, builder) == \A o \in Wanted(tc[i], builder) : Applied(i, builder, o)

\* Found by the selector of the builder of its kind.
Found(i, o) ==
    MatchingLabels(
        IF o \in NodeNames THEN GetStatefulSetCommonLabels(i, "secondary", tc[i].labels)
        ELSE GetLabels(i, tc[i].labels),
        objects[o].labels)

WantedNames(spec) == UNION {Wanted(spec, Builders[b]) : b \in DOMAIN Builders}

\* What a TeamCity object asks for, first and later.
SpecsOf(i) == Requests[i] \cup ({init[i] : init \in Initially} \ {NoTC})
KeepsLabels(i) == \A spec, other \in SpecsOf(i) : spec.labels = other.labels

\* The label of a claim is no event, so one that is written and dropped from the spec
\* before the cache shows the label is never found.  That takes a change of labels, or a
\* claim of a user's own that is taken over.
Traceable(i) == IF KeepsLabels(i) /\ Strangers \cap Claims = {} THEN Names ELSE Names \ Claims

NothingFoundIsLeft(i) ==
    \A o \in (Owned(i) \cap Traceable(i)) \ WantedNames(tc[i]) :
        Found(i, o) => objects[o].terminating

\* When the worker has nothing queued and the caches are up to date, every object the
\* spec lists is there as it asks, and what left the spec is gone, except what the
\* selectors cannot find: former main nodes, objects that left the spec before they got
\* its new labels, and claims that were not Traceable.  Neither a foreign hand, a
\* promotion of a secondary, a claim that comes back while it is being deleted, nor a
\* failing pass loses an object, unless the event of its deletion was missed, or users
\* only added to what a StatefulSet sets.
RestMeansOwned ==
    AtRest => \A i \in Instances : tc[i] # NoTC =>
        \/ i \in missed
        \/ NothingFoundIsLeft(i) /\ \A k \in DOMAIN Builders : AppliedBy(i, Builders[k])

\* Something will queue the TeamCity object, or should have.
Told(i) == i \in queued \cup delayed \cup missed \/ \E o \in Names : i \in events[o]

\* What a builder finds and has to delete (the main node's finds nothing).
Leftover(i, builder) ==
    {o \in (KindOf(builder) \cap Traceable(i)) \ Wanted(tc[i], builder) :
        /\ Exists(o) /\ objects[o].owner = i /\ ~ objects[o].terminating
        /\ builder # "StatefulSet" /\ Found(i, o)}

BuilderDone(i, builder) == AppliedBy(i, builder) /\ Leftover(i, builder) = {}

\* What a pass p of a TeamCity object that nothing will queue has behind it at each step,
\* and a pass that has ended has all of it.
PassBehind(p, i) ==
    IF p.pc = "idle" \/ p.instance # i
    THEN \A k \in DOMAIN Builders : BuilderDone(i, Builders[k])
    ELSE LET builder == Builders[p.builder]
         IN  /\ p.inst = tc[i]
             /\ \A k \in 1 .. p.builder - 1 : BuilderDone(i, Builders[k])
             /\ p.pc = "delete" => Leftover(i, builder) \subseteq p.todo
             /\ p.pc = "apply" =>
                   /\ Leftover(i, builder) = {}
                   /\ \A o \in Wanted(tc[i], builder) \ p.todo : Applied(i, builder, o)

\* The cache is behind on an object only as far as an event will tell, or as no builder
\* minds.
CacheTells ==
    \A o \in Names : \A i \in Instances \ events[o] :
        (Exists(o) /\ objects[o].owner = i) \/ (seen[o] # Absent /\ seen[o].owner = i) =>
            /\ Exists(o) /\ objects[o].owner = i /\ seen[o] # Absent
            /\ o \notin NodeNames => seen[o].config = objects[o].config
            /\ o \in Traceable(i) => seen[o].labels = objects[o].labels
            /\ o \notin Claims \cup NodeNames => seen[o] = objects[o]

\* The inductive invariant behind rest: a TeamCity object that nothing will queue has had
\* a pass for what it is, and what the pass has done stays done.
OwnedRestInv ==
    /\ CacheTells
    /\ \A i \in Instances : tc[i] # NoTC /\ ~ Told(i) => PassBehind(pass, i)

\* At rest each TeamCity object controls exactly what its spec lists, as the comment on
\* Reconcile promises (teamcity_controller.go:72-75).  Violated: the main node's
\* builder never has obsolete objects, so a renamed main node leaves the old one.
RestMeansReflected ==
    AtRest => \A i \in Instances : tc[i] # NoTC =>
        \A o \in Owned(i) \ WantedNames(tc[i]) : objects[o].terminating

\* What a builder cannot get past: a name that is not given, an object that another
\* TeamCity object controls, a claim that would have to shrink.
BlockedAt(i, builder) ==
    \E o \in Wanted(tc[i], builder) :
        \/ o = NoName
        \/ Exists(o) /\ objects[o].owner \notin {NoOwner, i}
        \/ o \in Claims /\ Exists(o) /\ objects[o].config > tc[i].want[builder][o]

\* After the last edit and fault, each TeamCity object has all it asks for, up to the
\* first builder that is blocked; nothing is blocked for want of the name of a claim;
\* and one that is gone keeps nothing but claims in use.  A missed deletion, and what
\* users added to a StatefulSet, are made good by the next resync.
OwnedConverges ==
    <>[] \A i \in Instances :
        IF tc[i] = NoTC THEN \A o \in Owned(i) : objects[o].terminating
        ELSE /\ NoName \notin Wanted(tc[i], Builders[1])
             /\ \A k \in DOMAIN Builders :
                   \/ AppliedBy(i, Builders[k])
                   \/ \E first \in 1 .. k : BlockedAt(i, Builders[first])

-------------------------------------------------------------------------------
(* README.md:373-379, of responsibilities *)

Secondary(form) == UNION {form.secondaries[k] : k \in DOMAIN form.secondaries}

ResponsibilitiesAreValid(form) ==
    \/ form.main = {} /\ Secondary(form) = {}
    \/ /\ {MainNode, UserData} \subseteq form.main
       /\ MainNode \notin Secondary(form)
       /\ form.main \cup Secondary(form) \subseteq allTeamCityResponsibilities

\* What users get past the webhook gives no node responsibilities, or the main node its
\* two, no secondary that of a main node, and none that is unknown ("When no node sets
\* responsibilities, the operator accepts the configuration as-is.  Once any node
\* specifies responsibilities, validation rules apply"), whichever node they edit.
WebhookFollowsReadme ==
    [][ \A i \in Instances : tc'[i] \notin {tc[i], NoTC}
            => ResponsibilitiesAreValid(FormOf(tc'[i])) ]_vars

SomeAreWithNobody(form) ==
    /\ form.main # {}
    /\ \E r \in allTeamCityResponsibilities : r \notin form.main \cup Secondary(form)

\* The verdict on a form whose heap size and claims are in order: the webhook admits what
\* the README allows and nothing else, and warns of a responsibility nobody has.
FollowsReadme(form) ==
    LET verdict == validateCommonFields(form)
    IN  /\ verdict.error = Admitted <=> ResponsibilitiesAreValid(form)
        /\ verdict.warnings # {} <=> ResponsibilitiesAreValid(form) /\ SomeAreWithNobody(form)
===============================================================================
