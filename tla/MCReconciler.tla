----------------------------- MODULE MCReconciler -----------------------------
(***************************************************************************)
(* Small instances of the reconciler.                                       *)
(***************************************************************************)
EXTENDS ReconcilerProperties

CONSTANTS s1, i1, i2, svc1

NodeOf(image, env, svc) ==
    [template |-> [image |-> image, env |-> env], svc |-> svc]

TeamCity(nodes, zeroDowntime, allowRecreate) ==
    [nodes |-> nodes, zeroDowntime |-> zeroDowntime, allowRecreate |-> allowRecreate]

One(config) == [n \in {Main} |-> config]
Two(config) == [n \in {Main, s1} |-> config]

Old == NodeOf(i1, FALSE, NoService)
New == NodeOf(i2, FALSE, NoService)
Newest == NodeOf(i2, TRUE, NoService)

Anything(specs) == [s \in specs |-> specs \ {s}]

\* One node, upgraded without downtime to another image, and then back or to another
\* environment.
SingleOld    == {TeamCity(One(Old), TRUE, FALSE)}
SingleNew    == {TeamCity(One(New), TRUE, FALSE)}
SingleSpecs  == SingleOld \cup SingleNew \cup {TeamCity(One(Newest), TRUE, FALSE)}
SingleEdits  == Anything(SingleSpecs)

\* One edit of a single node: its image, a secondary, or both.
GrowingSpecs == SingleOld \cup SingleNew \cup {TeamCity(Two(Old), TRUE, FALSE), TeamCity(Two(New), TRUE, FALSE)}
GrowingEdits == Anything(GrowingSpecs)

\* A main node and a secondary, which may also be removed; no rollback.
MultiOld     == {TeamCity(Two(Old), TRUE, FALSE)}
MultiNew     == {TeamCity(One(New), TRUE, FALSE), TeamCity(Two(New), TRUE, FALSE)}
MultiNewest  == {TeamCity(Two(Newest), TRUE, FALSE)}
MultiSpecs   == MultiOld \cup MultiNew \cup MultiNewest
MultiEdits   == [s \in MultiSpecs |->
    IF s \in MultiOld THEN MultiNew \cup MultiNewest
    ELSE IF s \in MultiNew THEN (MultiNew \cup MultiNewest) \ {s} ELSE {}]

\* The main node's templates in the order of these edits.
MultiForward == {<<Old.template, New.template>>, <<Old.template, Newest.template>>,
                 <<New.template, Newest.template>>}

\* One node or two, either image, the optional environment set or not, some without the
\* annotation: any edit that can be applied with no break.
MixedNodes == UNION {{One(config), Two(config)} : config \in {Old, New, Newest}}
MixedOld   == {TeamCity(nodes, TRUE, FALSE) : nodes \in {One(Old), Two(Old)}}
MixedSpecs == {TeamCity(nodes, TRUE, FALSE) : nodes \in MixedNodes}
    \cup {TeamCity(nodes, FALSE, FALSE) : nodes \in {One(Old), Two(Old)}}
MixedEdits == [s \in MixedSpecs |-> {t \in MixedSpecs \ {s} : Undisruptive(s, t)}]

\* The governing service changes, with and without leave to recreate.
Served == NodeOf(i1, FALSE, svc1)
RecreateOld   == {TeamCity(Two(Old), FALSE, FALSE), TeamCity(One(Old), FALSE, FALSE)}
RecreateSpecs == RecreateOld \cup
    {TeamCity(nodes, FALSE, allow) : nodes \in {One(Served), Two(Served)}, allow \in BOOLEAN}

\* One node with both annotations, as in the README, whose governing service changes.
ZdtOld   == {TeamCity(One(Old), TRUE, TRUE)}
ZdtSpecs == ZdtOld \cup {TeamCity(One(Served), TRUE, TRUE)}
ZdtEdits == Anything(ZdtSpecs)

\* Upgrades without downtime, and, of other objects, recreates.
LiveUpgrade == {TeamCity(nodes, TRUE, FALSE) : nodes \in {One(Old), One(New), Two(New)}}
LiveOld     == {TeamCity(One(Old), TRUE, FALSE)} \cup RecreateOld
LiveSpecs   == LiveUpgrade \cup RecreateSpecs
LiveEdits   == [s \in LiveSpecs |->
    (IF s \in LiveUpgrade THEN LiveUpgrade ELSE RecreateSpecs) \ {s}]
===============================================================================
