# A TLA+ model of the TeamCity operator

The operator keeps a TeamCity server running in Kubernetes: it turns a `TeamCity` object into a
StatefulSet for the main node and one for each secondary (plus PVCs, a ServiceAccount, Services and
Ingresses), and it can upgrade a server without downtime, by way of a temporary replica and of a
checkpoint it keeps in a ConfigMap. This directory models the part that decides, in which order and
against whom, from two sides:

- **one server**: the reconcile loop, the checkpoint, the stages of the upgrade, the recreation of
  StatefulSets, its status, and the Kubernetes they run against (`Reconciler`);
- **several servers of one namespace**: all the objects the builders keep, how they are labelled,
  owned, found and deleted, and what the webhook lets users ask for (`OwnedObjects`).

Paths below are relative to the repository; `controller/`, `checkpoint/`, `resource/`, `metadata/`
and `predicate/` are directories of `internal/`.

## Inventory

| Component | State | Operations | What is hard about it | Correct when |
|---|---|---|---|---|
| Checkpoint (`checkpoint/`) | the ConfigMap `update-checkpoint-<name>`: a stage, or none | fetch, create, update, delete; a transition is legal if it stays or goes on by one | read from a cache that lags, up to three times in a pass; written without a resourceVersion; errors of the update swallowed; no owner reference | the stages are gone through in order; no checkpoint outlives its object |
| Upgrade stages (`controller/checkpoint_stages.go`) | the stage of the pass; the replica | one handler per stage | two reads of one object; a checkpoint persisted before the work it announces; stages that fall through to the builders | the replica exists only within its upgrade; the main node restarts only while something else serves |
| Reconcile loop (`controller/teamcity_controller.go`) | the copy of the object, the place in the pass, status | finalize, detect an upgrade, delete obsolete, check preconditions, create or update | one worker but many actors beside it: user, StatefulSet controller, garbage collector, informers, crashes; retries with back-off, requeues, dropped results | when it rests, the spec is applied; secondaries follow the main node |
| StatefulSet recreate (`controller/statefulset_recreate.go`) | none of its own | detect a changed `serviceName`, block or delete in the foreground, create anew | the deletion takes many steps of others; its requeue is dropped by the caller | every allowed recreate ends with the new StatefulSet |
| Builders (`resource/`) | none; the objects they keep are the cluster's | list what is obsolete, delete it, create or update what is wanted, take control of it | comparisons that ignore what is unset; listings of a lagging cache; deletion by name without a look at the owner; a refused object holds up all builders after it | no TeamCity object touches another's; what the spec lists is there, what left it is gone |
| Labels (`metadata/label.go`) | none | default labels, merges | the object's own labels are part of every selector, and change | the default labels win |
| Event filters (`predicate/`) | none | pass or drop an event | status never passes; deletions may be dropped; a claim's labels are no event | no change of spec is missed for good |
| Webhook (`api/v1beta1/teamcity_webhook.go`) | none | validate, default | compares old and new spec, not the cluster; rules that relate all nodes | it admits what the README allows; an object that is let through can be applied, or says why not |
| Status (`controller/teamcity_feedback.go`, `util.go`) | `status.state` | write if changed | a write is an event that queues the object again; a failing write is dropped | it says what the pass found |
| Wiring (`cmd/main.go`), generated code, chart, samples | - | - | - | not modelled |

The components meet in the API server: the loop reads StatefulSets and the ConfigMap through
informer caches, writes to the API server, and is queued again by the events the filters let pass,
by its own requeues and by its errors.

## Modules

| Module | Models | EXTENDS |
|---|---|---|
| `Checkpoint` | stages and the legal transitions (`checkpoint/stage.go`, `util.go`) | - |
| `StatefulSets` | StatefulSets as records; the questions the code asks of them (`controller/util.go`, `resource/update_with_ro_utils.go`, `resource/statefulset_recreate.go`) | - |
| `Labels` | labels and selectors (`metadata/label.go`) | - |
| `Webhook` | validation of fields (`teamcity_webhook.go`) | - |
| `OwnedObjects` | several TeamCity objects, all builders, one worker; informers, users, garbage collector; `Spec`, `FairSpec` | `Labels`, `Webhook` |
| `OwnedProperties` | isolation, what rest means, convergence, the README's rules on responsibilities | `OwnedObjects` |
| `MCOwned` | two TeamCity objects that compete for names | `OwnedProperties` |
| `Cluster` | API server, caches, StatefulSet controller, garbage collector; the event filter (`predicate/`) | `Checkpoint`, `StatefulSets` |
| `Reconciler` | the loop, the stages, the builders, the user, crashes; `Spec`, `FairSpec` | `Cluster` |
| `UpgradeProtocol` | abstract specification: what the checkpoint of an upgrade promises | `Checkpoint` |
| `ReconcilerProperties` | invariants, action properties, the refinement, liveness | `Reconciler` |
| `MCReconciler` | small instances | `ReconcilerProperties` |
| `ReconcilerProofs` | theorem: types | `ReconcilerProperties`, TLAPS |
| `UpgradeProofs` | theorems: the upgrade protocol | `ReconcilerProofs` |
| `StepEffects` | lemmas: what a step of each actor may do to the nodes | `UpgradeProofs` |
| `RestProofs` | theorems: what rest means | `StepEffects` |
| `MainProofs` | theorems: secondaries wait for the main node's rollout, the replica covers it | `RestProofs` |
| `AvailabilityProofs` | theorems: some node keeps serving | `MainProofs` |
| `OwnedProofs` | theorems about several: isolation, what the webhook admits | `OwnedProperties`, TLAPS |
| `OwnedRestProofs` | theorems about several: what rest means | `OwnedProofs` |

The two sides meet in the builders of StatefulSets. `Reconciler` knows their content and their order
in an upgrade, and no labels; `OwnedObjects` knows their labels and owners, and takes an update for
one step. A pass of `OwnedObjects` may end before the secondaries for want of a ready main node
(`PreconditionsFail`); that it eventually does not is what `Converges` says of `Reconciler`.

### State

`sts[n]` is the StatefulSet of node `n` at the API server (or `NoSts`), `pod[n]` its pod,
`checkpoint` the stage in the ConfigMap; `stsSeen` and `cmSeen` are the same in the operator's
caches. `queued` and `timer` are the work queue: the object is on it, or comes back after a while.
`tc`, `deleting` and `status` are the TeamCity object. `pass` is the pass in progress: `pc` is the
next step, `inst` the copy of the object, `stage` the stage acted on, `mark` the result of a read
used in a later step, `node` and `todo` the place in the loops.

In `OwnedObjects`, `tc[i]` is TeamCity object `i`: its labels, what it wants of each builder, and
the fields the webhook looks at. `objects[o]` is the object of name `o` at the API server, with
labels, controller and config; `seen` is the cache; `events[o]` are the TeamCity objects that the
events of `o` still on their way will queue; `queued`, `delayed` and `pass` are as above, with the
builder and the names its loop has left; `missed` are the TeamCity objects that an event should have
queued and did not: that of a deletion, lost, or that of an addition to a StatefulSet, filtered.

### From code to actions

A pass is cut wherever another actor can act between two calls of the operator. The steps are, in
the order of `Reconcile`:

| `pc` | Action | Code |
|---|---|---|
| `idle` | `StartPass` | `teamcity_controller.go:79-108` |
| `finalize`, `removeFinalizer` | `FinalizeTeamCity`, `RemoveFinalizer` | `168-181`, `99-108` |
| `ongoing`, `upgrade` | `DetectUpgrade`, `PerformZeroDowntimeUpgrade` | `110-126`, `272-294`, `util.go:66-81` |
| `stage` | one action per stage | `checkpoint_stages.go:65-169` |
| `generation` | `CheckMainGeneration`: second read of `HandleMainShuttingDown` | `checkpoint_stages.go:123-136` |
| `advance` | `AdvanceCheckpoint`: the checkpoint after the replica is made or deleted | `checkpoint_stages.go:87-91, 157-161` |
| `main`, `secondaries` | `ApplyMain`, `ApplySecondary` | `statefulset_recreate.go:32-83`, `teamcity_controller.go:183-219` |
| `recreating` | `FinishRecreate` | `statefulset_recreate.go:85-93` |
| `listObsolete`, `deleteObsolete` | `ListObsolete`, `DeleteObsolete` | `teamcity_controller.go:221-237`, `secondarystatefulset.go:55-74` |
| `mainGeneration`, `mainFinished` | the two reads of `validatePreconditions` | `teamcity_controller.go:239-270` |
| `report` | `ReportSuccess` | `teamcity_controller.go:147-153` |

In `OwnedObjects` a pass takes the builders in the order of `ResourceBuilders`, each by `ListObsolete`
(one `List`), `DeleteObsolete` (one `Delete` per object) and `CreateOrUpdate` (`reconcileDelete` and
`reconcileCreateOrUpdate`, `teamcity_controller.go:183-237`, with each builder's `Update` and
`GetObsoleteObjects`).

`ApiError` is a call whose error ends the pass; errors the code swallows are disjuncts of the
actions that swallow them (`DoCheckpoint`, `HandleReplicaCreated`, `HandleMainReady`,
`PerformZeroDowntimeUpgrade`, `ReadOngoing`, `UpdateDeleted`, `WriteStatus`). `FaultKinds` says which
of them a run allows: `"read"` of a cache, `"replica"` and `"checkpoint"` writes, `"reread"` after a
deletion, `"status"` reports. In `OwnedObjects` they are `"error"` of any call that ends a pass,
`"precondition"`, `"crash"`, and `"relist"`, a deletion no event tells of.

### Decisions

- **The TeamCity object is read fresh.** A pass that reads it from a lagging cache behaves like one
  that started before the edit, and the event of the edit queues another.
- **The queue.** Events queue the object at once. A requeue comes back after three seconds, an error
  after a back-off that starts at milliseconds; the queue keeps the earlier. With `LongLag = FALSE`
  caches catch up within the three seconds; a back-off promises nothing.
- **CreateOrUpdate** fails, and the pass is retried, whenever the cache differs from the API server:
  the containers it builds lack what the server defaults, so it always sends an update, and a stale
  one conflicts. `HandleReplicaCreated` goes on in that case, as the code does.
- **Pod template.** An environment and an image. The environment has its last, optional variables
  (those of the database secret, `resource/statefulset_utils.go:236-252`) or not; the image stands for
  the rest. `DeepDerivative` sees such variables come, and does not see them go; the builders always
  write both. A revision is the template it was made from.
- **The replica's template** is the main node's, with the environment of the spec the pass works on
  (`ReplicaTemplate`, `resource/update_with_ro_utils.go:50-66`). A repeated `HandleReplicaCreated` may
  therefore change the replica, whose pod is then replaced.
- **StatefulSet controller.** One replica per StatefulSet, rolling update, `currentRevision` follows
  `updateRevision` once the updated pod is ready. Pods become ready and stay so until they are
  replaced. A background deletion takes StatefulSet and pod at once; a foreground one takes the pod
  first, and bumps the generation.
- **Deletion and return.** The user may delete the object and create it again under its name, once
  nothing of the old one is left but, possibly, its checkpoint.
- **A read after the deletion that fails** (`statefulset_recreate.go:85-92`): its error is shadowed, so
  `UpdateDeleted` goes on to update a StatefulSet that is going, or makes it anew.
- **Forbidden:** the API server refuses a changed `serviceName`; the fallback reports a blocked
  recreate (`Forbidden`).
- **Names and kinds.** `OwnedObjects` has no two kinds of one name: a service and a claim called the
  same are different objects, and are given different names in the model.
- **Config** is one number: all that `Update` overwrites, of a claim the storage it requests, which
  the API server never lets shrink. Services and StatefulSets are sent in every pass, since `Update`
  drops what the server filled in; claims, accounts and ingresses only when something differs.
  A node has one name in one role (`RolesAssumption`): nothing in the code checks it, and two builders
  would write such a StatefulSet in turns for ever.
- **Events.** Every write of an owned object is an event of its own, for the controllers it has before
  and after the write, if the filters let it pass. The cache shows the latest state of an object
  at once, and then all its events come; a relist that finds an object gone loses them.
- **What the filters drop** (`predicate/predicate.go:83-101`): an update of a StatefulSet after which
  nothing is changed that the old spec had set. `Extends` holds the pairs of configs of which the
  second only adds to the first, and `OnlyAdds` says when such a write is no event. The operator's own
  such write needs none; a user's stays until another event, or a resync, brings a pass, and is
  counted in `missed` until then. A resync of services, accounts, ingresses or the TeamCity objects
  is an update that passes. An update of a claim adds nothing: the one number it has is always set.
- **What users do to the objects:** delete one, change one, or make one of their own under a name the
  spec lists. Their own objects carry none of the operator's labels (`LabelsAssumption`): one that
  does is listed and deleted like the operator's own.
- **Left out:** messages and recorded events; pods that fail on their own; the incarnations of an
  object (its UID): a TeamCity object returns under its name when nothing of the old one is left.

## Properties and runs

`RestMeansApplied`, `NoStalledUpgrade` and `RestMeansOwned` speak of *rest*: an idle worker, an empty
queue, no timer, caches up to date. Each property is described where it is defined, in
`ReconcilerProperties` and `OwnedProperties`.

| Run | Instance | Checks | Distinct states |
|---|---|---|---|
| `single` | one node, zero-downtime, 3 edits of image and environment (back, deletion and return included), 1 crash, 1 failing call, fresh caches | `UpgradeInv`, `ReplicaWithinUpgrade`, `RestMeansApplied`, `NoStalledUpgrade`, `NoCheckpointLeft`, `CoverInv`, `UpgradeProtocolImplemented`, `MainChangeCoveredByUnchanged` | 2.6 million |
| `lag` | one node, 1 edit, caches that lag without bound, 1 failing write of the checkpoint | `UpgradeInv`, `UpgradeProtocolImplemented` | 3.0 million |
| `stale` | one node that may grow a secondary, 1 edit, 1 crash, caches that lag less than a requeue | `MainChangeCovered` | 0.9 million |
| `multi` | main and secondary, 2 edits onwards (no rollback), 1 crash, 1 failing call | `RestMeansApplied`, `NoStalledUpgrade`, `RestInv`, `MainInv`, `SecondariesFollowMain`, `UpgradeProtocolImplemented` | 1.3 million |
| `available` | one or two nodes, 3 edits (deletion and return included), 1 crash, 1 failing call, errors that end a pass included; all but three mishaps (`CarefulSpec`) | `AvailInv`, `AvailabilityKept` | 184 thousand |
| `converges` | upgrades, or recreates with and without the annotation, edited twice (or back) in mid-flight, 1 status report or reread that fails, fair | `TypeOK`, `RestMeansApplied`, `RolloutSeen`, `Converges`, `SecondariesFollowRollout` | 314 thousand |
| `owned` | two TeamCity objects of 8 and 2 specs, two claims, two nodes, a service, an ingress, an account; any two of 2 edits, 2 foreign hands, 2 faults; the cache lacks the latest state of one object at a time, fair | `OwnedInv`, `OwnedRestInv`, `RestMeansOwned`, `Isolation`, `WebhookFollowsReadme`, `OwnedConverges` | 100 thousand |
| `edit_during_upgrade` | `single` with 2 edits, no crash | `AvailabilityKept` fails | - |
| `crash_in_upgrade` | 1 settled edit, 1 crash | `AvailabilityKept` fails | - |
| `read_order` | up to 3 settled edits, no crash, a status between the two reads | `AvailabilityKept` fails | - |
| `zdt_recreate` | both annotations, 1 edit of `serviceName`, fair | `Converges` fails | - |
| `owned_left` | one object, 1 edit that renames the main node | `RestMeansReflected` fails | - |

**Why the bounds are enough.** Two edits are needed for an edit in the middle of an upgrade, a third
for a return after a deletion; one crash for every point at which a pass can be lost; one failing call
for every error path. One secondary shows the order between main node and secondaries; the
secondaries do not wait for each other in the code. Two images and one optional variable give
every answer the comparisons can give. Two TeamCity objects and one name of each kind that both may want
show every conflict between controllers, which is between the one that has a name and one that wants
it; the specs promote a secondary, rename a claim, swap a service for an ingress, change labels (one
of them the other object's name), leave names empty, and distribute responsibilities in each way the
rules tell apart. Two disturbances (`MaxDisturbances`) are an edit and its rollback, an edit while a
fault is being repaired, or a foreign hand in the middle of either. `CHECK_DEADLOCK FALSE` is set
everywhere: the operator rests when nothing is queued, and the user's, crash and fault steps are
bounded.

**Fairness** (`FairSpec`): the single worker, the queue's timer, the informers and the controllers of
Kubernetes keep going (weak fairness on each); nobody owes an edit, a crash or a failing call, so
`Converges` speaks of what follows the last of them. Nothing is assumed of the order in which
enabled actors act. The worker's steps share one weak fairness condition because there is one worker
(`MaxConcurrentReconciles: 1`). With several TeamCity objects on one queue, `StartPass` of each is
strongly fair: the queue is first in, first out, so no object waits for ever while the worker comes
free again and again. The informers share one condition, as does the garbage collector; the resync
is fair, and is enabled only after an event was missed: it has no effect at other times. Nobody owes the end of the pods that keep a
deleted claim.

**The inductive invariants** `UpgradeInv`, `RestInv`, `CoverInv`, `RolloutSeen`, `AvailInv`,
`OwnedInv` and `OwnedRestInv` are what the proofs induct on; the runs check each on an instance.
`MainInv` is one that is only checked. It speaks of `Forward`, an order in which the edits take the
main node's template; only `multi` gives it one.

**How far a cache lags in `owned`.** `MaxBehind = 1`: while the cache lacks the latest state of one
object nothing else is written, so the pass deletes by a stale listing only what has changed since
under the name it deletes. With `MaxBehind = 2` the run takes four minutes and passes too; longer lag
is what the theorems of `OwnedProofs` and `OwnedRestProofs` are for, which have no such bound.

**What `WebhookFollowsReadme` leaves out.** `README.md:379` wants responsibilities distributed
"without duplication"; the code does not look for duplicates, and the property does not speak of them.

**What the status may say.** A failing write of the status is logged or dropped
(`teamcity_controller.go:147`, `teamcity_feedback.go:74`), and the status then stays wrong, possibly
for ever: `README.md:476` ("the controller reports the conflict in status and events") does not hold
of it. `Says` allows for this in the runs whose `FaultKinds` include `"status"`, once a call has failed:
it does not ask which call that was, so a failing reread excuses the status too. The cluster itself
must come out right in either case.

**What `RestMeansOwned` leaves out** is what the selectors cannot find: a former main node (the run
`owned_left`), an object that left the spec in the edit that also gave the object new labels (a
StatefulSet never gets them), and claims that are not `Traceable`. The labels of a claim make no
event (`predicate/predicate.go:73`). So a claim may keep labels that were changed and changed back
while the cache was behind; and a claim that gets its label, and leaves the spec before the cache
shows it, is never found and never deleted. That takes a change of labels, or a user's own claim
that the operator takes over; claims are `Traceable` where neither happens. The attempt to prove
`RestMeansOwned` for all claims failed on this, and TLC shows it: with `Traceable(i) == Names`, and
labels that change in an edit before the one that drops the claim, it finds `RestMeansOwned`
violated. In the run `owned` the labels of the first object stay, those of the second change.
A TeamCity object in `missed` is left out as well, until the resync: a deletion that was learnt from a
relist, or what users added to a StatefulSet (*What the filters drop*).

**What `multi` leaves out** is two kinds of edit under which the code breaks
`SecondariesFollowMain`. An edit taken back before its pod has come up makes both revisions those of
the old template while the ready pod still runs the new one, so `isNodeUpdateFinished`
(`controller/util.go:55-64`) holds too early. A main node that is deleted for a recreate is observed
and ready until its pod ends, and the requeue the deletion asks for is dropped
(`statefulset_recreate.go:85-86`, `teamcity_controller.go:138`), so the secondaries may be changed
while the main node is about to go. TLC finds the first with `Anything(MultiSpecs)` for `EditsFrom`,
the second with `RecreateSpecs`. What the code does give under all edits is `SecondariesFollowRollout`:
the main node's status is of its newest generation and says that its template is rolled out. It is
checked in `converges`, with rollbacks and recreates, and proved.

**What `single` leaves out** is `MainChangeCovered` itself. `README.md:488` says that "Traffic keeps going
to this temporary node while the Main Node is restarted/upgraded", and the code breaks it when the
environment changes in mid-upgrade: `HandleReplicaCreated` makes the replica, a crash keeps
`ReplicaStarting` from being persisted, and an edit of the environment comes; the repeated stage changes the
replica, `HandleReplicaStarting` reads the `availableReplicas` of the replica as it was
(`checkpoint_stages.go:100`), and the main node restarts while the replica restarts too. With
`MainChangeCovered` among the properties of `MCSingle.cfg` TLC finds this in a trace of 37 steps.
`MainChangeCoveredByUnchanged` makes a replica that was changed its exception, and no other: the run
and the theorem `ReplicaCoversMainChange` show that there is no other way.

**What `available` leaves out.** `CarefulSpec` is `Spec` without three steps, each of which one of the failing
runs of `AvailabilityKept` takes: `RashEdit` (`edit_during_upgrade`), an edit before the last one has
settled, or one that cannot be applied with no break; `LostChange` (`crash_in_upgrade`), the end of the
pass that persisted `MainShuttingDown` before it has changed the main node, by a crash or by an error;
and `TornRead` (`read_order`), a status between the two reads of `HandleMainShuttingDown`. Crashes and
errors at any other point are in. Two edits that cannot be applied with no break are listed under
hazards in `PROJECT.json`: an image changed together with a new secondary, and a change that only
clears an optional variable; neither is detected as an upgrade, so neither is `Undisruptive`. Lagging
caches are left out too.

**What `converges` leaves out** is crashes and failing calls that end a pass, which are in `single` and
`multi`, and failing calls of the upgrade. One of these the operator does not recover from:
the error of the replica's creation is lost (`checkpoint_stages.go:80-87`), the upgrade goes on to
`ReplicaStarting`, and that stage fails for ever on the missing replica. With
`FaultKinds = {"replica"}` and `MaxFaults = 1` TLC finds `Converges` violated.

### What the failing runs show

- `edit_during_upgrade`: `HandleUpdateFinished` lets the pass go on to the builders
  (`checkpoint_stages.go:163-169`). If the spec has changed in the meantime they restart the only
  node, with the replica gone.
- `crash_in_upgrade`: `HandleReplicaReady` persists `MainShuttingDown` before the builders change the
  main node (`checkpoint_stages.go:108-114`). A crash in between leaves a main node that looks
  updated; the replica is deleted, and then the main node restarts.
- `read_order`: `HandleMainShuttingDown` asks whether the revisions agree before it asks whether the
  status is new (`checkpoint_stages.go:119-128`). A status that lands in between makes both true.
- `zdt_recreate`: a changed `serviceName` with both annotations deletes the main StatefulSet at the
  stage whose handler fails when it is missing (`checkpoint_stages.go:115-122`): no later pass
  reaches the builders.
- `owned_left`: the main node's builder never has obsolete objects (`resource/statefulset.go:50-52`), so
  a renamed main node leaves the StatefulSet of the old name, and its pod, on the same data directory.

The first three contradict `README.md:482` ("ensures at least one node is serving the UI during the
process"), the fourth `README.md:474` ("The operator recreates the affected StatefulSet(s) and restarts
the node(s)"), the last the comment on `Reconcile`
(`teamcity_controller.go:72-75`). One more disagreement needs no run: `README.md:548` says that
multi-node set-ups upgrade "secondaries first, then the main node"; the code does the opposite, as
`SecondariesFollowMain` states.

## Proofs

All theorems hold for every set of nodes, images, services and specs, every bound on edits, crashes
and faults, and every `FaultKinds`, under the named assumptions of the modules: the nodes and the
absence values are distinct, `Specs` are well formed, the bounds are naturals. Those of
`OwnedProofs` and `OwnedRestProofs` hold for any number of TeamCity objects and names, and assume
besides that labels written by users leave the operator's own to it (`LabelsAssumption`), that kinds
of objects are told apart by their names (`KindsAssumption`), that a spec has a data directory
(`SpecsAssumption`) and gives each node one role (`RolesAssumption`), and that `MAIN_NODE` is none of the other responsibilities
(`ResponsibilitiesAssumption`).

| Theorem | Says | Assumes |
|---|---|---|
| `TypeCorrect` | `Spec => []TypeOK` | - |
| `UpgradeInvariant` | `Spec => []UpgradeInv` | - |
| `ReplicaStaysWithinUpgrade` | `Spec => []ReplicaWithinUpgrade` | - |
| `ProtocolImplemented` | `Spec => UpgradeProtocolImplemented` | - |
| `FinalizerLeavesNoCheckpoint` | `Spec => []NoCheckpointLeft` | fresh caches, no failing reads |
| `RestInvariant` | `Spec => []RestInv` | fresh caches, no failing reads |
| `RestIsApplied` | `Spec => []RestMeansApplied` | fresh caches, no failing reads |
| `UpgradeStallsOnlyByRecreate` | `Spec => []StalledOnlyByRecreate` | fresh caches, no failing reads |
| `NoUpgradeStalls` | `Spec => []NoStalledUpgrade` | fresh caches, no failing reads, steady services of all nodes |
| `CoverInvariant` | `Spec => []CoverInv` | fresh caches, no failing reads, the finalizer |
| `ReplicaCoversMainChange` | `Spec => MainChangeCoveredByUnchanged` | fresh caches, no failing reads, the finalizer |
| `RolloutInvariant` | `Spec => []RolloutSeen` | fresh caches |
| `SecondariesWaitForRollout` | `Spec => SecondariesFollowRollout` | fresh caches |
| `AvailabilityInvariant` | `CarefulSpec => []AvailInv` | fresh caches, no failing reads, the finalizer, steady services of all nodes |
| `ServiceStaysAvailable` | `CarefulSpec => AvailabilityKept` | fresh caches, no failing reads, the finalizer, steady services of all nodes |
| `OwnedInvariant` | `Spec => []OwnedInv` | - |
| `TeamCitiesAreIsolated` | `Spec => Isolation` | - |
| `OwnedRestInvariant` | `Spec => []OwnedRestInv` | - |
| `RestIsOwned` | `Spec => []RestMeansOwned` | - |
| `EditsFollowReadme` | `Spec => WebhookFollowsReadme` | - |
| `WebhookVerdict` | `FollowsReadme` of every form whose heap size and claims are in order | - |

What a theorem assumes beyond the modules' assumptions, and why it has to:

- *Fresh caches* (`~ StaleReads`): every read sees the latest write. The theorems on the upgrade protocol,
  and those of `OwnedProofs` and `OwnedRestProofs`, do without; `MainChangeCovered` with lagging caches is
  the run `stale`.
- *No failing reads* (`"read" \notin FaultKinds`): a read of the checkpoint that fails counts as no
  upgrade (`controller/util.go:83-90`), and the builders then run in the middle of one. Writes may fail, as may
  calls that end a pass, status reports and the read after a deletion.
- *The finalizer* (`HasFinalizer`): without it a new object of the same name may start in the middle of
  the upgrade of the old one.
- *A steady service* (`SteadyService(n)`): no edit changes the governing service of node `n`. A blocked
  recreate ends an upgrade in the middle, as `UpgradeStallsOnlyByRecreate` says in general; a main node
  deleted for a recreate does not stop the secondaries (see *What `multi` leaves out*).
- *The mishaps* (`CarefulSpec`): the steps `Mishap` excludes are those after which the service may
  break, and each failing run of `AvailabilityKept` shows one that has to be excluded. What remains are
  all other edits, all crashes and errors but at one place, and all orders of the other actors.

`TypeOK` is inductive with `PassTypeOK`: without what the locals of a pass mean at each step,
`ApplySecondary` and `FinishRecreate` might look up a node the spec does not have.

`ReplicaWithinUpgrade` is not inductive: a handler acts on the stage the pass has read, from a cache
that may be any time behind, and nothing in it says that this is still the stage that is persisted.
What saves the protocol is that `DoCheckpointWithDesiredStage` compares the stage it writes with the
stage in the cache: the next write is made only when the last one has been seen, and a handler that
acts on an old stage writes what is there already. `UpgradeInv` says so: the cache shows what is
persisted or the write before (`CheckpointSeen`), and at each step of a pass the stage it acts on is
the checkpoint, or one that was the checkpoint before it (`PassFollowsCheckpoint`, by `ActsOn` and
`WasSeen`). What a handler does before that comparison, it makes or deletes the replica, is covered
by `ReplicaFollowsCheckpoint`: the replica is there only at the stages between, and from
`ReplicaReady` on the cache has shown it, so `HandleMainReady` cannot overlook it. The proof has one
lemma per action. Each shows `Kept`, which is `UpgradeInv'` and a step (or stutter) of the abstract
protocol, by one of few arguments: the step moves nothing the protocol speaks of (`QuietStep`,
`OutsideStep`), it moves the checkpoint on by one (`CheckpointStep`), it deletes it
(`CheckpointEnds`), or it deletes the replica (`ReplicaGoes`).
With fresh caches `UpgradeInv` comes to `FreshInv` (`FreshInvariant`): the stage of the pass is the
checkpoint. The theorems below rest on that. `FinalizerLeavesNoCheckpoint` strengthens it once more:
from the read that finds no checkpoint to the removal of the finalizer, there is none.

`Isolation` needs `OwnedInv`. What a pass deletes it has found by label in a cache that lags, and by
the time it deletes the name may be another's. Three facts together rule that out. The label that
tells TeamCity objects apart, if an object has it, names its controller (`LabelsNameOwners`): the
default labels win over those of the TeamCity object, and users leave them alone. While the API server
has an object under control, a cache that shows the name at all shows it under the same control or
under none (`CacheKnowsOwners`): names are created only when the cache shows nothing, and taken over
only when it shows them free and up to date. So what is left to delete belongs, if it still exists, to
the pass's own TeamCity object or to nobody (`TodoIsOwn`). The proof has one lemma per action over
three lemmas on how objects change (`ObjectWritten`, `ObjectDeleted`, `CacheMoves`).
`WebhookVerdict` is a case distinction over the order in which the rules are tried.

`RestMeansOwned` is the same question as `RestMeansApplied`, asked of many objects, all builders,
and a cache that may be behind on any of them for any time. `OwnedRestInv` answers it in two parts.
A cache is behind on an object a TeamCity object controls, or that the cache says it controls, only
if an event on its way will queue that TeamCity object; otherwise it shows what the builders look at
(`CacheTells`). And a TeamCity object that nothing will queue (`~ Told(i)`: no queue, timer or event
on its way, and none missed) has behind it what its pass has done so far, or, when no pass of it is
running, all of it (`PassBehind`): each builder before the one at hand has applied what the spec
lists and has left nothing that it would find (`BuilderDone`). The proof first strengthens
`OwnedInv` and `CacheTells` by the specs of each object and the labels of claims (`RestParts`). Then
every write is shown to be `Careful`: it changes the controller only of a free object that the cache
shows as it is, and keeps what the filters would not tell of; so either an event queues the
controller or its work stays done (`UntoldWrite`, `WriteLasts`). What is added unseen to a StatefulSet is what the pass was to write
(`AddsAsWanted`), or is missed (`UnseenIsMissed`). A pass does not undo what its
earlier builders did because no name is of two kinds, except that main node and secondaries share
theirs, and the main node's builder finds nothing to delete (`EarlierKinds`). What a pass with a
lagging cache lists is all there is to delete, or an event will bring the next pass
(`LeftoverIsListed`).

The theorems of `RestProofs`, `MainProofs` and `AvailabilityProofs` rest on `FreshInv` and on the lemmas
of `StepEffects`. These say once what a step may do to the nodes: a step of Kubernetes
(`ClusterStepEffect`) changes one node in one of a few ways; a builder (`BuilderStepEffect`) applies
the spec of the pass to one node, or marks it for deletion; all other steps of a pass leave the
nodes alone but for the replica (`OtherPassStepEffect`), and `StepCases` says there are no further
steps.

`RestMeansApplied` speaks of an idle worker and says nothing of how it came to idle. `RestInv` does:
as long as nothing is queued, the pass in progress works on the object as it is, and each thing it
has behind it holds (`BehindPass`: the main node applied, nothing obsolete, the secondaries that
have left its loop applied). It stays so because whatever could undo it queues the object: an edit,
a crash, the end of a StatefulSet that is being deleted. While one is (`Going`), nothing is claimed
of the nodes, and its end will queue the object. A pass may end without a timer only as `BehindPass`
says: blocked, or with everything applied and no checkpoint. That is `RestMeansApplied` up to the
replica, and without a checkpoint `ReplicaWithinUpgrade` says that there is none.

`SecondariesFollowRollout` is about two reads at different times: `validatePreconditions` asks whether
the status of the main node is of the newest generation, then whether its revisions agree, and the
secondaries are changed after both. Neither read says that the newest template is rolled out, and the
StatefulSet controller writes its status between them. `RolloutSeen` keeps what the first has seen
until the second: nobody but the pass itself changes the main node's template, and a status of the
newest generation names that template as its update revision. `SecondariesFollowMain`, which asks for a ready
pod with that template, is only model-checked: it needs edits that go in one order. That the
revisions agree says that `currentRevision` names the StatefulSet's template, and not that the pod
runs it; `MainInv` closes the gap by an order in which `currentRevision` is not after the pod, and the
pod not after the StatefulSet. This is where rollbacks fail.

`MainChangeCoveredByUnchanged` needs that the pass which changes the only node finds the replica up,
although the replica's readiness was read in an earlier pass and its status says nothing of its
generation. `CoverInv` keeps it true. As long as the replica's StatefulSet is as it was made, its pod has
its template and its status is right about it (`ReplicaPod`); at `ReplicaReady` it is up, nobody
deletes it before `MainReady`, and the builders run only at stages where it can no longer be made
(`CoverPass`). Once it was changed (`ReplicaChanged`) nothing is said of its pod. In a single-node
cluster a pass that acts on `ReplicaReady` has read that stage from the checkpoint. `AvailInv` adds that
under `CarefulSpec` the replica is not changed: the edit that started the upgrade is the one each
repeated `HandleReplicaCreated` works on (`ReplicaSteady`).

`AvailabilityKept` follows a whole upgrade, and more: whoever serves now may be about to be replaced.
`AvailInv` therefore speaks of nodes that *run* (`Runs`: a ready pod with the template of its
StatefulSet), which Kubernetes leaves alone (`ClusterKeepsNode`), and says that one of them does
whenever any node serves (`NodesFit`). The one step that takes this from a node is a builder that
changes its template, and the proof is about who runs then. When the main node is changed
(`MainBuiltAvailable`), all nodes of the spec still run, because an edit comes when all do
(`SettledRuns`, from `RestInv`) and none is changed before the main node; so a secondary runs, or in a
cluster of one the replica, by `CoverInv`. When a secondary is changed, or the replica or an obsolete
node is deleted, the main node runs what the object asks for. That is what both handlers and
`validatePreconditions` have read, in two steps (`PassFits`), and `MainStatusFits` says that the reads
mean it. It needs no order of edits, as `MainInv` does, because an edit finds a main node whose
`currentRevision` is its template. A crash or an error may end the pass at every step but one: the
next pass finds the stage persisted and repeats it, or the builders' work and repeats that, and
between `MainShuttingDown` and the main node's builder `LostChange` says it does not end. Last, a main node that has yet to be changed (`Outdated`) gets an
upgrade: with all nodes there, the detection comes to a changed one first (`DetectionAvailable`), and
the checkpoint goes no further than `MainShuttingDown` before its builder has run. The proof has one
lemma per action, and each shows `Available`: the invariant, and that a node runs if one served.

**Only model-checked:**

- `Converges` and `OwnedConverges`: liveness, out of the prover's reach.
- `SecondariesFollowMain` and its invariant `MainInv` (run `multi`), for edits that go forward only.
- `MainChangeCovered` with lagging caches and one edit (run `stale`). It needs that they lag less than a requeue, which
  the proofs above, from `FreshInv` on, do not look at.

## Not modelled

- The assembly of a pod: containers, init containers, volumes, environment, probes, the `-Xmx` value
  (`resource/statefulset_utils.go`). It keeps no state and decides nothing of the order of things; the
  template is an environment and an image (*Pod template*).
- `cmd/main.go`: flags, manager and webhook set-up. What matters of it, that the process ends and
  another starts with fresh caches and everything queued, is `Crash`.
- Deep copies, CRDs, chart, samples, the fixtures of the tests.
- Two checks of the webhook (lines 147 and 188) that compare the length of a printed quantity with
  zero: an unset quantity prints as `"0"`, so they refuse nothing.
- Names of nodes that coincide, or that coincide with a replica's (`<main>-update-replica`): nothing
  validates them.

## Plan

1. Incarnations: UIDs, owner references by UID, a TeamCity object that returns while the garbage
   collector still works.
2. Several TeamCity objects with their upgrades: one checkpoint each, one worker.
