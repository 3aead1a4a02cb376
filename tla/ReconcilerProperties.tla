------------------------- MODULE ReconcilerProperties -------------------------
(***************************************************************************)
(* What the reconciler owes its user.                                       *)
(***************************************************************************)
EXTENDS Reconciler

CONSTANT Forward    \* an order on templates: where edits may take the main node

\* The locals of a pass fit the place it is at.
PassTypeOK ==
    /\ ~ At("idle") => pass.inst # NoTC
    /\ At("stage") => pass.stage \in Stage
    /\ At("advance") => pass.stage \in {ReplicaCreated, MainReady}
    /\ At("secondaries") => pass.todo \subseteq SecondaryNodes(pass.inst)
    /\ At("recreating") =>
          /\ pass.node \in DOMAIN pass.inst.nodes
          /\ pass.node # Main => pass.todo \subseteq SecondaryNodes(pass.inst)

\* Every variable has its type, and the locals of a pass (its copy of the object, its
\* stage, the node it recreates, the nodes left to its loop) fit the step it is at.
TypeOK ==
    /\ ClusterTypeOK /\ PassTypeOK
    /\ tc \in Specs \cup {NoTC} /\ deleting \in BOOLEAN
    /\ status \in Status /\ pass \in Pass /\ timer \in {"none", "interval", "backoff"}
    /\ edits \in 0 .. MaxEdits /\ crashes \in 0 .. MaxCrashes /\ faults \in 0 .. MaxFaults

Released == tc = NoTC \/ deleting

Protocol == INSTANCE UpgradeProtocol WITH
    stage <- checkpoint, replica <- sts[Replica] # NoSts, released <- Released

\* Through crashes, lagging caches and failing calls, the checkpoint and the
\* replica follow the protocol: no stage is skipped, repeated or taken back, and
\* the replica is neither made nor lost outside its stages (HandleReplicaCreated,
\* HandleMainReady, DoCheckpointWithDesiredStage).
UpgradeProtocolImplemented == Protocol!ProtocolSpec

\* A replica never outlives its upgrade: it exists only between ReplicaCreated and
\* MainReady, or until the garbage collector takes it with its owner.
ReplicaWithinUpgrade ==
    sts[Replica] # NoSts =>
        Released \/ checkpoint \in ReplicaCreated .. MainReady

\* Where a pass has not looked at the spec, and for a deleted object never does.
FinalPC == {"idle", "finalize", "removeFinalizer"}

\* The cache is behind the checkpoint by one write at most: the operator makes the next
\* only once it has seen the last.
CheckpointSeen ==
    /\ ~ StaleReads => CachesSynced
    /\ UpdateInitiated \notin {checkpoint, cmSeen}
    /\ \/ cmSeen = checkpoint
       \/ cmSeen # NoCheckpoint /\ checkpoint = cmSeen + 1
       \/ cmSeen = NoCheckpoint /\ checkpoint \in {ReplicaCreated, MainShuttingDown}
       \/ checkpoint = NoCheckpoint /\ (cmSeen = UpdateFinished \/ (Released /\ pass.pc \in FinalPC))

\* A stage that was persisted when the cache showed it, so that at most the write after it
\* has been made since, or that an upgrade starts with.
WasSeen(stage) ==
    \/ checkpoint \in {stage, stage + 1} /\ cmSeen \in {stage, checkpoint}
    \/ stage = UpdateFinished /\ checkpoint = NoCheckpoint
    \/ /\ stage \in {UpdateInitiated, ReplicaReady}
       /\ checkpoint \in {NoCheckpoint, ReplicaCreated, MainShuttingDown}
       /\ cmSeen \in {NoCheckpoint, checkpoint}

\* A stage a pass may act on: with caches that follow at once, the one that is persisted,
\* or, before there is a checkpoint, one that an upgrade starts with.
ActsOn(stage) ==
    IF StaleReads THEN WasSeen(stage)
    ELSE \/ stage = checkpoint
         \/ checkpoint = NoCheckpoint /\ stage \in {UpdateInitiated, ReplicaReady}

\* A pass acts on such a stage in all its steps; the replica is gone before the last
\* checkpoint; only a deleted object is finalized.
PassFollowsCheckpoint ==
    /\ At("stage") => ActsOn(pass.stage)
    /\ At("generation") => ActsOn(MainShuttingDown)
    /\ At("advance") => ActsOn(pass.stage) /\ (pass.stage = MainReady => sts[Replica] = NoSts)
    /\ pass.pc \in {"finalize", "removeFinalizer"} => Released

\* The replica is there only within its upgrade, is never marked for deletion, and has
\* been seen before the main node may change.
ReplicaFollowsCheckpoint ==
    sts[Replica] # NoSts =>
        /\ ~ sts[Replica].terminating
        /\ \/ checkpoint \in ReplicaCreated .. MainReady
           \/ checkpoint = NoCheckpoint /\ Released /\ pass.pc \in FinalPC
        /\ checkpoint \in ReplicaReady .. MainReady => stsSeen[Replica] # NoSts

\* The inductive invariant behind the upgrade protocol: however far the caches lag, what a
\* pass has read of the checkpoint is old by one write at most, and between two reads of a
\* pass nobody else moves the checkpoint or marks the replica for deletion.
UpgradeInv == TypeOK /\ CheckpointSeen /\ PassFollowsCheckpoint /\ ReplicaFollowsCheckpoint

ReplicaUp == sts[Replica] # NoSts /\ pod[Replica] # NoPod /\ pod[Replica].ready

\* HandleReplicaCreated ran again, for a spec with another environment, or met another
\* template of the main node: the replica's pod is replaced.
ReplicaChanged == sts[Replica] # NoSts /\ sts[Replica].changed

ReplicaCovers == ReplicaUp \/ ReplicaChanged

\* A pass that acts on ReplicaReady in a cluster of one node, and its change of that node.
AtOnlyNode == At("main") /\ pass.stage = ReplicaReady /\ ~ IsMultiNode(pass.inst)
ChangesOnlyNode ==
    /\ AtOnlyNode /\ ~ Released
    /\ sts[Main] # NoSts /\ sts'[Main] # NoSts
    /\ sts'[Main].template # sts[Main].template

\* In a cluster of one node, a pass that acts on ReplicaReady changes the main
\* node's pod template only while the replica's pod is ready (HandleReplicaReady
\* falls through to the builders).
MainChangeCovered == [][ChangesOnlyNode => ReplicaUp]_vars

\* The same through edits of the environment in mid-upgrade, which a repeated
\* HandleReplicaCreated takes to the replica, whose status is then read too early
\* (HandleReplicaStarting looks at availableReplicas alone): the main node is changed
\* only while the replica's pod is ready, or once the replica's StatefulSet was changed
\* after it was made.
MainChangeCoveredByUnchanged == [][ChangesOnlyNode => ReplicaCovers]_vars

\* Until it is changed, the replica's pod runs the replica's template, and its status is
\* not too good.
ReplicaPod ==
    /\ sts[Replica] = NoSts => pod[Replica] = NoPod
    /\ sts[Replica] # NoSts /\ ~ sts[Replica].changed =>
          /\ pod[Replica] # NoPod => pod[Replica].template = sts[Replica].template
          /\ sts[Replica].ready => ReplicaUp

\* The steps of the builders.
BuilderPC == {"main", "recreating", "listObsolete", "deleteObsolete", "mainGeneration",
              "mainFinished", "secondaries", "report"}

\* The replica is up by the time ReplicaReady is persisted, unless it was changed, and is
\* gone at the end.
ReplicaFits ==
    /\ ReplicaPod
    /\ checkpoint = ReplicaReady => ReplicaCovers
    /\ checkpoint = UpdateFinished => sts[Replica] = NoSts

\* What a pass owes at its steps, and the first of it between two passes as well: the
\* builders run at no stage at which the replica could still be made.
CoverPass ==
    /\ checkpoint = NoCheckpoint /\ sts[Replica] # NoSts =>
          Released /\ pass.pc \in {"idle", "finalize", "removeFinalizer"}
    /\ pass.pc \in {"ongoing", "upgrade"} => pass.stage = NoCheckpoint
    /\ At("upgrade") => pass.mark = (checkpoint # NoCheckpoint)
    /\ At("stage") /\ pass.stage = ReplicaReady /\ checkpoint = NoCheckpoint =>
          IsMultiNode(pass.inst)
    /\ pass.pc \in BuilderPC => checkpoint \in {NoCheckpoint, ReplicaReady, MainShuttingDown}
    /\ AtOnlyNode => ReplicaCovers

\* The inductive invariant behind the cover of the main node: a pass that changes the only
\* node finds the replica up, or changed since it was made.
CoverInv == ReplicaFits /\ CoverPass

AtRest == At("idle") /\ ~ queued /\ timer = "none" /\ CachesSynced

\* When the worker has nothing queued and the caches are up to date, no upgrade is
\* under way: an upgrade always has a pass coming (the Requeue results of the stages).
NoStalledUpgrade == AtRest /\ tc # NoTC /\ ~ deleting => checkpoint = NoCheckpoint

\* The status says so, unless a report of it may have failed.
Says(s) == status = s \/ ("status" \in FaultKinds /\ faults > 0)

\* The one reason to stop short: a governing service changed without leave to recreate.
Blocked ==
    /\ ~ tc.allowRecreate
    /\ \E n \in DOMAIN tc.nodes : sts[n] # NoSts /\ sts[n].svc # tc.nodes[n].svc

\* When the worker has nothing queued, the caches are up to date and no StatefulSet is
\* still going, every node of the spec has the StatefulSet the spec asks for and nothing
\* else is left, and the status says Success; or a recreate is blocked and the status
\* says Error.  No edit is lost between events, retries, recreates and crashes.
RestMeansApplied ==
    (/\ AtRest /\ tc # NoTC /\ ~ deleting
     /\ \A n \in Nodes : sts[n] # NoSts => ~ sts[n].terminating) =>
        \/ Blocked /\ Says("Error")
        \/ /\ Says("Success")
           /\ \A n \in DOMAIN tc.nodes : sts[n] # NoSts
                 /\ sts[n].template = tc.nodes[n].template /\ sts[n].svc = tc.nodes[n].svc
           /\ \A n \in Nodes \ DOMAIN tc.nodes : sts[n] = NoSts

Going == \E n \in Nodes : sts[n] # NoSts /\ sts[n].terminating

\* What the object asks for, of one node and of the secondaries that left the spec.
NodeApplied(n) ==
    sts[n] # NoSts /\ sts[n].template = tc.nodes[n].template /\ sts[n].svc = tc.nodes[n].svc
NothingObsolete == \A n \in Secondaries \ DOMAIN tc.nodes : sts[n] = NoSts

\* What a pass has behind it at each step, and all of them have when none is to come.
BehindPass ==
    /\ ~ At("recreating")
    /\ pass.pc \in {"listObsolete", "mainGeneration", "mainFinished", "secondaries"} =>
          NodeApplied(Main)
    /\ pass.pc \in {"mainGeneration", "mainFinished", "secondaries", "report"} =>
          NothingObsolete
    /\ At("secondaries") => \A n \in SecondaryNodes(tc) \ pass.todo : NodeApplied(n)
    /\ At("report") => \A n \in DOMAIN tc.nodes : NodeApplied(n)
    /\ At("idle") /\ timer = "none" =>
          \/ Blocked /\ Says("Error")
          \/ /\ Says("Success") /\ checkpoint = NoCheckpoint
             /\ NothingObsolete /\ \A n \in DOMAIN tc.nodes : NodeApplied(n)

\* The inductive invariant behind rest: with nothing queued, the pass in progress works
\* on the object as it is, and what it has passed stays applied, or a StatefulSet is
\* still going, whose end will queue the object.
RestInv ==
    ~ Released /\ ~ queued =>
        /\ ~ At("idle") => pass.inst = tc
        /\ Going \/ BehindPass

\* The pod of a node is ready and runs the template of its StatefulSet.
Runs(n) == sts[n] # NoSts /\ pod[n] = [template |-> sts[n].template, ready |-> TRUE]
MainRuns == Runs(Main)

\* x is not after y, in an order in which every edit goes forward.
NotAfter(x, y) == x = y \/ <<x, y>> \in Forward

\* The main node's pod and its status follow its template: currentRevision names a
\* template not after the pod's, and that one is not after the StatefulSet's.
MainFollows ==
    LET s == sts[Main]
        p == pod[Main]
    IN  /\ s = NoSts => p = NoPod
        /\ s # NoSts =>
              /\ NotAfter(s.current, s.template)
              /\ p # NoPod => /\ NotAfter(s.current, p.template)
                              /\ NotAfter(p.template, s.template)
              /\ s.observed => s.update = s.template
              /\ s.ready /\ s.current = s.template => MainRuns

\* The StatefulSet is not after what a pass works on, nor that after the object.
MainOrder ==
    LET asked  == tc.nodes[Main].template
        worked == pass.inst.nodes[Main].template
    IN  /\ tc # NoTC /\ sts[Main] # NoSts => NotAfter(sts[Main].template, asked)
        /\ ~ At("idle") /\ sts[Main] # NoSts => NotAfter(sts[Main].template, worked)
        /\ ~ At("idle") /\ tc # NoTC => NotAfter(worked, asked)

\* The inductive invariant behind the order of the nodes: what the two reads of
\* validatePreconditions have seen of the main node stays true until the secondaries
\* are done.
MainInv ==
    /\ MainFollows /\ MainOrder
    /\ tc = NoTC => At("idle")
    /\ At("mainFinished") /\ pass.mark => sts[Main] # NoSts /\ sts[Main].observed
    /\ At("recreating") => pass.node # Main
    /\ pass.pc \in {"secondaries", "recreating"} => MainRuns

\* A secondary is created or changed.
Applies(n) == sts'[n] # NoSts /\ (sts[n] = NoSts \/ sts'[n].template # sts[n].template)

\* A secondary is created or changed only while the main node's pod is ready and
\* runs the template of its StatefulSet (validatePreconditions).
SecondariesFollowMain ==
    [][ \A n \in Secondaries :
          Applies(n) => pod[Main] = [template |-> sts[Main].template, ready |-> TRUE] ]_vars

\* The status of the main node is of its newest generation, whose template is rolled out.
MainRolledOut == sts[Main].observed /\ sts[Main].current = sts[Main].template

\* What the two reads of validatePreconditions, put together, have seen of the main node,
\* and what stays so until the secondaries are done, whatever the edits: unless the main
\* node's StatefulSet has gone.
RolloutSeen ==
    sts[Main] # NoSts =>
        /\ sts[Main].observed => sts[Main].update = sts[Main].template
        /\ At("mainFinished") /\ pass.mark => sts[Main].observed
        /\ At("secondaries") \/ (At("recreating") /\ pass.node # Main) => MainRolledOut

\* A secondary is created or changed only while the main node's newest template is rolled
\* out, by the status of its newest generation: neither read of validatePreconditions says
\* so alone, and the StatefulSet controller acts between them.
SecondariesFollowRollout ==
    [][ \A n \in Secondaries : Applies(n) /\ sts[Main] # NoSts => MainRolledOut ]_vars

\* With the finalizer, no checkpoint is left behind when the object is gone.
NoCheckpointLeft == HasFinalizer /\ tc = NoTC => checkpoint = NoCheckpoint

Serving == \E n \in Nodes : pod[n] # NoPod /\ pod[n].ready

\* README.md:482: "at least one node is serving the UI during the process".
AvailabilityKept == [][Serving /\ tc' # NoTC => Serving']_vars

\* An edit the operator can apply with no break: it keeps the main node's template, or it
\* asks for an upgrade without downtime, of the same nodes, that the detection sees.
Undisruptive(old, new) ==
    \/ new.nodes[Main].template = old.nodes[Main].template
    \/ /\ new.zeroDowntime /\ DOMAIN new.nodes = DOMAIN old.nodes
       /\ ChangesRequireNodeStatefulSetRestart(new.nodes[Main], old.nodes[Main])

\* A pod that is not ready has the template of its StatefulSet, and goes with it.
PodsFit ==
    \A n \in Nodes \ {Replica} :
       /\ sts[n] = NoSts => pod[n] = NoPod
       /\ sts[n] # NoSts /\ pod[n] # NoPod /\ ~ pod[n].ready => pod[n].template = sts[n].template

\* The main node's status does not say that it runs its template unless it does.
MainStatusFits ==
    LET s == sts[Main]
    IN  s # NoSts =>
          /\ s.observed => s.update = s.template
          /\ s.ready /\ s.current = s.template => MainRuns
          /\ pod[Main] # NoPod /\ s.current = s.template => pod[Main].template = s.template

\* The main node has yet to get the template the object asks for.
Outdated == sts[Main] # NoSts /\ sts[Main].template # tc.nodes[Main].template

\* If a node serves, one does that nothing is about to replace.  A node runs until it is
\* changed, and all of them until the main node is, for which there will be an upgrade;
\* secondaries leave only a cluster whose main node runs what the object asks for.
NodesFit ==
    /\ Serving => \E n \in Nodes : Runs(n)
    /\ \A n \in DOMAIN tc.nodes :
          sts[n] # NoSts /\ sts[n].template # tc.nodes[n].template => Runs(n)
    /\ Outdated =>
          /\ tc.zeroDowntime /\ ChangesRequireNodeStatefulSetRestart(tc.nodes[Main], sts[Main])
          /\ sts[Main].current = sts[Main].template /\ \A n \in DOMAIN tc.nodes : Runs(n)
    /\ (\E n \in Secondaries \ DOMAIN tc.nodes : sts[n] # NoSts) => MainRuns /\ ~ Outdated

\* Until the main node is changed, its upgrade has gone no further than its builder; the
\* replica goes, and secondaries are changed, when it runs again.  What the first reads of
\* HandleMainShuttingDown and validatePreconditions have seen is still so at the second.
PassFits ==
    /\ ~ At("idle") => pass.inst = tc
    /\ Outdated =>
          /\ checkpoint \in MainShuttingDown .. UpdateFinished => At("main")
          /\ At("main") => pass.stage = ReplicaReady
          /\ pass.pc \notin BuilderPC \ {"main"}
    /\ checkpoint = MainReady \/ At("secondaries") => MainRuns /\ ~ Outdated
    /\ At("generation") /\ pass.mark => IsNodeUpdateFinished(sts[Main])
    /\ At("mainFinished") /\ pass.mark => IsNewestGeneration(sts[Main])
    /\ At("deleteObsolete") => pass.todo \cap DOMAIN tc.nodes = {}

\* While nothing is edited, to repeat HandleReplicaCreated changes nothing.
ReplicaSteady ==
    /\ ~ ReplicaChanged
    /\ checkpoint = ReplicaCreated /\ sts[Replica] # NoSts /\ sts[Main] # NoSts /\ tc # NoTC =>
          sts[Replica].template =
             [sts[Main].template EXCEPT !.env = tc.nodes[Main].template.env]

\* The inductive invariant behind the availability of the service.
AvailInv ==
    /\ PodsFit /\ MainStatusFits /\ ReplicaSteady /\ ~ At("recreating")
    /\ tc # NoTC => NodesFit /\ PassFits

(***************************************************************************)
(* The steps after which the service may break.                             *)
(***************************************************************************)
\* An edit that does not wait for the last one, or that cannot be applied with no break.
RashEdit == tc # NoTC /\ tc' \notin {tc, NoTC} /\ ~ (Settled /\ Undisruptive(tc, tc'))

\* The pass that persisted MainShuttingDown ends before it has changed the main node.
LostChange ==
    /\ At("main") /\ tc # NoTC /\ Outdated
    /\ checkpoint = MainShuttingDown /\ pass'.pc = "idle"

\* A status of the main node lands between the two reads of HandleMainShuttingDown.
TornRead == At("generation") /\ sts'[Main] # sts[Main]

Mishap == RashEdit \/ LostChange \/ TornRead

CarefulSpec == Init /\ [][Next /\ ~ Mishap]_vars

\* The spec is applied: every node runs it, no upgrade is left, status Success.
Applied ==
    /\ checkpoint = NoCheckpoint /\ Says("Success")
    /\ \A n \in DOMAIN tc.nodes :
          /\ sts[n] # NoSts /\ sts[n].svc = tc.nodes[n].svc
          /\ pod[n] = [template |-> tc.nodes[n].template, ready |-> TRUE]
    /\ \A n \in Nodes \ DOMAIN tc.nodes : sts[n] = NoSts

\* After the last edit, crash and fault, the cluster comes to what the object asks
\* for and stays there, or a recreate is blocked and the status says so, or the object
\* is gone with all it owned.
Converges == <>[](IF tc = NoTC THEN \A n \in Nodes : sts[n] = NoSts
                  ELSE ~ deleting /\ (Applied \/ (Blocked /\ Says("Error"))))
===============================================================================
