------------------------------ MODULE Reconciler ------------------------------
(***************************************************************************)
(* The TeamcityReconciler (internal/controller): one worker that takes the  *)
(* TeamCity object off its queue and runs a pass over it.  A pass is cut    *)
(* where another actor may act between two calls to the API server: every   *)
(* step below reads the caches or writes to the API server once, and        *)
(* pass.pc says which step comes next.  The user, the StatefulSet           *)
(* controller, the informers and a crash of the operator act between steps. *)
(*                                                                          *)
(* Simplifications.  The builders of PVCs, ServiceAccount, Services and     *)
(* Ingresses come before the StatefulSets and touch no state kept here;     *)
(* their errors are ApiError before ApplyMain.  The TeamCity object is read *)
(* from the API server: a pass that reads it stale behaves as one that      *)
(* started before the edit, and the edit queues another.  The main node     *)
(* keeps its name.                                                          *)
(***************************************************************************)
EXTENDS Cluster, FiniteSets

CONSTANTS
    NoTC,               \* absence of the TeamCity object
    InitSpecs, Specs,   \* what the user creates first, and may apply later
    EditsFrom,          \* which specs the user may put in the place of one
    HasFinalizer,       \* the manifest lists teamcity.jetbrains.com/finalizer
    EditsDuringUpgrade, \* FALSE: the user edits only what has settled
    StatusBetweenReads, \* FALSE: no status lands between the two reads of
                        \* HandleMainShuttingDown
    LongLag,            \* FALSE: caches catch up within the requeue interval
    FaultKinds,         \* which API calls may fail
    MaxEdits, MaxCrashes, MaxFaults     \* bounds on user, crash, fault steps

TCSpec ==
    [nodes : UNION {[{Main} \cup S -> NodeConfig] : S \in SUBSET Secondaries},
     zeroDowntime : BOOLEAN, allowRecreate : BOOLEAN]

ASSUME SpecsAssumption ==
    /\ InitSpecs \subseteq Specs /\ Specs \subseteq TCSpec
    /\ EditsFrom \in [Specs -> SUBSET Specs]
ASSUME NoTCAssumption == NoTC \notin TCSpec
ASSUME BoundsAssumption ==
    /\ MaxEdits \in Nat /\ MaxCrashes \in Nat /\ MaxFaults \in Nat
    /\ {HasFinalizer, EditsDuringUpgrade, StatusBetweenReads, LongLag} \subseteq BOOLEAN

VARIABLES
    tc,         \* spec and annotations of the TeamCity object
    deleting,   \* its deletionTimestamp is set
    status,     \* its status.state
    pass,       \* the pass in progress
    timer,      \* a delayed return to the queue: "none", "interval", "backoff"
    edits, crashes, faults      \* user, crash and fault steps so far

vars == <<sts, pod, checkpoint, stsSeen, cmSeen, queued,
          tc, deleting, status, pass, timer, edits, crashes, faults>>
userVars == <<tc, deleting, edits>>

PC == {"idle", "finalize", "removeFinalizer", "ongoing", "upgrade", "stage",
       "generation", "advance", "main", "listObsolete", "deleteObsolete",
       "mainGeneration", "mainFinished", "secondaries", "recreating", "report"}

(***************************************************************************)
(* pass.inst is the copy of the object the pass works on, stage the         *)
(* checkpoint it acts on, mark the result of a read kept for a later step,  *)
(* node the node being recreated, todo the nodes a loop has left.           *)
(***************************************************************************)
Pass == [pc : PC, inst : Specs \cup {NoTC}, stage : MaybeStage,
         mark : BOOLEAN, node : Nodes, todo : SUBSET Secondaries]

IdlePass == [pc |-> "idle", inst |-> NoTC, stage |-> NoCheckpoint,
             mark |-> FALSE, node |-> Main, todo |-> {}]

Status == {"None", "Success", "Error", "Updating"}

Init ==
    /\ ClusterInit
    /\ tc \in InitSpecs /\ deleting = FALSE /\ status = "None"
    /\ pass = IdlePass /\ timer = "none"
    /\ edits = 0 /\ crashes = 0 /\ faults = 0

\* Mutation: the main node counts as one of the secondaries.
SecondaryNodesWithMain(spec) == DOMAIN spec.nodes
SecondaryNodes(spec) == DOMAIN spec.nodes \ {Main}
IsMultiNode(spec) == SecondaryNodes(spec) # {}

At(pc) == pass.pc = pc
Continue(next) == pass' = next /\ UNCHANGED <<queued, timer>>
Goto(pc) == Continue([pass EXCEPT !.pc = pc])

(***************************************************************************)
(* The ends of a pass.  An event puts the object on the queue at once.  A   *)
(* Result with RequeueAfter, or an error, puts it there after a while, and  *)
(* the queue keeps the earlier of two such delays; the back-off after an    *)
(* error starts at a few milliseconds.                                      *)
(***************************************************************************)
Done == pass' = IdlePass /\ UNCHANGED timer
RequeueAfter == pass' = IdlePass /\ timer' = IF timer = "backoff" THEN timer ELSE "interval"
Retry == pass' = IdlePass /\ timer' = "backoff" /\ UNCHANGED queued

Fault(kind) == kind \in FaultKinds /\ faults < MaxFaults /\ faults' = faults + 1

\* A changed status is an update event of the TeamCity object, and those all pass.
WriteStatus(s) ==
    /\ status' = IF tc = NoTC THEN status ELSE s
    /\ queued' = (queued \/ (tc # NoTC /\ status # s))

\* The status fails to be read or written: that is logged, or not even that.
StatusFault == Fault("status") /\ UNCHANGED <<status, queued>>

reportRecreateBlocked == (WriteStatus("Error") /\ UNCHANGED faults) \/ StatusFault
reportRecreateInProgress == (WriteStatus("Updating") /\ UNCHANGED faults) \/ StatusFault

-------------------------------------------------------------------------------
(* Reconcile: start, deletion, detection of an upgrade *)

StartPass ==
    /\ At("idle") /\ queued
    /\ queued' = FALSE /\ UNCHANGED timer
    /\ pass' = IF tc = NoTC THEN IdlePass
               ELSE [IdlePass EXCEPT !.inst = tc,
                        !.pc = IF deleting THEN "finalize" ELSE "ongoing"]
    /\ UNCHANGED <<sts, pod, checkpoint, stsSeen, cmSeen, status, crashes, faults>>
    /\ UNCHANGED userVars

\* An upgrade is going on if the checkpoint can be read: a failed read says no.
\* Mutation: none ever is.
NoUpgradeIsOngoing == FALSE
OngoingZeroDowntimeUpgrade == cmSeen # NoCheckpoint
ReadOngoing(ongoing) ==
    \/ ongoing = OngoingZeroDowntimeUpgrade /\ UNCHANGED faults
    \/ OngoingZeroDowntimeUpgrade /\ ~ ongoing /\ Fault("read")

\* checkpoint.Delete: NotFound from the cache or the API server is an error.
DeleteCheckpoint(ok) ==
    LET exists == cmSeen # NoCheckpoint /\ checkpoint # NoCheckpoint
    IN  /\ ok = exists
        /\ IF exists THEN WriteCheckpoint(NoCheckpoint)
           ELSE UNCHANGED <<checkpoint, cmSeen>>

FinalizeTeamCity ==
    /\ At("finalize")
    /\ \E ongoing \in BOOLEAN :
          /\ ReadOngoing(ongoing)
          /\ IF ongoing
             THEN \E ok \in BOOLEAN :
                     DeleteCheckpoint(ok) /\ IF ok THEN Goto("removeFinalizer") ELSE Retry
             ELSE Goto("removeFinalizer") /\ UNCHANGED <<checkpoint, cmSeen>>
    /\ UNCHANGED <<sts, pod, stsSeen, status, crashes>> /\ UNCHANGED userVars

\* The update that removes the finalizer lets the API server remove the object.
RemoveFinalizer ==
    /\ At("removeFinalizer")
    /\ tc' = NoTC /\ deleting' = FALSE /\ status' = "None"
    /\ Done /\ queued' = TRUE
    /\ UNCHANGED <<sts, pod, checkpoint, stsSeen, cmSeen, edits, crashes, faults>>

\* pass.mark remembers whether an upgrade is going on.
DetectUpgrade ==
    /\ At("ongoing")
    /\ \E ongoing \in BOOLEAN :
          /\ ReadOngoing(ongoing)
          /\ Continue([pass EXCEPT !.mark = ongoing,
                        !.pc = IF ongoing \/ pass.inst.zeroDowntime
                               THEN "upgrade" ELSE "main"])
    /\ UNCHANGED <<sts, pod, checkpoint, stsSeen, cmSeen, status, crashes>>
    /\ UNCHANGED userVars

(***************************************************************************)
(* The nodes are looked at secondaries first, in the order of the spec, the *)
(* main node last, up to the first one that is missing (no restart) or      *)
(* changed (restart).                                                       *)
(***************************************************************************)
DoesNodesUpdateChangeStatefulSetSpec(changes) ==
    LET nodes     == pass.inst.nodes
        Missing   == {n \in DOMAIN nodes : stsSeen[n] = NoSts}
        Changed   == {n \in DOMAIN nodes \ Missing :
                        ChangesRequireNodeStatefulSetRestart(nodes[n], stsSeen[n])}
        stops     == (Missing \cup Changed) \ {Main}
    IN  IF stops = {} THEN changes = (Main \in Changed)
        ELSE \E first \in stops : changes = (first \in Changed)

\* An error of the reads is swallowed, and the pass goes on to the builders.
PerformZeroDowntimeUpgrade ==
    /\ At("upgrade")
    /\ \/ /\ UNCHANGED faults
          /\ \E changes \in BOOLEAN :
                /\ DoesNodesUpdateChangeStatefulSetSpec(changes)
                /\ IF changes \/ pass.mark
                   THEN Continue([pass EXCEPT !.pc = "stage", !.mark = FALSE, !.stage =
                            IF cmSeen # NoCheckpoint THEN cmSeen
                            ELSE InitialStage(IsMultiNode(pass.inst))])
                   ELSE Continue([pass EXCEPT !.pc = "main", !.mark = FALSE])
       \/ Fault("read") /\ Continue([pass EXCEPT !.pc = "main", !.mark = FALSE])
    /\ UNCHANGED <<sts, pod, checkpoint, stsSeen, cmSeen, status, crashes>>
    /\ UNCHANGED userVars

-------------------------------------------------------------------------------
(* The stages of the upgrade *)

(***************************************************************************)
(* DoCheckpointWithDesiredStage returns an error (~ ok) if the transition   *)
(* is illegal or if the ConfigMap it thinks is missing exists.  Once the    *)
(* ConfigMap was found, an error of the update is swallowed: of a ConfigMap *)
(* that is gone, or of a failed call.                                       *)
(***************************************************************************)
DoCheckpoint(desired, ok) ==
    \/ /\ ~ ok
       /\ IF cmSeen = NoCheckpoint THEN checkpoint # NoCheckpoint
          ELSE ~ CanChangeStageValue(cmSeen, desired)
       /\ UNCHANGED <<checkpoint, cmSeen, faults>>
    \/ /\ ok
       /\ IF cmSeen = NoCheckpoint THEN checkpoint = NoCheckpoint
          ELSE CanChangeStageValue(cmSeen, desired)
       /\ \/ /\ WriteCheckpoint(IF cmSeen # NoCheckpoint /\ checkpoint = NoCheckpoint
                                THEN NoCheckpoint ELSE desired)
             /\ UNCHANGED faults
          \/ cmSeen # NoCheckpoint /\ Fault("checkpoint") /\ UNCHANGED <<checkpoint, cmSeen>>

\* A handler that has nothing to do after the checkpoint.
CheckpointAndRequeue(desired) ==
    /\ \E ok \in BOOLEAN : DoCheckpoint(desired, ok) /\ IF ok THEN RequeueAfter ELSE Retry
    /\ UNCHANGED queued

WaitForNextPass == RequeueAfter /\ UNCHANGED <<queued, checkpoint, cmSeen, faults>>

AtStage(stage) == At("stage") /\ pass.stage = stage

HandleUpdateInitiated ==
    /\ AtStage(UpdateInitiated)
    /\ CheckpointAndRequeue(ReplicaCreated)
    /\ UNCHANGED <<sts, pod, stsSeen, status, crashes>> /\ UNCHANGED userVars

(***************************************************************************)
(* The replica gets the main node's pod template as it is, with the         *)
(* environment of the spec the pass works on.  An error of its creation or  *)
(* update is overwritten by that of the checkpoint.                         *)
(***************************************************************************)
ReplicaTemplate(main) == [main.template EXCEPT !.env = pass.inst.nodes[Main].template.env]

HandleReplicaCreated ==
    /\ AtStage(ReplicaCreated)
    /\ LET main == stsSeen[Main]
           seen == stsSeen[Replica]
           new  == [sts EXCEPT ![Replica] =
                      IF seen # sts[Replica] THEN @
                      ELSE IF seen = NoSts
                      THEN FreshStatefulSet([template |-> ReplicaTemplate(main), svc |-> NoService])
                      ELSE ConfigureStatefulSet(@, ReplicaTemplate(main))]
       IN  IF main = NoSts
           THEN Retry /\ UNCHANGED <<sts, stsSeen, faults>>
           ELSE /\ pass' = [pass EXCEPT !.pc = "advance"] /\ UNCHANGED timer
                /\ \/ /\ WriteStatefulSets(new) /\ UNCHANGED faults
                      /\ queued' = (queued \/ EventsOf(new))
                   \/ Fault("replica") /\ UNCHANGED <<sts, stsSeen, queued>>
    /\ UNCHANGED <<pod, checkpoint, cmSeen, status, crashes>> /\ UNCHANGED userVars

\* The checkpoint at the end of HandleReplicaCreated and of HandleMainReady.
AdvanceCheckpoint ==
    /\ At("advance")
    /\ CheckpointAndRequeue(pass.stage + 1)
    /\ UNCHANGED <<sts, pod, stsSeen, status, crashes>> /\ UNCHANGED userVars

\* Mutation: it is enough that the replica exists.
ReplicaExists == TRUE
ReplicaIsAvailable == stsSeen[Replica].ready

HandleReplicaStarting ==
    /\ AtStage(ReplicaStarting)
    /\ IF stsSeen[Replica] = NoSts
       THEN Retry /\ UNCHANGED <<checkpoint, cmSeen, faults>>
       ELSE IF ReplicaIsAvailable THEN CheckpointAndRequeue(ReplicaReady)
       ELSE WaitForNextPass
    /\ UNCHANGED <<sts, pod, stsSeen, status, crashes>> /\ UNCHANGED userVars

\* The one stage besides UpdateFinished that lets the builders run.
HandleReplicaReady ==
    /\ AtStage(ReplicaReady)
    /\ \E ok \in BOOLEAN :
          /\ DoCheckpoint(MainShuttingDown, ok)
          /\ IF ok THEN Goto("main") ELSE Retry
    /\ UNCHANGED <<sts, pod, stsSeen, status, crashes>> /\ UNCHANGED userVars

\* First read of the main node: has its update finished?
HandleMainShuttingDown ==
    /\ AtStage(MainShuttingDown)
    /\ IF stsSeen[Main] = NoSts THEN Retry
       ELSE Continue([pass EXCEPT !.pc = "generation",
                        !.mark = IsNodeUpdateFinished(stsSeen[Main])])
    /\ UNCHANGED <<sts, pod, checkpoint, stsSeen, cmSeen, status, crashes, faults>>
    /\ UNCHANGED userVars

\* Second read of the main node: is its status up to date?
CheckMainGeneration ==
    /\ At("generation")
    /\ IF stsSeen[Main] = NoSts
       THEN Retry /\ UNCHANGED <<checkpoint, cmSeen, faults>>
       ELSE IF pass.mark /\ IsNewestGeneration(stsSeen[Main])
       THEN CheckpointAndRequeue(MainReady)
       ELSE WaitForNextPass
    /\ UNCHANGED <<sts, pod, stsSeen, status, crashes>> /\ UNCHANGED userVars

\* Mutation: the replica is left to the garbage collector.
ReplicaIsKept == FALSE
ReplicaIsFound == stsSeen[Replica] # NoSts

\* A read error other than NotFound leaves the stage and lets the builders run.
HandleMainReady ==
    /\ AtStage(MainReady)
    /\ \/ /\ UNCHANGED <<faults, timer>> /\ pass' = [pass EXCEPT !.pc = "advance"]
          /\ IF ReplicaIsFound
             THEN LET new == [sts EXCEPT ![Replica] = NoSts]
                  IN  /\ WriteStatefulSets(new)
                      /\ pod' = [pod EXCEPT ![Replica] = NoPod]
                      /\ queued' = (queued \/ EventsOf(new))
             ELSE UNCHANGED <<sts, pod, stsSeen, queued>>
       \/ Fault("read") /\ Goto("main") /\ UNCHANGED <<sts, pod, stsSeen>>
    /\ UNCHANGED <<checkpoint, cmSeen, status, crashes>> /\ UNCHANGED userVars

HandleUpdateFinished ==
    /\ AtStage(UpdateFinished)
    /\ \E ok \in BOOLEAN :
          /\ DeleteCheckpoint(ok)
          /\ IF ok THEN Goto("main") ELSE Retry
    /\ UNCHANGED <<sts, pod, stsSeen, status, crashes, faults>> /\ UNCHANGED userVars

-------------------------------------------------------------------------------
(* The StatefulSet builders *)

\* Where the pass goes once node n is done.
AfterNode(n) ==
    IF n = Main THEN [pass EXCEPT !.pc = "listObsolete", !.mark = FALSE]
    ELSE LET left == pass.todo \ {n}
         IN  [pass EXCEPT !.todo = left, !.mark = FALSE, !.node = Main,
                !.pc = IF left = {} THEN "report" ELSE "secondaries"]

\* controllerutil.CreateOrUpdate: a cache that lags makes it fail.
CreateOrUpdate(n) ==
    LET config == pass.inst.nodes[n]
        new == [sts EXCEPT ![n] = IF @ = NoSts THEN FreshStatefulSet(config)
                                  ELSE ConfigureStatefulSet(@, config.template)]
    IN  IF stsSeen[n] # sts[n]
        THEN Retry /\ UNCHANGED <<sts, stsSeen>>
        ELSE /\ WriteStatefulSets(new) /\ queued' = (queued \/ EventsOf(new))
             /\ pass' = AfterNode(n) /\ UNCHANGED timer

(***************************************************************************)
(* reconcileStatefulSetBeforeCreateOrUpdate, then CreateOrUpdate unless it  *)
(* deletes the StatefulSet.  A recreate that is not allowed ends the pass   *)
(* without a retry.  If the deletion finds nothing, CreateOrUpdate follows. *)
(***************************************************************************)
ApplyStatefulSet(n) ==
    LET changed == /\ stsSeen[n] # NoSts
                   /\ ImmutableStatefulSetSpecChanged(stsSeen[n], pass.inst.nodes[n])
        new == [sts EXCEPT ![n] = IF @ = NoSts THEN NoSts ELSE MarkForDeletion(@)]
    IN  \/ ~ changed /\ CreateOrUpdate(n) /\ UNCHANGED <<status, faults>>
        \/ /\ changed /\ ~ pass.inst.allowRecreate
           /\ reportRecreateBlocked /\ Done
           /\ UNCHANGED <<sts, stsSeen>>
        \/ /\ changed /\ pass.inst.allowRecreate
           /\ reportRecreateInProgress
           /\ WriteStatefulSets(new)
           /\ pass' = [pass EXCEPT !.pc = "recreating", !.node = n,
                         !.mark = (sts[n] = NoSts)]
           /\ UNCHANGED timer

ApplyMain ==
    /\ At("main") /\ ApplyStatefulSet(Main)
    /\ UNCHANGED <<pod, checkpoint, cmSeen, crashes>> /\ UNCHANGED userVars

ApplySecondary ==
    /\ At("secondaries")
    /\ \E n \in pass.todo : ApplyStatefulSet(n)
    /\ UNCHANGED <<pod, checkpoint, cmSeen, crashes>> /\ UNCHANGED userVars

(***************************************************************************)
(* After the deletion: while the StatefulSet is still there the builder     *)
(* returns a Result that Reconcile drops, skipping the nodes it has left.   *)
(***************************************************************************)
FinishRecreate ==
    /\ At("recreating")
    /\ \/ /\ stsSeen[pass.node] # NoSts /\ ~ pass.mark
          /\ Continue([pass EXCEPT !.node = Main, !.todo = {}, !.pc =
                        IF pass.node = Main THEN "listObsolete" ELSE "report"])
          /\ UNCHANGED <<sts, stsSeen>>
       \/ /\ stsSeen[pass.node] = NoSts \/ pass.mark
          /\ CreateOrUpdate(pass.node)
    /\ UNCHANGED <<pod, checkpoint, cmSeen, status, crashes, faults>>
    /\ UNCHANGED userVars

(***************************************************************************)
(* The read after the deletion fails, for another reason than NotFound: its *)
(* error is shadowed, and CreateOrUpdate meets the StatefulSet that is      *)
(* being deleted.  The API server forbids it another governing service,     *)
(* which is reported as a blocked recreate and ends the pass without retry. *)
(***************************************************************************)
Forbidden(n) ==
    /\ stsSeen[n] = sts[n] /\ sts[n] # NoSts
    /\ pass.inst.nodes[n].svc \notin {NoService, sts[n].svc}

UpdateDeleted ==
    /\ At("recreating") /\ ~ pass.mark
    /\ Fault("reread")
    /\ IF Forbidden(pass.node)
       THEN WriteStatus("Error") /\ Done /\ UNCHANGED <<sts, stsSeen>>
       ELSE CreateOrUpdate(pass.node) /\ UNCHANGED status
    /\ UNCHANGED <<pod, checkpoint, cmSeen, crashes>> /\ UNCHANGED userVars

\* Mutation: nothing is looked for once the last secondary has left the spec.
ObsoleteNodesIfMultiNode ==
    {n \in Secondaries \ DOMAIN pass.inst.nodes : stsSeen[n] # NoSts /\ IsMultiNode(pass.inst)}
ObsoleteNodes == {n \in Secondaries \ DOMAIN pass.inst.nodes : stsSeen[n] # NoSts}

AfterObsolete == IF IsMultiNode(pass.inst) THEN "mainGeneration" ELSE "report"

ListObsolete ==
    /\ At("listObsolete")
    /\ Continue([pass EXCEPT !.todo = ObsoleteNodes,
                    !.pc = IF ObsoleteNodes # {} THEN "deleteObsolete" ELSE AfterObsolete])
    /\ UNCHANGED <<sts, pod, checkpoint, stsSeen, cmSeen, status, crashes, faults>>
    /\ UNCHANGED userVars

\* A StatefulSet that is already gone is an error here.
DeleteObsolete ==
    /\ At("deleteObsolete")
    /\ \E n \in pass.todo :
          LET new  == [sts EXCEPT ![n] = NoSts]
              left == pass.todo \ {n}
          IN  IF sts[n] = NoSts THEN Retry /\ UNCHANGED <<sts, pod, stsSeen>>
              ELSE /\ WriteStatefulSets(new) /\ pod' = [pod EXCEPT ![n] = NoPod]
                   /\ queued' = (queued \/ EventsOf(new))
                   /\ pass' = [pass EXCEPT !.todo = left, !.pc =
                                 IF left # {} THEN "deleteObsolete" ELSE AfterObsolete]
                   /\ UNCHANGED timer
    /\ UNCHANGED <<checkpoint, cmSeen, status, crashes, faults>> /\ UNCHANGED userVars

\* validatePreconditions, first read of the main node.
CheckPreconditionGeneration ==
    /\ At("mainGeneration")
    /\ Continue([pass EXCEPT !.pc = "mainFinished",
                  !.mark = IsNewestGeneration(stsSeen[Main])])
    /\ UNCHANGED <<sts, pod, checkpoint, stsSeen, cmSeen, status, crashes, faults>>
    /\ UNCHANGED userVars

\* Second read, and the check for an ongoing upgrade, which a failed read passes.
CheckPreconditionFinished ==
    /\ At("mainFinished")
    /\ \E ongoing \in BOOLEAN :
          /\ ReadOngoing(ongoing)
          /\ IF pass.mark /\ IsNodeUpdateFinished(stsSeen[Main]) /\ ~ ongoing
             THEN Continue([pass EXCEPT !.pc = "secondaries", !.mark = FALSE,
                              !.todo = SecondaryNodes(pass.inst)])
             ELSE RequeueAfter /\ UNCHANGED queued
    /\ UNCHANGED <<sts, pod, checkpoint, stsSeen, cmSeen, status, crashes>>
    /\ UNCHANGED userVars

\* The end of a pass: Success, and a retry if an upgrade is going on.
ReportSuccess ==
    /\ At("report")
    /\ \E ongoing \in BOOLEAN :
          /\ \/ WriteStatus("Success") /\ ReadOngoing(ongoing)
             \/ StatusFault /\ ongoing = OngoingZeroDowntimeUpgrade
          /\ IF ongoing THEN RequeueAfter ELSE Done
    /\ UNCHANGED <<sts, pod, checkpoint, stsSeen, cmSeen, crashes>>
    /\ UNCHANGED userVars

\* A call whose error ends the pass fails before it has any effect.
ApiError ==
    /\ pass.pc \in {"finalize", "removeFinalizer", "stage", "generation", "advance", "main",
                    "listObsolete", "deleteObsolete", "secondaries", "recreating"}
    /\ Fault("error") /\ Retry
    /\ UNCHANGED <<sts, pod, checkpoint, stsSeen, cmSeen, status, crashes>>
    /\ UNCHANGED userVars

OperatorStep ==
    \/ StartPass \/ FinalizeTeamCity \/ RemoveFinalizer
    \/ DetectUpgrade \/ PerformZeroDowntimeUpgrade
    \/ HandleUpdateInitiated \/ HandleReplicaCreated \/ AdvanceCheckpoint
    \/ HandleReplicaStarting \/ HandleReplicaReady
    \/ HandleMainShuttingDown \/ CheckMainGeneration
    \/ HandleMainReady \/ HandleUpdateFinished
    \/ ApplyMain \/ ApplySecondary \/ FinishRecreate
    \/ ListObsolete \/ DeleteObsolete
    \/ CheckPreconditionGeneration \/ CheckPreconditionFinished \/ ReportSuccess

-------------------------------------------------------------------------------
(* Queue, crash, user, cluster *)

(***************************************************************************)
(* The delay is over.  Without LongLag the caches are up to date by the end *)
(* of the interval of three seconds; a back-off promises nothing.           *)
(***************************************************************************)
TimerFires ==
    /\ timer # "none"
    /\ timer = "interval" => LongLag \/ CachesSynced
    /\ timer' = "none" /\ queued' = TRUE
    /\ UNCHANGED <<sts, pod, checkpoint, stsSeen, cmSeen, status, pass, crashes, faults>>
    /\ UNCHANGED userVars

\* A restarted operator, or a new leader: caches filled afresh, everything queued.
Crash ==
    /\ crashes < MaxCrashes
    /\ crashes' = crashes + 1
    /\ pass' = IdlePass /\ timer' = "none" /\ queued' = TRUE
    /\ stsSeen' = sts /\ cmSeen' = checkpoint
    /\ UNCHANGED <<sts, pod, checkpoint, status, faults>> /\ UNCHANGED userVars

\* The operator has nothing to do and every StatefulSet has rolled out.
Settled ==
    /\ At("idle") /\ ~ queued /\ timer = "none" /\ CachesSynced
    /\ checkpoint = NoCheckpoint
    /\ \A n \in Nodes : sts[n] # NoSts =>
          /\ StatusOf(sts[n], pod[n]) = sts[n]
          /\ pod[n] = [template |-> sts[n].template, ready |-> TRUE]

\* The webhook rejects a changed serviceName unless a recreate is allowed.
ValidateUpdate(old, new) ==
    \/ new.allowRecreate
    \/ \A n \in DOMAIN old.nodes \cap DOMAIN new.nodes : old.nodes[n].svc = new.nodes[n].svc

EditTeamCity ==
    /\ edits < MaxEdits /\ tc # NoTC /\ ~ deleting
    /\ EditsDuringUpgrade \/ Settled
    /\ \E spec \in EditsFrom[tc] : ValidateUpdate(tc, spec) /\ tc' = spec
    /\ edits' = edits + 1 /\ queued' = TRUE
    /\ UNCHANGED <<sts, pod, checkpoint, stsSeen, cmSeen, deleting, status, pass,
                   timer, crashes, faults>>

DeleteTeamCity ==
    /\ edits < MaxEdits /\ tc # NoTC /\ ~ deleting
    /\ EditsDuringUpgrade \/ Settled
    /\ edits' = edits + 1 /\ queued' = TRUE
    /\ IF HasFinalizer THEN deleting' = TRUE /\ UNCHANGED <<tc, status>>
       ELSE tc' = NoTC /\ status' = "None" /\ UNCHANGED deleting
    /\ UNCHANGED <<sts, pod, checkpoint, stsSeen, cmSeen, pass, timer, crashes, faults>>

\* A new object under the old name, once nothing of the old one is left but,
\* possibly, its checkpoint.
RecreateTeamCity ==
    /\ edits < MaxEdits /\ tc = NoTC
    /\ At("idle") /\ CachesSynced /\ sts = [n \in Nodes |-> NoSts]
    /\ tc' \in Specs
    /\ edits' = edits + 1 /\ queued' = TRUE
    /\ UNCHANGED <<sts, pod, checkpoint, stsSeen, cmSeen, deleting, status, pass,
                   timer, crashes, faults>>

ReconcilerUnchanged ==
    UNCHANGED <<tc, deleting, status, pass, timer, edits, crashes, faults>>

ClusterNodeStep(n) == NodeStep(n) /\ ReconcilerUnchanged

StatusStep(n) ==
    /\ StatusBetweenReads \/ ~ At("generation")
    /\ UpdateStatus(n) /\ ReconcilerUnchanged

GarbageStep(n) == tc = NoTC /\ CollectGarbage(n) /\ ReconcilerUnchanged

CheckpointCacheStep == SyncCheckpoint /\ ReconcilerUnchanged

UserStep == EditTeamCity \/ DeleteTeamCity \/ RecreateTeamCity

ClusterStep ==
    \/ CheckpointCacheStep
    \/ \E n \in Nodes : ClusterNodeStep(n) \/ StatusStep(n) \/ GarbageStep(n)

Next == OperatorStep \/ TimerFires \/ ApiError \/ UpdateDeleted \/ ClusterStep \/ UserStep \/ Crash

(***************************************************************************)
(* The worker, the informers and the controllers of Kubernetes keep going;  *)
(* nobody owes an edit, a fault or a crash.                                 *)
(***************************************************************************)
Fairness ==
    /\ WF_vars(OperatorStep) /\ WF_vars(TimerFires)
    /\ WF_vars(CheckpointCacheStep)
    /\ \A n \in Nodes : /\ WF_vars(ClusterNodeStep(n))
                        /\ WF_vars(StatusStep(n)) /\ WF_vars(GarbageStep(n))

Spec == Init /\ [][Next]_vars
FairSpec == Spec /\ Fairness
===============================================================================
