---------------------------- MODULE ReconcilerProofs ---------------------------
(***************************************************************************)
(* Type correctness of the reconciler, for every set of nodes, images and   *)
(* specs, and every bound.                                                   *)
(***************************************************************************)
EXTENDS ReconcilerProperties, TLAPS

-------------------------------------------------------------------------------
(* Specs and StatefulSets *)

\* What the code may rely on in any spec the API server accepts.
LEMMA SpecType ==
    ASSUME NEW spec \in Specs
    PROVE  /\ Main \in DOMAIN spec.nodes
           /\ DOMAIN spec.nodes \subseteq Nodes \ {Replica}
           /\ SecondaryNodes(spec) \subseteq Secondaries
           /\ \A n \in DOMAIN spec.nodes : spec.nodes[n] \in NodeConfig
           /\ spec.allowRecreate \in BOOLEAN /\ spec.zeroDowntime \in BOOLEAN
           /\ spec # NoTC
  <1>1. spec \in TCSpec
    BY SpecsAssumption
  <1>2. PICK S \in SUBSET Secondaries : spec.nodes \in [{Main} \cup S -> NodeConfig]
    BY <1>1 DEF TCSpec
  <1>3. DOMAIN spec.nodes = {Main} \cup S
    BY <1>2
  <1> QED
    BY <1>1, <1>2, <1>3, NodesAssumption, NoTCAssumption DEF TCSpec, SecondaryNodes, Nodes

\* A StatefulSet made from a node of the spec.
LEMMA FreshType ==
    ASSUME NEW config, config.template \in Template, config.svc \in Service
    PROVE  FreshStatefulSet(config) \in StatefulSet
  BY DEF FreshStatefulSet, StatefulSet

\* A StatefulSet whose template is overwritten.
LEMMA ConfiguredType ==
    ASSUME NEW s \in StatefulSet, NEW template \in Template
    PROVE  ConfigureStatefulSet(s, template) \in StatefulSet
  BY DEF ConfigureStatefulSet, StatefulSet

\* A StatefulSet whose status is computed again.
LEMMA StatusType ==
    ASSUME NEW s \in StatefulSet, NEW p \in Pod \cup {NoPod}
    PROVE  StatusOf(s, p) \in StatefulSet
  BY AbsenceAssumption DEF StatusOf, StatefulSet, Pod

\* A write of StatefulSets keeps both copies of them well typed.
LEMMA WriteStatefulSetsType ==
    ASSUME stsSeen \in [Nodes -> StatefulSet \cup {NoSts}],
           NEW new \in [Nodes -> StatefulSet \cup {NoSts}],
           WriteStatefulSets(new)
    PROVE  /\ sts' \in [Nodes -> StatefulSet \cup {NoSts}]
           /\ stsSeen' \in [Nodes -> StatefulSet \cup {NoSts}]
  BY DEF WriteStatefulSets

\* A write of the checkpoint keeps both copies of it well typed.
LEMMA WriteCheckpointType ==
    ASSUME cmSeen \in MaybeStage, NEW new \in MaybeStage, WriteCheckpoint(new)
    PROVE  checkpoint' \in MaybeStage /\ cmSeen' \in MaybeStage
  BY DEF WriteCheckpoint

\* So does the whole of DoCheckpointWithDesiredStage, and of checkpoint.Delete.
LEMMA DoCheckpointType ==
    ASSUME TypeOK, NEW desired \in Stage, NEW ok, DoCheckpoint(desired, ok)
    PROVE  /\ checkpoint' \in MaybeStage /\ cmSeen' \in MaybeStage
           /\ faults' \in 0 .. MaxFaults
  BY WriteCheckpointType, BoundsAssumption
  DEF TypeOK, ClusterTypeOK, DoCheckpoint, Fault, MaybeStage

\* checkpoint.Delete keeps the checkpoint well typed.
LEMMA DeleteCheckpointType ==
    ASSUME TypeOK, NEW ok, DeleteCheckpoint(ok)
    PROVE  checkpoint' \in MaybeStage /\ cmSeen' \in MaybeStage
  BY WriteCheckpointType DEF TypeOK, ClusterTypeOK, DeleteCheckpoint, MaybeStage

-------------------------------------------------------------------------------
(* Passes *)

\* The end of a pass, and what its way on may change.
LEMMA IdlePassType == IdlePass \in Pass /\ IdlePass.pc = "idle"
  BY DEF IdlePass, Pass, PC, Nodes, MaybeStage

\* Each of the three ends of a pass leaves the worker idle and the timer set or not.
LEMMA EndType ==
    ASSUME TypeOK, Done \/ RequeueAfter \/ Retry
    PROVE  /\ pass' \in Pass /\ PassTypeOK'
           /\ timer' \in {"none", "interval", "backoff"}
  BY IdlePassType DEF TypeOK, Done, RequeueAfter, Retry, PassTypeOK, At

\* A pass that is not idle works on a spec.
LEMMA InstType ==
    ASSUME TypeOK, ~ At("idle")
    PROVE  pass.inst \in Specs
  BY DEF TypeOK, PassTypeOK, Pass, At

-------------------------------------------------------------------------------
(* Start, deletion, detection of an upgrade *)

\* The operator starts well typed.
LEMMA InitTypeOK == Init => TypeOK
  <1> SUFFICES ASSUME Init PROVE TypeOK
    OBVIOUS
  <1>1. ClusterTypeOK
    BY DEF Init, ClusterInit, ClusterTypeOK, MaybeStage
  <1>2. pass \in Pass /\ PassTypeOK
    BY IdlePassType DEF Init, PassTypeOK, At
  <1>3. tc \in Specs
    BY SpecsAssumption DEF Init
  <1>4. edits \in 0 .. MaxEdits /\ crashes \in 0 .. MaxCrashes /\ faults \in 0 .. MaxFaults
    BY BoundsAssumption DEF Init
  <1> QED
    BY <1>1, <1>2, <1>3, <1>4 DEF Init, TypeOK, Status

\* A step that changes nothing keeps every type.
LEMMA StutterTypeOK == TypeOK /\ UNCHANGED vars => TypeOK'
  BY DEF TypeOK, ClusterTypeOK, PassTypeOK, At, vars, Pass

\* Taking the object off the queue (Reconcile, getTeamCityObjectE) keeps every type.
LEMMA StartPassTypeOK == TypeOK /\ StartPass => TypeOK'
  <1> SUFFICES ASSUME TypeOK, StartPass PROVE TypeOK'
    OBVIOUS
  <1>1. pass' \in Pass /\ PassTypeOK'
    <2>1. CASE pass' = IdlePass
      BY <2>1, IdlePassType DEF PassTypeOK, At
    <2>2. CASE tc # NoTC /\ \E pc \in {"finalize", "ongoing"} :
                  pass' = [IdlePass EXCEPT !.inst = tc, !.pc = pc]
      BY <2>2, IdlePassType DEF TypeOK, PassTypeOK, At, Pass, PC
    <2> QED
      BY <2>1, <2>2 DEF StartPass
  <1> QED
    BY <1>1 DEF TypeOK, ClusterTypeOK, StartPass, userVars

\* finalizeTeamCity keeps every type.
LEMMA FinalizeTeamCityTypeOK == TypeOK /\ FinalizeTeamCity => TypeOK'
  <1> SUFFICES ASSUME TypeOK, FinalizeTeamCity PROVE TypeOK'
    OBVIOUS
  <1>1. checkpoint' \in MaybeStage /\ cmSeen' \in MaybeStage
    BY DeleteCheckpointType DEF FinalizeTeamCity, TypeOK, ClusterTypeOK
  <1>2. faults' \in 0 .. MaxFaults
    BY BoundsAssumption DEF FinalizeTeamCity, ReadOngoing, Fault, TypeOK
  <1>3. Goto("removeFinalizer") \/ Retry
    BY DEF FinalizeTeamCity
  <1>4. /\ pass' \in Pass /\ PassTypeOK' /\ timer' \in {"none", "interval", "backoff"}
        /\ queued' \in BOOLEAN
    <2>1. CASE Retry
      BY <2>1, EndType DEF TypeOK, ClusterTypeOK, Retry
    <2>2. CASE Goto("removeFinalizer")
      BY <2>2 DEF TypeOK, ClusterTypeOK, PassTypeOK, At, Goto, Continue, Pass, PC, FinalizeTeamCity
    <2> QED
      BY <1>3, <2>1, <2>2
  <1> QED
    BY <1>1, <1>2, <1>4 DEF FinalizeTeamCity, TypeOK, ClusterTypeOK, userVars

\* The update that removes the finalizer keeps every type.
LEMMA RemoveFinalizerTypeOK == TypeOK /\ RemoveFinalizer => TypeOK'
  BY EndType DEF RemoveFinalizer, TypeOK, ClusterTypeOK, Status

\* ongoingZeroDowntimeUpgrade at the start of a pass keeps every type.
LEMMA DetectUpgradeTypeOK == TypeOK /\ DetectUpgrade => TypeOK'
  <1> SUFFICES ASSUME TypeOK, DetectUpgrade PROVE TypeOK'
    OBVIOUS
  <1>1. faults' \in 0 .. MaxFaults
    BY BoundsAssumption DEF DetectUpgrade, ReadOngoing, Fault, TypeOK
  <1>2. PICK ongoing \in BOOLEAN, pc \in {"upgrade", "main"} :
           Continue([pass EXCEPT !.mark = ongoing, !.pc = pc])
    BY DEF DetectUpgrade
  <1>3. /\ pass' \in Pass /\ PassTypeOK' /\ UNCHANGED <<queued, timer>>
    BY <1>2 DEF Continue, TypeOK, PassTypeOK, At, Pass, PC, DetectUpgrade
  <1> QED
    BY <1>1, <1>3 DEF DetectUpgrade, TypeOK, ClusterTypeOK, userVars

\* performZeroDowntimeUpgradeOrRequeue picks a stage that exists.
LEMMA PerformZeroDowntimeUpgradeTypeOK == TypeOK /\ PerformZeroDowntimeUpgrade => TypeOK'
  <1> SUFFICES ASSUME TypeOK, PerformZeroDowntimeUpgrade PROVE TypeOK'
    OBVIOUS
  <1>1. faults' \in 0 .. MaxFaults
    BY BoundsAssumption DEF PerformZeroDowntimeUpgrade, Fault, TypeOK
  <1>2. CASE Continue([pass EXCEPT !.pc = "main", !.mark = FALSE])
    BY <1>1, <1>2 DEF PerformZeroDowntimeUpgrade, Continue, TypeOK, ClusterTypeOK, PassTypeOK,
        At, Pass, PC, userVars
  <1>3. CASE \E stage \in Stage :
                Continue([pass EXCEPT !.pc = "stage", !.mark = FALSE, !.stage = stage])
    BY <1>1, <1>3 DEF PerformZeroDowntimeUpgrade, Continue, TypeOK, ClusterTypeOK, PassTypeOK,
        At, Pass, PC, MaybeStage, userVars
  <1>4. InitialStage(IsMultiNode(pass.inst)) \in Stage
    BY DEF InitialStage, Stage, UpdateInitiated, UpdateFinished, ReplicaReady
  <1> QED
    BY <1>2, <1>3, <1>4 DEF PerformZeroDowntimeUpgrade, TypeOK, ClusterTypeOK, MaybeStage
-------------------------------------------------------------------------------
(* The stages of the upgrade *)

\* A checkpoint at the end of a handler ends the pass well typed.
LEMMA CheckpointAndRequeueType ==
    ASSUME TypeOK, NEW desired \in Stage, CheckpointAndRequeue(desired)
    PROVE  /\ checkpoint' \in MaybeStage /\ cmSeen' \in MaybeStage
           /\ faults' \in 0 .. MaxFaults /\ UNCHANGED queued
           /\ pass' \in Pass /\ PassTypeOK' /\ timer' \in {"none", "interval", "backoff"}
  <1>1. PICK ok \in BOOLEAN : DoCheckpoint(desired, ok) /\ (RequeueAfter \/ Retry)
    BY DEF CheckpointAndRequeue
  <1> QED
    BY <1>1, EndType, DoCheckpointType DEF CheckpointAndRequeue

\* A handler that leaves StatefulSets and objects alone.
LEMMA StageStepTypeOK ==
    ASSUME TypeOK,
           (\E desired \in Stage : CheckpointAndRequeue(desired))
               \/ WaitForNextPass \/ (Retry /\ UNCHANGED <<checkpoint, cmSeen, faults>>),
           UNCHANGED <<sts, pod, stsSeen, status, crashes>>, UNCHANGED userVars
    PROVE  TypeOK'
  <1>1. CASE \E desired \in Stage : CheckpointAndRequeue(desired)
    BY <1>1, CheckpointAndRequeueType DEF TypeOK, ClusterTypeOK, userVars
  <1>2. CASE WaitForNextPass
    BY <1>2, EndType DEF TypeOK, ClusterTypeOK, userVars, WaitForNextPass
  <1>3. CASE Retry /\ UNCHANGED <<checkpoint, cmSeen, faults>>
    BY <1>3, EndType DEF TypeOK, ClusterTypeOK, userVars, Retry
  <1> QED
    BY <1>1, <1>2, <1>3

\* The named stages are stages, and the two that AdvanceCheckpoint leaves precede these.
LEMMA StageNumbers ==
    /\ {UpdateInitiated, ReplicaCreated, ReplicaStarting, ReplicaReady,
        MainShuttingDown, MainReady, UpdateFinished} \subseteq Stage
    /\ ReplicaCreated + 1 = ReplicaStarting /\ MainReady + 1 = UpdateFinished
    /\ Stage \subseteq MaybeStage
  BY DEF Stage, MaybeStage, UpdateInitiated, ReplicaCreated, ReplicaStarting, ReplicaReady,
     MainShuttingDown, MainReady, UpdateFinished

\* HandleUpdateInitiated keeps every type.
LEMMA HandleUpdateInitiatedTypeOK == TypeOK /\ HandleUpdateInitiated => TypeOK'
  BY StageStepTypeOK, StageNumbers DEF HandleUpdateInitiated

\* The checkpoint after the replica was made or deleted keeps every type.
LEMMA AdvanceCheckpointTypeOK == TypeOK /\ AdvanceCheckpoint => TypeOK'
  <1> SUFFICES ASSUME TypeOK, AdvanceCheckpoint PROVE TypeOK'
    OBVIOUS
  <1>1. pass.stage + 1 \in Stage
    BY StageNumbers DEF TypeOK, PassTypeOK, AdvanceCheckpoint
  <1> QED
    BY <1>1, StageStepTypeOK DEF AdvanceCheckpoint

\* HandleReplicaStarting keeps every type.
LEMMA HandleReplicaStartingTypeOK == TypeOK /\ HandleReplicaStarting => TypeOK'
  BY StageStepTypeOK, StageNumbers DEF HandleReplicaStarting

\* The second read of HandleMainShuttingDown keeps every type.
LEMMA CheckMainGenerationTypeOK == TypeOK /\ CheckMainGeneration => TypeOK'
  BY StageStepTypeOK, StageNumbers DEF CheckMainGeneration

\* The replica's template takes its environment from the spec of the pass.
LEMMA ReplicaTemplateType ==
    ASSUME TypeOK, ~ At("idle"), NEW main \in StatefulSet
    PROVE  ReplicaTemplate(main) \in Template
  <1>1. pass.inst \in Specs
    BY DEF TypeOK, PassTypeOK, Pass
  <1>2. main.template \in Template /\ pass.inst.nodes[Main].template \in Template
    BY <1>1, SpecType DEF StatefulSet, NodeConfig
  <1> QED
    BY <1>2 DEF ReplicaTemplate, Template

\* HandleReplicaCreated makes a well-typed replica.
LEMMA HandleReplicaCreatedTypeOK == TypeOK /\ HandleReplicaCreated => TypeOK'
  <1> SUFFICES ASSUME TypeOK, HandleReplicaCreated PROVE TypeOK'
    OBVIOUS
  <1>1. faults' \in 0 .. MaxFaults
    BY BoundsAssumption DEF HandleReplicaCreated, Fault, TypeOK
  <1>2. CASE Retry /\ UNCHANGED <<sts, stsSeen, faults>>
    BY <1>2, EndType DEF TypeOK, ClusterTypeOK, HandleReplicaCreated, userVars, Retry
  <1>3. CASE stsSeen[Main] # NoSts
    <2>1. pass' \in Pass /\ PassTypeOK' /\ UNCHANGED timer
      BY <1>3 DEF HandleReplicaCreated, TypeOK, PassTypeOK, At, AtStage, Pass, PC
    <2> DEFINE main == stsSeen[Main]
               replica == IF stsSeen[Replica] # sts[Replica] THEN sts[Replica]
                          ELSE IF stsSeen[Replica] = NoSts
                          THEN FreshStatefulSet([template |-> ReplicaTemplate(main), svc |-> NoService])
                          ELSE ConfigureStatefulSet(sts[Replica], ReplicaTemplate(main))
               new == [sts EXCEPT ![Replica] = replica]
    <2>2. main \in StatefulSet /\ ReplicaTemplate(main) \in Template
      <3>1. main \in StatefulSet /\ ~ At("idle")
        BY <1>3 DEF TypeOK, ClusterTypeOK, Nodes, HandleReplicaCreated, AtStage, At
      <3> QED
        BY <3>1, ReplicaTemplateType
    <2>3. replica \in StatefulSet \cup {NoSts}
      <3>1. FreshStatefulSet([template |-> ReplicaTemplate(main), svc |-> NoService]) \in StatefulSet
        BY <2>2, FreshType DEF Service
      <3>2. stsSeen[Replica] = sts[Replica] /\ stsSeen[Replica] # NoSts =>
                ConfigureStatefulSet(sts[Replica], ReplicaTemplate(main)) \in StatefulSet
        BY <2>2, ConfiguredType DEF TypeOK, ClusterTypeOK, Nodes
      <3>3. sts[Replica] \in StatefulSet \cup {NoSts}
        BY DEF TypeOK, ClusterTypeOK, Nodes
      <3> QED
        BY <3>1, <3>2, <3>3
    <2>4. new \in [Nodes -> StatefulSet \cup {NoSts}]
      BY <2>3 DEF TypeOK, ClusterTypeOK
    <2>5. \/ WriteStatefulSets(new) /\ queued' = (queued \/ EventsOf(new))
          \/ UNCHANGED <<sts, stsSeen, queued>>
      BY <1>3 DEF HandleReplicaCreated
    <2>6. /\ sts' \in [Nodes -> StatefulSet \cup {NoSts}]
          /\ stsSeen' \in [Nodes -> StatefulSet \cup {NoSts}]
          /\ queued' \in BOOLEAN
      BY <2>4, <2>5, WriteStatefulSetsType DEF TypeOK, ClusterTypeOK
    <2> QED
      BY <1>1, <2>1, <2>6 DEF HandleReplicaCreated, TypeOK, ClusterTypeOK, userVars
  <1> QED
    BY <1>2, <1>3 DEF HandleReplicaCreated

\* A step of the pass that leaves queue and timer alone.
LEMMA GotoType ==
    ASSUME TypeOK, ~ At("idle"),
           NEW pc \in PC \ {"stage", "advance", "secondaries", "recreating"}, Goto(pc)
    PROVE  pass' \in Pass /\ PassTypeOK' /\ UNCHANGED <<queued, timer>>
  BY DEF TypeOK, PassTypeOK, At, Goto, Continue, Pass

\* HandleReplicaReady keeps every type.
LEMMA HandleReplicaReadyTypeOK == TypeOK /\ HandleReplicaReady => TypeOK'
  <1> SUFFICES ASSUME TypeOK, HandleReplicaReady PROVE TypeOK'
    OBVIOUS
  <1>1. PICK ok \in BOOLEAN : DoCheckpoint(MainShuttingDown, ok) /\ (Goto("main") \/ Retry)
    BY DEF HandleReplicaReady
  <1>2. /\ checkpoint' \in MaybeStage /\ cmSeen' \in MaybeStage
        /\ faults' \in 0 .. MaxFaults
    BY <1>1, DoCheckpointType, StageNumbers
  <1>3. /\ pass' \in Pass /\ PassTypeOK' /\ timer' \in {"none", "interval", "backoff"}
        /\ queued' = queued
    BY <1>1, EndType, GotoType DEF HandleReplicaReady, AtStage, At, PC, TypeOK, Retry
  <1> QED
    BY <1>2, <1>3 DEF HandleReplicaReady, TypeOK, ClusterTypeOK, userVars

\* HandleUpdateFinished keeps every type.
LEMMA HandleUpdateFinishedTypeOK == TypeOK /\ HandleUpdateFinished => TypeOK'
  <1> SUFFICES ASSUME TypeOK, HandleUpdateFinished PROVE TypeOK'
    OBVIOUS
  <1>1. PICK ok \in BOOLEAN : DeleteCheckpoint(ok) /\ (Goto("main") \/ Retry)
    BY DEF HandleUpdateFinished
  <1>2. checkpoint' \in MaybeStage /\ cmSeen' \in MaybeStage
    BY <1>1, DeleteCheckpointType
  <1>3. /\ pass' \in Pass /\ PassTypeOK' /\ timer' \in {"none", "interval", "backoff"}
        /\ queued' = queued
    BY <1>1, EndType, GotoType DEF HandleUpdateFinished, AtStage, At, PC, TypeOK, Retry
  <1> QED
    BY <1>2, <1>3 DEF HandleUpdateFinished, TypeOK, ClusterTypeOK, userVars

\* The first read of HandleMainShuttingDown keeps every type.
LEMMA HandleMainShuttingDownTypeOK == TypeOK /\ HandleMainShuttingDown => TypeOK'
  <1> SUFFICES ASSUME TypeOK, HandleMainShuttingDown PROVE TypeOK'
    OBVIOUS
  <1>1. CASE Retry
    BY <1>1, EndType DEF HandleMainShuttingDown, Retry, TypeOK, ClusterTypeOK, userVars
  <1>2. CASE \E mark \in BOOLEAN :
                Continue([pass EXCEPT !.pc = "generation", !.mark = mark])
    BY <1>2 DEF HandleMainShuttingDown, AtStage, Continue, TypeOK, ClusterTypeOK, PassTypeOK, At,
       Pass, PC, userVars
  <1>3. IsNodeUpdateFinished(stsSeen[Main]) \in BOOLEAN
    BY DEF IsNodeUpdateFinished
  <1> QED
    BY <1>1, <1>2, <1>3 DEF HandleMainShuttingDown

\* HandleMainReady keeps every type.
LEMMA HandleMainReadyTypeOK == TypeOK /\ HandleMainReady => TypeOK'
  <1> SUFFICES ASSUME TypeOK, HandleMainReady PROVE TypeOK'
    OBVIOUS
  <1>1. faults' \in 0 .. MaxFaults
    BY BoundsAssumption DEF HandleMainReady, Fault, TypeOK
  <1>2. pass' \in Pass /\ PassTypeOK' /\ timer' = timer
    BY StageNumbers DEF HandleMainReady, AtStage, Goto, Continue, TypeOK, PassTypeOK, At, Pass, PC
  <1> DEFINE new == [sts EXCEPT ![Replica] = NoSts]
  <1>3. new \in [Nodes -> StatefulSet \cup {NoSts}]
    BY DEF TypeOK, ClusterTypeOK
  <1>4. \/ /\ WriteStatefulSets(new) /\ pod' = [pod EXCEPT ![Replica] = NoPod]
           /\ queued' = (queued \/ EventsOf(new))
        \/ UNCHANGED <<sts, pod, stsSeen, queued>>
    BY DEF HandleMainReady, Goto, Continue
  <1>5. /\ sts' \in [Nodes -> StatefulSet \cup {NoSts}]
        /\ stsSeen' \in [Nodes -> StatefulSet \cup {NoSts}]
        /\ pod' \in [Nodes -> Pod \cup {NoPod}] /\ queued' \in BOOLEAN
    BY <1>3, <1>4, WriteStatefulSetsType DEF TypeOK, ClusterTypeOK
  <1> QED
    BY <1>1, <1>2, <1>5 DEF HandleMainReady, TypeOK, ClusterTypeOK, userVars

-------------------------------------------------------------------------------
(* The StatefulSet builders *)

\* Where a pass goes after a node of the spec.
LEMMA AfterNodeType ==
    ASSUME TypeOK, ~ At("idle"), NEW n \in DOMAIN pass.inst.nodes,
           n # Main => pass.todo \subseteq SecondaryNodes(pass.inst),
           pass' = AfterNode(n)
    PROVE  pass' \in Pass /\ PassTypeOK'
  <1>1. pass.inst \in Specs /\ pass.inst # NoTC
    BY InstType, SpecType
  <1>2. CASE n = Main
    BY <1>1, <1>2 DEF AfterNode, TypeOK, PassTypeOK, At, Pass, PC
  <1>3. CASE n # Main
    <2>1. pass.todo \ {n} \subseteq SecondaryNodes(pass.inst) /\ Main \in Nodes
      BY <1>3 DEF Nodes
    <2> DEFINE left == pass.todo \ {n}
               next(pc) == [pass EXCEPT !.todo = left, !.mark = FALSE, !.node = Main, !.pc = pc]
    <2>2. pass' = next("report") \/ pass' = next("secondaries")
      BY <1>3 DEF AfterNode
    <2>3. left \subseteq Secondaries
      BY DEF TypeOK, Pass
    <2> QED
      BY <1>1, <2>1, <2>2, <2>3 DEF TypeOK, PassTypeOK, At, Pass, PC
  <1> QED
    BY <1>2, <1>3

\* CreateOrUpdate of a node of the spec writes a well-typed StatefulSet and goes on.
LEMMA CreateOrUpdateType ==
    ASSUME TypeOK, ~ At("idle"), NEW n \in DOMAIN pass.inst.nodes,
           n # Main => pass.todo \subseteq SecondaryNodes(pass.inst),
           CreateOrUpdate(n)
    PROVE  /\ pass' \in Pass /\ PassTypeOK' /\ timer' \in {"none", "interval", "backoff"}
           /\ sts' \in [Nodes -> StatefulSet \cup {NoSts}]
           /\ stsSeen' \in [Nodes -> StatefulSet \cup {NoSts}]
           /\ queued' \in BOOLEAN
  <1>1. CASE Retry /\ UNCHANGED <<sts, stsSeen>>
    BY <1>1, EndType DEF Retry, TypeOK, ClusterTypeOK
  <1> DEFINE config == pass.inst.nodes[n]
             made == IF sts[n] = NoSts THEN FreshStatefulSet(config)
                     ELSE ConfigureStatefulSet(sts[n], config.template)
             new == [sts EXCEPT ![n] = made]
  <1>2. CASE /\ WriteStatefulSets(new) /\ queued' = (queued \/ EventsOf(new))
             /\ pass' = AfterNode(n) /\ UNCHANGED timer
    <2>1. /\ config \in NodeConfig /\ n \in Nodes
      BY InstType, SpecType
    <2>2. config.template \in Template /\ config.svc \in Service
      BY <2>1 DEF NodeConfig
    <2>3. made \in StatefulSet
      BY <2>1, <2>2, FreshType, ConfiguredType DEF TypeOK, ClusterTypeOK
    <2>4. new \in [Nodes -> StatefulSet \cup {NoSts}]
      BY <2>3 DEF TypeOK, ClusterTypeOK
    <2> QED
      BY <1>2, <2>4, AfterNodeType, WriteStatefulSetsType DEF TypeOK, ClusterTypeOK
  <1> QED
    BY <1>1, <1>2 DEF CreateOrUpdate

\* A report of the status keeps its type, also one that fails.
LEMMA StatusReportType ==
    ASSUME TypeOK, reportRecreateBlocked \/ reportRecreateInProgress
    PROVE  status' \in Status /\ queued' \in BOOLEAN /\ faults' \in 0 .. MaxFaults
  <1>1. status' \in {status, "Error", "Updating"} /\ queued' \in BOOLEAN
    BY DEF reportRecreateBlocked, reportRecreateInProgress, WriteStatus, StatusFault, Fault,
           TypeOK, ClusterTypeOK
  <1>2. faults' \in 0 .. MaxFaults
    BY BoundsAssumption
    DEF reportRecreateBlocked, reportRecreateInProgress, StatusFault, Fault, TypeOK
  <1> QED
    BY <1>1, <1>2 DEF TypeOK, Status

\* So does the check for a recreate that precedes it (reconcileStatefulSetBeforeCreateOrUpdate).
LEMMA ApplyStatefulSetType ==
    ASSUME TypeOK, ~ At("idle"), NEW n \in DOMAIN pass.inst.nodes,
           n # Main => pass.todo \subseteq SecondaryNodes(pass.inst),
           ApplyStatefulSet(n)
    PROVE  /\ pass' \in Pass /\ PassTypeOK' /\ timer' \in {"none", "interval", "backoff"}
           /\ sts' \in [Nodes -> StatefulSet \cup {NoSts}]
           /\ stsSeen' \in [Nodes -> StatefulSet \cup {NoSts}]
           /\ queued' \in BOOLEAN /\ status' \in Status /\ faults' \in 0 .. MaxFaults
  <1>1. CASE CreateOrUpdate(n) /\ UNCHANGED <<status, faults>>
    BY <1>1, CreateOrUpdateType DEF TypeOK
  <1>2. CASE reportRecreateBlocked /\ Done /\ UNCHANGED <<sts, stsSeen>>
    BY <1>2, EndType, StatusReportType DEF TypeOK, ClusterTypeOK
  <1> DEFINE marked == IF sts[n] = NoSts THEN NoSts ELSE MarkForDeletion(sts[n])
             new == [sts EXCEPT ![n] = marked]
  <1>3. CASE /\ reportRecreateInProgress
             /\ WriteStatefulSets(new) /\ UNCHANGED timer
             /\ pass' = [pass EXCEPT !.pc = "recreating", !.node = n, !.mark = (sts[n] = NoSts)]
    <2>1. n \in Nodes /\ pass.inst # NoTC
      BY InstType, SpecType
    <2>2. marked \in StatefulSet \cup {NoSts}
      BY <2>1 DEF TypeOK, ClusterTypeOK, MarkForDeletion, StatefulSet
    <2>3. new \in [Nodes -> StatefulSet \cup {NoSts}]
      BY <2>2 DEF TypeOK, ClusterTypeOK
    <2>4. pass' \in Pass /\ PassTypeOK'
      BY <1>3, <2>1 DEF TypeOK, PassTypeOK, At, Pass, PC
    <2> QED
      BY <1>3, <2>3, <2>4, WriteStatefulSetsType, StatusReportType DEF TypeOK, ClusterTypeOK
  <1> QED
    BY <1>1, <1>2, <1>3 DEF ApplyStatefulSet

\* The main node's builder keeps every type.
LEMMA ApplyMainTypeOK == TypeOK /\ ApplyMain => TypeOK'
  <1> SUFFICES ASSUME TypeOK, ApplyMain PROVE TypeOK'
    OBVIOUS
  <1>1. ~ At("idle") /\ Main \in DOMAIN pass.inst.nodes
    BY InstType, SpecType DEF ApplyMain, At
  <1> QED
    BY <1>1, ApplyStatefulSetType DEF ApplyMain, TypeOK, ClusterTypeOK, userVars

\* The secondaries' builder keeps every type.
LEMMA ApplySecondaryTypeOK == TypeOK /\ ApplySecondary => TypeOK'
  <1> SUFFICES ASSUME TypeOK, ApplySecondary PROVE TypeOK'
    OBVIOUS
  <1>1. PICK n \in pass.todo : ApplyStatefulSet(n)
    BY DEF ApplySecondary
  <1>2. /\ ~ At("idle") /\ n \in DOMAIN pass.inst.nodes
        /\ pass.todo \subseteq SecondaryNodes(pass.inst)
    BY DEF ApplySecondary, At, TypeOK, PassTypeOK, SecondaryNodes
  <1> QED
    BY <1>1, <1>2, ApplyStatefulSetType DEF ApplySecondary, TypeOK, ClusterTypeOK, userVars

\* The step after the deletion of a StatefulSet keeps every type.
LEMMA FinishRecreateTypeOK == TypeOK /\ FinishRecreate => TypeOK'
  <1> SUFFICES ASSUME TypeOK, FinishRecreate PROVE TypeOK'
    OBVIOUS
  <1>1. /\ ~ At("idle") /\ pass.node \in DOMAIN pass.inst.nodes
        /\ pass.node # Main => pass.todo \subseteq SecondaryNodes(pass.inst)
    BY DEF FinishRecreate, At, TypeOK, PassTypeOK
  <1>2. CASE CreateOrUpdate(pass.node)
    BY <1>1, <1>2, CreateOrUpdateType DEF FinishRecreate, TypeOK, ClusterTypeOK, userVars
  <1>3. CASE /\ UNCHANGED <<sts, stsSeen>>
             /\ \E pc \in {"listObsolete", "report"} :
                   Continue([pass EXCEPT !.node = Main, !.todo = {}, !.pc = pc])
    <2>1. pass' \in Pass /\ PassTypeOK' /\ UNCHANGED <<queued, timer>>
      BY <1>1, <1>3 DEF Continue, TypeOK, PassTypeOK, At, Pass, PC, Nodes
    <2> QED
      BY <1>3, <2>1 DEF FinishRecreate, TypeOK, ClusterTypeOK, userVars
  <1> QED
    BY <1>2, <1>3 DEF FinishRecreate

\* So does the update of a StatefulSet that is being deleted.
LEMMA UpdateDeletedTypeOK == TypeOK /\ UpdateDeleted => TypeOK'
  <1> SUFFICES ASSUME TypeOK, UpdateDeleted PROVE TypeOK'
    OBVIOUS
  <1>1. /\ ~ At("idle") /\ pass.node \in DOMAIN pass.inst.nodes
        /\ pass.node # Main => pass.todo \subseteq SecondaryNodes(pass.inst)
    BY DEF UpdateDeleted, At, TypeOK, PassTypeOK
  <1>2. faults' \in 0 .. MaxFaults
    BY BoundsAssumption DEF UpdateDeleted, Fault, TypeOK
  <1>3. CASE CreateOrUpdate(pass.node) /\ UNCHANGED status
    BY <1>1, <1>2, <1>3, CreateOrUpdateType DEF UpdateDeleted, TypeOK, ClusterTypeOK, userVars
  <1>4. CASE WriteStatus("Error") /\ Done /\ UNCHANGED <<sts, stsSeen>>
    BY <1>2, <1>4, EndType
    DEF UpdateDeleted, TypeOK, ClusterTypeOK, WriteStatus, Status, userVars
  <1> QED
    BY <1>3, <1>4 DEF UpdateDeleted

\* GetObsoleteObjects keeps every type.
LEMMA ListObsoleteTypeOK == TypeOK /\ ListObsolete => TypeOK'
  <1> SUFFICES ASSUME TypeOK, ListObsolete PROVE TypeOK'
    OBVIOUS
  <1>1. ObsoleteNodes \subseteq Secondaries
    BY DEF ObsoleteNodes
  <1>2. PICK pc \in {"deleteObsolete", "mainGeneration", "report"} :
           Continue([pass EXCEPT !.todo = ObsoleteNodes, !.pc = pc])
    BY DEF ListObsolete, AfterObsolete
  <1>3. pass' \in Pass /\ PassTypeOK' /\ UNCHANGED <<queued, timer>>
    BY <1>1, <1>2 DEF ListObsolete, Continue, TypeOK, PassTypeOK, At, Pass, PC
  <1> QED
    BY <1>3 DEF ListObsolete, TypeOK, ClusterTypeOK, userVars

\* The deletion of an obsolete secondary (reconcileDelete) keeps every type.
LEMMA DeleteObsoleteTypeOK == TypeOK /\ DeleteObsolete => TypeOK'
  <1> SUFFICES ASSUME TypeOK, DeleteObsolete PROVE TypeOK'
    OBVIOUS
  <1>1. CASE Retry /\ UNCHANGED <<sts, pod, stsSeen>>
    BY <1>1, EndType DEF DeleteObsolete, Retry, TypeOK, ClusterTypeOK, userVars
  <1>2. CASE \E n \in pass.todo, pc \in {"deleteObsolete", "mainGeneration", "report"} :
                LET new == [sts EXCEPT ![n] = NoSts]
                IN  /\ WriteStatefulSets(new) /\ pod' = [pod EXCEPT ![n] = NoPod]
                    /\ queued' = (queued \/ EventsOf(new))
                    /\ pass' = [pass EXCEPT !.todo = pass.todo \ {n}, !.pc = pc]
                    /\ UNCHANGED timer
    <2>1. PICK n \in pass.todo, pc \in {"deleteObsolete", "mainGeneration", "report"} :
             /\ WriteStatefulSets([sts EXCEPT ![n] = NoSts])
             /\ pod' = [pod EXCEPT ![n] = NoPod]
             /\ queued' = (queued \/ EventsOf([sts EXCEPT ![n] = NoSts]))
             /\ pass' = [pass EXCEPT !.todo = pass.todo \ {n}, !.pc = pc]
             /\ UNCHANGED timer
      BY <1>2
    <2>2. [sts EXCEPT ![n] = NoSts] \in [Nodes -> StatefulSet \cup {NoSts}]
      BY DEF TypeOK, ClusterTypeOK
    <2>3. /\ sts' \in [Nodes -> StatefulSet \cup {NoSts}]
          /\ stsSeen' \in [Nodes -> StatefulSet \cup {NoSts}]
      BY <2>1, <2>2, WriteStatefulSetsType DEF TypeOK, ClusterTypeOK
    <2>4. pod' \in [Nodes -> Pod \cup {NoPod}] /\ queued' \in BOOLEAN
      BY <2>1 DEF TypeOK, ClusterTypeOK
    <2>5. pass' \in Pass /\ PassTypeOK'
      BY <2>1 DEF DeleteObsolete, TypeOK, PassTypeOK, At, Pass, PC
    <2> QED
      BY <2>1, <2>3, <2>4, <2>5 DEF DeleteObsolete, TypeOK, ClusterTypeOK, userVars
  <1> QED
    BY <1>1, <1>2 DEF DeleteObsolete, AfterObsolete

\* The first read of validatePreconditions keeps every type.
LEMMA CheckPreconditionGenerationTypeOK == TypeOK /\ CheckPreconditionGeneration => TypeOK'
  <1> SUFFICES ASSUME TypeOK, CheckPreconditionGeneration PROVE TypeOK'
    OBVIOUS
  <1>1. PICK mark \in BOOLEAN : Continue([pass EXCEPT !.pc = "mainFinished", !.mark = mark])
    BY DEF CheckPreconditionGeneration, IsNewestGeneration
  <1>2. pass' \in Pass /\ PassTypeOK' /\ UNCHANGED <<queued, timer>>
    BY <1>1 DEF CheckPreconditionGeneration, Continue, TypeOK, PassTypeOK, At, Pass, PC
  <1> QED
    BY <1>2 DEF CheckPreconditionGeneration, TypeOK, ClusterTypeOK, userVars

\* The second read of validatePreconditions leaves only secondaries to do.
LEMMA CheckPreconditionFinishedTypeOK == TypeOK /\ CheckPreconditionFinished => TypeOK'
  <1> SUFFICES ASSUME TypeOK, CheckPreconditionFinished PROVE TypeOK'
    OBVIOUS
  <1>1. faults' \in 0 .. MaxFaults
    BY BoundsAssumption DEF CheckPreconditionFinished, ReadOngoing, Fault, TypeOK
  <1>2. CASE RequeueAfter /\ UNCHANGED queued
    BY <1>1, <1>2, EndType DEF CheckPreconditionFinished, TypeOK, ClusterTypeOK, userVars
  <1>3. CASE Continue([pass EXCEPT !.pc = "secondaries", !.mark = FALSE,
                         !.todo = SecondaryNodes(pass.inst)])
    <2>1. SecondaryNodes(pass.inst) \subseteq Secondaries /\ pass.inst # NoTC
      BY InstType, SpecType DEF CheckPreconditionFinished, At
    <2>2. pass' \in Pass /\ PassTypeOK' /\ UNCHANGED <<queued, timer>>
      BY <1>3, <2>1 DEF Continue, TypeOK, PassTypeOK, At, Pass, PC
    <2> QED
      BY <1>1, <2>2 DEF CheckPreconditionFinished, TypeOK, ClusterTypeOK, userVars
  <1> QED
    BY <1>2, <1>3 DEF CheckPreconditionFinished

\* The end of Reconcile keeps every type.
LEMMA ReportSuccessTypeOK == TypeOK /\ ReportSuccess => TypeOK'
  <1> SUFFICES ASSUME TypeOK, ReportSuccess PROVE TypeOK'
    OBVIOUS
  <1>1. faults' \in 0 .. MaxFaults
    BY BoundsAssumption DEF ReportSuccess, ReadOngoing, StatusFault, Fault, TypeOK
  <1>2. status' \in Status /\ queued' \in BOOLEAN
    BY DEF ReportSuccess, WriteStatus, StatusFault, Status, TypeOK, ClusterTypeOK
  <1>3. RequeueAfter \/ Done
    BY DEF ReportSuccess
  <1> QED
    BY <1>1, <1>2, <1>3, EndType DEF ReportSuccess, TypeOK, ClusterTypeOK, userVars

\* A pass that ends with an error keeps every type.
LEMMA ApiErrorTypeOK == TypeOK /\ ApiError => TypeOK'
  <1> SUFFICES ASSUME TypeOK, ApiError PROVE TypeOK'
    OBVIOUS
  <1>1. faults' \in 0 .. MaxFaults
    BY BoundsAssumption DEF ApiError, Fault, TypeOK
  <1> QED
    BY <1>1, EndType DEF ApiError, Retry, TypeOK, ClusterTypeOK, userVars

-------------------------------------------------------------------------------
(* Queue, crash, user, cluster *)

\* The return of the object to the queue keeps every type.
LEMMA TimerFiresTypeOK == TypeOK /\ TimerFires => TypeOK'
  BY DEF TimerFires, TypeOK, ClusterTypeOK, PassTypeOK, At, userVars

\* A restart of the operator keeps every type.
LEMMA CrashTypeOK == TypeOK /\ Crash => TypeOK'
  <1> SUFFICES ASSUME TypeOK, Crash PROVE TypeOK'
    OBVIOUS
  <1>1. crashes' \in 0 .. MaxCrashes
    BY BoundsAssumption DEF Crash, TypeOK
  <1>2. pass' \in Pass /\ PassTypeOK'
    BY IdlePassType DEF Crash, PassTypeOK, At
  <1> QED
    BY <1>1, <1>2 DEF Crash, TypeOK, ClusterTypeOK, userVars

\* What the user does keeps every type.
LEMMA UserStepTypeOK == TypeOK /\ UserStep => TypeOK'
  <1> SUFFICES ASSUME TypeOK, UserStep PROVE TypeOK'
    OBVIOUS
  <1>1. edits' \in 0 .. MaxEdits
    BY BoundsAssumption DEF UserStep, EditTeamCity, DeleteTeamCity, RecreateTeamCity, TypeOK
  <1>2. tc' \in Specs \cup {NoTC} /\ deleting' \in BOOLEAN
    <2>1. CASE EditTeamCity
      BY <2>1, SpecsAssumption DEF EditTeamCity, TypeOK
    <2>2. CASE DeleteTeamCity
      BY <2>2 DEF DeleteTeamCity, TypeOK
    <2>3. CASE RecreateTeamCity
      BY <2>3 DEF RecreateTeamCity, TypeOK
    <2> QED
      BY <2>1, <2>2, <2>3 DEF UserStep
  <1>3. /\ status' \in Status /\ queued' = TRUE
        /\ UNCHANGED <<sts, pod, checkpoint, stsSeen, cmSeen, pass, timer, crashes, faults>>
    BY DEF UserStep, EditTeamCity, DeleteTeamCity, RecreateTeamCity, TypeOK, Status
  <1> QED
    BY <1>1, <1>2, <1>3 DEF TypeOK, ClusterTypeOK, PassTypeOK, At

\* The steps of one node of the cluster write its StatefulSet, its pod, the cache.
LEMMA NodeTypeOK ==
    ASSUME TypeOK, NEW n \in Nodes,
           NodeStep(n) \/ UpdateStatus(n) \/ CollectGarbage(n)
    PROVE  ClusterTypeOK'
  <1>1. ASSUME NEW s \in StatefulSet \cup {NoSts}, WriteStatefulSets([sts EXCEPT ![n] = s])
        PROVE  /\ sts' \in [Nodes -> StatefulSet \cup {NoSts}]
               /\ stsSeen' \in [Nodes -> StatefulSet \cup {NoSts}]
    BY <1>1, WriteStatefulSetsType DEF TypeOK, ClusterTypeOK
  <1>2. CASE SyncStatefulSet(n)
    BY <1>2 DEF SyncStatefulSet, TypeOK, ClusterTypeOK
  <1>3. CASE CreatePod(n)
    <2>1. [template |-> sts[n].template, ready |-> FALSE] \in Pod
      BY <1>3 DEF CreatePod, TypeOK, ClusterTypeOK, StatefulSet, Pod
    <2> QED
      BY <1>3, <2>1 DEF CreatePod, TypeOK, ClusterTypeOK
  <1>4. CASE PodBecomesReady(n)
    BY <1>4 DEF PodBecomesReady, TypeOK, ClusterTypeOK, Pod
  <1>5. CASE KillOutdatedPod(n) \/ DeletePodOfTerminating(n)
    BY <1>5 DEF KillOutdatedPod, DeletePodOfTerminating, TypeOK, ClusterTypeOK
  <1>6. CASE RemoveStatefulSet(n) \/ CollectGarbage(n)
    <2>1. WriteStatefulSets([sts EXCEPT ![n] = NoSts]) /\ queued' \in BOOLEAN
      BY <1>6 DEF RemoveStatefulSet, CollectGarbage, TypeOK, ClusterTypeOK
    <2>2. pod' \in [Nodes -> Pod \cup {NoPod}] /\ UNCHANGED <<checkpoint, cmSeen>>
      BY <1>6 DEF RemoveStatefulSet, CollectGarbage, TypeOK, ClusterTypeOK
    <2> QED
      BY <1>1, <2>1, <2>2 DEF TypeOK, ClusterTypeOK
  <1>7. CASE UpdateStatus(n)
    <2>1. StatusOf(sts[n], pod[n]) \in StatefulSet
      BY <1>7, StatusType DEF UpdateStatus, TypeOK, ClusterTypeOK
    <2> QED
      BY <1>1, <1>7, <2>1 DEF UpdateStatus, TypeOK, ClusterTypeOK
  <1> QED
    BY <1>2, <1>3, <1>4, <1>5, <1>6, <1>7 DEF NodeStep

\* What Kubernetes does keeps every type.
LEMMA ClusterStepTypeOK == TypeOK /\ ClusterStep => TypeOK'
  <1> SUFFICES ASSUME TypeOK, ClusterStep PROVE TypeOK'
    OBVIOUS
  <1>1. ClusterTypeOK'
    <2>1. CASE CheckpointCacheStep
      BY <2>1 DEF CheckpointCacheStep, SyncCheckpoint, TypeOK, ClusterTypeOK
    <2>2. CASE \E n \in Nodes : ClusterNodeStep(n) \/ StatusStep(n) \/ GarbageStep(n)
      BY <2>2, NodeTypeOK DEF ClusterNodeStep, StatusStep, GarbageStep
    <2> QED
      BY <2>1, <2>2 DEF ClusterStep
  <1>2. ReconcilerUnchanged
    BY DEF ClusterStep, CheckpointCacheStep, ClusterNodeStep, StatusStep, GarbageStep
  <1> QED
    BY <1>1, <1>2 DEF ReconcilerUnchanged, TypeOK, PassTypeOK, At

-------------------------------------------------------------------------------

\* Every step keeps every type.
LEMMA StepTypeOK == TypeOK /\ [Next]_vars => TypeOK'
  <1>1. TypeOK /\ OperatorStep => TypeOK'
    BY StartPassTypeOK, FinalizeTeamCityTypeOK, RemoveFinalizerTypeOK, DetectUpgradeTypeOK,
       PerformZeroDowntimeUpgradeTypeOK, HandleUpdateInitiatedTypeOK,
       HandleReplicaCreatedTypeOK, AdvanceCheckpointTypeOK, HandleReplicaStartingTypeOK,
       HandleReplicaReadyTypeOK, HandleMainShuttingDownTypeOK, CheckMainGenerationTypeOK,
       HandleMainReadyTypeOK, HandleUpdateFinishedTypeOK, ApplyMainTypeOK,
       ApplySecondaryTypeOK, FinishRecreateTypeOK, ListObsoleteTypeOK, DeleteObsoleteTypeOK,
       CheckPreconditionGenerationTypeOK, CheckPreconditionFinishedTypeOK,
       ReportSuccessTypeOK
    DEF OperatorStep
  <1> QED
    BY <1>1, StutterTypeOK, TimerFiresTypeOK, ApiErrorTypeOK, UpdateDeletedTypeOK,
       ClusterStepTypeOK, UserStepTypeOK, CrashTypeOK
    DEF Next

\* Every state the operator, its cluster and its user can reach is well typed; in
\* particular every pass is at a step its locals allow.
THEOREM TypeCorrect == Spec => []TypeOK
  BY InitTypeOK, StepTypeOK, PTL DEF Spec
===============================================================================
