------------------------------ MODULE StepEffects ------------------------------
(***************************************************************************)
(* What the steps of the cluster and of the builders do to the StatefulSets *)
(* and pods when caches follow every write at once: the lemmas that the     *)
(* proofs about what a pass leaves behind have in common.                   *)
(***************************************************************************)
EXTENDS UpgradeProofs

-------------------------------------------------------------------------------
(* The cluster *)

Still(n) == sts'[n] = sts[n] /\ pod'[n] = pod[n]

StatusLands(n) ==
    sts[n] # NoSts /\ sts'[n] = StatusOf(sts[n], pod[n]) /\ pod'[n] = pod[n]

PodMoves(n) ==
    /\ sts'[n] = sts[n]
    /\ \/ /\ sts[n] # NoSts /\ ~ sts[n].terminating /\ pod[n] = NoPod
          /\ pod'[n] = [template |-> sts[n].template, ready |-> FALSE]
       \/ pod[n] # NoPod /\ pod'[n] = [pod[n] EXCEPT !.ready = TRUE]
       \/ /\ sts[n] # NoSts /\ pod[n] # NoPod /\ pod'[n] = NoPod
          /\ sts[n].terminating \/ pod[n].template # sts[n].template

Vanishes(n) ==
    /\ sts[n] # NoSts /\ sts'[n] = NoSts /\ pod'[n] = NoPod /\ queued'
    /\ tc = NoTC \/ sts[n].terminating

\* A ready pod with a template is a pod, and becoming ready changes nothing.
LEMMA RunningPod ==
    ASSUME NEW t \in Template, NEW p, p = [template |-> t, ready |-> TRUE]
    PROVE  p \in Pod /\ p # NoPod /\ p.template = t /\ [p EXCEPT !.ready = TRUE] = p
  <1>1. [template |-> t, ready |-> TRUE] \in Pod
    BY DEF Pod
  <1>2. p.template = t /\ p.ready = TRUE
    OBVIOUS
  <1> QED
    BY <1>1, <1>2, AbsenceAssumption DEF Pod

\* A StatefulSet that appears or vanishes puts the object on the queue.
LEMMA EventOfExistence ==
    ASSUME ~ StaleReads, NEW new, NEW n \in Nodes, sts[n] = NoSts <=> new[n] # NoSts
    PROVE  EventsOf(new)
  BY DEF EventsOf, StatefulSetEventPasses

\* A step of Kubernetes makes a status land, moves a pod or removes a StatefulSet that
\* is terminating or has no owner; it touches neither the checkpoint nor the pass.
LEMMA ClusterStepEffect ==
    ASSUME ~ StaleReads, FreshInv, ClusterStep
    PROVE  /\ ReconcilerUnchanged /\ UNCHANGED <<checkpoint, cmSeen>>
           /\ stsSeen' = sts' /\ (queued => queued')
           /\ \A n \in Nodes : Still(n) \/ StatusLands(n) \/ PodMoves(n) \/ Vanishes(n)
  <1>1. stsSeen = sts /\ cmSeen = checkpoint
    BY DEF FreshInv, PassIsFresh, CachesSynced
  <1>2. /\ sts \in [Nodes -> StatefulSet \cup {NoSts}] /\ pod \in [Nodes -> Pod \cup {NoPod}]
        /\ queued \in BOOLEAN
    BY DEF FreshInv, TypeOK, ClusterTypeOK
  <1>3. ~ CheckpointCacheStep
    BY <1>1 DEF CheckpointCacheStep, SyncCheckpoint
  <1>4. PICK m \in Nodes : ClusterNodeStep(m) \/ StatusStep(m) \/ GarbageStep(m)
    BY <1>3 DEF ClusterStep
  <1>5. ReconcilerUnchanged /\ ~ SyncStatefulSet(m)
    BY <1>1, <1>4 DEF ClusterNodeStep, StatusStep, GarbageStep, SyncStatefulSet
  <1>6. CASE CreatePod(m) \/ PodBecomesReady(m) \/ KillOutdatedPod(m) \/ DeletePodOfTerminating(m)
    <2>1. UNCHANGED <<sts, stsSeen, checkpoint, cmSeen, queued>>
      BY <1>6 DEF CreatePod, PodBecomesReady, KillOutdatedPod, DeletePodOfTerminating
    <2>2. \A n \in Nodes : Still(n) \/ PodMoves(n)
      <3>1. CASE CreatePod(m)
        BY <1>2, <2>1, <3>1 DEF CreatePod, Still, PodMoves
      <3>2. CASE PodBecomesReady(m)
        BY <1>2, <2>1, <3>2 DEF PodBecomesReady, Still, PodMoves
      <3>3. CASE KillOutdatedPod(m) \/ DeletePodOfTerminating(m)
        BY <1>2, <2>1, <3>3 DEF KillOutdatedPod, DeletePodOfTerminating, Still, PodMoves
      <3> QED
        BY <1>6, <3>1, <3>2, <3>3
    <2> QED
      BY <1>1, <1>5, <2>1, <2>2
  <1>7. CASE UpdateStatus(m)
    <2>1. /\ sts' = [sts EXCEPT ![m] = StatusOf(sts[m], pod[m])] /\ stsSeen' = sts'
          /\ sts[m] # NoSts /\ UNCHANGED <<pod, checkpoint, cmSeen, queued>>
      BY <1>7, FreshStatefulSets DEF UpdateStatus
    <2>2. \A n \in Nodes : Still(n) \/ StatusLands(n)
      BY <1>2, <2>1 DEF Still, StatusLands
    <2> QED
      BY <1>5, <2>1, <2>2
  <1>8. CASE RemoveStatefulSet(m) \/ (tc = NoTC /\ CollectGarbage(m))
    <2>1. /\ sts' = [sts EXCEPT ![m] = NoSts] /\ stsSeen' = sts' /\ sts[m] # NoSts
          /\ queued' = (queued \/ EventsOf([sts EXCEPT ![m] = NoSts]))
          /\ UNCHANGED <<checkpoint, cmSeen>>
      BY <1>8, FreshStatefulSets DEF RemoveStatefulSet, CollectGarbage
    <2>2. queued'
      BY <1>2, <2>1, EventOfExistence
    <2>3. \A n \in Nodes : Still(n) \/ Vanishes(n)
      BY <1>2, <1>8, <2>1, <2>2 DEF RemoveStatefulSet, CollectGarbage, Still, Vanishes
    <2> QED
      BY <1>5, <2>1, <2>2, <2>3
  <1> QED
    BY <1>4, <1>5, <1>6, <1>7, <1>8 DEF ClusterNodeStep, StatusStep, GarbageStep, NodeStep

-------------------------------------------------------------------------------
(* The builders *)

\* What CreateOrUpdate makes of the StatefulSet of a node.
Made(n) ==
    IF sts[n] = NoSts THEN FreshStatefulSet(pass.inst.nodes[n])
    ELSE ConfigureStatefulSet(sts[n], pass.inst.nodes[n].template)

Built(n) ==
    /\ sts' = [sts EXCEPT ![n] = Made(n)] /\ stsSeen' = sts'
    /\ queued => queued'
    /\ sts[n] = NoSts => queued'
    /\ pass' = AfterNode(n) /\ UNCHANGED timer

\* What a changed serviceName does: it ends the pass, or the StatefulSet.
RecreateBlocked(n) ==
    /\ sts[n] # NoSts /\ sts[n].svc # pass.inst.nodes[n].svc /\ ~ pass.inst.allowRecreate
    /\ reportRecreateBlocked /\ Done
    /\ UNCHANGED <<sts, stsSeen>>

RecreateStarted(n) ==
    /\ sts[n] # NoSts /\ sts[n].svc # pass.inst.nodes[n].svc
    /\ sts' = [sts EXCEPT ![n] = MarkForDeletion(sts[n])] /\ stsSeen' = sts'
    /\ queued => queued'
    /\ pass' = [pass EXCEPT !.pc = "recreating", !.node = n, !.mark = FALSE]
    /\ UNCHANGED timer

\* The StatefulSet CreateOrUpdate makes is one.
LEMMA MadeType ==
    ASSUME FreshInv, ~ At("idle"), NEW n \in DOMAIN pass.inst.nodes
    PROVE  n \in Nodes /\ n # Replica /\ Made(n) \in StatefulSet /\ Made(n) # NoSts
  <1>1. n \in Nodes /\ n # Replica /\ pass.inst.nodes[n] \in NodeConfig
    BY InstType, SpecType DEF FreshInv
  <1>2. /\ pass.inst.nodes[n].template \in Template /\ pass.inst.nodes[n].svc \in Service
        /\ sts[n] \in StatefulSet \cup {NoSts}
    BY <1>1 DEF NodeConfig, FreshInv, TypeOK, ClusterTypeOK
  <1>3. Made(n) \in StatefulSet
    BY <1>2, FreshType, ConfiguredType DEF Made
  <1> QED
    BY <1>1, <1>3, AbsenceAssumption

\* CreateOrUpdate does not fail with fresh caches; it creates or configures.
LEMMA CreateOrUpdateEffect ==
    ASSUME ~ StaleReads, FreshInv, ~ At("idle"), NEW n \in DOMAIN pass.inst.nodes,
           CreateOrUpdate(n)
    PROVE  Built(n)
  <1> DEFINE config == pass.inst.nodes[n]
             new == [sts EXCEPT ![n] = IF @ = NoSts THEN FreshStatefulSet(config)
                                       ELSE ConfigureStatefulSet(@, config.template)]
  <1>1. n \in Nodes /\ Made(n) # NoSts /\ sts \in [Nodes -> StatefulSet \cup {NoSts}]
    BY MadeType DEF FreshInv, TypeOK, ClusterTypeOK
  <1>2. stsSeen = sts
    BY DEF FreshInv, PassIsFresh, CachesSynced
  <1>3. /\ WriteStatefulSets(new) /\ queued' = (queued \/ EventsOf(new))
        /\ pass' = AfterNode(n) /\ UNCHANGED timer
    BY <1>2 DEF CreateOrUpdate
  <1>4. new = [sts EXCEPT ![n] = Made(n)]
    BY DEF Made
  <1>5. sts' = new /\ stsSeen' = sts'
    BY <1>3, FreshStatefulSets
  <1>6. sts[n] = NoSts => EventsOf(new)
    <2>1. new[n] # NoSts
      BY <1>1, <1>4
    <2> HIDE DEF new
    <2> QED
      BY <1>1, <2>1, EventOfExistence
  <1> QED
    BY <1>3, <1>4, <1>5, <1>6 DEF Built

\* A builder creates or configures the StatefulSet of its node, or finds its
\* serviceName changed.
LEMMA ApplyStatefulSetEffect ==
    ASSUME ~ StaleReads, FreshInv, ~ At("idle"), NEW n \in DOMAIN pass.inst.nodes,
           ApplyStatefulSet(n)
    PROVE  \/ /\ Built(n) /\ UNCHANGED <<status, faults>>
              /\ sts[n] # NoSts => sts[n].svc = pass.inst.nodes[n].svc
           \/ RecreateBlocked(n)
           \/ RecreateStarted(n)
  <1>1. stsSeen = sts /\ queued \in BOOLEAN
    BY DEF FreshInv, TypeOK, ClusterTypeOK, PassIsFresh, CachesSynced
  <1> DEFINE changed == /\ stsSeen[n] # NoSts
                        /\ ImmutableStatefulSetSpecChanged(stsSeen[n], pass.inst.nodes[n])
  <1>2. changed <=> sts[n] # NoSts /\ sts[n].svc # pass.inst.nodes[n].svc
    BY <1>1 DEF ImmutableStatefulSetSpecChanged
  <1>3. CASE ~ changed /\ CreateOrUpdate(n) /\ UNCHANGED <<status, faults>>
    BY <1>2, <1>3, CreateOrUpdateEffect
  <1>4. CASE /\ changed /\ ~ pass.inst.allowRecreate
             /\ reportRecreateBlocked /\ Done /\ UNCHANGED <<sts, stsSeen>>
    BY <1>2, <1>4 DEF RecreateBlocked
  <1> DEFINE new == [sts EXCEPT ![n] = IF @ = NoSts THEN NoSts ELSE MarkForDeletion(@)]
  <1>5. CASE /\ changed /\ reportRecreateInProgress /\ WriteStatefulSets(new)
             /\ pass' = [pass EXCEPT !.pc = "recreating", !.node = n, !.mark = (sts[n] = NoSts)]
             /\ UNCHANGED timer
    <2>1. sts' = new /\ stsSeen' = new
      BY <1>5, FreshStatefulSets
    <2>2. sts' = [sts EXCEPT ![n] = MarkForDeletion(sts[n])]
      BY <1>2, <1>5, <2>1
    <2>3. queued => queued'
      BY <1>5 DEF reportRecreateInProgress, WriteStatus, StatusFault
    <2>4. pass' = [pass EXCEPT !.pc = "recreating", !.node = n, !.mark = FALSE]
      BY <1>2, <1>5
    <2> QED
      BY <1>2, <1>5, <2>1, <2>2, <2>3, <2>4 DEF RecreateStarted
  <1> HIDE DEF changed
  <1> QED
    BY <1>3, <1>4, <1>5 DEF ApplyStatefulSet, changed

-------------------------------------------------------------------------------
(* All steps *)

BuilderStep == ApplyMain \/ ApplySecondary \/ FinishRecreate \/ UpdateDeleted

\* The node whose builder runs.
BuilderOf(n) ==
    /\ n \in DOMAIN pass.inst.nodes
    /\ \/ At("main") /\ n = Main
       \/ At("secondaries") /\ n \in pass.todo /\ n # Main
       \/ At("recreating") /\ n = pass.node

\* The pass ends, or goes on beyond the builder it was at.
PassLeaves ==
    pass'.pc = "idle" \/ (pass'.pc \in {"listObsolete", "report"} /\ pass'.inst = pass.inst)

\* A step of the builders creates or configures the StatefulSet of one node, or marks it
\* for deletion, or changes none; it moves no pod and no checkpoint.
LEMMA BuilderStepEffect ==
    ASSUME ~ StaleReads, FreshInv, BuilderStep
    PROVE  /\ ~ At("idle") /\ UNCHANGED <<pod, checkpoint, cmSeen>> /\ UNCHANGED userVars
           /\ \/ UNCHANGED <<sts, stsSeen>> /\ PassLeaves
              \/ \E n \in Nodes \ {Replica} :
                    /\ BuilderOf(n)
                    /\ \/ /\ Built(n)
                          /\ sts[n] # NoSts /\ ~ At("recreating") =>
                                sts[n].svc = pass.inst.nodes[n].svc
                       \/ RecreateStarted(n)
  <1>1. /\ ~ At("idle") /\ UNCHANGED <<pod, checkpoint, cmSeen>> /\ UNCHANGED userVars
        /\ pass.inst \in Specs /\ TypeOK /\ DOMAIN pass.inst.nodes \subseteq Nodes \ {Replica}
    BY InstType, SpecType
    DEF BuilderStep, ApplyMain, ApplySecondary, FinishRecreate, UpdateDeleted, At, FreshInv
  <1>2. ASSUME NEW n, BuilderOf(n), ApplyStatefulSet(n)
        PROVE  \/ UNCHANGED <<sts, stsSeen>> /\ PassLeaves
               \/ Built(n) /\ (sts[n] # NoSts => sts[n].svc = pass.inst.nodes[n].svc)
               \/ RecreateStarted(n)
    BY <1>1, <1>2, ApplyStatefulSetEffect, IdlePassType
    DEF BuilderOf, RecreateBlocked, Done, PassLeaves
  <1>3. CASE ApplyMain
    <2>1. BuilderOf(Main) /\ ApplyStatefulSet(Main)
      BY <1>1, <1>3, SpecType DEF ApplyMain, BuilderOf
    <2> QED
      BY <1>1, <1>2, <2>1 DEF BuilderOf
  <1>4. CASE ApplySecondary
    <2>1. PICK n \in pass.todo : ApplyStatefulSet(n)
      BY <1>4 DEF ApplySecondary
    <2>2. BuilderOf(n)
      BY <1>1, <1>4 DEF ApplySecondary, BuilderOf, TypeOK, PassTypeOK, SecondaryNodes
    <2> QED
      BY <1>1, <1>2, <2>1, <2>2 DEF BuilderOf
  <1>5. CASE FinishRecreate \/ UpdateDeleted
    <2>1. At("recreating") /\ BuilderOf(pass.node)
      BY <1>1, <1>5 DEF FinishRecreate, UpdateDeleted, BuilderOf, TypeOK, PassTypeOK
    <2>2. \/ CreateOrUpdate(pass.node)
          \/ UNCHANGED <<sts, stsSeen>> /\ Done
          \/ /\ UNCHANGED <<sts, stsSeen>>
             /\ \E pc \in {"listObsolete", "report"} :
                   Continue([pass EXCEPT !.node = Main, !.todo = {}, !.pc = pc])
      BY <1>5 DEF FinishRecreate, UpdateDeleted
    <2>3. CreateOrUpdate(pass.node) => Built(pass.node)
      BY <1>1, <2>1, CreateOrUpdateEffect DEF BuilderOf
    <2>4. \/ CreateOrUpdate(pass.node)
          \/ UNCHANGED <<sts, stsSeen>> /\ PassLeaves
      BY <1>1, <2>2, IdlePassType DEF Done, Continue, Pass, TypeOK, PassLeaves
    <2> QED
      BY <1>1, <2>1, <2>3, <2>4 DEF BuilderOf
  <1> QED
    BY <1>3, <1>4, <1>5 DEF BuilderStep

\* The deletion of an obsolete secondary, with its pod.
LEMMA DeleteObsoleteEffect ==
    ASSUME ~ StaleReads, FreshInv, DeleteObsolete
    PROVE  /\ ~ At("idle") /\ UNCHANGED <<checkpoint, cmSeen>> /\ UNCHANGED userVars
           /\ \A n \in Nodes :
                 Still(n) \/ (n \in Secondaries /\ sts'[n] = NoSts /\ pod'[n] = NoPod)
  <1>1. ~ At("idle") /\ UNCHANGED <<checkpoint, cmSeen>> /\ UNCHANGED userVars
    BY DEF DeleteObsolete, At
  <1>2. PICK n \in pass.todo :
           \/ UNCHANGED <<sts, pod>>
           \/ /\ WriteStatefulSets([sts EXCEPT ![n] = NoSts])
              /\ pod' = [pod EXCEPT ![n] = NoPod]
    BY DEF DeleteObsolete
  <1>3. /\ n \in Secondaries /\ n \in Nodes
        /\ sts \in [Nodes -> StatefulSet \cup {NoSts}] /\ pod \in [Nodes -> Pod \cup {NoPod}]
    BY DEF FreshInv, TypeOK, ClusterTypeOK, Pass, Nodes
  <1>4. CASE UNCHANGED <<sts, pod>>
    BY <1>1, <1>4 DEF Still
  <1>5. CASE /\ WriteStatefulSets([sts EXCEPT ![n] = NoSts])
             /\ pod' = [pod EXCEPT ![n] = NoPod]
    <2>1. sts' = [sts EXCEPT ![n] = NoSts] /\ pod' = [pod EXCEPT ![n] = NoPod]
      BY <1>5, FreshStatefulSets
    <2>2. \A m \in Nodes \ {n} : sts'[m] = sts[m] /\ pod'[m] = pod[m]
      BY <1>3, <2>1
    <2>3. sts'[n] = NoSts /\ pod'[n] = NoPod
      BY <1>3, <2>1
    <2> QED
      BY <1>1, <1>3, <2>2, <2>3 DEF Still
  <1> QED
    BY <1>2, <1>4, <1>5

\* No other step touches the StatefulSet or the pod of a node.
LEMMA NodesElsewhere ==
    ASSUME ~ StaleReads, FreshInv, [Next]_vars,
           ~ BuilderStep, ~ ClusterStep, ~ DeleteObsolete
    PROVE  \A n \in Nodes \ {Replica} : Still(n)
  <1>1. /\ sts \in [Nodes -> StatefulSet \cup {NoSts}] /\ pod \in [Nodes -> Pod \cup {NoPod}]
        /\ Replica \in Nodes
    BY DEF FreshInv, TypeOK, ClusterTypeOK, Nodes
  <1>2. CASE HandleReplicaCreated
    <2>1. PICK s : WriteStatefulSets([sts EXCEPT ![Replica] = s]) \/ UNCHANGED sts
      BY <1>2 DEF HandleReplicaCreated
    <2> QED
      BY <1>1, <1>2, <2>1, FreshStatefulSets DEF HandleReplicaCreated, Still
  <1>3. CASE HandleMainReady
    <2>1. \/ /\ WriteStatefulSets([sts EXCEPT ![Replica] = NoSts])
             /\ pod' = [pod EXCEPT ![Replica] = NoPod]
          \/ UNCHANGED <<sts, pod>>
      BY <1>3 DEF HandleMainReady
    <2> QED
      BY <1>1, <2>1, FreshStatefulSets DEF Still
  <1>4. CASE UNCHANGED <<sts, pod>>
    BY <1>4 DEF Still
  <1>5. \/ UNCHANGED <<sts, pod>> \/ HandleReplicaCreated \/ HandleMainReady
    BY DEF BuilderStep, Next, OperatorStep, StartPass, FinalizeTeamCity, RemoveFinalizer,
       DetectUpgrade, PerformZeroDowntimeUpgrade, HandleUpdateInitiated, AdvanceCheckpoint,
       HandleReplicaStarting, HandleReplicaReady, HandleMainShuttingDown,
       CheckMainGeneration, HandleUpdateFinished, ListObsolete, CheckPreconditionGeneration,
       CheckPreconditionFinished, ReportSuccess, TimerFires, ApiError, UserStep,
       EditTeamCity, DeleteTeamCity, RecreateTeamCity, Crash, vars
  <1> QED
    BY <1>2, <1>3, <1>4, <1>5

OtherPassStep ==
    \/ FinalizeTeamCity \/ DetectUpgrade \/ PerformZeroDowntimeUpgrade
    \/ HandleUpdateInitiated \/ HandleReplicaCreated \/ AdvanceCheckpoint
    \/ HandleReplicaStarting \/ HandleReplicaReady
    \/ HandleMainShuttingDown \/ CheckMainGeneration
    \/ HandleMainReady \/ HandleUpdateFinished
    \/ ListObsolete \/ DeleteObsolete \/ ReportSuccess \/ ApiError

\* The other steps of a pass end it, or go on with the same object, and lead to no
\* step that relies on the main node.
LEMMA OtherPassStepEffect ==
    ASSUME FreshInv, OtherPassStep
    PROVE  /\ ~ At("idle") /\ UNCHANGED userVars
           /\ pass'.pc \notin {"mainFinished", "secondaries", "recreating"}
           /\ pass'.pc = "idle" \/ pass'.inst = pass.inst
  <1>1. ~ At("idle") /\ UNCHANGED userVars
    BY DEF OtherPassStep, FinalizeTeamCity, DetectUpgrade, PerformZeroDowntimeUpgrade,
       HandleUpdateInitiated, HandleReplicaCreated, AdvanceCheckpoint, HandleReplicaStarting,
       HandleReplicaReady, HandleMainShuttingDown, CheckMainGeneration, HandleMainReady,
       HandleUpdateFinished, ListObsolete, DeleteObsolete, ReportSuccess, ApiError, At, AtStage
  <1>2. pass \in Pass
    BY DEF FreshInv, TypeOK
  <1> DEFINE Later(pc) == pc \in PC \ {"mainFinished", "secondaries", "recreating"}
             Fine == pass'.pc = "idle" \/ (Later(pass'.pc) /\ pass'.inst = pass.inst)
  <1>3. Done \/ RequeueAfter \/ Retry => Fine
    BY IdlePassType DEF Done, RequeueAfter, Retry
  <1>4. CASE FinalizeTeamCity \/ HandleReplicaReady \/ HandleUpdateFinished
    <2>1. Retry \/ Goto("main") \/ Goto("removeFinalizer")
      BY <1>4 DEF FinalizeTeamCity, HandleReplicaReady, HandleUpdateFinished
    <2> QED
      BY <1>1, <1>2, <1>3, <2>1 DEF Goto, Continue, Pass, PC
  <1>5. CASE DetectUpgrade \/ PerformZeroDowntimeUpgrade \/ HandleMainShuttingDown
    BY <1>1, <1>2, <1>3, <1>5
    DEF DetectUpgrade, PerformZeroDowntimeUpgrade, HandleMainShuttingDown, Continue, Pass, PC
  <1>6. CASE HandleUpdateInitiated \/ AdvanceCheckpoint \/ HandleReplicaStarting
             \/ CheckMainGeneration \/ ReportSuccess \/ ApiError
    <2>1. Done \/ RequeueAfter \/ Retry
      BY <1>6 DEF HandleUpdateInitiated, AdvanceCheckpoint, HandleReplicaStarting,
         CheckMainGeneration, CheckpointAndRequeue, WaitForNextPass, ReportSuccess, ApiError
    <2> QED
      BY <1>1, <1>3, <2>1
  <1>7. CASE HandleReplicaCreated \/ HandleMainReady
    <2>1. \/ Retry \/ pass' = [pass EXCEPT !.pc = "advance"]
          \/ pass' = [pass EXCEPT !.pc = "main"]
      BY <1>7 DEF HandleReplicaCreated, HandleMainReady, Goto, Continue
    <2> QED
      BY <1>1, <1>2, <1>3, <2>1 DEF Pass, PC
  <1>8. CASE ListObsolete \/ DeleteObsolete
    <2>1. \/ Retry
          \/ \E todo, pc : /\ pass' = [pass EXCEPT !.todo = todo, !.pc = pc]
                           /\ pc \in {"deleteObsolete", "mainGeneration", "report"}
      BY <1>8 DEF ListObsolete, DeleteObsolete, AfterObsolete, Continue
    <2> QED
      BY <1>1, <1>2, <1>3, <2>1 DEF Pass, PC
  <1> QED
    BY <1>4, <1>5, <1>6, <1>7, <1>8 DEF OtherPassStep

\* Every step is one of these.
LEMMA StepCases ==
    ASSUME [Next]_vars
    PROVE  \/ BuilderStep \/ ClusterStep \/ OtherPassStep
           \/ StartPass \/ RemoveFinalizer
           \/ CheckPreconditionGeneration \/ CheckPreconditionFinished
           \/ TimerFires \/ UserStep \/ Crash \/ UNCHANGED vars
  BY DEF Next, OperatorStep, BuilderStep, OtherPassStep
===============================================================================
