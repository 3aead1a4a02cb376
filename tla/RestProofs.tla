------------------------------- MODULE RestProofs ------------------------------
(***************************************************************************)
(* When nothing is queued, the cluster is what the object asks for: no edit *)
(* is lost between events, retries, recreates and crashes.  Proved for      *)
(* caches that follow every write at once and reads that do not fail (a     *)
(* failed read hides the checkpoint from ReportSuccess).                    *)
(***************************************************************************)
EXTENDS StepEffects

\* Steps at which a pass has nothing behind it yet.
EarlyPC == {"ongoing", "upgrade", "stage", "generation", "advance", "main", "deleteObsolete"}

-------------------------------------------------------------------------------
(* Steps that owe nothing *)

\* The object is queued, or no longer the operator's to serve.
LEMMA RestByQueue ==
    ASSUME queued' \/ Released' PROVE RestInv'
  BY DEF RestInv

\* The pass ends and leaves a timer.
LEMMA RestByTimer ==
    ASSUME TypeOK, RequeueAfter \/ Retry PROVE RestInv'
  <1>1. pass'.pc = "idle" /\ timer' # "none"
    BY IdlePassType DEF RequeueAfter, Retry, TypeOK
  <1> QED
    BY <1>1 DEF RestInv, BehindPass, At

\* The pass goes on, with nothing behind it yet.
LEMMA RestByEarlyStep ==
    ASSUME RestInv, ~ At("idle"), UNCHANGED <<tc, deleting>>, queued => queued',
           pass'.pc \in EarlyPC, pass'.inst = pass.inst
    PROVE  RestInv'
  <1> SUFFICES ASSUME ~ Released', ~ queued'
               PROVE  pass'.inst = tc' /\ BehindPass'
    BY DEF RestInv
  <1>1. pass.inst = tc
    BY DEF RestInv, Released
  <1> QED
    BY <1>1 DEF BehindPass, At, EarlyPC

\* A StatefulSet that was going still is.
LEMMA RestByGoing ==
    ASSUME RestInv, UNCHANGED <<tc, deleting>>, queued => queued', ~ queued => Going',
           ~ At("idle"), pass'.pc # "idle" => pass'.inst = pass.inst
    PROVE  RestInv'
  BY DEF RestInv, Released, At

\* A builder that creates or configures keeps what is going, or queues the object.
LEMMA GoingBuilt ==
    ASSUME FreshInv, ~ At("idle"), NEW n \in DOMAIN pass.inst.nodes, Built(n), Going
    PROVE  Going' \/ queued'
  <1>1. PICK m \in Nodes : sts[m] # NoSts /\ sts[m].terminating
    BY DEF Going
  <1>2. sts \in [Nodes -> StatefulSet \cup {NoSts}] /\ Made(n) # NoSts /\ n \in Nodes
    BY MadeType DEF FreshInv, TypeOK, ClusterTypeOK
  <1>3. CASE m # n
    BY <1>1, <1>2, <1>3 DEF Built, Going
  <1>4. CASE m = n /\ sts[n] # NoSts
    <2>1. sts'[n] = ConfigureStatefulSet(sts[n], pass.inst.nodes[n].template)
      BY <1>2, <1>4 DEF Built, Made
    <2>2. sts[n] \in StatefulSet
      BY <1>2, <1>4
    <2>3. sts'[n].terminating
      BY <1>1, <1>4, <2>1, <2>2 DEF ConfigureStatefulSet, StatefulSet
    <2>4. sts'[n] # NoSts
      BY <1>2 DEF Built
    <2> QED
      BY <1>2, <2>3, <2>4 DEF Going
  <1> QED
    BY <1>1, <1>3, <1>4

-------------------------------------------------------------------------------
(* The pass up to the builders *)

\* A new pass works on the object as it is.
LEMMA StartPassRest ==
    ASSUME StartPass PROVE RestInv'
  <1> SUFFICES ASSUME ~ Released' PROVE pass'.inst = tc' /\ BehindPass'
    BY DEF RestInv
  <1>1. pass' = [IdlePass EXCEPT !.inst = tc, !.pc = "ongoing"] /\ tc' = tc
    BY DEF StartPass, Released, userVars
  <1>2. pass'.pc = "ongoing" /\ pass'.inst = tc
    BY <1>1, IdlePassType DEF Pass
  <1> QED
    BY <1>1, <1>2 DEF BehindPass, At

\* The detection and the stages of an upgrade leave a timer or go on early in the pass.
LEMMA StagesRest ==
    ASSUME FreshInv, RestInv,
           \/ DetectUpgrade \/ PerformZeroDowntimeUpgrade
           \/ HandleUpdateInitiated \/ HandleReplicaCreated \/ AdvanceCheckpoint
           \/ HandleReplicaStarting \/ HandleReplicaReady
           \/ HandleMainShuttingDown \/ CheckMainGeneration
           \/ HandleMainReady \/ HandleUpdateFinished
    PROVE  RestInv'
  <1>1. TypeOK /\ pass \in Pass
    BY DEF FreshInv, TypeOK
  <1>2. ~ At("idle") /\ UNCHANGED <<tc, deleting>>
    BY DEF DetectUpgrade, PerformZeroDowntimeUpgrade, HandleUpdateInitiated,
       HandleReplicaCreated, AdvanceCheckpoint, HandleReplicaStarting, HandleReplicaReady,
       HandleMainShuttingDown, CheckMainGeneration, HandleMainReady, HandleUpdateFinished,
       At, AtStage, userVars
  <1>3. CASE RequeueAfter \/ Retry
    BY <1>1, <1>3, RestByTimer
  <1>4. CASE /\ pass'.pc \in EarlyPC /\ pass'.inst = pass.inst
             /\ queued => queued'
    BY <1>2, <1>4, RestByEarlyStep
  <1>5. CASE DetectUpgrade \/ PerformZeroDowntimeUpgrade \/ HandleMainShuttingDown
    BY <1>1, <1>3, <1>4, <1>5
    DEF DetectUpgrade, PerformZeroDowntimeUpgrade, HandleMainShuttingDown, Continue, Pass, EarlyPC
  <1>6. CASE HandleUpdateInitiated \/ AdvanceCheckpoint \/ HandleReplicaStarting
             \/ CheckMainGeneration
    BY <1>3, <1>6 DEF HandleUpdateInitiated, AdvanceCheckpoint, HandleReplicaStarting,
       CheckMainGeneration, CheckpointAndRequeue, WaitForNextPass
  <1>7. CASE HandleReplicaCreated
    BY <1>1, <1>3, <1>4, <1>7 DEF HandleReplicaCreated, Pass, EarlyPC
  <1>8. CASE HandleMainReady
    <2>1. pass' = [pass EXCEPT !.pc = "advance"] \/ pass' = [pass EXCEPT !.pc = "main"]
      BY <1>8 DEF HandleMainReady, Goto, Continue
    <2>2. queued => queued'
      BY <1>8 DEF HandleMainReady, Goto, Continue
    <2>3. pass'.pc \in EarlyPC /\ pass'.inst = pass.inst
      BY <1>1, <2>1 DEF Pass, EarlyPC
    <2> QED
      BY <1>4, <2>2, <2>3
  <1>9. CASE HandleReplicaReady \/ HandleUpdateFinished
    <2>1. Goto("main") \/ Retry
      BY <1>9 DEF HandleReplicaReady, HandleUpdateFinished
    <2> QED
      BY <1>1, <1>3, <1>4, <2>1 DEF Goto, Continue, Pass, EarlyPC
  <1> QED
    BY <1>5, <1>6, <1>7, <1>8, <1>9

-------------------------------------------------------------------------------
(* The builders *)

\* After its builder a node is what the spec asks for, or the object is queued.
LEMMA BuiltApplied ==
    ASSUME FreshInv, ~ At("idle"), NEW n \in DOMAIN pass.inst.nodes, Built(n),
           sts[n] # NoSts => sts[n].svc = pass.inst.nodes[n].svc,
           ~ queued', pass.inst = tc, UNCHANGED tc
    PROVE  /\ NodeApplied(n)'
           /\ \A m \in Nodes \ {n} : sts'[m] = sts[m]
  <1>1. n \in Nodes /\ Made(n) # NoSts /\ sts \in [Nodes -> StatefulSet \cup {NoSts}]
    BY MadeType DEF FreshInv, TypeOK, ClusterTypeOK
  <1>2. sts[n] # NoSts /\ sts[n] \in StatefulSet
    BY <1>1 DEF Built
  <1>3. sts'[n] = ConfigureStatefulSet(sts[n], tc.nodes[n].template) /\ sts'[n] # NoSts
    BY <1>1, <1>2 DEF Built, Made
  <1>4. sts'[n].template = tc.nodes[n].template /\ sts'[n].svc = sts[n].svc
    BY <1>2, <1>3 DEF ConfigureStatefulSet, StatefulSet
  <1> QED
    BY <1>1, <1>2, <1>3, <1>4 DEF NodeApplied, Built

\* A recreate that is not allowed ends the pass, and the status says so.
LEMMA BlockedRest ==
    ASSUME FreshInv, RestInv, ~ At("idle"), NEW n \in DOMAIN pass.inst.nodes,
           RecreateBlocked(n), UNCHANGED <<tc, deleting, checkpoint>>
    PROVE  RestInv'
  <1> SUFFICES ASSUME ~ Released', ~ queued', timer' = "none"
               PROVE  At("idle")' /\ BehindPass'
    BY IdlePassType DEF RestInv, BehindPass, At, RecreateBlocked, Done
  <1>1. pass' = IdlePass
    BY DEF RecreateBlocked, Done
  <1>2. At("idle")'
    BY <1>1, IdlePassType DEF At
  <1>3. tc # NoTC /\ pass.inst = tc
    <2>1. ~ queued
      BY DEF RecreateBlocked, reportRecreateBlocked, WriteStatus, StatusFault
    <2> QED
      BY <2>1 DEF RestInv, Released
  <1>4. Blocked'
    BY <1>3 DEF RecreateBlocked, Blocked
  <1>5. Says("Error")'
    <2>1. CASE WriteStatus("Error")
      BY <1>3, <2>1 DEF WriteStatus, Says
    <2>2. CASE StatusFault
      BY <2>2, BoundsAssumption DEF StatusFault, Fault, Says, FreshInv, TypeOK
    <2> QED
      BY <2>1, <2>2 DEF RecreateBlocked, reportRecreateBlocked
  <1> QED
    BY <1>2, <1>4, <1>5 DEF BehindPass, At

\* A recreate leaves its StatefulSet going.
LEMMA RecreateRest ==
    ASSUME FreshInv, RestInv, ~ At("idle"), NEW n \in DOMAIN pass.inst.nodes,
           RecreateStarted(n), UNCHANGED <<tc, deleting>>
    PROVE  RestInv'
  <1>1. n \in Nodes /\ pass \in Pass /\ sts \in [Nodes -> StatefulSet \cup {NoSts}]
    BY MadeType DEF FreshInv, TypeOK, ClusterTypeOK
  <1>2. sts[n] \in StatefulSet /\ sts'[n] = MarkForDeletion(sts[n])
    BY <1>1 DEF RecreateStarted
  <1>3. sts'[n].terminating /\ sts'[n] \in StatefulSet
    BY <1>2 DEF MarkForDeletion, StatefulSet
  <1>4. Going'
    BY <1>1, <1>3, AbsenceAssumption DEF Going
  <1>5. pass'.inst = pass.inst /\ (queued => queued')
    BY <1>1 DEF RecreateStarted, Pass
  <1> QED
    BY <1>4, <1>5, RestByGoing

\* The main node's builder.
LEMMA ApplyMainRest ==
    ASSUME ~ StaleReads, FreshInv, RestInv, ApplyMain PROVE RestInv'
  <1>1. ~ At("idle") /\ Main \in DOMAIN pass.inst.nodes
    BY InstType, SpecType DEF ApplyMain, At, FreshInv
  <1>2. UNCHANGED <<tc, deleting, checkpoint>> /\ ApplyStatefulSet(Main) /\ pass \in Pass
    BY DEF ApplyMain, userVars, FreshInv, TypeOK
  <1>3. CASE Built(Main) /\ (sts[Main] # NoSts => sts[Main].svc = pass.inst.nodes[Main].svc)
    <2> SUFFICES ASSUME ~ Released', ~ queued' PROVE pass'.inst = tc' /\ BehindPass'
      BY DEF RestInv
    <2>1. pass.inst = tc
      BY <1>1, <1>2, <1>3 DEF RestInv, Released, Built
    <2>2. NodeApplied(Main)'
      BY <1>1, <1>2, <1>3, <2>1, BuiltApplied
    <2>3. pass'.pc = "listObsolete" /\ pass'.inst = pass.inst
      BY <1>2, <1>3 DEF Built, AfterNode, Pass
    <2> QED
      BY <1>2, <2>1, <2>2, <2>3 DEF BehindPass, At
  <1> QED
    BY <1>1, <1>2, <1>3, ApplyStatefulSetEffect, BlockedRest, RecreateRest

\* A secondary's builder.
LEMMA ApplySecondaryRest ==
    ASSUME ~ StaleReads, FreshInv, RestInv, ApplySecondary PROVE RestInv'
  <1>1. PICK n \in pass.todo : ApplyStatefulSet(n)
    BY DEF ApplySecondary
  <1>2. /\ ~ At("idle") /\ At("secondaries") /\ n \in DOMAIN pass.inst.nodes /\ n # Main
        /\ pass \in Pass /\ UNCHANGED <<tc, deleting, checkpoint>>
    BY DEF ApplySecondary, At, userVars, FreshInv, TypeOK, PassTypeOK, SecondaryNodes
  <1>3. CASE Built(n) /\ (sts[n] # NoSts => sts[n].svc = pass.inst.nodes[n].svc)
    <2> DEFINE left == pass.todo \ {n}
    <2>1. /\ pass'.inst = pass.inst /\ pass'.todo = left
          /\ pass'.pc = IF left = {} THEN "report" ELSE "secondaries"
      BY <1>2, <1>3 DEF Built, AfterNode, Pass
    <2> SUFFICES ASSUME ~ Released', ~ queued' PROVE pass'.inst = tc' /\ (Going' \/ BehindPass')
      BY DEF RestInv
    <2>2. pass.inst = tc
      BY <1>2, <1>3 DEF RestInv, Released, Built
    <2>3. CASE Going
      BY <1>2, <1>3, <2>1, <2>2, <2>3, GoingBuilt
    <2>4. CASE BehindPass
      <3>1. NodeApplied(n)' /\ \A m \in Nodes \ {n} : sts'[m] = sts[m]
        BY <1>2, <1>3, <2>2, BuiltApplied
      <3>2. DOMAIN tc.nodes \subseteq Nodes /\ Main \in Nodes /\ Secondaries \subseteq Nodes
            /\ tc' = tc
        BY <1>2, <2>2, InstType, SpecType DEF FreshInv, Nodes
      <3>3. /\ NodeApplied(Main)' /\ NothingObsolete'
            /\ \A m \in SecondaryNodes(tc) \ left : NodeApplied(m)'
        BY <1>2, <2>2, <2>4, <3>1, <3>2
        DEF BehindPass, At, NodeApplied, NothingObsolete, SecondaryNodes
      <3>4. left = {} => \A m \in DOMAIN tc.nodes : NodeApplied(m)'
        BY <3>3 DEF SecondaryNodes
      <3> HIDE DEF left
      <3> QED
        BY <2>1, <2>2, <3>2, <3>3, <3>4 DEF BehindPass, At
    <2> QED
      BY <1>2, <1>3, <2>3, <2>4 DEF RestInv, Released, Built
  <1> QED
    BY <1>1, <1>2, <1>3, ApplyStatefulSetEffect, BlockedRest, RecreateRest

\* After a deletion: the StatefulSet is going, until it is created again.
LEMMA RecreatingRest ==
    ASSUME ~ StaleReads, FreshInv, RestInv, FinishRecreate \/ UpdateDeleted PROVE RestInv'
  <1>1. /\ ~ At("idle") /\ At("recreating") /\ pass.node \in DOMAIN pass.inst.nodes
        /\ pass \in Pass /\ UNCHANGED <<tc, deleting>>
    BY DEF FinishRecreate, UpdateDeleted, At, userVars, FreshInv, TypeOK, PassTypeOK
  <1>2. ~ Released /\ ~ queued => Going
    BY <1>1 DEF RestInv, BehindPass
  <1>3. CASE CreateOrUpdate(pass.node)
    <2>1. Built(pass.node)
      BY <1>1, <1>3, CreateOrUpdateEffect
    <2>2. pass'.inst = pass.inst /\ (queued => queued')
      BY <1>1, <2>1 DEF Built, AfterNode, Pass
    <2> QED
      BY <1>1, <1>2, <2>1, <2>2, GoingBuilt DEF RestInv, Released
  <1>4. CASE /\ UNCHANGED sts /\ (queued => queued')
             /\ pass'.pc # "idle" => pass'.inst = pass.inst
    BY <1>1, <1>2, <1>4 DEF RestInv, Released, Going, At
  <1>5. CASE FinishRecreate
    <2>1. CASE /\ UNCHANGED <<sts, stsSeen>>
               /\ \E pc \in {"listObsolete", "report"} :
                     Continue([pass EXCEPT !.node = Main, !.todo = {}, !.pc = pc])
      BY <1>1, <1>4, <2>1 DEF Continue, Pass
    <2> QED
      BY <1>3, <1>5, <2>1 DEF FinishRecreate
  <1>6. CASE UpdateDeleted
    <2>1. \/ CreateOrUpdate(pass.node)
          \/ WriteStatus("Error") /\ Done /\ UNCHANGED <<sts, stsSeen>>
      BY <1>6 DEF UpdateDeleted
    <2>2. CASE WriteStatus("Error") /\ Done /\ UNCHANGED <<sts, stsSeen>>
      BY <1>4, <2>2, IdlePassType DEF WriteStatus, Done
    <2> QED
      BY <1>3, <2>1, <2>2
  <1> QED
    BY <1>5, <1>6

-------------------------------------------------------------------------------
(* Obsolete secondaries, preconditions, the end of a pass *)

\* Steps of a pass that change no StatefulSet keep what is behind it.
LEMMA ReadingRest ==
    ASSUME FreshInv, RestInv, ~ At("idle"),
           UNCHANGED <<sts, tc, deleting>>, queued => queued',
           pass'.pc # "idle" => pass'.inst = pass.inst,
           ~ Released /\ ~ queued' /\ pass.inst = tc /\ BehindPass => BehindPass'
    PROVE  RestInv'
  BY DEF RestInv, Released, Going, At

\* With fresh caches the list of obsolete secondaries is complete.
LEMMA ListObsoleteRest ==
    ASSUME FreshInv, RestInv, ListObsolete PROVE RestInv'
  <1>1. /\ ~ At("idle") /\ At("listObsolete") /\ pass \in Pass /\ stsSeen = sts
        /\ UNCHANGED <<sts, tc, deleting, checkpoint, queued>>
    BY DEF ListObsolete, Continue, At, userVars, FreshInv, TypeOK, PassIsFresh,
       CachesSynced
  <1>2. /\ pass'.inst = pass.inst
        /\ pass'.pc = IF ObsoleteNodes # {} THEN "deleteObsolete" ELSE AfterObsolete
    BY <1>1 DEF ListObsolete, Continue, Pass
  <1>3. ASSUME pass.inst = tc, ~ Released, BehindPass PROVE BehindPass'
    <2>1. CASE ObsoleteNodes # {}
      BY <1>2, <2>1 DEF BehindPass, At
    <2>2. CASE ObsoleteNodes = {}
      <3>1. NothingObsolete' /\ NodeApplied(Main)'
        BY <1>1, <1>3, <2>2 DEF ObsoleteNodes, NothingObsolete, BehindPass, At, NodeApplied
      <3>2. CASE pass'.pc = "mainGeneration"
        BY <3>1, <3>2 DEF BehindPass, At
      <3>3. CASE pass'.pc = "report" /\ ~ IsMultiNode(pass.inst)
        <4>1. \A n \in DOMAIN tc.nodes : n = Main
          BY <1>3, <3>3 DEF IsMultiNode, SecondaryNodes
        <4>2. \A n \in DOMAIN tc.nodes : NodeApplied(n)'
          BY <3>1, <4>1
        <4> QED
          BY <1>1, <3>1, <3>3, <4>2 DEF BehindPass, At
      <3> QED
        BY <1>2, <2>2, <3>2, <3>3 DEF AfterObsolete
    <2> QED
      BY <2>1, <2>2
  <1> QED
    BY <1>1, <1>2, <1>3, ReadingRest

\* The deletion of a secondary queues the object.
LEMMA DeleteObsoleteRest ==
    ASSUME ~ StaleReads, FreshInv, RestInv, DeleteObsolete PROVE RestInv'
  <1>1. CASE Retry
    BY <1>1, RestByTimer DEF FreshInv
  <1>2. CASE \E n \in pass.todo :
                sts[n] # NoSts /\ queued' = (queued \/ EventsOf([sts EXCEPT ![n] = NoSts]))
    <2>1. PICK n \in pass.todo :
             sts[n] # NoSts /\ queued' = (queued \/ EventsOf([sts EXCEPT ![n] = NoSts]))
      BY <1>2
    <2>2. n \in Nodes /\ sts \in [Nodes -> StatefulSet \cup {NoSts}]
      BY DEF FreshInv, TypeOK, ClusterTypeOK, Pass, Nodes
    <2>3. [sts EXCEPT ![n] = NoSts][n] = NoSts
      BY <2>2
    <2>4. queued'
      BY <2>1, <2>2, <2>3, EventOfExistence DEF FreshInv, TypeOK, ClusterTypeOK
    <2> QED
      BY <2>4, RestByQueue
  <1> QED
    BY <1>1, <1>2 DEF DeleteObsolete

\* The two reads of validatePreconditions.
LEMMA PreconditionsRest ==
    ASSUME FreshInv, RestInv, CheckPreconditionGeneration \/ CheckPreconditionFinished
    PROVE  RestInv'
  <1>1. /\ ~ At("idle") /\ pass.pc \in {"mainGeneration", "mainFinished"} /\ pass \in Pass
        /\ UNCHANGED <<sts, tc, deleting, checkpoint>>
    BY DEF CheckPreconditionGeneration, CheckPreconditionFinished, At, userVars, FreshInv,
       TypeOK
  <1>2. CASE RequeueAfter
    BY <1>2, RestByTimer DEF FreshInv
  <1>3. CASE Continue([pass EXCEPT !.pc = "mainFinished",
                         !.mark = IsNewestGeneration(stsSeen[Main])])
    <2>1. pass'.pc = "mainFinished" /\ pass'.inst = pass.inst /\ queued' = queued
      BY <1>1, <1>3 DEF Continue, Pass
    <2>2. BehindPass => BehindPass'
      BY <1>1, <2>1 DEF BehindPass, At, NodeApplied, NothingObsolete
    <2> QED
      BY <1>1, <2>1, <2>2, ReadingRest
  <1>4. CASE Continue([pass EXCEPT !.pc = "secondaries", !.mark = FALSE,
                         !.todo = SecondaryNodes(pass.inst)])
    <2>1. /\ pass'.pc = "secondaries" /\ pass'.inst = pass.inst /\ queued' = queued
          /\ pass'.todo = SecondaryNodes(pass.inst)
      BY <1>1, <1>4 DEF Continue, Pass
    <2>2. pass.inst = tc /\ BehindPass => BehindPass'
      BY <1>1, <2>1 DEF BehindPass, At, NodeApplied, NothingObsolete
    <2> QED
      BY <1>1, <2>1, <2>2, ReadingRest
  <1> QED
    BY <1>2, <1>3, <1>4 DEF CheckPreconditionGeneration, CheckPreconditionFinished

\* The end of a pass: Success, with no upgrade going on or a timer set.
LEMMA ReportSuccessRest ==
    ASSUME "read" \notin FaultKinds, FreshInv, RestInv, ReportSuccess PROVE RestInv'
  <1>1. /\ ~ At("idle") /\ At("report") /\ cmSeen = checkpoint
        /\ UNCHANGED <<sts, tc, deleting, checkpoint>>
    BY DEF ReportSuccess, At, userVars, FreshInv, PassIsFresh, CachesSynced
  <1>2. CASE RequeueAfter
    BY <1>2, RestByTimer DEF FreshInv
  <1>3. CASE Done /\ cmSeen = NoCheckpoint
    <2>1. pass'.pc = "idle"
      BY <1>3, IdlePassType DEF Done
    <2>2. queued => queued'
      BY DEF ReportSuccess, WriteStatus, StatusFault
    <2>3. ~ Released => Says("Success")'
      <3>1. CASE WriteStatus("Success")
        BY <3>1 DEF WriteStatus, Says, Released
      <3>2. CASE StatusFault
        BY <3>2, BoundsAssumption DEF StatusFault, Fault, Says, FreshInv, TypeOK
      <3> QED
        BY <3>1, <3>2 DEF ReportSuccess
    <2>4. ~ Released /\ BehindPass => BehindPass'
      BY <1>1, <1>3, <2>1, <2>3 DEF BehindPass, At, NodeApplied, NothingObsolete
    <2> QED
      BY <1>1, <2>1, <2>2, <2>4, ReadingRest
  <1> QED
    BY <1>2, <1>3 DEF ReportSuccess, ReadOngoing, Fault, OngoingZeroDowntimeUpgrade

-------------------------------------------------------------------------------
(* Cluster *)

\* What Kubernetes does to a StatefulSet changes nothing a spec sets, or queues the object.
LEMMA ClusterStepFrozen ==
    ASSUME ~ StaleReads, FreshInv, ClusterStep, ~ queued', NEW n \in Nodes
    PROVE  /\ sts[n] = NoSts <=> sts'[n] = NoSts
           /\ sts[n] # NoSts =>
                 /\ sts'[n].template = sts[n].template /\ sts'[n].svc = sts[n].svc
                 /\ sts'[n].terminating = sts[n].terminating
  <1>1. Still(n) \/ StatusLands(n) \/ PodMoves(n)
    BY ClusterStepEffect DEF Vanishes
  <1>2. CASE sts'[n] = sts[n]
    BY <1>2
  <1>3. CASE StatusLands(n)
    <2>1. sts[n] \in StatefulSet /\ pod[n] \in Pod \cup {NoPod}
      BY <1>3 DEF StatusLands, FreshInv, TypeOK, ClusterTypeOK
    <2>2. StatusOf(sts[n], pod[n]) # NoSts
      BY <2>1, StatusType, AbsenceAssumption
    <2> QED
      BY <1>3, <2>1, <2>2 DEF StatusLands, StatusOf, StatefulSet
  <1> QED
    BY <1>1, <1>2, <1>3 DEF Still, PodMoves

\* So what a pass has behind it stays there.
LEMMA ClusterStepRest ==
    ASSUME ~ StaleReads, FreshInv, RestInv, ClusterStep PROVE RestInv'
  <1>1. /\ UNCHANGED <<tc, deleting, status, pass, timer, faults, checkpoint>>
        /\ queued => queued'
    BY ClusterStepEffect DEF ReconcilerUnchanged
  <1> SUFFICES ASSUME ~ Released, ~ queued' PROVE Going' \/ BehindPass'
    BY <1>1 DEF RestInv, Released, At
  <1>2. Going \/ BehindPass
    BY <1>1 DEF RestInv
  <1>3. tc \in Specs
    BY DEF Released, FreshInv, TypeOK
  <1>4. DOMAIN tc.nodes \subseteq Nodes /\ Main \in Nodes /\ Secondaries \subseteq Nodes
    BY <1>3, SpecType DEF Nodes
  <1>5. CASE Going
    BY <1>5, ClusterStepFrozen DEF Going
  <1>6. CASE BehindPass
    <2>1. /\ \A n \in Nodes : NodeApplied(n) => NodeApplied(n)'
          /\ NothingObsolete => NothingObsolete'
          /\ Blocked => Blocked'
          /\ \A s : Says(s) => Says(s)'
      BY <1>1, <1>4, ClusterStepFrozen DEF NodeApplied, NothingObsolete, Blocked, Says
    <2> QED
      BY <1>1, <1>4, <1>6, <2>1 DEF BehindPass, At, SecondaryNodes
  <1> QED
    BY <1>2, <1>5, <1>6

-------------------------------------------------------------------------------
(* The theorems *)

\* The operator starts with the object on its queue.
LEMMA InitRest == Init => RestInv
  BY DEF Init, ClusterInit, RestInv

\* Every step keeps what rest relies on.
LEMMA StepRest ==
    ASSUME ~ StaleReads, "read" \notin FaultKinds, FreshInv, RestInv, [Next]_vars
    PROVE  RestInv'
  <1>1. CASE OperatorStep \/ UpdateDeleted \/ ApiError
    <2>1. CASE FinalizeTeamCity
      BY <2>1, RestByQueue
      DEF FinalizeTeamCity, FreshInv, PassIsFresh, At, Released, userVars
    <2>2. CASE RemoveFinalizer
      BY <2>2, RestByQueue DEF RemoveFinalizer
    <2>3. CASE ApiError
      BY <2>3, RestByTimer DEF ApiError, FreshInv
    <2> QED
      BY <1>1, <2>1, <2>2, <2>3, StartPassRest, StagesRest, ApplyMainRest, ApplySecondaryRest,
         RecreatingRest, ListObsoleteRest, DeleteObsoleteRest, PreconditionsRest,
         ReportSuccessRest
      DEF OperatorStep
  <1>2. CASE TimerFires \/ UserStep \/ Crash
    BY <1>2, RestByQueue
    DEF TimerFires, UserStep, EditTeamCity, DeleteTeamCity, RecreateTeamCity, Crash
  <1>3. CASE UNCHANGED vars
    BY <1>3 DEF vars, RestInv, Released, Going, BehindPass, At, NodeApplied, NothingObsolete,
       Blocked, Says
  <1> QED
    BY <1>1, <1>2, <1>3, ClusterStepRest DEF Next

\* With fresh caches and reads that do not fail, a pass that no event overtakes works on
\* the object as it is, and what it has passed stays applied.
THEOREM RestInvariant ==
    ASSUME ~ StaleReads, "read" \notin FaultKinds
    PROVE  Spec => []RestInv
  <1>1. FreshInv /\ RestInv /\ [Next]_vars => RestInv'
    BY StepRest
  <1> QED
    BY <1>1, InitRest, FreshInvariant, PTL DEF Spec

\* Rest is what the object asks for, or a recreate is blocked, or going on.
LEMMA RestCases ==
    ASSUME FreshInv, RestInv, AtRest, ~ Released
    PROVE  \/ Going
           \/ Blocked /\ Says("Error")
           \/ /\ Says("Success") /\ checkpoint = NoCheckpoint
              /\ NothingObsolete /\ \A n \in DOMAIN tc.nodes : NodeApplied(n)
  BY DEF RestInv, BehindPass, AtRest

\* With fresh caches and reads that do not fail, no edit is lost: with nothing queued and
\* no StatefulSet going, every node of the spec has what the spec asks for and no other
\* StatefulSet is left, not even the replica of an upgrade; or a recreate is blocked.
THEOREM RestIsApplied ==
    ASSUME ~ StaleReads, "read" \notin FaultKinds
    PROVE  Spec => []RestMeansApplied
  <1>1. FreshInv /\ RestInv => RestMeansApplied
    <2> SUFFICES ASSUME FreshInv, RestInv, AtRest, ~ Released, ~ Going,
                        ~ (Blocked /\ Says("Error"))
                 PROVE  /\ Says("Success")
                        /\ \A n \in DOMAIN tc.nodes : NodeApplied(n)
                        /\ \A n \in Nodes \ DOMAIN tc.nodes : sts[n] = NoSts
      BY DEF RestMeansApplied, Released, Going, NodeApplied
    <2>1. /\ Says("Success") /\ checkpoint = NoCheckpoint
          /\ NothingObsolete /\ \A n \in DOMAIN tc.nodes : NodeApplied(n)
      BY RestCases
    <2>2. sts[Replica] = NoSts
      BY <2>1, StageValues DEF FreshInv, ReplicaWithinUpgrade
    <2>3. Main \in DOMAIN tc.nodes
      BY SpecType DEF Released, FreshInv, TypeOK
    <2> QED
      BY <2>1, <2>2, <2>3 DEF Nodes, NothingObsolete
  <1> QED
    BY <1>1, FreshInvariant, RestInvariant, PTL

-------------------------------------------------------------------------------
(* Upgrades that stall *)

\* An upgrade comes to rest before its end only for a recreate.
StalledOnlyByRecreate ==
    AtRest /\ ~ Released => checkpoint = NoCheckpoint \/ Blocked \/ Going

\* Whatever the edits: an upgrade that nothing will continue is stopped by a recreate
\* that is blocked or going on.
THEOREM UpgradeStallsOnlyByRecreate ==
    ASSUME ~ StaleReads, "read" \notin FaultKinds
    PROVE  Spec => []StalledOnlyByRecreate
  <1>1. FreshInv /\ RestInv => StalledOnlyByRecreate
    BY RestCases DEF StalledOnlyByRecreate
  <1> QED
    BY <1>1, FreshInvariant, RestInvariant, PTL

\* No edit changes the governing service of a node.
SteadyService(n) ==
    \A s, t \in Specs :
        n \in DOMAIN s.nodes \cap DOMAIN t.nodes => s.nodes[n].svc = t.nodes[n].svc

\* Then the node is never recreated.
NotRecreated(n) ==
    sts[n] # NoSts =>
        /\ ~ sts[n].terminating
        /\ \A s \in Specs : n \in DOMAIN s.nodes => sts[n].svc = s.nodes[n].svc

\* A builder that creates or configures gives its node the one service it ever has.
LEMMA BuiltNotRecreated ==
    ASSUME FreshInv, ~ At("idle"), NEW n \in DOMAIN pass.inst.nodes, Built(n),
           SteadyService(n), NotRecreated(n)
    PROVE  NotRecreated(n)'
  <1>1. n \in Nodes /\ sts \in [Nodes -> StatefulSet \cup {NoSts}] /\ pass.inst \in Specs
    BY MadeType, InstType DEF FreshInv, TypeOK, ClusterTypeOK
  <1>2. sts'[n] = Made(n)
    BY <1>1 DEF Built
  <1>3. CASE sts[n] = NoSts
    <2>1. sts'[n] = FreshStatefulSet(pass.inst.nodes[n])
      BY <1>2, <1>3 DEF Made
    <2>2. ~ sts'[n].terminating /\ sts'[n].svc = pass.inst.nodes[n].svc
      BY <2>1 DEF FreshStatefulSet
    <2> QED
      BY <1>1, <2>2 DEF NotRecreated, SteadyService
  <1>4. CASE sts[n] # NoSts
    <2>1. sts[n] \in StatefulSet
      BY <1>1, <1>4
    <2>2. sts'[n] = ConfigureStatefulSet(sts[n], pass.inst.nodes[n].template)
      BY <1>2, <1>4 DEF Made
    <2>3. sts'[n].terminating = sts[n].terminating /\ sts'[n].svc = sts[n].svc
      BY <2>1, <2>2 DEF ConfigureStatefulSet, StatefulSet
    <2> QED
      BY <1>4, <2>3 DEF NotRecreated
  <1> QED
    BY <1>3, <1>4

\* A builder never finds the serviceName of such a node changed.
LEMMA NoRecreateStarted ==
    ASSUME FreshInv, ~ At("idle"), NEW n, BuilderOf(n), NotRecreated(n)
    PROVE  ~ RecreateStarted(n)
  <1>1. pass.inst \in Specs
    BY InstType DEF FreshInv
  <1> QED
    BY <1>1 DEF RecreateStarted, NotRecreated, BuilderOf

\* A step of Kubernetes terminates nothing, and changes no service.
LEMMA ClusterStepNotRecreated ==
    ASSUME ~ StaleReads, FreshInv, ClusterStep, NEW n \in Nodes, NotRecreated(n)
    PROVE  NotRecreated(n)'
  <1> SUFFICES ASSUME sts'[n] # NoSts
               PROVE  /\ sts[n] # NoSts /\ sts'[n].terminating = sts[n].terminating
                      /\ sts'[n].svc = sts[n].svc
    BY DEF NotRecreated
  <1>1. Still(n) \/ StatusLands(n) \/ PodMoves(n)
    BY ClusterStepEffect DEF Vanishes
  <1>2. CASE StatusLands(n)
    <2>1. sts[n] \in StatefulSet
      BY <1>2 DEF StatusLands, FreshInv, TypeOK, ClusterTypeOK
    <2> QED
      BY <1>2, <2>1 DEF StatusLands, StatusOf, StatefulSet
  <1> QED
    BY <1>1, <1>2 DEF Still, PodMoves

\* A node whose service never changes is never recreated.
LEMMA StepNotRecreated ==
    ASSUME ~ StaleReads, FreshInv, [Next]_vars,
           NEW n \in Nodes \ {Replica}, SteadyService(n), NotRecreated(n)
    PROVE  NotRecreated(n)'
  <1>1. CASE sts'[n] = sts[n] \/ sts'[n] = NoSts
    BY <1>1 DEF NotRecreated
  <1>2. CASE BuilderStep
    <2>1. ~ At("idle") /\ sts \in [Nodes -> StatefulSet \cup {NoSts}]
      BY <1>2, BuilderStepEffect DEF FreshInv, TypeOK, ClusterTypeOK
    <2>2. ASSUME NEW m \in Nodes \ {n}, Built(m) \/ RecreateStarted(m)
          PROVE  sts'[n] = sts[n]
      BY <2>1, <2>2 DEF Built, RecreateStarted
    <2>3. ASSUME BuilderOf(n), Built(n) \/ RecreateStarted(n) PROVE NotRecreated(n)'
      BY <2>1, <2>3, NoRecreateStarted, BuiltNotRecreated DEF BuilderOf
    <2> QED
      BY <1>1, <1>2, <2>2, <2>3, BuilderStepEffect
  <1>3. CASE DeleteObsolete
    BY <1>1, <1>3, DeleteObsoleteEffect DEF Still
  <1>4. CASE ~ BuilderStep /\ ~ ClusterStep /\ ~ DeleteObsolete
    BY <1>1, <1>4, NodesElsewhere DEF Still
  <1> QED
    BY <1>2, <1>3, <1>4, ClusterStepNotRecreated

\* Every node starts without a StatefulSet.
LEMMA InitNotRecreated ==
    ASSUME NEW n \in Nodes PROVE Init => NotRecreated(n)
  BY DEF Init, ClusterInit, NotRecreated

\* If no edit changes a governing service, no upgrade stalls: with nothing queued and the
\* caches up to date there is no checkpoint, for every pass of an upgrade leaves a timer.
THEOREM NoUpgradeStalls ==
    ASSUME ~ StaleReads, "read" \notin FaultKinds,
           \A n \in Nodes \ {Replica} : SteadyService(n)
    PROVE  Spec => []NoStalledUpgrade
  <1> DEFINE NothingRecreated == \A n \in Nodes \ {Replica} : NotRecreated(n)
  <1>1. Init => NothingRecreated
    BY InitNotRecreated
  <1>2. FreshInv /\ NothingRecreated /\ [Next]_vars => NothingRecreated'
    BY StepNotRecreated
  <1>3. FreshInv /\ NothingRecreated /\ StalledOnlyByRecreate => NoStalledUpgrade
    <2> SUFFICES ASSUME FreshInv, NothingRecreated, ~ Released PROVE ~ Blocked /\ ~ Going
      BY DEF StalledOnlyByRecreate, NoStalledUpgrade, Released
    <2>1. ~ Going
      BY DEF FreshInv, NotRecreated, Going
    <2>2. tc \in Specs
      BY DEF Released, FreshInv, TypeOK
    <2> QED
      BY <2>1, <2>2, SpecType DEF NotRecreated, Blocked
  <1> HIDE DEF NothingRecreated
  <1> QED
    BY <1>1, <1>2, <1>3, FreshInvariant, UpgradeStallsOnlyByRecreate, PTL DEF Spec
===============================================================================
