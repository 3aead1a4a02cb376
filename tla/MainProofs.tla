------------------------------- MODULE MainProofs ------------------------------
(***************************************************************************)
(* The main node and the others.  The secondaries wait until it has rolled  *)
(* out (validatePreconditions): a proof for caches that follow every write  *)
(* at once, whatever the edits, recreates, crashes and faults.  The replica *)
(* covers for the main node of a cluster of one while it is changed         *)
(* (HandleReplicaReady, which lets the builders run), unless it was itself  *)
(* changed after it was made: a proof for such caches, reads that do not    *)
(* fail and objects that carry the finalizer.                               *)
(***************************************************************************)
EXTENDS RestProofs

\* With fresh caches, what is where, and of which type.
LEMMA Typed ==
    ASSUME FreshInv
    PROVE  /\ sts \in [Nodes -> StatefulSet \cup {NoSts}] /\ pod \in [Nodes -> Pod \cup {NoPod}]
           /\ Main \in Nodes /\ Main # Replica /\ Replica \in Nodes
           /\ Secondaries \subseteq Nodes \ {Main, Replica}
           /\ pass \in Pass /\ (tc # NoTC => tc \in Specs) /\ checkpoint \in MaybeStage
           /\ stsSeen = sts /\ cmSeen = checkpoint
  BY NodesAssumption DEF FreshInv, TypeOK, ClusterTypeOK, PassIsFresh, CachesSynced, Nodes

-------------------------------------------------------------------------------
(* The secondaries wait for the main node *)

\* A step that leaves the main node alone, and goes on to what relies on it only if it has
\* been seen as it is.
LEMMA MainLeftAlone ==
    ASSUME RolloutSeen, sts'[Main] = sts[Main],
           sts[Main] # NoSts =>
              /\ pass'.pc = "mainFinished" /\ pass'.mark => sts[Main].observed
              /\ pass'.pc = "secondaries" \/ (pass'.pc = "recreating" /\ pass'.node # Main) =>
                    MainRolledOut
    PROVE  RolloutSeen'
  BY DEF RolloutSeen, MainRolledOut, At

\* A status can only say that more of the main node has rolled out.
LEMMA ClusterStepRollout ==
    ASSUME ~ StaleReads, FreshInv, RolloutSeen, ClusterStep
    PROVE  RolloutSeen'
  <1>1. UNCHANGED pass
    BY ClusterStepEffect DEF ReconcilerUnchanged
  <1>2. Still(Main) \/ StatusLands(Main) \/ PodMoves(Main) \/ Vanishes(Main)
    BY ClusterStepEffect, Typed
  <1>3. CASE StatusLands(Main)
    <2>1. /\ sts[Main] \in StatefulSet /\ sts[Main] # NoSts
          /\ sts'[Main] = StatusOf(sts[Main], pod[Main])
      BY <1>3, Typed DEF StatusLands
    <2>2. /\ sts'[Main].observed /\ sts'[Main].template = sts[Main].template
          /\ sts'[Main].update = sts[Main].template
          /\ sts'[Main].current \in {sts[Main].current, sts[Main].template}
      BY <2>1 DEF StatusOf, StatefulSet
    <2> QED
      BY <1>1, <2>1, <2>2 DEF RolloutSeen, MainRolledOut, At
  <1>4. CASE sts'[Main] = NoSts
    BY <1>4 DEF RolloutSeen
  <1>5. CASE sts'[Main] = sts[Main]
    BY <1>1, <1>5 DEF RolloutSeen, MainRolledOut, At
  <1> QED
    BY <1>2, <1>3, <1>4, <1>5 DEF Still, PodMoves, Vanishes

\* The main node's own builder leaves a status that is not of the newest generation, if it
\* changes anything; the others leave the main node alone.
LEMMA BuilderStepRollout ==
    ASSUME ~ StaleReads, FreshInv, RolloutSeen, BuilderStep
    PROVE  RolloutSeen'
  <1>1. /\ ~ At("idle") /\ pass \in Pass /\ Main \in Nodes
        /\ sts \in [Nodes -> StatefulSet \cup {NoSts}]
    BY BuilderStepEffect, Typed
  <1>2. CASE UNCHANGED sts /\ PassLeaves
    BY <1>2, MainLeftAlone DEF PassLeaves
  <1>3. ASSUME NEW n \in Nodes \ {Main}, BuilderOf(n), Built(n) \/ RecreateStarted(n)
        PROVE  RolloutSeen'
    <2>1. sts'[Main] = sts[Main] /\ pass'.pc # "mainFinished"
      BY <1>1, <1>3 DEF Built, RecreateStarted, AfterNode, Pass
    <2>2. sts[Main] # NoSts => MainRolledOut
      BY <1>3 DEF BuilderOf, RolloutSeen, At
    <2> QED
      BY <2>1, <2>2, MainLeftAlone
  <1>4. CASE BuilderOf(Main) /\ Built(Main)
    <2>1. pass'.pc = "listObsolete" /\ sts'[Main] = Made(Main)
      BY <1>1, <1>4 DEF Built, AfterNode, Pass
    <2>2. Made(Main).observed => Made(Main).update = Made(Main).template
      <3>1. CASE sts[Main] = NoSts
        BY <3>1 DEF Made, FreshStatefulSet
      <3>2. CASE sts[Main] # NoSts
        <4>1. sts[Main] \in StatefulSet
          BY <1>1, <3>2
        <4> QED
          BY <3>2, <4>1 DEF Made, ConfigureStatefulSet, StatefulSet, RolloutSeen
      <3> QED
        BY <3>1, <3>2
    <2> QED
      BY <2>1, <2>2 DEF RolloutSeen, At
  <1>5. CASE BuilderOf(Main) /\ RecreateStarted(Main)
    <2>1. /\ pass'.pc = "recreating" /\ pass'.node = Main
          /\ sts[Main] \in StatefulSet /\ sts[Main] # NoSts
          /\ sts'[Main] = MarkForDeletion(sts[Main])
      BY <1>1, <1>5 DEF RecreateStarted, Pass
    <2>2. /\ sts'[Main].observed => sts[Main].observed
          /\ sts'[Main].update = sts[Main].update /\ sts'[Main].template = sts[Main].template
      BY <2>1 DEF MarkForDeletion, StatefulSet
    <2> QED
      BY <2>1, <2>2 DEF RolloutSeen, At
  <1> QED
    BY <1>2, <1>3, <1>4, <1>5, BuilderStepEffect

\* The two reads of validatePreconditions: a status of the newest generation whose
\* revisions agree has rolled out the template.
LEMMA PreconditionsRollout ==
    ASSUME FreshInv, RolloutSeen, CheckPreconditionGeneration \/ CheckPreconditionFinished
    PROVE  RolloutSeen'
  <1>1. UNCHANGED sts /\ pass \in Pass /\ stsSeen = sts
    BY Typed DEF CheckPreconditionGeneration, CheckPreconditionFinished
  <1>2. CASE CheckPreconditionGeneration
    <2>1. pass'.pc = "mainFinished" /\ pass'.mark = IsNewestGeneration(sts[Main])
      BY <1>1, <1>2 DEF CheckPreconditionGeneration, Continue, Pass
    <2> QED
      BY <1>1, <2>1, MainLeftAlone DEF IsNewestGeneration
  <1>3. CASE CheckPreconditionFinished
    <2>1. CASE RequeueAfter
      BY <1>1, <2>1, IdlePassType, MainLeftAlone DEF RequeueAfter
    <2>2. CASE /\ pass.mark /\ IsNodeUpdateFinished(sts[Main])
               /\ Continue([pass EXCEPT !.pc = "secondaries", !.mark = FALSE,
                              !.todo = SecondaryNodes(pass.inst)])
      <3>1. pass'.pc = "secondaries"
        BY <1>1, <2>2 DEF Continue, Pass
      <3>2. MainRolledOut
        BY <1>3, <2>2
        DEF CheckPreconditionFinished, RolloutSeen, IsNodeUpdateFinished, MainRolledOut
      <3> QED
        BY <1>1, <3>1, <3>2, MainLeftAlone
    <2> QED
      BY <1>1, <1>3, <2>1, <2>2 DEF CheckPreconditionFinished
  <1> QED
    BY <1>2, <1>3

\* No other step of a pass touches the main node, or leads to a step that relies on it.
LEMMA OtherPassStepRollout ==
    ASSUME ~ StaleReads, FreshInv, RolloutSeen, [Next]_vars,
           OtherPassStep, ~ BuilderStep, ~ ClusterStep
    PROVE  RolloutSeen'
  <1>1. sts'[Main] = sts[Main]
    <2>1. CASE DeleteObsolete
      BY <2>1, Typed, DeleteObsoleteEffect DEF Still
    <2>2. CASE ~ DeleteObsolete
      BY <2>2, Typed, NodesElsewhere DEF Still
    <2> QED
      BY <2>1, <2>2
  <1> QED
    BY <1>1, OtherPassStepEffect, MainLeftAlone

\* Neither the queue nor the user touches the main node.
LEMMA QueueRollout ==
    ASSUME FreshInv, RolloutSeen,
           StartPass \/ RemoveFinalizer \/ TimerFires \/ UserStep \/ Crash \/ UNCHANGED vars
    PROVE  RolloutSeen'
  <1>1. UNCHANGED sts
    BY DEF StartPass, RemoveFinalizer, TimerFires, UserStep, EditTeamCity, DeleteTeamCity,
       RecreateTeamCity, Crash, vars
  <1>2. CASE UNCHANGED pass
    BY <1>1, <1>2 DEF RolloutSeen, MainRolledOut, At
  <1>3. CASE pass'.pc \in {"idle", "finalize", "ongoing"}
    BY <1>1, <1>3, MainLeftAlone
  <1> QED
    BY <1>2, <1>3, IdlePassType
    DEF StartPass, RemoveFinalizer, TimerFires, UserStep, EditTeamCity, DeleteTeamCity,
        RecreateTeamCity, Crash, vars, Done, IdlePass

\* What a builder does to another node, no step of the cluster or of the rest of a pass
\* does: make a StatefulSet of a secondary, or give it another template.
LEMMA StepSecondary ==
    ASSUME ~ StaleReads, FreshInv, RolloutSeen, [Next]_vars,
           NEW n \in Secondaries, Applies(n), sts[Main] # NoSts
    PROVE  MainRolledOut
  <1>1. n \in Nodes /\ n # Main /\ n # Replica /\ sts'[n] # NoSts
    BY Typed DEF Applies
  <1>2. sts'[n] # sts[n]
    BY DEF Applies
  <1>3. CASE ClusterStep
    <2>1. sts[n] # NoSts /\ sts'[n] = StatusOf(sts[n], pod[n])
      BY <1>1, <1>2, <1>3, ClusterStepEffect DEF Still, StatusLands, PodMoves, Vanishes
    <2>2. sts[n] \in StatefulSet
      BY <1>1, <2>1, Typed
    <2> QED
      BY <2>1, <2>2 DEF StatusOf, StatefulSet, Applies
  <1>4. ~ DeleteObsolete
    BY <1>1, <1>2, DeleteObsoleteEffect DEF Still
  <1>5. CASE BuilderStep
    <2>1. PICK m \in Nodes : BuilderOf(m) /\ (Built(m) \/ RecreateStarted(m))
      BY <1>2, <1>5, BuilderStepEffect
    <2>2. BuilderOf(n)
      BY <1>1, <1>2, <2>1, Typed DEF Built, RecreateStarted
    <2> QED
      BY <1>1, <2>2 DEF BuilderOf, RolloutSeen, At
  <1> QED
    BY <1>1, <1>2, <1>3, <1>4, <1>5, NodesElsewhere DEF Still

\* With fresh caches, whatever the edits, recreates, crashes and failing calls: what the
\* two reads of validatePreconditions say together of the main node is so, and stays so
\* until the secondaries are done, unless its StatefulSet goes.
THEOREM RolloutInvariant ==
    ASSUME ~ StaleReads
    PROVE  Spec => []RolloutSeen
  <1>1. Init => RolloutSeen
    BY NodesAssumption DEF Init, ClusterInit, RolloutSeen, Nodes
  <1>2. FreshInv /\ RolloutSeen /\ [Next]_vars => RolloutSeen'
    BY StepCases, BuilderStepRollout, ClusterStepRollout, OtherPassStepRollout,
       PreconditionsRollout, QueueRollout
  <1> QED
    BY <1>1, <1>2, FreshInvariant, PTL DEF Spec

\* So no secondary is created or changed before the main node's newest template is rolled
\* out, by the status of its newest generation.
THEOREM SecondariesWaitForRollout ==
    ASSUME ~ StaleReads
    PROVE  Spec => SecondariesFollowRollout
  <1> DEFINE Waited == \A n \in Secondaries : Applies(n) /\ sts[Main] # NoSts => MainRolledOut
  <1>1. FreshInv /\ RolloutSeen /\ [Next]_vars => [Waited]_vars
    BY StepSecondary
  <1> HIDE DEF Waited
  <1> QED
    BY <1>1, FreshInvariant, RolloutInvariant, PTL DEF Spec, SecondariesFollowRollout, Waited

-------------------------------------------------------------------------------
(* The replica *)

\* While the checkpoint stays, the replica fits as long as it is left alone.
LEMMA ReplicaLeftAlone ==
    ASSUME ReplicaFits, Still(Replica), UNCHANGED checkpoint
    PROVE  ReplicaFits' /\ (ReplicaCovers => ReplicaCovers')
  BY DEF ReplicaFits, ReplicaPod, ReplicaCovers, ReplicaUp, ReplicaChanged, Still

\* A status of the replica says it is ready only if its pod is.
LEMMA ReplicaStatus ==
    ASSUME FreshInv, ReplicaPod, StatusLands(Replica)
    PROVE  ReplicaPod' /\ (ReplicaCovers => ReplicaCovers') /\ sts[Replica] # NoSts
  <1>1. /\ sts[Replica] # NoSts /\ sts[Replica] \in StatefulSet
        /\ pod[Replica] \in Pod \cup {NoPod}
        /\ sts'[Replica] = StatusOf(sts[Replica], pod[Replica]) /\ pod'[Replica] = pod[Replica]
    BY DEF StatusLands, FreshInv, TypeOK, ClusterTypeOK, Nodes
  <1>2. /\ sts'[Replica].template = sts[Replica].template
        /\ sts'[Replica].ready = (pod[Replica] # NoPod /\ pod[Replica].ready)
        /\ sts'[Replica].changed = sts[Replica].changed
    BY <1>1 DEF StatusOf, StatefulSet
  <1>3. sts'[Replica] # NoSts
    BY <1>1, StatusType, AbsenceAssumption
  <1> QED
    BY <1>1, <1>2, <1>3 DEF ReplicaPod, ReplicaCovers, ReplicaUp, ReplicaChanged

\* Until it is changed its pod has its template, so that the controller does not replace it.
LEMMA ReplicaPodMoves ==
    ASSUME FreshInv, ReplicaPod, PodMoves(Replica)
    PROVE  ReplicaPod' /\ (ReplicaCovers => ReplicaCovers') /\ sts'[Replica] = sts[Replica]
  <1>1. /\ sts'[Replica] = sts[Replica] /\ pod[Replica] \in Pod \cup {NoPod}
        /\ sts[Replica] # NoSts => ~ sts[Replica].terminating
        /\ sts[Replica] \in StatefulSet \cup {NoSts}
    BY DEF PodMoves, FreshInv, TypeOK, ClusterTypeOK, Nodes
  <1>2. CASE /\ sts[Replica] # NoSts /\ pod[Replica] = NoPod
             /\ pod'[Replica] = [template |-> sts[Replica].template, ready |-> FALSE]
    BY <1>1, <1>2 DEF ReplicaPod, ReplicaCovers, ReplicaUp, ReplicaChanged
  <1>3. CASE pod[Replica] # NoPod /\ pod'[Replica] = [pod[Replica] EXCEPT !.ready = TRUE]
    <2>1. /\ pod'[Replica].template = pod[Replica].template /\ pod'[Replica].ready
          /\ pod'[Replica] \in Pod
      BY <1>1, <1>3 DEF Pod
    <2> QED
      BY <1>1, <1>3, <2>1, AbsenceAssumption
      DEF ReplicaPod, ReplicaCovers, ReplicaUp, ReplicaChanged
  <1>4. CASE ReplicaChanged
    BY <1>1, <1>4 DEF ReplicaPod, ReplicaCovers, ReplicaChanged
  <1> QED
    BY <1>1, <1>2, <1>3, <1>4 DEF PodMoves, ReplicaPod, ReplicaChanged

\* No step of Kubernetes takes the replica away while the object exists.
LEMMA ClusterStepCover ==
    ASSUME ~ StaleReads, HasFinalizer, FreshInv, FinalizerInv, CoverInv, ClusterStep
    PROVE  CoverInv'
  <1>1. UNCHANGED <<tc, deleting, pass, checkpoint>>
    BY ClusterStepEffect DEF ReconcilerUnchanged
  <1>2. Still(Replica) \/ StatusLands(Replica) \/ PodMoves(Replica) \/ Vanishes(Replica)
    BY ClusterStepEffect DEF Nodes
  <1>3. tc = NoTC => checkpoint = NoCheckpoint /\ At("idle")
    BY DEF FinalizerInv
  <1>4. /\ ReplicaPod' /\ (sts'[Replica] # NoSts => sts[Replica] # NoSts)
        /\ tc # NoTC /\ ReplicaCovers => ReplicaCovers'
    <2>1. CASE Still(Replica)
      BY <1>1, <2>1, ReplicaLeftAlone DEF Still, CoverInv, ReplicaFits
    <2>2. CASE StatusLands(Replica)
      BY <2>2, ReplicaStatus DEF CoverInv, ReplicaFits
    <2>3. CASE PodMoves(Replica)
      BY <2>3, ReplicaPodMoves DEF CoverInv, ReplicaFits
    <2>4. CASE Vanishes(Replica)
      BY <2>4 DEF Vanishes, ReplicaPod, FreshInv
    <2> QED
      BY <1>2, <2>1, <2>2, <2>3, <2>4
  <1>5. ReplicaFits'
    BY <1>1, <1>3, <1>4, StageValues DEF CoverInv, ReplicaFits
  <1>6. CoverPass'
    BY <1>1, <1>3, <1>4 DEF CoverInv, CoverPass, Released, At, AtOnlyNode
  <1> QED
    BY <1>5, <1>6 DEF CoverInv

-------------------------------------------------------------------------------
(* The stages and the builders *)

\* Steps that keep the checkpoint, end a pass or go on among the builders, and never go
\* back to the main node's.
LEMMA PassGoesOn ==
    ASSUME CoverInv, Still(Replica), UNCHANGED <<checkpoint, tc, deleting>>,
           \/ pass'.pc = "idle"
           \/ pass.pc \in BuilderPC /\ pass'.pc \in BuilderPC \ {"main"}
    PROVE  CoverInv'
  <1>1. ReplicaFits' /\ sts'[Replica] = sts[Replica]
    BY ReplicaLeftAlone DEF CoverInv, Still
  <1>2. CoverPass'
    BY <1>1 DEF CoverInv, CoverPass, Released, At, AtOnlyNode, BuilderPC
  <1> QED
    BY <1>1, <1>2 DEF CoverInv

\* A stage whose handler ends the pass with a checkpoint.
LEMMA CheckpointCover ==
    ASSUME ~ StaleReads, FreshInv, CoverInv, ~ At("idle"),
           NEW desired \in Stage, CheckpointAndRequeue(desired),
           UNCHANGED <<sts, pod, tc, deleting>>,
           desired = UpdateFinished => sts[Replica] = NoSts,
           desired = ReplicaReady => ReplicaCovers
    PROVE  CoverInv'
  <1>1. checkpoint' \in {checkpoint, desired}
    BY FreshDoCheckpoint DEF CheckpointAndRequeue
  <1>2. At("idle")'
    BY IdlePassType DEF CheckpointAndRequeue, RequeueAfter, Retry, At
  <1>3. desired # NoCheckpoint
    BY DEF Stage, UpdateInitiated, UpdateFinished, NoCheckpoint
  <1>4. ReplicaFits'
    BY <1>1 DEF CoverInv, ReplicaFits, ReplicaPod, ReplicaCovers, ReplicaUp, ReplicaChanged
  <1>5. CoverPass'
    BY <1>1, <1>2, <1>3 DEF CoverInv, CoverPass, Released, At, AtOnlyNode, BuilderPC
  <1> QED
    BY <1>4, <1>5 DEF CoverInv

\* The replica is made before ReplicaCreated is left, and ReplicaReady is persisted when
\* its pod is ready.
LEMMA StagesCover ==
    ASSUME ~ StaleReads, FreshInv, CoverInv,
           \/ HandleUpdateInitiated \/ AdvanceCheckpoint \/ HandleReplicaStarting
           \/ CheckMainGeneration
    PROVE  CoverInv'
  <1> USE StageValues
  <1>1. /\ ~ At("idle") /\ UNCHANGED <<sts, pod, tc, deleting>> /\ stsSeen = sts
    BY DEF HandleUpdateInitiated, AdvanceCheckpoint, HandleReplicaStarting,
       CheckMainGeneration, AtStage, At, userVars, FreshInv, PassIsFresh,
       CachesSynced
  <1>2. CASE HandleUpdateInitiated
    BY <1>1, <1>2, CheckpointCover, StageNumbers DEF HandleUpdateInitiated
  <1>3. CASE AdvanceCheckpoint
    <2>1. /\ pass.stage = checkpoint /\ checkpoint \in {ReplicaCreated, MainReady}
          /\ checkpoint = MainReady => sts[Replica] = NoSts
      BY <1>3 DEF AdvanceCheckpoint, At, FreshInv, TypeOK, PassTypeOK, PassIsFresh
    <2>2. /\ pass.stage + 1 \in Stage /\ pass.stage + 1 # ReplicaReady
          /\ pass.stage + 1 = UpdateFinished => sts[Replica] = NoSts
      BY <2>1 DEF Stage
    <2> QED
      BY <1>1, <1>3, <2>2, CheckpointCover DEF AdvanceCheckpoint
  <1>4. CASE HandleReplicaStarting \/ CheckMainGeneration
    <2>1. CASE (Retry \/ RequeueAfter) /\ UNCHANGED checkpoint
      BY <1>1, <2>1, IdlePassType, PassGoesOn DEF Retry, RequeueAfter, Still
    <2>2. CASE /\ CheckpointAndRequeue(ReplicaReady)
               /\ sts[Replica] # NoSts /\ sts[Replica].ready
      BY <1>1, <2>2, CheckpointCover, StageNumbers
      DEF CoverInv, ReplicaFits, ReplicaPod, ReplicaCovers, ReplicaChanged
    <2>3. CASE CheckpointAndRequeue(MainReady)
      BY <1>1, <2>3, CheckpointCover, StageNumbers
    <2> QED
      BY <1>1, <1>4, <2>1, <2>2, <2>3
      DEF HandleReplicaStarting, CheckMainGeneration, WaitForNextPass, ReplicaIsAvailable
  <1> QED
    BY <1>2, <1>3, <1>4

\* HandleReplicaCreated makes the replica, or finds it made for the same spec, or changes
\* it; nothing else moves.
ReplicaIsMade ==
    /\ sts[Replica] = NoSts /\ sts'[Replica] # NoSts
    /\ sts'[Replica].template = ReplicaTemplate(sts[Main])
    /\ ~ sts'[Replica].ready /\ ~ sts'[Replica].changed

LEMMA HandleReplicaCreatedEffect ==
    ASSUME ~ StaleReads, FreshInv, HandleReplicaCreated
    PROVE  /\ UNCHANGED <<pod, tc, deleting, checkpoint, cmSeen>>
           /\ checkpoint = ReplicaCreated /\ pass.inst \in Specs
           /\ \A n \in Nodes \ {Replica} : Still(n)
           /\ \/ Still(Replica) /\ pass'.pc = "idle"
              \/ /\ pass'.pc = "advance" /\ pass'.inst = pass.inst /\ sts[Main] # NoSts
                 /\ \/ Still(Replica)
                    \/ ReplicaIsMade
                    \/ /\ ReplicaChanged' /\ sts[Replica] # NoSts
                       /\ sts[Replica].template # ReplicaTemplate(sts[Main])
  <1> USE StageValues
  <1>1. /\ checkpoint = ReplicaCreated /\ UNCHANGED <<pod, checkpoint, cmSeen, tc, deleting>>
        /\ stsSeen = sts /\ pass \in Pass /\ pass.inst \in Specs
        /\ sts \in [Nodes -> StatefulSet \cup {NoSts}] /\ Replica \in Nodes
    BY Typed, InstType
    DEF HandleReplicaCreated, AtStage, At, userVars, FreshInv, PassIsFresh
  <1>2. CASE Retry /\ UNCHANGED sts
    BY <1>1, <1>2, IdlePassType DEF Retry, Still
  <1>3. CASE pass' = [pass EXCEPT !.pc = "advance"] /\ sts[Main] # NoSts
    <2> DEFINE copied == ReplicaTemplate(sts[Main])
               copy == FreshStatefulSet([template |-> copied, svc |-> NoService])
               new == [sts EXCEPT ![Replica] =
                         IF sts[Replica] = NoSts THEN copy
                         ELSE ConfigureStatefulSet(sts[Replica], copied)]
    <2>1. pass'.pc = "advance" /\ pass'.inst = pass.inst
      BY <1>1, <1>3 DEF Pass
    <2>2. sts' = new \/ UNCHANGED sts
      BY <1>1, <1>3, FreshStatefulSets DEF HandleReplicaCreated
    <2>3. copied \in Template
      <3>1. TypeOK /\ ~ At("idle") /\ sts[Main] \in StatefulSet
        BY <1>1, <1>3, Typed DEF FreshInv, HandleReplicaCreated, AtStage, At
      <3> QED
        BY <3>1, ReplicaTemplateType
    <2> HIDE DEF copied
    <2>4. CASE UNCHANGED sts
      BY <1>1, <1>3, <2>1, <2>4 DEF Still
    <2>5. CASE sts' = new
      <3>1. \A n \in Nodes \ {Replica} : Still(n)
        BY <1>1, <2>5 DEF Still
      <3>2. CASE sts[Replica] = NoSts
        <4>1. copy \in StatefulSet /\ copy.template = copied /\ ~ copy.ready /\ ~ copy.changed
          BY <2>3, FreshType DEF FreshStatefulSet, Service
        <4>2. sts'[Replica] = copy /\ copy # NoSts
          BY <1>1, <2>5, <3>2, <4>1, AbsenceAssumption
        <4> QED
          BY <1>1, <1>3, <2>1, <3>1, <3>2, <4>1, <4>2 DEF ReplicaIsMade, copied
      <3>3. CASE sts[Replica] # NoSts
        <4>1. /\ sts[Replica] \in StatefulSet
              /\ sts'[Replica] = ConfigureStatefulSet(sts[Replica], copied)
          BY <1>1, <2>5, <3>3
        <4>2. CASE sts[Replica].template = copied
          BY <1>1, <1>3, <2>1, <3>1, <4>1, <4>2 DEF ConfigureStatefulSet, Still
        <4>3. CASE sts[Replica].template # copied
          <5>1. sts'[Replica] \in StatefulSet
            BY <2>3, <4>1, ConfiguredType
          <5>2. sts'[Replica].changed
            BY <4>1, <4>3 DEF ConfigureStatefulSet, StatefulSet
          <5>3. ReplicaChanged'
            BY <5>1, <5>2, AbsenceAssumption DEF ReplicaChanged
          <5> QED
            BY <1>1, <1>3, <2>1, <3>1, <3>3, <4>3, <5>3 DEF copied
        <4> QED
          BY <4>2, <4>3
      <3> QED
        BY <3>2, <3>3
    <2> QED
      BY <2>2, <2>4, <2>5
  <1> QED
    BY <1>1, <1>2, <1>3 DEF HandleReplicaCreated

\* While the upgrade is at ReplicaCreated nothing rests on the replica yet.
LEMMA HandleReplicaCreatedCover ==
    ASSUME ~ StaleReads, FreshInv, CoverInv, HandleReplicaCreated
    PROVE  CoverInv'
  <1> USE StageValues
  <1>1. /\ UNCHANGED <<pod, checkpoint>> /\ checkpoint = ReplicaCreated
        /\ pass'.pc \in {"idle", "advance"}
        /\ Still(Replica) \/ ReplicaIsMade \/ ReplicaChanged'
    BY HandleReplicaCreatedEffect
  <1>2. CoverPass'
    BY <1>1 DEF CoverPass, At, AtOnlyNode, BuilderPC
  <1>3. ReplicaPod'
    BY <1>1 DEF CoverInv, ReplicaFits, ReplicaPod, ReplicaUp, ReplicaChanged, ReplicaIsMade, Still
  <1> QED
    BY <1>1, <1>2, <1>3 DEF CoverInv, ReplicaFits

\* HandleMainReady takes the replica away, with its pod.
LEMMA HandleMainReadyCover ==
    ASSUME ~ StaleReads, "read" \notin FaultKinds, FreshInv, CoverInv, HandleMainReady
    PROVE  CoverInv'
  <1> USE StageValues
  <1>1. /\ checkpoint = MainReady /\ UNCHANGED <<checkpoint, tc, deleting>> /\ pass \in Pass
        /\ sts \in [Nodes -> StatefulSet \cup {NoSts}] /\ pod \in [Nodes -> Pod \cup {NoPod}]
        /\ Replica \in Nodes
    BY DEF HandleMainReady, AtStage, userVars, FreshInv, TypeOK, ClusterTypeOK,
       PassIsFresh, Nodes
  <1>2. pass' = [pass EXCEPT !.pc = "advance"]
    BY DEF HandleMainReady, Fault
  <1>3. pass'.pc = "advance"
    BY <1>1, <1>2 DEF Pass
  <1>4. CoverPass'
    BY <1>1, <1>3 DEF CoverPass, At, AtOnlyNode, BuilderPC
  <1>5. \/ UNCHANGED <<sts, pod>>
        \/ sts' = [sts EXCEPT ![Replica] = NoSts] /\ pod' = [pod EXCEPT ![Replica] = NoPod]
    BY FreshStatefulSets DEF HandleMainReady, Fault
  <1>6. ReplicaPod'
    BY <1>1, <1>5 DEF CoverInv, ReplicaFits, ReplicaPod, ReplicaCovers, ReplicaUp, ReplicaChanged
  <1> QED
    BY <1>1, <1>4, <1>6 DEF CoverInv, ReplicaFits

\* An upgrade is detected exactly if there is a checkpoint, and one that starts without
\* starts with the replica unless the cluster has other nodes.
LEMMA DetectionCover ==
    ASSUME "read" \notin FaultKinds, FreshInv, CoverInv,
           DetectUpgrade \/ PerformZeroDowntimeUpgrade
    PROVE  CoverInv'
  <1> USE StageValues
  <1>1. /\ UNCHANGED <<sts, pod, checkpoint, tc, deleting>> /\ cmSeen = checkpoint
        /\ pass \in Pass /\ pass.pc \in {"ongoing", "upgrade"}
    BY DEF DetectUpgrade, PerformZeroDowntimeUpgrade, At, userVars, FreshInv, TypeOK,
       PassIsFresh, CachesSynced
  <1>2. /\ pass.stage = NoCheckpoint
        /\ checkpoint = NoCheckpoint => sts[Replica] = NoSts
    BY <1>1 DEF CoverInv, CoverPass
  <1>3. CASE DetectUpgrade
    <2>1. /\ pass'.mark = (checkpoint # NoCheckpoint) /\ pass'.stage = pass.stage
          /\ pass'.pc = "upgrade" \/ (pass'.pc = "main" /\ checkpoint = NoCheckpoint)
      BY <1>1, <1>3 DEF DetectUpgrade, ReadOngoing, OngoingZeroDowntimeUpgrade, Fault,
         Continue, Pass
    <2>2. CoverPass'
      BY <1>1, <1>2, <2>1 DEF CoverPass, At, AtOnlyNode, BuilderPC
    <2> QED
      BY <1>1, <2>2, ReplicaLeftAlone DEF CoverInv, Still
  <1>4. CASE PerformZeroDowntimeUpgrade
    <2>1. pass.mark = (checkpoint # NoCheckpoint)
      BY <1>4 DEF PerformZeroDowntimeUpgrade, CoverInv, CoverPass
    <2>2. \/ /\ pass'.pc = "stage" /\ pass'.inst = pass.inst
             /\ pass'.stage = IF checkpoint # NoCheckpoint THEN checkpoint
                              ELSE InitialStage(IsMultiNode(pass.inst))
          \/ pass'.pc = "main" /\ pass'.stage = pass.stage /\ checkpoint = NoCheckpoint
      BY <1>1, <1>4, <2>1 DEF PerformZeroDowntimeUpgrade, Fault, Continue, Pass
    <2>3. CoverPass'
      BY <1>1, <1>2, <2>2 DEF CoverPass, At, AtOnlyNode, BuilderPC, InitialStage
    <2> QED
      BY <1>1, <2>3, ReplicaLeftAlone DEF CoverInv, Still
  <1> QED
    BY <1>3, <1>4

\* A pass of a cluster of one that acts on ReplicaReady has found it persisted, and the
\* replica is up.
LEMMA HandleReplicaReadyCover ==
    ASSUME ~ StaleReads, FreshInv, CoverInv, HandleReplicaReady
    PROVE  CoverInv'
  <1> USE StageValues
  <1>1. /\ UNCHANGED <<sts, pod, tc, deleting>> /\ pass \in Pass /\ At("stage")
        /\ pass.stage = ReplicaReady /\ checkpoint \in {NoCheckpoint, ReplicaReady}
    BY DEF HandleReplicaReady, AtStage, userVars, FreshInv, TypeOK, PassIsFresh
  <1>2. PICK ok \in BOOLEAN :
           DoCheckpoint(MainShuttingDown, ok) /\ IF ok THEN Goto("main") ELSE Retry
    BY DEF HandleReplicaReady
  <1>3. checkpoint' \in {checkpoint, MainShuttingDown}
    BY <1>2, FreshDoCheckpoint, StageNumbers
  <1>4. checkpoint = NoCheckpoint => IsMultiNode(pass.inst) /\ sts[Replica] = NoSts
    BY <1>1 DEF CoverInv, CoverPass, At, AtOnlyNode
  <1>5. checkpoint = ReplicaReady => ReplicaCovers
    BY DEF CoverInv, ReplicaFits
  <1>6. ReplicaFits' /\ (ReplicaCovers => ReplicaCovers')
    BY <1>1, <1>3 DEF CoverInv, ReplicaFits, ReplicaPod, ReplicaCovers, ReplicaUp, ReplicaChanged
  <1>7. CASE pass'.pc = "idle"
    BY <1>1, <1>3, <1>4, <1>6, <1>7 DEF CoverInv, CoverPass, At, AtOnlyNode, BuilderPC
  <1>8. CASE Goto("main")
    <2>1. pass'.pc = "main" /\ pass'.inst = pass.inst
      BY <1>1, <1>8 DEF Goto, Continue, Pass
    <2>2. CoverPass'
      BY <1>1, <1>3, <1>4, <1>5, <1>6, <2>1 DEF CoverPass, At, AtOnlyNode, BuilderPC
    <2> QED
      BY <1>6, <2>2 DEF CoverInv
  <1> QED
    BY <1>2, <1>7, <1>8, IdlePassType DEF Retry

\* The last handler: without the checkpoint the builders have the spec to follow, and no
\* replica is left.
LEMMA HandleUpdateFinishedCover ==
    ASSUME ~ StaleReads, FreshInv, CoverInv, HandleUpdateFinished
    PROVE  CoverInv'
  <1> USE StageValues
  <1>1. /\ UNCHANGED <<sts, pod, tc, deleting>> /\ pass \in Pass
        /\ pass.stage = UpdateFinished /\ checkpoint = UpdateFinished
    BY DEF HandleUpdateFinished, AtStage, userVars, FreshInv, TypeOK, PassIsFresh
  <1>2. PICK ok \in BOOLEAN : DeleteCheckpoint(ok) /\ IF ok THEN Goto("main") ELSE Retry
    BY DEF HandleUpdateFinished
  <1>3. checkpoint' = NoCheckpoint
    BY <1>2, FreshDelete
  <1>4. sts[Replica] = NoSts
    BY <1>1 DEF CoverInv, ReplicaFits
  <1>5. ReplicaFits'
    BY <1>1, <1>3 DEF CoverInv, ReplicaFits, ReplicaPod, ReplicaCovers, ReplicaUp, ReplicaChanged
  <1>6. pass'.pc \in {"idle", "main"} /\ (pass'.pc = "main" => pass'.stage = UpdateFinished)
    BY <1>1, <1>2, IdlePassType DEF Goto, Continue, Retry, Pass
  <1>7. CoverPass'
    BY <1>1, <1>3, <1>4, <1>6 DEF CoverPass, At, AtOnlyNode, BuilderPC
  <1> QED
    BY <1>5, <1>7 DEF CoverInv

\* The builders leave the replica alone, and run when it is not to be made.
LEMMA BuilderStepCover ==
    ASSUME ~ StaleReads, FreshInv, CoverInv, BuilderStep
    PROVE  CoverInv'
  <1>1. /\ UNCHANGED <<pod, checkpoint, tc, deleting>> /\ pass \in Pass
        /\ sts \in [Nodes -> StatefulSet \cup {NoSts}] /\ Replica \in Nodes
    BY BuilderStepEffect DEF userVars, FreshInv, TypeOK, ClusterTypeOK, Nodes
  <1>2. pass.pc \in {"main", "secondaries", "recreating"}
    BY DEF BuilderStep, ApplyMain, ApplySecondary, FinishRecreate, UpdateDeleted, At
  <1>3. checkpoint # ReplicaCreated /\ pass.pc \in BuilderPC
    BY <1>2, StageValues DEF CoverInv, CoverPass, BuilderPC
  <1>4. CASE UNCHANGED sts /\ PassLeaves
    BY <1>1, <1>3, <1>4, PassGoesOn DEF Still, PassLeaves, BuilderPC
  <1>5. ASSUME NEW n \in Nodes \ {Replica}, Built(n) \/ RecreateStarted(n)
        PROVE  CoverInv'
    <2>1. Still(Replica)
      BY <1>1, <1>5 DEF Built, RecreateStarted, Still
    <2>2. pass'.pc \in BuilderPC \ {"main"}
      BY <1>1, <1>5 DEF Built, RecreateStarted, AfterNode, Pass, BuilderPC
    <2> QED
      BY <1>1, <1>3, <2>1, <2>2, PassGoesOn
  <1> QED
    BY <1>4, <1>5, BuilderStepEffect

\* The other steps of a pass leave the checkpoint and the replica alone.
LEMMA OtherStepCover ==
    ASSUME ~ StaleReads, FreshInv, CoverInv,
           \/ HandleMainShuttingDown \/ ListObsolete \/ DeleteObsolete
           \/ CheckPreconditionGeneration \/ CheckPreconditionFinished
           \/ ReportSuccess \/ ApiError
    PROVE  CoverInv'
  <1>1. pass \in Pass
    BY DEF FreshInv, TypeOK
  <1>2. /\ UNCHANGED <<checkpoint, tc, deleting>> /\ Still(Replica) /\ sts'[Main] = sts[Main]
    <2>1. CASE DeleteObsolete
      <3>1. Main \in Nodes \ Secondaries /\ Replica \in Nodes \ Secondaries
        BY NodesAssumption DEF Nodes
      <3> QED
        BY <2>1, <3>1, DeleteObsoleteEffect DEF userVars, Still
    <2> QED
      BY <2>1 DEF HandleMainShuttingDown, ListObsolete, CheckPreconditionGeneration,
         CheckPreconditionFinished, ReportSuccess, ApiError, userVars, Still
  <1>3. Done \/ RequeueAfter \/ Retry => pass'.pc = "idle"
    BY IdlePassType DEF Done, RequeueAfter, Retry
  <1>4. CASE ReportSuccess \/ ApiError
    BY <1>2, <1>3, <1>4, PassGoesOn DEF ReportSuccess, ApiError
  <1>5. CASE HandleMainShuttingDown
    <2>1. CASE pass'.pc = "generation"
      <3>1. At("stage") /\ ReplicaFits'
        BY <1>2, <1>5, ReplicaLeftAlone DEF HandleMainShuttingDown, AtStage, CoverInv
      <3>2. CoverPass'
        BY <1>2, <2>1, <3>1 DEF CoverInv, CoverPass, At, AtOnlyNode, BuilderPC, Still
      <3> QED
        BY <3>1, <3>2 DEF CoverInv
    <2>2. pass'.pc \in {"generation", "idle"}
      BY <1>1, <1>3, <1>5 DEF HandleMainShuttingDown, Continue, Pass
    <2> QED
      BY <1>2, <2>1, <2>2, PassGoesOn
  <1>6. CASE \/ ListObsolete \/ DeleteObsolete
             \/ CheckPreconditionGeneration \/ CheckPreconditionFinished
    <2>1. pass.pc \in BuilderPC
      BY <1>6 DEF ListObsolete, DeleteObsolete, CheckPreconditionGeneration,
         CheckPreconditionFinished, At, BuilderPC
    <2>2. pass'.pc \in (BuilderPC \ {"main"}) \cup {"idle"}
      <3>1. CASE ListObsolete \/ DeleteObsolete
        <4>1. \/ Retry
              \/ \E todo, pc : /\ pass' = [pass EXCEPT !.todo = todo, !.pc = pc]
                               /\ pc \in {"deleteObsolete", "mainGeneration", "report"}
          BY <3>1 DEF ListObsolete, DeleteObsolete, AfterObsolete, Continue
        <4> QED
          BY <1>1, <1>3, <4>1 DEF Pass, BuilderPC
      <3>2. CASE CheckPreconditionGeneration
        BY <1>1, <3>2 DEF CheckPreconditionGeneration, Continue, Pass, BuilderPC
      <3>3. CASE CheckPreconditionFinished
        <4>1. \/ RequeueAfter
              \/ pass' = [pass EXCEPT !.pc = "secondaries", !.mark = FALSE,
                                      !.todo = SecondaryNodes(pass.inst)]
          BY <3>3 DEF CheckPreconditionFinished, Continue
        <4> QED
          BY <1>1, <1>3, <4>1 DEF Pass, BuilderPC
      <3> QED
        BY <1>6, <3>1, <3>2, <3>3
    <2> QED
      BY <1>2, <2>1, <2>2, PassGoesOn
  <1> QED
    BY <1>4, <1>5, <1>6

-------------------------------------------------------------------------------
(* Outside the stages *)

\* A pass that starts has acted on nothing, and a replica without a checkpoint waits for
\* the finalizer.
LEMMA QueueCover ==
    ASSUME FreshInv, CoverInv, StartPass \/ TimerFires \/ Crash \/ UNCHANGED vars
    PROVE  CoverInv'
  <1>1. UNCHANGED <<sts, pod, checkpoint, tc, deleting>>
    BY DEF StartPass, TimerFires, Crash, vars, userVars
  <1>2. ReplicaFits' /\ (ReplicaCovers => ReplicaCovers')
    BY <1>1, ReplicaLeftAlone DEF CoverInv, Still
  <1>3. CASE UNCHANGED pass
    BY <1>1, <1>2, <1>3 DEF CoverInv, CoverPass, Released, At, AtOnlyNode
  <1>4. CASE pass' = IdlePass
    BY <1>1, <1>4, IdlePassType, PassGoesOn DEF Still
  <1>5. CASE StartPass /\ tc # NoTC
    <2>1. /\ pass'.stage = NoCheckpoint
          /\ pass'.pc = IF deleting THEN "finalize" ELSE "ongoing"
      BY <1>5 DEF StartPass, IdlePass
    <2>2. CoverPass'
      BY <1>1, <1>5, <2>1 DEF CoverInv, CoverPass, Released, At, AtOnlyNode, BuilderPC
    <2> QED
      BY <1>2, <2>2 DEF CoverInv
  <1> QED
    BY <1>3, <1>4, <1>5 DEF StartPass, TimerFires, Crash, vars

\* Finalizing takes the checkpoint away, and leaves the replica to the garbage collector.
LEMMA FinalizerCover ==
    ASSUME ~ StaleReads, "read" \notin FaultKinds, FreshInv, CoverInv,
           FinalizeTeamCity \/ RemoveFinalizer
    PROVE  CoverInv'
  <1>1. /\ UNCHANGED <<sts, pod>> /\ Released /\ Released' /\ pass \in Pass
        /\ cmSeen = checkpoint
    BY DEF FinalizeTeamCity, RemoveFinalizer, At, Released, userVars, FreshInv, TypeOK,
       PassIsFresh, CachesSynced
  <1>2. pass'.pc \in {"idle", "removeFinalizer"}
    BY <1>1, IdlePassType
    DEF FinalizeTeamCity, RemoveFinalizer, Goto, Continue, Retry, Done, Pass
  <1>3. checkpoint' \in {checkpoint, NoCheckpoint}
    BY FreshDelete DEF FinalizeTeamCity, RemoveFinalizer
  <1>4. ReplicaFits'
    BY <1>1, <1>3, StageValues
    DEF CoverInv, ReplicaFits, ReplicaPod, ReplicaCovers, ReplicaUp, ReplicaChanged
  <1>5. CoverPass'
    BY <1>1, <1>2 DEF CoverPass, At, AtOnlyNode, BuilderPC
  <1> QED
    BY <1>4, <1>5 DEF CoverInv

\* The user touches neither; a new object comes when the replica of the old one is gone.
LEMMA UserStepCover ==
    ASSUME FreshInv, CoverInv, UserStep
    PROVE  CoverInv'
  <1>1. UNCHANGED <<sts, pod, pass, checkpoint>>
    BY DEF UserStep, EditTeamCity, DeleteTeamCity, RecreateTeamCity
  <1>2. ReplicaFits' /\ (ReplicaCovers => ReplicaCovers')
    BY <1>1, ReplicaLeftAlone DEF CoverInv, Still
  <1>3. sts[Replica] # NoSts /\ Released => Released'
    BY DEF UserStep, EditTeamCity, DeleteTeamCity, RecreateTeamCity, Released, Nodes
  <1>4. CoverPass'
    BY <1>1, <1>2, <1>3 DEF CoverInv, CoverPass, At, AtOnlyNode
  <1> QED
    BY <1>2, <1>4 DEF CoverInv

-------------------------------------------------------------------------------
(* The cover of the main node *)

\* There is no replica, and no pass, at the start.
LEMMA InitCover == Init => CoverInv
  <1> SUFFICES ASSUME Init PROVE CoverInv
    OBVIOUS
  <1>1. sts[Replica] = NoSts /\ pod[Replica] = NoPod /\ checkpoint = NoCheckpoint
    BY DEF Init, ClusterInit, Nodes
  <1>2. pass.pc = "idle"
    BY IdlePassType DEF Init
  <1> QED
    BY <1>1, <1>2, StageValues
    DEF CoverInv, CoverPass, ReplicaFits, ReplicaPod, AtOnlyNode, BuilderPC, At

\* Every step keeps what the cover of the main node relies on.
LEMMA StepCover ==
    ASSUME ~ StaleReads, HasFinalizer, "read" \notin FaultKinds,
           FreshInv, FinalizerInv, CoverInv, [Next]_vars
    PROVE  CoverInv'
  BY StepCases, BuilderStepCover, ClusterStepCover, DetectionCover, StagesCover,
     HandleReplicaCreatedCover, HandleReplicaReadyCover, HandleMainReadyCover,
     HandleUpdateFinishedCover, OtherStepCover, QueueCover, FinalizerCover, UserStepCover
  DEF OtherPassStep

\* With fresh caches, reads that do not fail and the finalizer, whatever the edits and
\* crashes, and however often HandleReplicaCreated is repeated: the replica is up by the
\* time ReplicaReady is persisted and as long as the only node may be changed, unless its
\* StatefulSet was changed after it was made.
THEOREM CoverInvariant ==
    ASSUME ~ StaleReads, HasFinalizer, "read" \notin FaultKinds
    PROVE  Spec => []CoverInv
  <1>1. Init => FinalizerInv
    BY IdlePassType DEF Init, ClusterInit, FinalizerInv, At
  <1>2. FreshInv /\ FinalizerInv /\ CoverInv /\ [Next]_vars => FinalizerInv' /\ CoverInv'
    BY FinalizerStep, StepCover
  <1> QED
    BY <1>1, <1>2, InitCover, FreshInvariant, PTL DEF Spec

\* So the pod template of the only node changes in an upgrade only while the replica's pod
\* is ready to serve in its place, or after an edit of the environment in mid-upgrade has
\* changed the replica.
THEOREM ReplicaCoversMainChange ==
    ASSUME ~ StaleReads, HasFinalizer, "read" \notin FaultKinds
    PROVE  Spec => MainChangeCoveredByUnchanged
  <1> DEFINE Covered == ChangesOnlyNode => ReplicaCovers
  <1>1. CoverInv => Covered
    BY DEF CoverInv, CoverPass, ChangesOnlyNode
  <1> HIDE DEF Covered
  <1>2. CoverInv => [Covered]_vars
    BY <1>1
  <1> QED
    BY <1>2, CoverInvariant, PTL DEF MainChangeCoveredByUnchanged, Covered
===============================================================================
