----------------------------- MODULE UpgradeProofs -----------------------------
(***************************************************************************)
(* The upgrade protocol: crashes, failing calls, edits and deletions at any *)
(* moment, and caches that lag however far, cannot make the operator leave  *)
(* it.  What else is proved of one server is proved for caches that follow  *)
(* every write at once, from FreshInv.                                      *)
(***************************************************************************)
EXTENDS ReconcilerProofs

ProtocolStep == [Protocol!ProtocolNext]_(Protocol!protocolVars)

\* What every step must establish.
Kept == UpgradeInv' /\ ProtocolStep

\* Where a pass relies on the stage it has read, or on the object being deleted.
BoundPC == {"stage", "generation", "advance", "finalize", "removeFinalizer"}

\* How a step may move the caches: the StatefulSets', the replica's, the checkpoint's.
StsCacheMoves ==
    /\ ~ StaleReads => stsSeen' = sts'
    /\ stsSeen'[Replica] \in {stsSeen[Replica], sts'[Replica]}
CmCacheMoves ==
    /\ ~ StaleReads => cmSeen' = checkpoint'
    /\ cmSeen' \in {cmSeen, checkpoint'}

\* A step must not take a pass over a deleted object on to the spec.
StaysFinal == Released /\ pass.pc \in FinalPC => pass'.pc \in FinalPC

-------------------------------------------------------------------------------
(* Stages and caches *)

\* The stages as numbers.
LEMMA StageValues ==
    /\ UpdateInitiated = 0 /\ ReplicaCreated = 1 /\ ReplicaStarting = 2 /\ ReplicaReady = 3
    /\ MainShuttingDown = 4 /\ MainReady = 5 /\ UpdateFinished = 6 /\ NoCheckpoint = -1
  BY DEF UpdateInitiated, ReplicaCreated, ReplicaStarting, ReplicaReady, MainShuttingDown,
     MainReady, UpdateFinished, NoCheckpoint

\* The protocol numbers the stages alike.
LEMMA ProtocolStages ==
    /\ Protocol!ReplicaCreated = 1 /\ Protocol!ReplicaStarting = 2
    /\ Protocol!MainShuttingDown = 4 /\ Protocol!MainReady = 5
    /\ Protocol!UpdateFinished = 6 /\ Protocol!NoCheckpoint = -1
  BY DEF Protocol!ReplicaCreated, Protocol!ReplicaStarting, Protocol!MainShuttingDown,
     Protocol!MainReady, Protocol!UpdateFinished, Protocol!NoCheckpoint

\* The types of what the protocol speaks of.
LEMMA UpgradeTypes ==
    ASSUME UpgradeInv
    PROVE  /\ checkpoint \in -1 .. 6 \ {0} /\ cmSeen \in -1 .. 6 \ {0}
           /\ pass \in Pass /\ pass.stage \in -1 .. 6
           /\ sts \in [Nodes -> StatefulSet \cup {NoSts}]
           /\ stsSeen \in [Nodes -> StatefulSet \cup {NoSts}]
           /\ Replica \in Nodes /\ Main \in Nodes /\ Main # Replica
  BY StageValues, NodesAssumption
  DEF UpgradeInv, TypeOK, ClusterTypeOK, CheckpointSeen, MaybeStage, Stage, Pass, Nodes

\* With fresh caches the stage a pass acts on was seen as well.
LEMMA ActsOnSeen ==
    ASSUME UpgradeInv, NEW stage, ActsOn(stage)
    PROVE  WasSeen(stage)
  BY StageValues DEF ActsOn, WasSeen, UpgradeInv, CheckpointSeen, CachesSynced

\* A write reaches the caches at once, or later.
LEMMA WriteMovesCache ==
    ASSUME NEW new, WriteStatefulSets(new)
    PROVE  sts' = new /\ StsCacheMoves
  BY DEF WriteStatefulSets, StsCacheMoves

\* Caches that are left alone are as fresh as before.
LEMMA CachesStay ==
    ASSUME UpgradeInv
    PROVE  /\ UNCHANGED <<sts, stsSeen>> => StsCacheMoves
           /\ UNCHANGED <<checkpoint, cmSeen>> => CmCacheMoves
  BY DEF UpgradeInv, CheckpointSeen, CachesSynced, StsCacheMoves, CmCacheMoves

-------------------------------------------------------------------------------
(* The ways in which a step may move the state the protocol speaks of *)

\* Not at all: the checkpoint, the replica and the object stay.
LEMMA QuietStep ==
    ASSUME UpgradeInv, TypeOK', StsCacheMoves, StaysFinal,
           UNCHANGED <<checkpoint, cmSeen, tc, deleting>>, sts'[Replica] = sts[Replica],
           pass'.pc \notin BoundPC
    PROVE  Kept
  <1>1. UNCHANGED Released
    BY DEF Released
  <1>2. CheckpointSeen' /\ ReplicaFollowsCheckpoint'
    BY <1>1 DEF UpgradeInv, CheckpointSeen, CachesSynced, ReplicaFollowsCheckpoint,
       StsCacheMoves, StaysFinal
  <1>3. PassFollowsCheckpoint'
    BY DEF PassFollowsCheckpoint, At, BoundPC
  <1>4. ProtocolStep
    BY <1>1 DEF ProtocolStep, Protocol!protocolVars
  <1> QED
    BY <1>2, <1>3, <1>4 DEF Kept, UpgradeInv

\* Not at all, and the pass stays where it is: a step of the cluster or of the queue.
LEMMA OutsideStep ==
    ASSUME UpgradeInv, TypeOK', StsCacheMoves,
           UNCHANGED <<checkpoint, cmSeen, pass, tc, deleting>>,
           \/ sts'[Replica] = sts[Replica]
           \/ sts[Replica] # NoSts /\ sts'[Replica] = StatusOf(sts[Replica], pod[Replica])
    PROVE  Kept
  <1>1. UNCHANGED Released
    BY DEF Released
  <1>2. /\ sts[Replica] = NoSts <=> sts'[Replica] = NoSts
        /\ sts'[Replica] # NoSts => ~ sts'[Replica].terminating
    <2>1. CASE sts'[Replica] = sts[Replica]
      BY <2>1 DEF UpgradeInv, ReplicaFollowsCheckpoint
    <2>2. CASE sts[Replica] # NoSts /\ sts'[Replica] = StatusOf(sts[Replica], pod[Replica])
      <3>1. sts[Replica] \in StatefulSet /\ pod[Replica] \in Pod \cup {NoPod}
        BY <2>2 DEF UpgradeInv, TypeOK, ClusterTypeOK, Nodes
      <3>2. StatusOf(sts[Replica], pod[Replica]) \in StatefulSet
        BY <3>1, StatusType
      <3>3. StatusOf(sts[Replica], pod[Replica]).terminating = sts[Replica].terminating
        BY <3>1 DEF StatusOf, StatefulSet
      <3> QED
        BY <2>2, <3>2, <3>3, AbsenceAssumption DEF UpgradeInv, ReplicaFollowsCheckpoint
    <2> QED
      BY <2>1, <2>2
  <1>3. CheckpointSeen' /\ PassFollowsCheckpoint' /\ ReplicaFollowsCheckpoint'
    BY <1>1, <1>2
    DEF UpgradeInv, CheckpointSeen, CachesSynced, PassFollowsCheckpoint, ActsOn, WasSeen,
        ReplicaFollowsCheckpoint, StsCacheMoves, At
  <1>4. ProtocolStep
    BY <1>1, <1>2 DEF ProtocolStep, Protocol!protocolVars
  <1> QED
    BY <1>3, <1>4 DEF Kept, UpgradeInv

\* The checkpoint begins, or moves on by one; with the last move the replica is gone, and
\* from ReplicaReady on it has been seen.
LEMMA CheckpointStep ==
    ASSUME UpgradeInv, TypeOK', CmCacheMoves, cmSeen = checkpoint,
           UNCHANGED <<sts, stsSeen, tc, deleting>>, pass'.pc \notin BoundPC,
           \/ /\ checkpoint = NoCheckpoint /\ pass.pc \notin FinalPC
              /\ checkpoint' \in {ReplicaCreated, MainShuttingDown}
           \/ /\ checkpoint \in ReplicaCreated .. MainReady /\ checkpoint' = checkpoint + 1
              /\ checkpoint' = UpdateFinished => sts[Replica] = NoSts
              /\ checkpoint' = ReplicaReady => stsSeen[Replica] # NoSts
    PROVE  Kept
  <1> USE StageValues
  <1>1. UNCHANGED Released
    BY DEF Released
  <1>2. CheckpointSeen'
    BY UpgradeTypes DEF UpgradeInv, CheckpointSeen, CachesSynced, CmCacheMoves
  <1>3. PassFollowsCheckpoint'
    BY DEF PassFollowsCheckpoint, At, BoundPC
  <1>4. ReplicaFollowsCheckpoint'
    BY <1>1, UpgradeTypes DEF UpgradeInv, ReplicaFollowsCheckpoint
  <1>5. Protocol!Begin \/ Protocol!Advance
    BY <1>1, ProtocolStages DEF Protocol!Begin, Protocol!Advance
  <1>6. ProtocolStep
    BY <1>5 DEF ProtocolStep, Protocol!ProtocolNext
  <1> QED
    BY <1>2, <1>3, <1>4, <1>6 DEF Kept, UpgradeInv

\* The checkpoint is deleted after the last stage or with the object.
LEMMA CheckpointEnds ==
    ASSUME UpgradeInv, TypeOK', CmCacheMoves,
           UNCHANGED <<sts, stsSeen, tc, deleting>>, checkpoint' = NoCheckpoint,
           \/ checkpoint = UpdateFinished /\ cmSeen = UpdateFinished /\ pass'.pc \notin BoundPC
           \/ Released /\ pass'.pc \in {"idle", "removeFinalizer"}
    PROVE  Kept
  <1> USE StageValues
  <1>1. UNCHANGED Released
    BY DEF Released
  <1>2. CheckpointSeen'
    BY <1>1 DEF UpgradeInv, CheckpointSeen, CachesSynced, CmCacheMoves, FinalPC
  <1>3. PassFollowsCheckpoint'
    BY <1>1 DEF PassFollowsCheckpoint, At, BoundPC
  <1>4. ReplicaFollowsCheckpoint'
    BY <1>1 DEF UpgradeInv, ReplicaFollowsCheckpoint, FinalPC
  <1>5. Protocol!Finish
    BY <1>1, ProtocolStages DEF Protocol!Finish
  <1>6. ProtocolStep
    BY <1>5 DEF ProtocolStep, Protocol!ProtocolNext
  <1> QED
    BY <1>2, <1>3, <1>4, <1>6 DEF Kept, UpgradeInv

\* The replica goes: at MainReady, or with the object.
LEMMA ReplicaGoes ==
    ASSUME UpgradeInv, TypeOK', StsCacheMoves,
           UNCHANGED <<checkpoint, cmSeen, tc, deleting>>, sts'[Replica] = NoSts,
           \/ /\ At("stage") /\ pass.stage = MainReady
              /\ pass'.pc = "advance" /\ pass'.stage = MainReady
           \/ Released /\ UNCHANGED pass
    PROVE  Kept
  <1> USE StageValues
  <1>1. UNCHANGED Released
    BY DEF Released
  <1>2. CheckpointSeen'
    BY <1>1 DEF UpgradeInv, CheckpointSeen, CachesSynced, StsCacheMoves, At, FinalPC
  <1>3. PassFollowsCheckpoint'
    BY <1>1 DEF UpgradeInv, PassFollowsCheckpoint, ActsOn, WasSeen, At
  <1>4. ReplicaFollowsCheckpoint'
    BY DEF ReplicaFollowsCheckpoint
  <1>5. Protocol!DropReplica \/ UNCHANGED Protocol!protocolVars
    <2>1. CASE Released
      BY <1>1, <2>1 DEF Protocol!DropReplica
    <2>2. CASE At("stage") /\ pass.stage = MainReady
      <3>1. ActsOn(MainReady)
        BY <2>2 DEF UpgradeInv, PassFollowsCheckpoint
      <3>2. checkpoint \in {MainReady, UpdateFinished}
        BY <3>1, ActsOnSeen DEF WasSeen
      <3>3. checkpoint = UpdateFinished => sts[Replica] = NoSts
        BY DEF UpgradeInv, ReplicaFollowsCheckpoint
      <3> QED
        BY <1>1, <3>2, <3>3, ProtocolStages DEF Protocol!DropReplica, Protocol!protocolVars
    <2> QED
      BY <2>1, <2>2
  <1>6. ProtocolStep
    BY <1>5 DEF ProtocolStep, Protocol!ProtocolNext
  <1> QED
    BY <1>2, <1>3, <1>4, <1>6 DEF Kept, UpgradeInv

\* The object stays released, and the pass stays with what such an object needs.
LEMMA FinalStep ==
    ASSUME UpgradeInv, TypeOK', UNCHANGED <<sts, stsSeen, checkpoint, cmSeen>>,
           Released, Released', pass'.pc \in FinalPC
    PROVE  Kept
  <1>1. CheckpointSeen' /\ ReplicaFollowsCheckpoint'
    BY DEF UpgradeInv, CheckpointSeen, CachesSynced, ReplicaFollowsCheckpoint
  <1>2. PassFollowsCheckpoint'
    BY DEF PassFollowsCheckpoint, At, FinalPC
  <1>3. ProtocolStep
    BY DEF ProtocolStep, Protocol!protocolVars
  <1> QED
    BY <1>1, <1>2, <1>3 DEF Kept, UpgradeInv

\* A pass over a live object reads, and goes on to a stage it may act on.
LEMMA ReadingStep ==
    ASSUME UpgradeInv, TypeOK', PassFollowsCheckpoint', pass.pc \notin FinalPC,
           UNCHANGED <<sts, stsSeen, checkpoint, cmSeen, tc, deleting>>
    PROVE  Kept
  <1>1. UNCHANGED Released
    BY DEF Released
  <1>2. CheckpointSeen' /\ ReplicaFollowsCheckpoint'
    BY <1>1 DEF UpgradeInv, CheckpointSeen, CachesSynced, ReplicaFollowsCheckpoint
  <1>3. ProtocolStep
    BY <1>1 DEF ProtocolStep, Protocol!protocolVars
  <1> QED
    BY <1>2, <1>3 DEF Kept, UpgradeInv

-------------------------------------------------------------------------------
(* The operator *)

\* The end of a pass binds it to no stage.
LEMMA EndUnbound ==
    ASSUME Done \/ RequeueAfter \/ Retry
    PROVE  pass'.pc \notin BoundPC /\ pass'.pc \in FinalPC
  BY IdlePassType DEF Done, RequeueAfter, Retry, BoundPC, FinalPC

\* A checkpoint after a stage that was seen is the write after it, or changes nothing.
LEMMA SeenDoCheckpoint ==
    ASSUME UpgradeInv, NEW stage \in Stage, WasSeen(stage), stage + 1 \in Stage,
           NEW ok \in BOOLEAN, DoCheckpoint(stage + 1, ok)
    PROVE  \/ UNCHANGED <<checkpoint, cmSeen>>
           \/ /\ CmCacheMoves /\ cmSeen = checkpoint /\ checkpoint' = stage + 1
              /\ \/ checkpoint = NoCheckpoint /\ checkpoint' \in {ReplicaCreated, MainShuttingDown}
                 \/ checkpoint = stage /\ stage \in ReplicaCreated .. MainReady
  <1> USE StageValues
  <1>1. CASE UNCHANGED <<checkpoint, cmSeen>>
    BY <1>1
  <1>2. CASE /\ IF cmSeen = NoCheckpoint THEN checkpoint = NoCheckpoint
                ELSE CanChangeStageValue(cmSeen, stage + 1)
             /\ WriteCheckpoint(IF cmSeen # NoCheckpoint /\ checkpoint = NoCheckpoint
                                THEN NoCheckpoint ELSE stage + 1)
    <2>1. CmCacheMoves
      BY <1>2 DEF WriteCheckpoint, CmCacheMoves
    <2>2. CASE cmSeen = NoCheckpoint
      BY <1>2, <2>1, <2>2 DEF WasSeen, WriteCheckpoint, Stage
    <2>3. CASE cmSeen # NoCheckpoint /\ checkpoint = NoCheckpoint
      BY <1>2, <2>3 DEF UpgradeInv, CheckpointSeen, CachesSynced, WriteCheckpoint
    <2>4. CASE cmSeen # NoCheckpoint /\ checkpoint # NoCheckpoint
      <3>1. stage + 1 - cmSeen \in {0, 1} /\ cmSeen \in Int /\ cmSeen # 0
        <4>1. CanChangeStageValue(cmSeen, stage + 1)
          BY <1>2, <2>4, Zenon
        <4>2. cmSeen \in Int /\ cmSeen # 0
          BY UpgradeTypes
        <4> QED
          BY <4>1, <4>2 DEF CanChangeStageValue, Stage
      <3>2. checkpoint' = stage + 1
        BY <1>2, <2>4 DEF WriteCheckpoint
      <3>3. CASE checkpoint = stage + 1
        BY <1>2, <2>4, <3>2, <3>3
        DEF WriteCheckpoint, UpgradeInv, CheckpointSeen, CachesSynced
      <3>4. CASE checkpoint # stage + 1
        <4>1. checkpoint = stage /\ cmSeen = checkpoint
          BY <2>4, <3>1, <3>4 DEF WasSeen, Stage
        <4> QED
          BY <2>1, <3>1, <3>2, <4>1 DEF Stage
      <3> QED
        BY <3>3, <3>4
    <2> QED
      BY <2>2, <2>3, <2>4
  <1> QED
    BY <1>1, <1>2 DEF DoCheckpoint

\* A handler whose desired stage follows the one its pass acts on.
LEMMA CheckpointKept ==
    ASSUME UpgradeInv, TypeOK', NEW stage \in Stage, ActsOn(stage), stage + 1 \in Stage,
           NEW ok \in BOOLEAN, DoCheckpoint(stage + 1, ok), pass.pc \notin FinalPC,
           UNCHANGED <<sts, stsSeen, tc, deleting>>, pass'.pc \notin BoundPC,
           stage = MainReady => sts[Replica] = NoSts,
           stage = ReplicaStarting => stsSeen[Replica] # NoSts
    PROVE  Kept
  <1> USE StageValues
  <1>1. WasSeen(stage)
    BY ActsOnSeen
  <1>2. CASE UNCHANGED <<checkpoint, cmSeen>>
    BY <1>2, CachesStay, QuietStep DEF StaysFinal
  <1>3. CASE /\ CmCacheMoves /\ cmSeen = checkpoint /\ checkpoint' = stage + 1
             /\ \/ checkpoint = NoCheckpoint /\ checkpoint' \in {ReplicaCreated, MainShuttingDown}
                \/ checkpoint = stage /\ stage \in ReplicaCreated .. MainReady
    <2>1. \/ /\ checkpoint = NoCheckpoint /\ pass.pc \notin FinalPC
             /\ checkpoint' \in {ReplicaCreated, MainShuttingDown}
          \/ /\ checkpoint \in ReplicaCreated .. MainReady /\ checkpoint' = checkpoint + 1
             /\ checkpoint' = UpdateFinished => sts[Replica] = NoSts
             /\ checkpoint' = ReplicaReady => stsSeen[Replica] # NoSts
      BY <1>3
    <2> QED
      BY <1>3, <2>1, CheckpointStep
  <1> QED
    BY <1>1, <1>2, <1>3, SeenDoCheckpoint

\* The same when the handler ends its pass there.
LEMMA CheckpointAndRequeueKept ==
    ASSUME UpgradeInv, TypeOK', NEW stage \in Stage, ActsOn(stage), stage + 1 \in Stage,
           CheckpointAndRequeue(stage + 1), pass.pc \notin FinalPC,
           UNCHANGED <<sts, stsSeen, tc, deleting>>,
           stage = MainReady => sts[Replica] = NoSts,
           stage = ReplicaStarting => stsSeen[Replica] # NoSts
    PROVE  Kept
  <1>1. PICK ok \in BOOLEAN : DoCheckpoint(stage + 1, ok) /\ (RequeueAfter \/ Retry)
    BY DEF CheckpointAndRequeue
  <1>2. pass'.pc \notin BoundPC
    BY <1>1, EndUnbound
  <1> QED
    BY <1>1, <1>2, CheckpointKept

\* The handlers that do nothing but a checkpoint, or wait.
LEMMA StagesKept ==
    ASSUME UpgradeInv, TypeOK',
           \/ HandleUpdateInitiated \/ AdvanceCheckpoint \/ HandleReplicaStarting
           \/ CheckMainGeneration
    PROVE  Kept
  <1> USE StageValues
  <1>1. pass.pc \notin FinalPC /\ UNCHANGED <<sts, stsSeen, tc, deleting>>
    BY DEF HandleUpdateInitiated, AdvanceCheckpoint, HandleReplicaStarting,
       CheckMainGeneration, At, AtStage, FinalPC, userVars
  <1>2. CASE HandleUpdateInitiated
    <2>1. ActsOn(UpdateInitiated)
      BY <1>2 DEF HandleUpdateInitiated, AtStage, UpgradeInv, PassFollowsCheckpoint
    <2>2. CheckpointAndRequeue(UpdateInitiated + 1)
      BY <1>2 DEF HandleUpdateInitiated
    <2> QED
      BY <1>1, <2>1, <2>2, CheckpointAndRequeueKept DEF Stage
  <1>3. CASE AdvanceCheckpoint
    <2>1. /\ ActsOn(pass.stage) /\ pass.stage \in {ReplicaCreated, MainReady}
          /\ pass.stage = MainReady => sts[Replica] = NoSts
      BY <1>3 DEF AdvanceCheckpoint, UpgradeInv, PassFollowsCheckpoint, TypeOK, PassTypeOK
    <2>2. CheckpointAndRequeue(pass.stage + 1)
      BY <1>3 DEF AdvanceCheckpoint
    <2>3. pass.stage \in Stage /\ pass.stage + 1 \in Stage /\ pass.stage # ReplicaStarting
      BY <2>1 DEF Stage
    <2> QED
      BY <1>1, <2>1, <2>2, <2>3, CheckpointAndRequeueKept
  <1>4. CASE WaitForNextPass \/ (Retry /\ UNCHANGED <<checkpoint, cmSeen, faults>>)
    <2>1. UNCHANGED <<checkpoint, cmSeen>> /\ pass'.pc \notin BoundPC
      BY <1>4, EndUnbound DEF WaitForNextPass
    <2> QED
      BY <1>1, <2>1, CachesStay, QuietStep DEF StaysFinal
  <1>5. CASE /\ HandleReplicaStarting /\ stsSeen[Replica] # NoSts
             /\ CheckpointAndRequeue(ReplicaReady)
    <2>1. ActsOn(ReplicaStarting)
      BY <1>5 DEF HandleReplicaStarting, AtStage, UpgradeInv, PassFollowsCheckpoint
    <2>2. CheckpointAndRequeue(ReplicaStarting + 1)
      BY <1>5
    <2> QED
      BY <1>1, <1>5, <2>1, <2>2, CheckpointAndRequeueKept DEF Stage
  <1>6. CASE CheckMainGeneration /\ CheckpointAndRequeue(MainReady)
    <2>1. ActsOn(MainShuttingDown)
      BY <1>6 DEF CheckMainGeneration, UpgradeInv, PassFollowsCheckpoint
    <2>2. CheckpointAndRequeue(MainShuttingDown + 1)
      BY <1>6
    <2> QED
      BY <1>1, <2>1, <2>2, CheckpointAndRequeueKept DEF Stage
  <1> QED
    BY <1>2, <1>3, <1>4, <1>5, <1>6 DEF HandleReplicaStarting, CheckMainGeneration

\* HandleReplicaReady moves the checkpoint to MainShuttingDown and goes on.
LEMMA HandleReplicaReadyKept ==
    ASSUME UpgradeInv, TypeOK', HandleReplicaReady
    PROVE  Kept
  <1> USE StageValues
  <1>1. PICK ok \in BOOLEAN : DoCheckpoint(MainShuttingDown, ok) /\ (Goto("main") \/ Retry)
    BY DEF HandleReplicaReady
  <1>2. pass'.pc \notin BoundPC
    BY <1>1, EndUnbound DEF Goto, Continue, BoundPC, UpgradeInv, TypeOK, Pass
  <1>3. ActsOn(ReplicaReady) /\ pass.pc \notin FinalPC
    BY DEF HandleReplicaReady, AtStage, At, FinalPC, UpgradeInv, PassFollowsCheckpoint
  <1>4. DoCheckpoint(ReplicaReady + 1, ok)
    BY <1>1
  <1> QED
    BY <1>2, <1>3, <1>4, CheckpointKept DEF HandleReplicaReady, userVars, Stage

\* HandleUpdateFinished deletes the checkpoint it acts on, unless it is gone.
LEMMA HandleUpdateFinishedKept ==
    ASSUME UpgradeInv, TypeOK', HandleUpdateFinished
    PROVE  Kept
  <1> USE StageValues
  <1>1. PICK ok \in BOOLEAN : DeleteCheckpoint(ok) /\ (Goto("main") \/ Retry)
    BY DEF HandleUpdateFinished
  <1>2. pass'.pc \notin BoundPC
    BY <1>1, EndUnbound DEF Goto, Continue, BoundPC, UpgradeInv, TypeOK, Pass
  <1>3. UNCHANGED <<sts, stsSeen, tc, deleting>> /\ pass.pc \notin FinalPC
    BY DEF HandleUpdateFinished, AtStage, At, FinalPC, userVars
  <1>4. CASE UNCHANGED <<checkpoint, cmSeen>>
    BY <1>2, <1>3, <1>4, CachesStay, QuietStep DEF StaysFinal
  <1>5. CASE checkpoint # NoCheckpoint /\ WriteCheckpoint(NoCheckpoint)
    <2>1. WasSeen(UpdateFinished)
      BY ActsOnSeen DEF HandleUpdateFinished, AtStage, UpgradeInv, PassFollowsCheckpoint
    <2>2. checkpoint = UpdateFinished /\ cmSeen = UpdateFinished
      BY <1>5, <2>1, UpgradeTypes DEF WasSeen
    <2>3. checkpoint' = NoCheckpoint /\ CmCacheMoves
      BY <1>5 DEF WriteCheckpoint, CmCacheMoves
    <2> QED
      BY <1>2, <1>3, <2>2, <2>3, CheckpointEnds
  <1> QED
    BY <1>1, <1>4, <1>5 DEF DeleteCheckpoint

\* finalizeTeamCity drops the upgrade of an object that is being deleted.
LEMMA FinalizeTeamCityKept ==
    ASSUME UpgradeInv, TypeOK', FinalizeTeamCity
    PROVE  Kept
  <1>1. UNCHANGED <<sts, stsSeen, tc, deleting>> /\ Released /\ Released'
    BY DEF FinalizeTeamCity, At, UpgradeInv, PassFollowsCheckpoint, userVars, Released
  <1>2. Goto("removeFinalizer") \/ Retry
    BY DEF FinalizeTeamCity
  <1>3. pass'.pc \in {"idle", "removeFinalizer"}
    BY <1>2, IdlePassType DEF Goto, Continue, Retry, UpgradeInv, TypeOK, Pass
  <1>4. CASE checkpoint' = NoCheckpoint /\ WriteCheckpoint(NoCheckpoint)
    <2>1. CmCacheMoves
      BY <1>4 DEF WriteCheckpoint, CmCacheMoves
    <2> QED
      BY <1>1, <1>3, <1>4, <2>1, CheckpointEnds
  <1>5. CASE UNCHANGED <<checkpoint, cmSeen>>
    BY <1>1, <1>3, <1>5, FinalStep DEF FinalPC
  <1> QED
    BY <1>4, <1>5 DEF FinalizeTeamCity, DeleteCheckpoint, WriteCheckpoint

\* The object goes: it was released before, and stays so.
LEMMA RemoveFinalizerKept ==
    ASSUME UpgradeInv, TypeOK', RemoveFinalizer
    PROVE  Kept
  <1>1. Released /\ Released' /\ UNCHANGED <<sts, stsSeen, checkpoint, cmSeen>>
    BY DEF RemoveFinalizer, At, UpgradeInv, PassFollowsCheckpoint, Released
  <1> QED
    BY <1>1, EndUnbound, FinalStep DEF RemoveFinalizer

\* Steps that only read, and go on to a step bound to no stage.
LEMMA ReadingKept ==
    ASSUME UpgradeInv, TypeOK',
           \/ DetectUpgrade \/ ListObsolete \/ CheckPreconditionGeneration
           \/ CheckPreconditionFinished \/ ReportSuccess \/ ApiError
    PROVE  Kept
  <1>1. UNCHANGED <<sts, stsSeen, checkpoint, cmSeen, tc, deleting>>
    BY DEF DetectUpgrade, ListObsolete, CheckPreconditionGeneration, CheckPreconditionFinished,
       ReportSuccess, ApiError, userVars
  <1>2. \/ Done \/ RequeueAfter \/ Retry
        \/ DetectUpgrade \/ ListObsolete \/ CheckPreconditionGeneration
        \/ Continue([pass EXCEPT !.pc = "secondaries", !.mark = FALSE,
                       !.todo = SecondaryNodes(pass.inst)])
    BY DEF CheckPreconditionFinished, ReportSuccess, ApiError
  <1>3. pass \in Pass
    BY DEF UpgradeInv, TypeOK
  <1>4. pass'.pc \notin BoundPC
    BY <1>2, <1>3, EndUnbound
    DEF DetectUpgrade, ListObsolete, AfterObsolete, CheckPreconditionGeneration, Continue, Pass,
        BoundPC
  <1>5. StaysFinal
    <2>1. CASE ApiError
      BY <2>1, EndUnbound DEF ApiError, StaysFinal
    <2>2. CASE ~ ApiError
      BY <2>2 DEF DetectUpgrade, ListObsolete, CheckPreconditionGeneration,
         CheckPreconditionFinished, ReportSuccess, At, StaysFinal, FinalPC
    <2> QED
      BY <2>1, <2>2
  <1> QED
    BY <1>1, <1>4, <1>5, CachesStay, QuietStep

\* A new pass is bound to no stage, and one over a deleted object finalizes it.
LEMMA StartPassKept ==
    ASSUME UpgradeInv, TypeOK', StartPass
    PROVE  Kept
  <1>1. UNCHANGED <<sts, stsSeen, checkpoint, cmSeen, tc, deleting>>
    BY DEF StartPass, userVars
  <1>2. pass'.pc = IF tc = NoTC THEN "idle" ELSE IF deleting THEN "finalize" ELSE "ongoing"
    BY IdlePassType DEF StartPass, Pass
  <1>3. CASE Released
    BY <1>1, <1>2, <1>3, FinalStep DEF Released, FinalPC
  <1>4. CASE ~ Released
    <2>1. pass'.pc \notin BoundPC /\ StaysFinal
      BY <1>2, <1>4 DEF Released, BoundPC, StaysFinal
    <2> QED
      BY <1>1, <2>1, CachesStay, QuietStep
  <1> QED
    BY <1>3, <1>4

\* The stage a pass will act on is the one the cache holds, or an initial one.
LEMMA PerformZeroDowntimeUpgradeKept ==
    ASSUME UpgradeInv, TypeOK', PerformZeroDowntimeUpgrade
    PROVE  Kept
  <1> USE StageValues
  <1>1. UNCHANGED <<sts, stsSeen, checkpoint, cmSeen, tc, deleting>> /\ pass.pc \notin FinalPC
    BY DEF PerformZeroDowntimeUpgrade, At, FinalPC, userVars
  <1>2. CASE Continue([pass EXCEPT !.pc = "main", !.mark = FALSE])
    <2>1. pass'.pc \notin BoundPC
      BY <1>2 DEF Continue, UpgradeInv, TypeOK, Pass, BoundPC
    <2> QED
      BY <1>1, <2>1, CachesStay, QuietStep DEF StaysFinal
  <1>3. CASE Continue([pass EXCEPT !.pc = "stage", !.mark = FALSE, !.stage =
                IF cmSeen # NoCheckpoint THEN cmSeen ELSE InitialStage(IsMultiNode(pass.inst))])
    <2>1. /\ pass'.pc = "stage"
          /\ pass'.stage = IF cmSeen # NoCheckpoint THEN cmSeen
                           ELSE InitialStage(IsMultiNode(pass.inst))
      BY <1>3 DEF Continue, UpgradeInv, TypeOK, Pass
    <2>2. InitialStage(IsMultiNode(pass.inst)) \in {UpdateInitiated, ReplicaReady}
      BY DEF InitialStage
    <2>3. ActsOn(pass'.stage)
      BY <1>1, <2>1, <2>2, UpgradeTypes
      DEF UpgradeInv, CheckpointSeen, CachesSynced, ActsOn, WasSeen
    <2>4. PassFollowsCheckpoint'
      BY <1>1, <2>1, <2>3 DEF PassFollowsCheckpoint, ActsOn, WasSeen, At
    <2> QED
      BY <1>1, <2>4, ReadingStep
  <1> QED
    BY <1>2, <1>3 DEF PerformZeroDowntimeUpgrade

\* The first read of HandleMainShuttingDown leaves the pass at its stage.
LEMMA HandleMainShuttingDownKept ==
    ASSUME UpgradeInv, TypeOK', HandleMainShuttingDown
    PROVE  Kept
  <1>1. UNCHANGED <<sts, stsSeen, checkpoint, cmSeen, tc, deleting>> /\ pass.pc \notin FinalPC
    BY DEF HandleMainShuttingDown, AtStage, At, FinalPC, userVars
  <1>2. CASE pass'.pc \notin BoundPC
    BY <1>1, <1>2, CachesStay, QuietStep DEF StaysFinal
  <1>3. CASE pass'.pc = "generation"
    <2>1. ActsOn(MainShuttingDown)
      BY DEF HandleMainShuttingDown, AtStage, UpgradeInv, PassFollowsCheckpoint
    <2>2. PassFollowsCheckpoint'
      BY <1>1, <1>3, <2>1 DEF PassFollowsCheckpoint, ActsOn, WasSeen, At
    <2> QED
      BY <1>1, <2>2, ReadingStep
  <1>4. pass'.pc \notin BoundPC \/ pass'.pc = "generation"
    BY EndUnbound DEF HandleMainShuttingDown, Continue, UpgradeInv, TypeOK, Pass
  <1> QED
    BY <1>2, <1>3, <1>4

\* HandleReplicaCreated makes the replica at its stage.
LEMMA HandleReplicaCreatedKept ==
    ASSUME UpgradeInv, TypeOK', HandleReplicaCreated
    PROVE  Kept
  <1> USE StageValues
  <1>1. /\ UNCHANGED <<checkpoint, cmSeen, tc, deleting>> /\ UNCHANGED Released
        /\ pass.pc \notin FinalPC /\ pass.stage = ReplicaCreated
    BY DEF HandleReplicaCreated, AtStage, At, FinalPC, userVars, Released
  <1>2. ActsOn(ReplicaCreated) /\ checkpoint \in {ReplicaCreated, ReplicaStarting}
    <2>1. ActsOn(ReplicaCreated)
      BY DEF HandleReplicaCreated, AtStage, UpgradeInv, PassFollowsCheckpoint
    <2> QED
      BY <2>1, ActsOnSeen DEF WasSeen
  <1>3. CASE stsSeen[Main] = NoSts
    <2>1. UNCHANGED <<sts, stsSeen>> /\ pass'.pc \notin BoundPC
      BY <1>3, EndUnbound DEF HandleReplicaCreated
    <2> QED
      BY <1>1, <2>1, CachesStay, QuietStep DEF StaysFinal
  <1>4. ASSUME StsCacheMoves, pass' = [pass EXCEPT !.pc = "advance"],
               \/ sts'[Replica] = sts[Replica]
               \/ sts'[Replica] # NoSts /\ ~ sts'[Replica].terminating
        PROVE  Kept
    <2>1. pass'.pc = "advance" /\ pass'.stage = ReplicaCreated
      BY <1>1, <1>4 DEF UpgradeInv, TypeOK, Pass
    <2>2. CheckpointSeen'
      BY <1>1, <1>2, <1>4
      DEF UpgradeInv, CheckpointSeen, CachesSynced, StsCacheMoves
    <2>3. PassFollowsCheckpoint'
      BY <1>1, <1>2, <2>1 DEF PassFollowsCheckpoint, ActsOn, WasSeen, At
    <2>4. ReplicaFollowsCheckpoint'
      BY <1>1, <1>2, <1>4 DEF UpgradeInv, ReplicaFollowsCheckpoint
    <2>5. Protocol!CreateReplica \/ UNCHANGED Protocol!protocolVars
      BY <1>1, <1>2, <1>4, ProtocolStages DEF Protocol!CreateReplica, Protocol!protocolVars
    <2>6. ProtocolStep
      BY <2>5 DEF ProtocolStep, Protocol!ProtocolNext
    <2> QED
      BY <2>2, <2>3, <2>4, <2>6 DEF Kept, UpgradeInv
  <1>5. CASE stsSeen[Main] # NoSts
    <2> DEFINE main == stsSeen[Main]
               replica == IF stsSeen[Replica] # sts[Replica] THEN sts[Replica]
                          ELSE IF stsSeen[Replica] = NoSts
                          THEN FreshStatefulSet([template |-> ReplicaTemplate(main), svc |-> NoService])
                          ELSE ConfigureStatefulSet(sts[Replica], ReplicaTemplate(main))
               new == [sts EXCEPT ![Replica] = replica]
    <2>1. pass' = [pass EXCEPT !.pc = "advance"]
      BY <1>5 DEF HandleReplicaCreated
    <2>2. WriteStatefulSets(new) \/ UNCHANGED <<sts, stsSeen>>
      BY <1>5 DEF HandleReplicaCreated
    <2>3. CASE UNCHANGED <<sts, stsSeen>>
      BY <1>4, <2>1, <2>3, CachesStay
    <2>4. CASE WriteStatefulSets(new)
      <3>1. sts' = new /\ StsCacheMoves
        BY <2>4, WriteMovesCache
      <3>2. sts'[Replica] = replica
        BY <3>1, UpgradeTypes
      <3>3. ReplicaTemplate(main) \in Template
        <4>1. ~ At("idle")
          BY DEF HandleReplicaCreated, AtStage, At
        <4> QED
          BY <1>5, <4>1, UpgradeTypes, ReplicaTemplateType DEF UpgradeInv
      <3>4. CASE stsSeen[Replica] # sts[Replica]
        <4>1. replica = sts[Replica]
          BY <3>4
        <4> QED
          BY <1>4, <2>1, <3>1, <3>2, <4>1
      <3>5. CASE stsSeen[Replica] = sts[Replica] /\ sts[Replica] = NoSts
        <4>1. replica = FreshStatefulSet([template |-> ReplicaTemplate(main), svc |-> NoService])
          BY <3>5
        <4>2. replica \in StatefulSet
          BY <3>3, <4>1, FreshType DEF Service
        <4>3. ~ replica.terminating
          BY <4>1 DEF FreshStatefulSet
        <4> QED
          BY <1>4, <2>1, <3>1, <3>2, <4>2, <4>3, AbsenceAssumption
      <3>6. CASE stsSeen[Replica] = sts[Replica] /\ sts[Replica] # NoSts
        <4>1. replica = ConfigureStatefulSet(sts[Replica], ReplicaTemplate(main))
          BY <3>6
        <4>2. sts[Replica] \in StatefulSet /\ ~ sts[Replica].terminating
          BY <3>6, UpgradeTypes DEF UpgradeInv, ReplicaFollowsCheckpoint
        <4>3. replica \in StatefulSet
          BY <3>3, <4>1, <4>2, ConfiguredType
        <4>4. ~ replica.terminating
          BY <4>1, <4>2 DEF ConfigureStatefulSet, StatefulSet
        <4> QED
          BY <1>4, <2>1, <3>1, <3>2, <4>3, <4>4, AbsenceAssumption
      <3> QED
        BY <3>4, <3>5, <3>6
    <2> QED
      BY <2>2, <2>3, <2>4
  <1> QED
    BY <1>3, <1>5

\* HandleMainReady deletes the replica before the last checkpoint: one that its cache
\* does not hold is gone, for it held it when the main node was told to restart.
LEMMA HandleMainReadyKept ==
    ASSUME UpgradeInv, TypeOK', HandleMainReady
    PROVE  Kept
  <1> USE StageValues
  <1>1. /\ UNCHANGED <<checkpoint, cmSeen, tc, deleting>>
        /\ At("stage") /\ pass.stage = MainReady /\ pass.pc \notin FinalPC
    BY DEF HandleMainReady, AtStage, At, FinalPC, userVars
  <1>2. CASE Goto("main") /\ UNCHANGED <<sts, pod, stsSeen>>
    <2>1. pass'.pc \notin BoundPC
      BY <1>2 DEF Goto, Continue, BoundPC, UpgradeInv, TypeOK, Pass
    <2> QED
      BY <1>1, <1>2, <2>1, CachesStay, QuietStep DEF StaysFinal
  <1>3. CASE /\ pass' = [pass EXCEPT !.pc = "advance"]
             /\ IF ReplicaIsFound
                THEN WriteStatefulSets([sts EXCEPT ![Replica] = NoSts])
                ELSE UNCHANGED <<sts, pod, stsSeen, queued>>
    <2>1. pass'.pc = "advance" /\ pass'.stage = MainReady
      BY <1>1, <1>3 DEF UpgradeInv, TypeOK, Pass
    <2>2. StsCacheMoves /\ sts'[Replica] = NoSts
      <3>1. CASE ReplicaIsFound
        <4>1. WriteStatefulSets([sts EXCEPT ![Replica] = NoSts])
          BY <1>3, <3>1
        <4>2. sts' = [sts EXCEPT ![Replica] = NoSts] /\ StsCacheMoves
          BY <4>1, WriteMovesCache
        <4> QED
          BY <4>2, UpgradeTypes
      <3>2. CASE ~ ReplicaIsFound
        <4>1. WasSeen(MainReady)
          BY <1>1, ActsOnSeen DEF UpgradeInv, PassFollowsCheckpoint
        <4>2. sts[Replica] = NoSts
          BY <1>1, <3>2, <4>1
          DEF WasSeen, ReplicaIsFound, UpgradeInv, ReplicaFollowsCheckpoint
        <4> QED
          BY <1>3, <3>2, <4>2, CachesStay
      <3> QED
        BY <3>1, <3>2
    <2> QED
      BY <1>1, <2>1, <2>2, ReplicaGoes
  <1> QED
    BY <1>2, <1>3 DEF HandleMainReady

\* What the builders write is never the replica, and they go on to no stage.
LEMMA CreateOrUpdateReplica ==
    ASSUME UpgradeInv, ~ At("idle"), NEW n \in DOMAIN pass.inst.nodes, CreateOrUpdate(n)
    PROVE  sts'[Replica] = sts[Replica] /\ StsCacheMoves /\ pass'.pc \notin BoundPC
  <1>1. n \in Nodes /\ n # Replica
    BY InstType, SpecType DEF UpgradeInv
  <1>2. CASE Retry /\ UNCHANGED <<sts, stsSeen>>
    BY <1>2, EndUnbound, CachesStay
  <1> DEFINE config == pass.inst.nodes[n]
             new == [sts EXCEPT ![n] = IF sts[n] = NoSts THEN FreshStatefulSet(config)
                                       ELSE ConfigureStatefulSet(sts[n], config.template)]
  <1>3. CASE WriteStatefulSets(new) /\ pass' = AfterNode(n)
    <2>1. sts' = new /\ StsCacheMoves
      BY <1>3, WriteMovesCache
    <2>2. sts'[Replica] = sts[Replica]
      BY <1>1, <2>1 DEF UpgradeInv, TypeOK, ClusterTypeOK
    <2>3. pass'.pc \in {"listObsolete", "report", "secondaries"}
      BY <1>3 DEF AfterNode, UpgradeInv, TypeOK, Pass
    <2> QED
      BY <2>1, <2>2, <2>3 DEF BoundPC
  <1> QED
    BY <1>2, <1>3 DEF CreateOrUpdate

\* So does a recreate.
LEMMA ApplyStatefulSetReplica ==
    ASSUME UpgradeInv, ~ At("idle"), NEW n \in DOMAIN pass.inst.nodes, ApplyStatefulSet(n)
    PROVE  sts'[Replica] = sts[Replica] /\ StsCacheMoves /\ pass'.pc \notin BoundPC
  <1>1. n \in Nodes /\ n # Replica
    BY InstType, SpecType DEF UpgradeInv
  <1>2. CASE CreateOrUpdate(n)
    BY <1>2, CreateOrUpdateReplica
  <1>3. CASE Done /\ UNCHANGED <<sts, stsSeen>>
    BY <1>3, EndUnbound, CachesStay
  <1> DEFINE new == [sts EXCEPT ![n] = IF sts[n] = NoSts THEN NoSts ELSE MarkForDeletion(sts[n])]
  <1>4. CASE /\ WriteStatefulSets(new)
             /\ pass' = [pass EXCEPT !.pc = "recreating", !.node = n, !.mark = (sts[n] = NoSts)]
    <2>1. sts' = new /\ StsCacheMoves
      BY <1>4, WriteMovesCache
    <2>2. sts'[Replica] = sts[Replica]
      BY <1>1, <2>1 DEF UpgradeInv, TypeOK, ClusterTypeOK
    <2>3. pass'.pc = "recreating"
      BY <1>4 DEF UpgradeInv, TypeOK, Pass
    <2> QED
      BY <2>1, <2>2, <2>3 DEF BoundPC
  <1> QED
    BY <1>2, <1>3, <1>4 DEF ApplyStatefulSet

\* The builders move nothing the protocol speaks of.
LEMMA BuildersKept ==
    ASSUME UpgradeInv, TypeOK',
           ApplyMain \/ ApplySecondary \/ FinishRecreate \/ UpdateDeleted
    PROVE  Kept
  <1>1. UNCHANGED <<checkpoint, cmSeen, tc, deleting>> /\ pass.pc \notin FinalPC
    BY DEF ApplyMain, ApplySecondary, FinishRecreate, UpdateDeleted, At, FinalPC, userVars
  <1>2. ~ At("idle")
    BY <1>1 DEF At, FinalPC
  <1>3. sts'[Replica] = sts[Replica] /\ StsCacheMoves /\ pass'.pc \notin BoundPC
    <2>1. CASE ApplyMain
      <3>1. Main \in DOMAIN pass.inst.nodes
        BY <1>2, InstType, SpecType DEF UpgradeInv
      <3> QED
        BY <1>2, <2>1, <3>1, ApplyStatefulSetReplica DEF ApplyMain
    <2>2. CASE ApplySecondary
      <3>1. PICK n \in pass.todo : ApplyStatefulSet(n)
        BY <2>2 DEF ApplySecondary
      <3>2. n \in DOMAIN pass.inst.nodes
        BY <2>2 DEF ApplySecondary, At, UpgradeInv, TypeOK, PassTypeOK, SecondaryNodes
      <3> QED
        BY <1>2, <3>1, <3>2, ApplyStatefulSetReplica
    <2>3. CASE FinishRecreate
      <3>1. pass.node \in DOMAIN pass.inst.nodes
        BY <2>3 DEF FinishRecreate, At, UpgradeInv, TypeOK, PassTypeOK
      <3>2. CASE CreateOrUpdate(pass.node)
        BY <1>2, <3>1, <3>2, CreateOrUpdateReplica
      <3>3. CASE /\ UNCHANGED <<sts, stsSeen>>
                 /\ Continue([pass EXCEPT !.node = Main, !.todo = {}, !.pc =
                                IF pass.node = Main THEN "listObsolete" ELSE "report"])
        BY <3>3, CachesStay DEF Continue, BoundPC, UpgradeInv, TypeOK, Pass
      <3> QED
        BY <2>3, <3>2, <3>3 DEF FinishRecreate
    <2>4. CASE UpdateDeleted
      <3>1. pass.node \in DOMAIN pass.inst.nodes
        BY <2>4 DEF UpdateDeleted, At, UpgradeInv, TypeOK, PassTypeOK
      <3>2. CASE CreateOrUpdate(pass.node)
        BY <1>2, <3>1, <3>2, CreateOrUpdateReplica
      <3>3. CASE Done /\ UNCHANGED <<sts, stsSeen>>
        BY <3>3, EndUnbound, CachesStay
      <3> QED
        BY <2>4, <3>2, <3>3 DEF UpdateDeleted
    <2> QED
      BY <2>1, <2>2, <2>3, <2>4
  <1> QED
    BY <1>1, <1>3, QuietStep DEF StaysFinal

\* The deletion of obsolete secondaries leaves the replica alone.
LEMMA DeleteObsoleteKept ==
    ASSUME UpgradeInv, TypeOK', DeleteObsolete
    PROVE  Kept
  <1>1. UNCHANGED <<checkpoint, cmSeen, tc, deleting>> /\ pass.pc \notin FinalPC
    BY DEF DeleteObsolete, At, FinalPC, userVars
  <1>2. PICK n \in pass.todo :
           \/ Retry /\ UNCHANGED <<sts, stsSeen>>
           \/ /\ WriteStatefulSets([sts EXCEPT ![n] = NoSts])
              /\ \E pc \in {"deleteObsolete", "mainGeneration", "report"} :
                    pass' = [pass EXCEPT !.todo = pass.todo \ {n}, !.pc = pc]
    BY DEF DeleteObsolete, AfterObsolete
  <1>3. n # Replica
    BY NodesAssumption DEF UpgradeInv, TypeOK, Pass
  <1>4. sts'[Replica] = sts[Replica] /\ StsCacheMoves
    <2>1. CASE UNCHANGED <<sts, stsSeen>>
      BY <2>1, CachesStay
    <2>2. CASE WriteStatefulSets([sts EXCEPT ![n] = NoSts])
      <3>1. sts' = [sts EXCEPT ![n] = NoSts] /\ StsCacheMoves
        BY <2>2, WriteMovesCache
      <3> QED
        BY <1>3, <3>1, UpgradeTypes
    <2> QED
      BY <1>2, <2>1, <2>2
  <1>5. pass'.pc \notin BoundPC
    BY <1>2, EndUnbound DEF BoundPC, UpgradeInv, TypeOK, Pass
  <1> QED
    BY <1>1, <1>4, <1>5, QuietStep DEF StaysFinal

-------------------------------------------------------------------------------
(* Cluster, queue, crash, user *)

\* The cache of the checkpoint catches up.
LEMMA CheckpointCacheStepKept ==
    ASSUME UpgradeInv, TypeOK', CheckpointCacheStep
    PROVE  Kept
  <1> USE StageValues
  <1>1. /\ UNCHANGED <<sts, stsSeen, checkpoint, tc, deleting, pass>> /\ UNCHANGED Released
        /\ cmSeen' = checkpoint /\ cmSeen # checkpoint
    BY DEF CheckpointCacheStep, SyncCheckpoint, ReconcilerUnchanged, Released
  <1>2. StaleReads
    BY <1>1 DEF UpgradeInv, CheckpointSeen, CachesSynced
  <1>3. CheckpointSeen'
    BY <1>1, <1>2 DEF UpgradeInv, CheckpointSeen
  <1>4. ASSUME NEW stage, ActsOn(stage)
        PROVE  ActsOn(stage)'
    BY <1>1, <1>2, <1>4, UpgradeTypes DEF ActsOn, WasSeen
  <1>5. PassFollowsCheckpoint'
    BY <1>1, <1>4 DEF UpgradeInv, PassFollowsCheckpoint, At
  <1>6. ReplicaFollowsCheckpoint'
    BY <1>1 DEF UpgradeInv, ReplicaFollowsCheckpoint
  <1>7. ProtocolStep
    BY <1>1 DEF ProtocolStep, Protocol!protocolVars
  <1> QED
    BY <1>3, <1>5, <1>6, <1>7 DEF Kept, UpgradeInv

\* Kubernetes removes the replica only after its owner is gone.
LEMMA ClusterStepKept ==
    ASSUME UpgradeInv, TypeOK', ClusterStep
    PROVE  Kept
  <1>1. UNCHANGED <<tc, deleting, pass>>
    BY DEF ClusterStep, CheckpointCacheStep, ClusterNodeStep, StatusStep, GarbageStep,
       ReconcilerUnchanged
  <1>2. CASE \E n \in Nodes : ClusterNodeStep(n) \/ StatusStep(n) \/ GarbageStep(n)
    <2>1. PICK n \in Nodes : ClusterNodeStep(n) \/ StatusStep(n) \/ GarbageStep(n)
      BY <1>2
    <2>2. UNCHANGED <<checkpoint, cmSeen>>
      BY <2>1 DEF ClusterNodeStep, NodeStep, StatusStep, GarbageStep, SyncStatefulSet, CreatePod,
         PodBecomesReady, KillOutdatedPod, DeletePodOfTerminating, RemoveStatefulSet,
         CollectGarbage, UpdateStatus
    <2>3. CASE UNCHANGED <<sts, stsSeen>>
      BY <1>1, <2>2, <2>3, CachesStay, OutsideStep
    <2>4. CASE SyncStatefulSet(n)
      <3>1. sts' = sts /\ StaleReads /\ stsSeen' = [stsSeen EXCEPT ![n] = sts[n]]
        BY <2>4 DEF SyncStatefulSet, UpgradeInv, CheckpointSeen, CachesSynced
      <3>2. StsCacheMoves
        BY <3>1, UpgradeTypes DEF StsCacheMoves
      <3> QED
        BY <1>1, <2>2, <3>1, <3>2, OutsideStep
    <2>5. CASE UpdateStatus(n)
      <3>1. /\ sts' = [sts EXCEPT ![n] = StatusOf(sts[n], pod[n])] /\ StsCacheMoves
            /\ sts[n] # NoSts
        BY <2>5, WriteMovesCache DEF UpdateStatus
      <3>2. \/ sts'[Replica] = sts[Replica]
            \/ sts[Replica] # NoSts /\ sts'[Replica] = StatusOf(sts[Replica], pod[Replica])
        BY <3>1, UpgradeTypes
      <3> QED
        BY <1>1, <2>2, <3>1, <3>2, OutsideStep
    <2>6. CASE RemoveStatefulSet(n)
      <3>1. sts' = [sts EXCEPT ![n] = NoSts] /\ StsCacheMoves
        BY <2>6, WriteMovesCache DEF RemoveStatefulSet
      <3>2. n # Replica
        BY <2>6 DEF RemoveStatefulSet, UpgradeInv, ReplicaFollowsCheckpoint
      <3>3. sts'[Replica] = sts[Replica]
        BY <3>1, <3>2, UpgradeTypes
      <3> QED
        BY <1>1, <2>2, <3>1, <3>3, OutsideStep
    <2>7. CASE tc = NoTC /\ CollectGarbage(n)
      <3>1. sts' = [sts EXCEPT ![n] = NoSts] /\ StsCacheMoves
        BY <2>7, WriteMovesCache DEF CollectGarbage
      <3>2. CASE n = Replica
        <4>1. Released /\ sts'[Replica] = NoSts
          BY <2>7, <3>1, <3>2, UpgradeTypes DEF Released
        <4> QED
          BY <1>1, <2>2, <3>1, <4>1, ReplicaGoes
      <3>3. CASE n # Replica
        <4>1. sts'[Replica] = sts[Replica]
          BY <3>1, <3>3, UpgradeTypes
        <4> QED
          BY <1>1, <2>2, <3>1, <4>1, OutsideStep
      <3> QED
        BY <3>2, <3>3
    <2>8. \/ UNCHANGED <<sts, stsSeen>> \/ SyncStatefulSet(n) \/ UpdateStatus(n)
          \/ RemoveStatefulSet(n) \/ (tc = NoTC /\ CollectGarbage(n))
      BY <2>1 DEF ClusterNodeStep, NodeStep, StatusStep, GarbageStep, CreatePod,
         PodBecomesReady, KillOutdatedPod, DeletePodOfTerminating
    <2> QED
      BY <2>3, <2>4, <2>5, <2>6, <2>7, <2>8
  <1> QED
    BY <1>2, CheckpointCacheStepKept DEF ClusterStep

\* The queue touches nothing the protocol speaks of.
LEMMA QueueKept ==
    ASSUME UpgradeInv, TypeOK', TimerFires \/ UNCHANGED vars
    PROVE  Kept
  <1>1. UNCHANGED <<sts, stsSeen, checkpoint, cmSeen, pass, tc, deleting>>
    BY DEF TimerFires, vars, userVars
  <1> QED
    BY <1>1, CachesStay, OutsideStep

\* A crash forgets the pass, and what the caches held.
LEMMA CrashKept ==
    ASSUME UpgradeInv, TypeOK', Crash
    PROVE  Kept
  <1>1. /\ UNCHANGED <<sts, checkpoint, tc, deleting>> /\ UNCHANGED Released
        /\ stsSeen' = sts' /\ cmSeen' = checkpoint' /\ pass'.pc = "idle"
    BY IdlePassType DEF Crash, userVars, Released
  <1>2. CheckpointSeen'
    BY <1>1 DEF UpgradeInv, CheckpointSeen, CachesSynced
  <1>3. PassFollowsCheckpoint'
    BY <1>1 DEF PassFollowsCheckpoint, At
  <1>4. ReplicaFollowsCheckpoint'
    BY <1>1 DEF UpgradeInv, ReplicaFollowsCheckpoint, FinalPC
  <1>5. ProtocolStep
    BY <1>1 DEF ProtocolStep, Protocol!protocolVars
  <1> QED
    BY <1>2, <1>3, <1>4, <1>5 DEF Kept, UpgradeInv

\* The user releases or reclaims the object, and moves no checkpoint.
LEMMA UserStepKept ==
    ASSUME UpgradeInv, TypeOK', UserStep
    PROVE  Kept
  <1>1. UNCHANGED <<sts, stsSeen, checkpoint, cmSeen, pass>>
    BY DEF UserStep, EditTeamCity, DeleteTeamCity, RecreateTeamCity
  <1>2. ASSUME Released => Released'
        PROVE  UpgradeInv'
    <2>1. CheckpointSeen' /\ ReplicaFollowsCheckpoint'
      BY <1>1, <1>2 DEF UpgradeInv, CheckpointSeen, CachesSynced, ReplicaFollowsCheckpoint
    <2>2. PassFollowsCheckpoint'
      BY <1>1, <1>2 DEF UpgradeInv, PassFollowsCheckpoint, ActsOn, WasSeen, At
    <2> QED
      BY <2>1, <2>2 DEF UpgradeInv
  <1>3. CASE UNCHANGED Released
    <2>1. ProtocolStep
      BY <1>1, <1>3 DEF ProtocolStep, Protocol!protocolVars
    <2> QED
      BY <1>2, <1>3, <2>1 DEF Kept
  <1>4. CASE Released'
    <2>1. Protocol!Release
      BY <1>1, <1>4 DEF Protocol!Release, Released
    <2>2. ProtocolStep
      BY <2>1 DEF ProtocolStep, Protocol!ProtocolNext
    <2> QED
      BY <1>2, <1>4, <2>2 DEF Kept
  <1>5. CASE Released /\ ~ Released' /\ RecreateTeamCity
    <2>1. sts[Replica] = NoSts /\ At("idle") /\ CachesSynced
      BY <1>5 DEF RecreateTeamCity, Nodes
    <2>2. CheckpointSeen' /\ PassFollowsCheckpoint' /\ ReplicaFollowsCheckpoint'
      BY <1>1, <2>1
      DEF UpgradeInv, CheckpointSeen, CachesSynced, PassFollowsCheckpoint,
          ReplicaFollowsCheckpoint, At
    <2>3. Protocol!Reclaim
      BY <1>1, <1>5, <2>1 DEF Protocol!Reclaim, Released
    <2>4. ProtocolStep
      BY <2>3 DEF ProtocolStep, Protocol!ProtocolNext
    <2> QED
      BY <2>2, <2>4 DEF Kept, UpgradeInv
  <1>6. CASE EditTeamCity
    <2>1. UNCHANGED Released
      BY <1>6, SpecsAssumption, SpecType DEF EditTeamCity, Released, UpgradeInv, TypeOK
    <2> QED
      BY <1>3, <2>1
  <1> QED
    BY <1>3, <1>4, <1>5, <1>6 DEF UserStep, DeleteTeamCity, Released

-------------------------------------------------------------------------------
(* The theorems of the protocol *)

\* The invariant holds before the operator has acted.
LEMMA InitUpgradeInv == Init => UpgradeInv
  <1> SUFFICES ASSUME Init PROVE UpgradeInv
    OBVIOUS
  <1>1. /\ sts[Replica] = NoSts /\ CachesSynced /\ At("idle")
        /\ checkpoint = NoCheckpoint /\ cmSeen = NoCheckpoint
    BY IdlePassType DEF Init, ClusterInit, CachesSynced, Nodes, At
  <1>2. CheckpointSeen /\ PassFollowsCheckpoint /\ ReplicaFollowsCheckpoint
    BY <1>1, StageValues
    DEF CheckpointSeen, PassFollowsCheckpoint, ReplicaFollowsCheckpoint, At
  <1> QED
    BY <1>2, InitTypeOK DEF UpgradeInv

\* The initial state is one of the protocol.
LEMMA InitProtocol == Init => Protocol!ProtocolInit
  <1> SUFFICES ASSUME Init PROVE Protocol!ProtocolInit
    OBVIOUS
  <1>1. sts[Replica] = NoSts /\ checkpoint = NoCheckpoint /\ deleting = FALSE
    BY DEF Init, ClusterInit, Nodes
  <1>2. tc # NoTC
    BY SpecsAssumption, SpecType DEF Init
  <1>3. Protocol!NoCheckpoint = NoCheckpoint
    BY StageValues, ProtocolStages
  <1> QED
    BY <1>1, <1>2, <1>3 DEF Protocol!ProtocolInit, Released

\* Every step keeps the invariant and is a step of the protocol.
LEMMA StepKept ==
    ASSUME UpgradeInv, [Next]_vars
    PROVE  Kept
  <1>1. TypeOK'
    BY StepTypeOK DEF UpgradeInv
  <1>2. CASE OperatorStep
    BY <1>1, <1>2, StartPassKept, FinalizeTeamCityKept, RemoveFinalizerKept, ReadingKept,
       PerformZeroDowntimeUpgradeKept, StagesKept, HandleReplicaCreatedKept,
       HandleReplicaReadyKept, HandleMainShuttingDownKept, HandleMainReadyKept,
       HandleUpdateFinishedKept, BuildersKept, DeleteObsoleteKept
    DEF OperatorStep
  <1> QED
    BY <1>1, <1>2, ReadingKept, BuildersKept, ClusterStepKept, QueueKept, CrashKept,
       UserStepKept
    DEF Next

\* However far the caches lag, every pass acts on a stage that is old by one write at
\* most, and the replica exists only where the next write expects it.
THEOREM UpgradeInvariant == Spec => []UpgradeInv
  <1>1. UpgradeInv /\ [Next]_vars => UpgradeInv'
    BY StepKept DEF Kept
  <1> QED
    BY <1>1, InitUpgradeInv, PTL DEF Spec

\* A replica never outlives its upgrade, whatever crashes, fails, lags or is edited on
\* the way.
THEOREM ReplicaStaysWithinUpgrade == Spec => []ReplicaWithinUpgrade
  <1>1. UpgradeInv => ReplicaWithinUpgrade
    BY DEF UpgradeInv, ReplicaFollowsCheckpoint, ReplicaWithinUpgrade
  <1> QED
    BY <1>1, UpgradeInvariant, PTL

\* The reconciler implements the upgrade protocol, whatever its caches hold.
THEOREM ProtocolImplemented == Spec => UpgradeProtocolImplemented
  <1>1. UpgradeInv /\ [Next]_vars => [Protocol!ProtocolNext]_(Protocol!protocolVars)
    BY StepKept DEF Kept, ProtocolStep
  <1> QED
    BY <1>1, InitProtocol, UpgradeInvariant, PTL
    DEF Spec, UpgradeProtocolImplemented, Protocol!ProtocolSpec

-------------------------------------------------------------------------------
(* Caches that follow every write at once *)

\* A pass acts on the stage that is persisted, or, before there is a checkpoint, on one
\* of the two an upgrade starts with.
PassIsFresh ==
    /\ CachesSynced /\ checkpoint # UpdateInitiated
    /\ At("stage") => \/ pass.stage = checkpoint
                      \/ checkpoint = NoCheckpoint /\ pass.stage \in {UpdateInitiated, ReplicaReady}
    /\ At("generation") => checkpoint = MainShuttingDown
    /\ At("advance") =>
          pass.stage = checkpoint /\ (checkpoint = MainReady => sts[Replica] = NoSts)
    /\ pass.pc \in {"finalize", "removeFinalizer"} => Released

\* What UpgradeInv comes to when nothing is read late.
FreshInv ==
    /\ TypeOK /\ PassIsFresh /\ ReplicaWithinUpgrade
    /\ sts[Replica] # NoSts => ~ sts[Replica].terminating

\* Without stale reads the stage that was seen is the one that is persisted.
LEMMA FreshFollows ==
    ASSUME ~ StaleReads, UpgradeInv
    PROVE  FreshInv
  <1> USE StageValues
  <1>1. CachesSynced /\ checkpoint # UpdateInitiated
    BY DEF UpgradeInv, CheckpointSeen
  <1>2. At("advance") => pass.stage \in {ReplicaCreated, MainReady}
    BY DEF UpgradeInv, TypeOK, PassTypeOK
  <1>3. PassIsFresh
    BY <1>1, <1>2 DEF UpgradeInv, PassFollowsCheckpoint, ActsOn, PassIsFresh
  <1> QED
    BY <1>3 DEF UpgradeInv, ReplicaFollowsCheckpoint, ReplicaWithinUpgrade, FreshInv

\* With fresh caches every pass acts on the persisted stage.
LEMMA FreshInvariant ==
    ASSUME ~ StaleReads
    PROVE  Spec => []FreshInv
  <1>1. UpgradeInv => FreshInv
    BY FreshFollows
  <1> QED
    BY <1>1, UpgradeInvariant, PTL

\* With fresh caches both copies move together.
LEMMA FreshStatefulSets ==
    ASSUME ~ StaleReads, NEW new, WriteStatefulSets(new)
    PROVE  sts' = new /\ stsSeen' = new
  BY DEF WriteStatefulSets

\* With fresh caches a checkpoint is legal, or it changes nothing.
LEMMA FreshDoCheckpoint ==
    ASSUME ~ StaleReads, FreshInv, NEW desired \in Stage, NEW ok \in BOOLEAN,
           DoCheckpoint(desired, ok)
    PROVE  /\ cmSeen' = checkpoint'
           /\ \/ UNCHANGED checkpoint
              \/ checkpoint' = desired /\ checkpoint = NoCheckpoint
              \/ checkpoint' = desired /\ checkpoint # NoCheckpoint
                 /\ desired - checkpoint \in {0, 1}
  BY DEF FreshInv, PassIsFresh, CachesSynced, DoCheckpoint, WriteCheckpoint,
     CanChangeStageValue

\* With fresh caches checkpoint.Delete fails only if there is nothing to delete.
LEMMA FreshDelete ==
    ASSUME ~ StaleReads, FreshInv, NEW ok \in BOOLEAN, DeleteCheckpoint(ok)
    PROVE  /\ cmSeen' = checkpoint' /\ checkpoint' = NoCheckpoint
           /\ ok = (checkpoint # NoCheckpoint)
  BY DEF FreshInv, PassIsFresh, CachesSynced, DeleteCheckpoint, WriteCheckpoint

-------------------------------------------------------------------------------
(* The finalizer *)

\* Once the checkpoint is seen gone it stays gone until the object is, and no pass
\* runs for an object that is gone.
FinalizerInv ==
    HasFinalizer =>
        /\ tc = NoTC => checkpoint = NoCheckpoint /\ At("idle")
        /\ At("removeFinalizer") => checkpoint = NoCheckpoint

PassStep ==
    \/ DetectUpgrade \/ PerformZeroDowntimeUpgrade
    \/ HandleUpdateInitiated \/ HandleReplicaCreated \/ AdvanceCheckpoint
    \/ HandleReplicaStarting \/ HandleReplicaReady
    \/ HandleMainShuttingDown \/ CheckMainGeneration
    \/ HandleMainReady \/ HandleUpdateFinished
    \/ ApplyMain \/ ApplySecondary \/ FinishRecreate
    \/ ListObsolete \/ DeleteObsolete
    \/ CheckPreconditionGeneration \/ CheckPreconditionFinished \/ ReportSuccess
    \/ ApiError \/ UpdateDeleted

\* A step that neither starts a pass nor finalizes leads to no finalizer.
LEMMA PassStepElsewhere ==
    ASSUME TypeOK, PassStep
    PROVE  ~ At("idle") /\ UNCHANGED tc /\ pass'.pc # "removeFinalizer"
  <1>1. ~ At("idle") /\ UNCHANGED tc
    BY DEF PassStep, DetectUpgrade, PerformZeroDowntimeUpgrade,
       HandleUpdateInitiated, HandleReplicaCreated, AdvanceCheckpoint, HandleReplicaStarting,
       HandleReplicaReady, HandleMainShuttingDown, CheckMainGeneration, HandleMainReady,
       HandleUpdateFinished, ApplyMain, ApplySecondary, FinishRecreate, ListObsolete,
       DeleteObsolete, CheckPreconditionGeneration, CheckPreconditionFinished,
       ReportSuccess, ApiError, UpdateDeleted, At, AtStage, userVars
  <1> SUFFICES pass'.pc # "removeFinalizer"
    BY <1>1
  <1>2. pass \in Pass
    BY DEF TypeOK
  <1>3. Done \/ RequeueAfter \/ Retry => pass'.pc # "removeFinalizer"
    BY EndUnbound DEF BoundPC
  <1>4. CASE DetectUpgrade
    BY <1>2, <1>4 DEF DetectUpgrade, Continue, Pass
  <1>5. CASE PerformZeroDowntimeUpgrade
    BY <1>2, <1>5 DEF PerformZeroDowntimeUpgrade, Continue, Pass
  <1>6. CASE HandleUpdateInitiated \/ AdvanceCheckpoint \/ HandleReplicaStarting
             \/ CheckMainGeneration
    BY <1>3, <1>6 DEF HandleUpdateInitiated, AdvanceCheckpoint, HandleReplicaStarting,
       CheckMainGeneration, CheckpointAndRequeue, WaitForNextPass
  <1>7. CASE HandleReplicaCreated
    BY <1>2, <1>3, <1>7 DEF HandleReplicaCreated, Pass
  <1>8. CASE HandleMainReady \/ HandleMainShuttingDown
    BY <1>2, <1>3, <1>8 DEF HandleMainReady, HandleMainShuttingDown, Goto, Continue, Pass
  <1>9. CASE HandleReplicaReady \/ HandleUpdateFinished
    BY <1>2, <1>3, <1>9 DEF HandleReplicaReady, HandleUpdateFinished, Goto, Continue, Pass
  <1>10. CASE ApplyMain \/ ApplySecondary \/ FinishRecreate \/ UpdateDeleted
    <2>1. ASSUME NEW n, CreateOrUpdate(n)
          PROVE  pass'.pc # "removeFinalizer"
      BY <1>2, <1>3, <2>1 DEF CreateOrUpdate, AfterNode, Pass
    <2>2. ASSUME NEW n, ApplyStatefulSet(n)
          PROVE  pass'.pc # "removeFinalizer"
      BY <1>2, <1>3, <2>1, <2>2 DEF ApplyStatefulSet, Pass
    <2>3. CASE ApplyMain \/ ApplySecondary
      BY <2>2, <2>3 DEF ApplyMain, ApplySecondary
    <2>4. CASE FinishRecreate
      BY <1>2, <2>1, <2>4 DEF FinishRecreate, Continue, Pass
    <2>5. CASE UpdateDeleted
      BY <1>3, <2>1, <2>5 DEF UpdateDeleted
    <2> QED
      BY <1>10, <2>3, <2>4, <2>5
  <1>11. CASE ListObsolete \/ CheckPreconditionGeneration
    BY <1>2, <1>11 DEF ListObsolete, AfterObsolete, CheckPreconditionGeneration, Continue, Pass
  <1>12. CASE DeleteObsolete
    BY <1>2, <1>3, <1>12 DEF DeleteObsolete, AfterObsolete, Pass
  <1>13. CASE CheckPreconditionFinished
    <2>1. \/ RequeueAfter
          \/ Continue([pass EXCEPT !.pc = "secondaries", !.mark = FALSE,
                         !.todo = SecondaryNodes(pass.inst)])
      BY <1>13 DEF CheckPreconditionFinished
    <2> QED
      BY <1>2, <1>3, <2>1 DEF Continue, Pass
  <1>14. CASE ReportSuccess \/ ApiError
    BY <1>3, <1>14 DEF ReportSuccess, ApiError
  <1> QED
    BY <1>4, <1>5, <1>6, <1>7, <1>8, <1>9, <1>10, <1>11, <1>12, <1>13, <1>14
    DEF PassStep

\* A finalizer that reads without error finds every checkpoint there is.
LEMMA FinalizerStep ==
    ASSUME ~ StaleReads, "read" \notin FaultKinds, FreshInv, FinalizerInv, [Next]_vars
    PROVE  FinalizerInv'
  <1> SUFFICES ASSUME HasFinalizer
               PROVE  /\ tc' = NoTC => checkpoint' = NoCheckpoint /\ At("idle")'
                      /\ At("removeFinalizer")' => checkpoint' = NoCheckpoint
    BY DEF FinalizerInv
  <1>1. CASE PassStep
    <2>1. tc # NoTC
      BY <1>1, PassStepElsewhere DEF FinalizerInv, FreshInv
    <2> QED
      BY <1>1, <2>1, PassStepElsewhere DEF At, FreshInv
  <1>2. CASE StartPass
    BY <1>2, IdlePassType DEF StartPass, FinalizerInv, userVars, At, Pass
  <1>3. CASE FinalizeTeamCity
    <2>1. tc' # NoTC
      BY <1>3 DEF FinalizeTeamCity, FinalizerInv, At, userVars
    <2>2. PICK ongoing \in BOOLEAN :
             /\ ongoing = (cmSeen # NoCheckpoint)
             /\ IF ongoing
                THEN \E ok \in BOOLEAN :
                        DeleteCheckpoint(ok) /\ IF ok THEN Goto("removeFinalizer") ELSE Retry
                ELSE Goto("removeFinalizer") /\ UNCHANGED <<checkpoint, cmSeen>>
      BY <1>3 DEF FinalizeTeamCity, ReadOngoing, Fault, OngoingZeroDowntimeUpgrade
    <2>3. checkpoint' = NoCheckpoint
      BY <2>2, FreshDelete DEF FreshInv, PassIsFresh, CachesSynced
    <2> QED
      BY <2>1, <2>3
  <1>4. CASE RemoveFinalizer
    BY <1>4, IdlePassType DEF RemoveFinalizer, Done, FinalizerInv, At
  <1>5. CASE UserStep
    <2>1. UNCHANGED <<checkpoint, pass>>
      BY <1>5 DEF UserStep, EditTeamCity, DeleteTeamCity, RecreateTeamCity
    <2>2. tc' = NoTC => tc = NoTC
      BY <1>5, SpecsAssumption, SpecType
      DEF UserStep, EditTeamCity, DeleteTeamCity, RecreateTeamCity, FreshInv, TypeOK
    <2> QED
      BY <2>1, <2>2 DEF FinalizerInv, At
  <1>6. CASE Crash
    BY <1>6, IdlePassType DEF Crash, FinalizerInv, At, userVars
  <1>7. CASE TimerFires \/ ClusterStep \/ UNCHANGED vars
    <2>1. UNCHANGED <<checkpoint, pass, tc>>
      BY <1>7 DEF TimerFires, userVars, vars, ClusterStep, CheckpointCacheStep, SyncCheckpoint,
         ClusterNodeStep, StatusStep, GarbageStep, ReconcilerUnchanged, NodeStep,
         SyncStatefulSet, CreatePod, PodBecomesReady, KillOutdatedPod,
         DeletePodOfTerminating, RemoveStatefulSet, CollectGarbage, UpdateStatus
    <2> QED
      BY <2>1 DEF FinalizerInv, At
  <1> QED
    BY <1>1, <1>2, <1>3, <1>4, <1>5, <1>6, <1>7 DEF Next, OperatorStep, PassStep

\* With fresh caches and reads that do not fail, an object with the finalizer leaves
\* no checkpoint behind for an object of the same name to find.
THEOREM FinalizerLeavesNoCheckpoint ==
    ASSUME ~ StaleReads, "read" \notin FaultKinds
    PROVE  Spec => []NoCheckpointLeft
  <1>1. Init => FinalizerInv
    BY IdlePassType DEF Init, ClusterInit, FinalizerInv, At
  <1>2. FreshInv /\ FinalizerInv /\ [Next]_vars => FinalizerInv'
    BY FinalizerStep
  <1>3. FinalizerInv => NoCheckpointLeft
    BY DEF FinalizerInv, NoCheckpointLeft
  <1> QED
    BY <1>1, <1>2, <1>3, FreshInvariant, PTL DEF Spec
===============================================================================
