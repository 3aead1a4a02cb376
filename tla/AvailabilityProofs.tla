--------------------------- MODULE AvailabilityProofs --------------------------
(***************************************************************************)
(* "At least one node is serving the UI during the process" (README.md:482):*)
(* a proof for upgrades of one node and of several, scaling, deletion and   *)
(* edits that change no node's service, through crashes and failing calls.  *)
(* No step of such a behaviour takes the last node that serves, unless one  *)
(* of the three mishaps has come first, each of which is known to: an edit  *)
(* that does not wait for the last one, a pass that ends between the        *)
(* checkpoint and the change of the main node, and a status of the main     *)
(* node between two reads of it.                                            *)
(***************************************************************************)
EXTENDS MainProofs

-------------------------------------------------------------------------------
(* The setting *)

\* Caches follow every write at once, objects carry the finalizer, reads do not fail, and
\* edits change no governing service.
Setting ==
    /\ ~ StaleReads /\ HasFinalizer /\ "read" \notin FaultKinds
    /\ \A n \in Nodes \ {Replica} : SteadyService(n)

\* The invariants proved before.
Known ==
    /\ FreshInv /\ FinalizerInv /\ RestInv /\ CoverInv
    /\ \A n \in Nodes \ {Replica} : NotRecreated(n)

\* What each step has to show: the invariant, and that a node still runs if one served.
Available == AvailInv' /\ (Serving /\ tc' # NoTC => (\E n \in Nodes : Runs(n))')

-------------------------------------------------------------------------------
(* Nodes that run *)

\* A node runs if its pod is ready and has its template.
LEMMA RunsMeans ==
    ASSUME FreshInv, NEW n \in Nodes, sts[n] # NoSts
    PROVE  Runs(n) <=> pod[n] # NoPod /\ pod[n].ready /\ pod[n].template = sts[n].template
  <1>1. sts[n].template \in Template /\ pod[n] \in Pod \cup {NoPod}
    BY Typed DEF StatefulSet
  <1>2. CASE pod[n] = [template |-> sts[n].template, ready |-> TRUE]
    <2>1. pod[n] # NoPod /\ pod[n].template = sts[n].template
      BY <1>1, <1>2, RunningPod
    <2>2. pod[n].ready = TRUE
      BY <1>2
    <2> QED
      BY <1>2, <2>1, <2>2 DEF Runs
  <1>3. CASE pod[n] # NoPod /\ pod[n].ready /\ pod[n].template = sts[n].template
    <2>1. pod[n] \in Pod /\ pod[n].ready = TRUE
      BY <1>1, <1>3 DEF Pod
    <2>2. pod[n] = [template |-> sts[n].template, ready |-> TRUE]
      BY <1>3, <2>1 DEF Pod
    <2> QED
      BY <1>3, <2>2 DEF Runs
  <1> QED
    BY <1>2, <1>3 DEF Runs

\* The replica runs if it is up and was never changed.
LEMMA ReplicaRuns ==
    ASSUME FreshInv, ReplicaPod, ReplicaSteady
    PROVE  ReplicaUp <=> Runs(Replica)
  BY Typed, RunsMeans DEF ReplicaUp, ReplicaPod, ReplicaSteady, ReplicaChanged, Runs

\* A pod that is not ready runs once it is.
LEMMA PodFits ==
    ASSUME Known, PodsFit, ReplicaSteady, NEW n \in Nodes
    PROVE  /\ sts[n] = NoSts => pod[n] = NoPod
           /\ sts[n] # NoSts /\ pod[n] # NoPod /\ ~ pod[n].ready =>
                 pod[n].template = sts[n].template
           /\ sts[n] # NoSts => ~ sts[n].terminating
  BY DEF Known, PodsFit, ReplicaSteady, ReplicaChanged, CoverInv, ReplicaFits, ReplicaPod,
     FreshInv, NotRecreated

\* While the object exists, Kubernetes takes no node away that runs.
LEMMA ClusterKeepsNode ==
    ASSUME Setting, Known, PodsFit, ReplicaSteady, ClusterStep, tc # NoTC, NEW n \in Nodes
    PROVE  /\ sts'[n] = NoSts <=> sts[n] = NoSts
           /\ sts[n] # NoSts =>
                 sts'[n].template = sts[n].template /\ sts'[n].svc = sts[n].svc
           /\ Runs(n) => Runs(n)'
           /\ pod'[n] # NoPod /\ pod'[n].ready => (pod[n] # NoPod /\ pod[n].ready) \/ Runs(n)'
  <1>1. FreshInv /\ ~ StaleReads /\ sts[n] \in StatefulSet \cup {NoSts} /\ pod[n] \in Pod \cup {NoPod}
    BY Typed DEF Known, Setting
  <1>2. Still(n) \/ StatusLands(n) \/ PodMoves(n)
    BY <1>1, ClusterStepEffect, PodFits DEF Vanishes
  <1>3. CASE Still(n)
    BY <1>3 DEF Still, Runs
  <1>4. CASE StatusLands(n)
    <2>1. StatusOf(sts[n], pod[n]) # NoSts
      BY <1>1, <1>4, StatusType, AbsenceAssumption DEF StatusLands
    <2>2. /\ sts'[n].template = sts[n].template /\ sts'[n].svc = sts[n].svc
          /\ sts[n] # NoSts /\ sts'[n] # NoSts /\ pod'[n] = pod[n]
      BY <1>1, <1>4, <2>1 DEF StatusLands, StatusOf, StatefulSet
    <2> QED
      BY <2>2 DEF Runs
  <1>5. CASE PodMoves(n)
    <2>1. sts'[n] = sts[n]
      BY <1>5 DEF PodMoves
    <2>2. CASE /\ sts[n] # NoSts /\ pod[n] = NoPod
               /\ pod'[n] = [template |-> sts[n].template, ready |-> FALSE]
      BY <1>1, <2>1, <2>2, RunsMeans
    <2>3. CASE pod[n] # NoPod /\ pod'[n] = [pod[n] EXCEPT !.ready = TRUE]
      <3>1. sts[n] # NoSts /\ pod[n] \in Pod
        BY <1>1, <2>3, PodFits
      <3>2. CASE pod[n].ready
        <4>1. pod'[n] = pod[n]
          BY <2>3, <3>1, <3>2 DEF Pod
        <4> QED
          BY <2>1, <3>1, <3>2, <2>3, <4>1 DEF Runs
      <3>3. CASE ~ pod[n].ready
        <4>1. pod[n].template = sts[n].template
          BY <2>3, <3>1, <3>3, PodFits
        <4>2. pod'[n] = [template |-> sts[n].template, ready |-> TRUE]
          BY <2>3, <3>1, <4>1 DEF Pod
        <4> QED
          BY <2>1, <3>1, <4>2 DEF Runs
      <3> QED
        BY <3>2, <3>3
    <2>4. CASE /\ sts[n] # NoSts /\ pod[n] # NoPod /\ pod'[n] = NoPod
               /\ sts[n].terminating \/ pod[n].template # sts[n].template
      BY <1>1, <2>1, <2>4, PodFits, RunsMeans
    <2> QED
      BY <1>5, <2>2, <2>3, <2>4 DEF PodMoves
  <1> QED
    BY <1>2, <1>3, <1>4, <1>5

\* The pods of all nodes keep fitting, with or without the object.
LEMMA ClusterPodsFit ==
    ASSUME Setting, Known, PodsFit, ReplicaSteady, ClusterStep
    PROVE  PodsFit'
  <1> SUFFICES ASSUME NEW n \in Nodes \ {Replica}
               PROVE  /\ sts'[n] = NoSts => pod'[n] = NoPod
                      /\ sts'[n] # NoSts /\ pod'[n] # NoPod /\ ~ pod'[n].ready =>
                            pod'[n].template = sts'[n].template
    BY DEF PodsFit
  <1>1. FreshInv /\ ~ StaleReads /\ sts[n] \in StatefulSet \cup {NoSts} /\ pod[n] \in Pod \cup {NoPod}
    BY Typed DEF Known, Setting
  <1>2. Still(n) \/ StatusLands(n) \/ PodMoves(n) \/ Vanishes(n)
    BY <1>1, ClusterStepEffect
  <1>3. CASE Still(n) \/ Vanishes(n)
    BY <1>3, PodFits DEF Still, Vanishes
  <1>4. CASE StatusLands(n)
    <2>1. sts'[n].template = sts[n].template /\ sts[n] # NoSts /\ pod'[n] = pod[n]
      BY <1>1, <1>4 DEF StatusLands, StatusOf, StatefulSet
    <2>2. sts'[n] # NoSts
      BY <1>1, <1>4, StatusType, AbsenceAssumption DEF StatusLands
    <2> QED
      BY <2>1, <2>2, PodFits
  <1>5. CASE PodMoves(n)
    <2>1. sts'[n] = sts[n]
      BY <1>5 DEF PodMoves
    <2>2. pod[n] # NoPod /\ pod'[n] = [pod[n] EXCEPT !.ready = TRUE] => sts[n] # NoSts /\ pod'[n].ready
      BY <1>1, PodFits DEF Pod
    <2> QED
      BY <1>5, <2>1, <2>2, PodFits DEF PodMoves
  <1> QED
    BY <1>2, <1>3, <1>4, <1>5

\* So does the main node's status.
LEMMA ClusterStatusFits ==
    ASSUME Setting, Known, PodsFit, ReplicaSteady, MainStatusFits, ClusterStep
    PROVE  MainStatusFits'
  <1> DEFINE s == sts[Main]
             p == pod[Main]
  <1>1. /\ FreshInv /\ ~ StaleReads /\ s \in StatefulSet \cup {NoSts} /\ p \in Pod \cup {NoPod}
        /\ Main \in Nodes
    BY Typed DEF Known, Setting
  <1>2. Still(Main) \/ StatusLands(Main) \/ PodMoves(Main) \/ Vanishes(Main)
    BY <1>1, ClusterStepEffect
  <1>3. CASE Still(Main) \/ Vanishes(Main)
    BY <1>3 DEF Still, Vanishes, MainStatusFits, MainRuns, Runs
  <1>4. CASE StatusLands(Main)
    <2> DEFINE t == StatusOf(s, p)
               ready == p # NoPod /\ p.ready
    <2>1. s # NoSts /\ s \in StatefulSet /\ sts'[Main] = t /\ pod'[Main] = p
      BY <1>1, <1>4 DEF StatusLands
    <2>2. /\ t \in StatefulSet /\ t.template = s.template /\ t.update = s.template
          /\ t.ready = ready
          /\ t.current = IF ready /\ p.template = s.template THEN s.template ELSE s.current
      BY <1>1, <2>1, StatusType DEF StatusOf, StatefulSet
    <2>3. p # NoPod /\ t.current = t.template => p.template = s.template
      BY <2>1, <2>2 DEF MainStatusFits
    <2>4. t.ready /\ t.current = t.template => p = [template |-> s.template, ready |-> TRUE]
      BY <1>1, <2>1, <2>2, <2>3, RunsMeans DEF Runs
    <2> HIDE DEF t, ready
    <2> QED
      BY <2>1, <2>2, <2>3, <2>4 DEF MainStatusFits, MainRuns, Runs
  <1>5. CASE PodMoves(Main)
    <2>1. sts'[Main] = s /\ (s # NoSts => ~ s.terminating)
      BY <1>1, <1>5, PodFits DEF PodMoves
    <2>2. MainRuns => MainRuns'
      <3> SUFFICES ASSUME MainRuns PROVE MainRuns'
        OBVIOUS
      <3>1. s # NoSts /\ p # NoPod /\ p.ready /\ p.template = s.template
        BY <1>1, RunsMeans DEF MainRuns, Runs
      <3>2. [p EXCEPT !.ready = TRUE] = p
        BY <1>1, <3>1 DEF Pod
      <3>3. pod'[Main] = p
        BY <1>5, <2>1, <3>1, <3>2 DEF PodMoves
      <3> QED
        BY <2>1, <3>3 DEF MainRuns, Runs
    <2>3. s # NoSts /\ s.current = s.template /\ pod'[Main] # NoPod => pod'[Main].template = s.template
      <3>1. p # NoPod /\ pod'[Main] = [p EXCEPT !.ready = TRUE] => pod'[Main].template = p.template
        BY <1>1 DEF Pod
      <3> QED
        BY <1>5, <3>1 DEF PodMoves, MainStatusFits
    <2> QED
      BY <2>1, <2>2, <2>3 DEF MainStatusFits
  <1> QED
    BY <1>2, <1>3, <1>4, <1>5

\* And the replica is as HandleReplicaCreated would make it again.
LEMMA ClusterReplicaSteady ==
    ASSUME Setting, Known, PodsFit, ReplicaSteady, ClusterStep
    PROVE  ReplicaSteady'
  <1>1. /\ FreshInv /\ ~ StaleReads /\ UNCHANGED <<tc, checkpoint>>
        /\ Main \in Nodes /\ Replica \in Nodes
    BY Typed, ClusterStepEffect DEF Known, Setting, ReconcilerUnchanged
  <1>2. sts'[Replica] # NoSts => sts[Replica] # NoSts /\ sts'[Replica].changed = sts[Replica].changed
    <2>1. Still(Replica) \/ StatusLands(Replica) \/ PodMoves(Replica) \/ Vanishes(Replica)
      BY <1>1, ClusterStepEffect
    <2>2. CASE StatusLands(Replica)
      <3>1. sts[Replica] \in StatefulSet
        BY <1>1, <2>2, Typed DEF StatusLands
      <3> QED
        BY <2>2, <3>1 DEF StatusLands, StatusOf, StatefulSet
    <2> QED
      BY <2>1, <2>2 DEF Still, PodMoves, Vanishes
  <1>3. ASSUME tc # NoTC, NEW n \in {Main, Replica}
        PROVE  /\ sts'[n] = NoSts <=> sts[n] = NoSts
               /\ sts[n] # NoSts => sts'[n].template = sts[n].template
    BY <1>1, <1>3, ClusterKeepsNode
  <1>4. ASSUME tc # NoTC, sts'[Main] # NoSts
        PROVE  [sts'[Main].template EXCEPT !.env = tc.nodes[Main].template.env] =
               [sts[Main].template EXCEPT !.env = tc.nodes[Main].template.env]
    BY <1>3, <1>4
  <1> QED
    BY <1>1, <1>2, <1>3, <1>4 DEF ReplicaSteady, ReplicaChanged

\* So Kubernetes, left to itself, keeps the service available.
LEMMA ClusterAvailable ==
    ASSUME Setting, Known, AvailInv, ClusterStep, ~ TornRead
    PROVE  Available
  <1>1. /\ FreshInv /\ ~ StaleReads /\ Main \in Nodes /\ Secondaries \subseteq Nodes
        /\ UNCHANGED <<tc, pass, checkpoint>> /\ PodsFit /\ ReplicaSteady /\ MainStatusFits
    BY Typed, ClusterStepEffect DEF Known, Setting, AvailInv, ReconcilerUnchanged
  <1>2. PodsFit' /\ ReplicaSteady' /\ MainStatusFits' /\ ~ At("recreating")'
    BY <1>1, ClusterPodsFit, ClusterReplicaSteady, ClusterStatusFits DEF AvailInv, At
  <1> SUFFICES ASSUME tc # NoTC
               PROVE  NodesFit' /\ PassFits' /\ (Serving => (\E n \in Nodes : Runs(n))')
    BY <1>1, <1>2 DEF Available, AvailInv
  <1>3. ASSUME NEW n \in Nodes
        PROVE  /\ sts'[n] = NoSts <=> sts[n] = NoSts
               /\ sts[n] # NoSts =>
                     sts'[n].template = sts[n].template /\ sts'[n].svc = sts[n].svc
               /\ Runs(n) => Runs(n)'
               /\ pod'[n] # NoPod /\ pod'[n].ready => (pod[n] # NoPod /\ pod[n].ready) \/ Runs(n)'
    BY <1>1, ClusterKeepsNode
  <1>4. NodesFit /\ PassFits
    BY DEF AvailInv
  <1>5. Serving => (\E n \in Nodes : Runs(n))'
    BY <1>3, <1>4 DEF NodesFit
  <1>6. Serving' => (\E n \in Nodes : Runs(n))'
    BY <1>3, <1>5 DEF Serving
  <1>7. /\ Outdated' <=> Outdated
        /\ MainRuns => MainRuns'
    BY <1>1, <1>3 DEF Outdated, MainRuns
  <1>8. DOMAIN tc.nodes \subseteq Nodes
    BY SpecType, Typed, <1>1
  <1>9. ASSUME Outdated
        PROVE  /\ ChangesRequireNodeStatefulSetRestart(tc.nodes[Main], sts'[Main])
               /\ sts'[Main].current = sts'[Main].template
    <2>1. /\ sts[Main] # NoSts /\ sts[Main] \in StatefulSet /\ pod[Main] \in Pod \cup {NoPod}
          /\ sts[Main].current = sts[Main].template
          /\ ChangesRequireNodeStatefulSetRestart(tc.nodes[Main], sts[Main])
      BY <1>1, <1>4, <1>9, Typed DEF NodesFit, Outdated
    <2>2. ChangesRequireNodeStatefulSetRestart(tc.nodes[Main], sts'[Main])
      BY <1>1, <1>3, <2>1 DEF ChangesRequireNodeStatefulSetRestart, DeepDerivative
    <2>3. CASE StatusLands(Main)
      BY <2>1, <2>2, <2>3 DEF StatusLands, StatusOf, StatefulSet
    <2>4. CASE sts'[Main] = sts[Main]
      BY <2>1, <2>2, <2>4
    <2>5. sts'[Main] = sts[Main] \/ StatusLands(Main)
      BY <1>1, <1>3, <2>1, ClusterStepEffect DEF Still, PodMoves, Vanishes
    <2> QED
      BY <2>2, <2>3, <2>4, <2>5
  <1>10. NodesFit'
    BY <1>1, <1>3, <1>4, <1>6, <1>7, <1>8, <1>9 DEF NodesFit
  <1>11. At("generation") => sts'[Main] = sts[Main]
    BY DEF TornRead
  <1>12. IsNewestGeneration(sts[Main]) => IsNewestGeneration(sts'[Main])
    <2>1. sts'[Main] = sts[Main] \/ sts[Main] = NoSts \/ StatusLands(Main)
      BY <1>1, <1>3, ClusterStepEffect DEF Still, PodMoves, Vanishes
    <2>2. CASE StatusLands(Main)
      <3>1. sts[Main] # NoSts /\ sts[Main] \in StatefulSet /\ sts'[Main] # NoSts
        BY <1>1, <1>3, <2>2, Typed DEF StatusLands
      <3> QED
        BY <2>2, <3>1 DEF StatusLands, StatusOf, StatefulSet, IsNewestGeneration
    <2> QED
      BY <2>1, <2>2 DEF IsNewestGeneration
  <1>13. PassFits'
    BY <1>1, <1>4, <1>7, <1>11, <1>12 DEF PassFits, At
  <1> QED
    BY <1>5, <1>10, <1>13

-------------------------------------------------------------------------------
(* What a pass goes on to *)

\* An upgrade comes to ReplicaCreated with no replica.
ReplicaIsNew == checkpoint' = ReplicaCreated => checkpoint = ReplicaCreated \/ sts[Replica] = NoSts

\* A step that changes no node needs to show only what its pass goes on to.
LEMMA NodesStay ==
    ASSUME AvailInv, UNCHANGED <<sts, pod, tc>>, pass'.pc # "recreating", ReplicaIsNew,
           tc # NoTC => PassFits'
    PROVE  Available
  <1>1. ReplicaSteady'
    BY DEF AvailInv, ReplicaSteady, ReplicaChanged, ReplicaIsNew
  <1> QED
    BY <1>1 DEF Available, AvailInv, NodesFit, PodsFit, MainStatusFits, MainRuns, Runs, Outdated,
       Serving, At

\* The steps at which a pass relies on nothing but the object.
QuietPC == {"idle", "finalize", "removeFinalizer", "ongoing", "upgrade", "stage", "advance"}

\* A pass ends, or comes to such a step; only a main node that runs what the object asks
\* for lets the checkpoint go beyond ReplicaReady.
LEMMA PassIsQuiet ==
    ASSUME AvailInv, UNCHANGED <<sts, pod, tc>>, ~ At("main"), pass'.pc \in QuietPC,
           ReplicaIsNew,
           tc # NoTC => /\ pass'.pc = "idle" \/ pass'.inst = tc
                        /\ \/ checkpoint' = checkpoint
                           \/ checkpoint' \in NoCheckpoint .. ReplicaReady
                           \/ MainRuns /\ ~ Outdated
    PROVE  Available
  <1> SUFFICES ASSUME tc # NoTC PROVE PassFits'
    BY NodesStay DEF QuietPC
  <1>1. (MainRuns => MainRuns') /\ (Outdated' <=> Outdated)
    BY DEF MainRuns, Runs, Outdated
  <1>2. pass'.pc \notin BuilderPC \cup {"generation"}
    BY DEF QuietPC, BuilderPC
  <1>3. PassFits
    BY DEF AvailInv
  <1> QED
    BY <1>1, <1>2, <1>3, StageValues DEF PassFits, At, BuilderPC

\* A pass goes on among the builders, with the main node changed.
LEMMA PassBuilds ==
    ASSUME AvailInv, UNCHANGED <<sts, pod, tc>>, ReplicaIsNew,
           tc # NoTC =>
              /\ ~ Outdated /\ pass'.inst = tc /\ pass'.pc \in BuilderPC \ {"recreating"}
              /\ checkpoint' = checkpoint \/ checkpoint' # MainReady
              /\ pass'.pc = "secondaries" => MainRuns
              /\ pass'.pc = "mainFinished" /\ pass'.mark => IsNewestGeneration(sts[Main])
              /\ pass'.pc = "deleteObsolete" => pass'.todo \cap DOMAIN tc.nodes = {},
           pass'.pc # "recreating"
    PROVE  Available
  <1> SUFFICES ASSUME tc # NoTC PROVE PassFits'
    BY NodesStay
  <1>1. (MainRuns => MainRuns') /\ (Outdated' <=> Outdated)
    BY DEF MainRuns, Runs, Outdated
  <1> QED
    BY <1>1 DEF AvailInv, PassFits, At, BuilderPC

\* A pass in progress works on the object as it is.
LEMMA BusyPass ==
    ASSUME Setting, Known, AvailInv, ~ At("idle")
    PROVE  /\ tc # NoTC /\ tc \in Specs /\ pass.inst = tc /\ NodesFit /\ PassFits
           /\ ~ StaleReads /\ HasFinalizer /\ FreshInv /\ CoverInv
           /\ stsSeen = sts /\ cmSeen = checkpoint /\ pass \in Pass
  BY Typed DEF Setting, Known, FinalizerInv, AvailInv, PassFits

\* What both reads of the main node have to show says that it runs.
LEMMA MainSeenRunning ==
    ASSUME AvailInv, IsNewestGeneration(sts[Main]), IsNodeUpdateFinished(sts[Main])
    PROVE  MainRuns
  BY DEF AvailInv, MainStatusFits, IsNewestGeneration, IsNodeUpdateFinished

-------------------------------------------------------------------------------
(* The queue and the stages *)

\* Starting a pass, waiting and finalizing change nothing the service relies on.
LEMMA QueueAvailable ==
    ASSUME Setting, Known, AvailInv,
           \/ StartPass \/ TimerFires \/ FinalizeTeamCity \/ RemoveFinalizer \/ UNCHANGED vars
    PROVE  Available
  <1> USE StageValues
  <1>1. UNCHANGED <<sts, pod>>
    BY DEF StartPass, TimerFires, FinalizeTeamCity, RemoveFinalizer, vars
  <1>2. CASE TimerFires \/ UNCHANGED vars
    <2>1. UNCHANGED <<tc, pass, checkpoint>>
      BY <1>2 DEF TimerFires, vars, userVars
    <2>2. tc # NoTC => PassFits'
      BY <1>1, <2>1 DEF AvailInv, PassFits, MainRuns, Runs, Outdated, At
    <2>3. pass'.pc # "recreating"
      BY <2>1 DEF AvailInv, At
    <2> QED
      BY <1>1, <2>1, <2>2, <2>3, NodesStay DEF ReplicaIsNew
  <1>3. CASE StartPass
    <2>1. /\ UNCHANGED <<tc, checkpoint>> /\ At("idle")
          /\ pass'.pc \in {"idle", "finalize", "ongoing"}
          /\ tc # NoTC => pass'.inst = tc
      BY <1>3, IdlePassType DEF StartPass, userVars, IdlePass, At
    <2> QED
      BY <1>1, <2>1, PassIsQuiet DEF At, QuietPC, ReplicaIsNew
  <1>4. CASE FinalizeTeamCity
    <2>1. /\ At("finalize") /\ UNCHANGED tc
      BY <1>4 DEF FinalizeTeamCity, userVars
    <2>2. /\ pass.inst = tc /\ pass \in Pass /\ ~ StaleReads /\ FreshInv
      BY <2>1, BusyPass DEF At
    <2>3. checkpoint' \in {checkpoint, NoCheckpoint}
      BY <1>4, <2>2, FreshDelete DEF FinalizeTeamCity
    <2>4. pass'.pc = "idle" \/ (pass'.pc = "removeFinalizer" /\ pass'.inst = tc)
      BY <1>4, <2>2, IdlePassType DEF FinalizeTeamCity, Goto, Continue, Retry, Pass
    <2> QED
      BY <1>1, <2>1, <2>3, <2>4, PassIsQuiet DEF At, QuietPC, ReplicaIsNew
  <1>5. CASE RemoveFinalizer
    <2>1. tc' = NoTC /\ pass'.pc = "idle"
      BY <1>5, IdlePassType DEF RemoveFinalizer, Done
    <2> QED
      BY <1>1, <2>1 DEF Available, AvailInv, PodsFit, ReplicaSteady, ReplicaChanged,
         MainStatusFits, MainRuns, Runs, At
  <1> QED
    BY <1>2, <1>3, <1>4, <1>5

\* The stages that only move the checkpoint on: beyond MainShuttingDown only once the main
\* node has been seen to run.
LEMMA StagesAvailable ==
    ASSUME Setting, Known, AvailInv,
           \/ HandleUpdateInitiated \/ AdvanceCheckpoint \/ HandleReplicaStarting
           \/ CheckMainGeneration
    PROVE  Available
  <1> USE StageValues
  <1>1. /\ ~ At("idle") /\ ~ At("main") /\ UNCHANGED <<sts, pod, tc>>
    BY DEF HandleUpdateInitiated, AdvanceCheckpoint, HandleReplicaStarting,
       CheckMainGeneration, AtStage, At, userVars
  <1>2. /\ NodesFit /\ PassFits /\ ~ StaleReads /\ FreshInv /\ stsSeen = sts
    BY <1>1, BusyPass
  <1>3. ASSUME NEW desired \in Stage, CheckpointAndRequeue(desired),
               desired <= ReplicaReady \/ (MainRuns /\ ~ Outdated),
               desired = ReplicaCreated => sts[Replica] = NoSts
        PROVE  Available
    <2>1. checkpoint' \in {checkpoint, desired}
      BY <1>2, <1>3, FreshDoCheckpoint DEF CheckpointAndRequeue
    <2>2. pass'.pc = "idle"
      BY <1>3, IdlePassType DEF CheckpointAndRequeue, RequeueAfter, Retry
    <2>3. \/ checkpoint' = checkpoint \/ checkpoint' \in NoCheckpoint .. ReplicaReady
          \/ MainRuns /\ ~ Outdated
      BY <1>3, <2>1 DEF Stage
    <2> QED
      BY <1>1, <1>3, <2>1, <2>2, <2>3, PassIsQuiet DEF QuietPC, ReplicaIsNew
  <1>4. CASE (Retry \/ RequeueAfter) /\ UNCHANGED checkpoint
    BY <1>1, <1>4, IdlePassType, PassIsQuiet DEF Retry, RequeueAfter, QuietPC, ReplicaIsNew
  <1>5. CASE HandleUpdateInitiated
    <2>1. checkpoint = NoCheckpoint
      BY <1>2, <1>5 DEF HandleUpdateInitiated, AtStage, FreshInv, PassIsFresh
    <2>2. sts[Replica] = NoSts
      BY <1>1, <1>5, <2>1 DEF HandleUpdateInitiated, AtStage, At, Known, CoverInv, CoverPass
    <2> QED
      BY <1>3, <1>5, <2>2 DEF HandleUpdateInitiated, Stage
  <1>6. CASE AdvanceCheckpoint
    <2>1. pass.stage = checkpoint /\ checkpoint \in {ReplicaCreated, MainReady}
      BY <1>2, <1>6 DEF AdvanceCheckpoint, At, FreshInv, TypeOK, PassTypeOK, PassIsFresh
    <2>2. checkpoint = MainReady => MainRuns /\ ~ Outdated
      BY <1>2 DEF PassFits
    <2>3. /\ pass.stage + 1 \in Stage /\ pass.stage + 1 # ReplicaCreated
          /\ pass.stage + 1 <= ReplicaReady \/ (MainRuns /\ ~ Outdated)
      BY <2>1, <2>2 DEF Stage
    <2> QED
      BY <1>3, <1>6, <2>3 DEF AdvanceCheckpoint
  <1>7. CASE HandleReplicaStarting
    BY <1>3, <1>4, <1>7 DEF HandleReplicaStarting, WaitForNextPass, Stage
  <1>8. CASE CheckMainGeneration
    <2>1. At("generation") /\ checkpoint = MainShuttingDown
      BY <1>2, <1>8 DEF CheckMainGeneration, FreshInv, PassIsFresh
    <2>2. ~ Outdated
      BY <1>1, <1>2, <2>1 DEF PassFits
    <2>3. pass.mark /\ IsNewestGeneration(sts[Main]) => MainRuns
      BY <1>2, <2>1, MainSeenRunning DEF PassFits
    <2> QED
      BY <1>2, <1>3, <1>4, <1>8, <2>2, <2>3 DEF CheckMainGeneration, WaitForNextPass, Stage
  <1> QED
    BY <1>5, <1>6, <1>7, <1>8

\* The first read of HandleMainShuttingDown, and the end of an upgrade: beyond
\* MainShuttingDown the main node has been changed.
LEMMA MainShuttingDownAvailable ==
    ASSUME Setting, Known, AvailInv, HandleMainShuttingDown \/ HandleUpdateFinished
    PROVE  Available
  <1> USE StageValues
  <1>1. At("stage") /\ UNCHANGED <<sts, pod, tc>>
    BY DEF HandleMainShuttingDown, HandleUpdateFinished, AtStage, userVars
  <1>2. /\ tc # NoTC /\ pass.inst = tc /\ NodesFit /\ PassFits /\ ~ StaleReads /\ FreshInv
        /\ stsSeen = sts /\ pass \in Pass
    BY <1>1, BusyPass DEF At
  <1>3. CASE Retry /\ (checkpoint' = checkpoint \/ checkpoint' = NoCheckpoint)
    BY <1>1, <1>3, IdlePassType, PassIsQuiet DEF Retry, QuietPC, At, ReplicaIsNew
  <1>4. CASE HandleMainShuttingDown
    <2>1. \/ Retry /\ UNCHANGED checkpoint
          \/ /\ pass' = [pass EXCEPT !.pc = "generation", !.mark = IsNodeUpdateFinished(sts[Main])]
             /\ UNCHANGED checkpoint
      BY <1>2, <1>4 DEF HandleMainShuttingDown, Continue
    <2>2. CASE /\ pass' = [pass EXCEPT !.pc = "generation",
                                       !.mark = IsNodeUpdateFinished(sts[Main])]
               /\ UNCHANGED checkpoint
      <3>1. /\ pass'.pc = "generation" /\ pass'.mark = IsNodeUpdateFinished(sts[Main])
            /\ pass'.inst = tc
        BY <1>2, <2>2 DEF Pass
      <3>2. PassFits'
        BY <1>1, <1>2, <2>2, <3>1 DEF PassFits, At, BuilderPC, MainRuns, Runs, Outdated
      <3> QED
        BY <1>1, <2>2, <3>1, <3>2, NodesStay DEF ReplicaIsNew
    <2> QED
      BY <1>3, <2>1, <2>2
  <1>5. CASE HandleUpdateFinished
    <2>1. PICK ok \in BOOLEAN : DeleteCheckpoint(ok) /\ IF ok THEN Goto("main") ELSE Retry
      BY <1>5 DEF HandleUpdateFinished
    <2>2. checkpoint = UpdateFinished
      BY <1>2, <1>5 DEF HandleUpdateFinished, AtStage, FreshInv, PassIsFresh
    <2>3. ~ Outdated
      BY <1>1, <1>2, <2>2 DEF PassFits, At
    <2>4. checkpoint' = NoCheckpoint
      BY <1>2, <2>1, FreshDelete
    <2>5. CASE Goto("main")
      <3>1. pass'.pc = "main" /\ pass'.inst = tc
        BY <1>2, <2>5 DEF Goto, Continue, Pass
      <3> QED
        BY <1>1, <2>3, <2>4, <3>1, PassBuilds DEF BuilderPC, ReplicaIsNew
    <2> QED
      BY <1>3, <2>1, <2>4, <2>5
  <1> QED
    BY <1>4, <1>5

\* HandleReplicaReady lets the builders change the main node.
LEMMA HandleReplicaReadyAvailable ==
    ASSUME Setting, Known, AvailInv, HandleReplicaReady
    PROVE  Available
  <1> USE StageValues
  <1>1. At("stage") /\ pass.stage = ReplicaReady /\ UNCHANGED <<sts, pod, tc>>
    BY DEF HandleReplicaReady, AtStage, userVars
  <1>2. /\ tc # NoTC /\ pass.inst = tc /\ NodesFit /\ PassFits /\ ~ StaleReads /\ FreshInv
        /\ pass \in Pass /\ checkpoint \in {NoCheckpoint, ReplicaReady}
    BY <1>1, BusyPass DEF At, FreshInv, PassIsFresh
  <1>3. PICK ok \in BOOLEAN :
           DoCheckpoint(MainShuttingDown, ok) /\ IF ok THEN Goto("main") ELSE Retry
    BY DEF HandleReplicaReady
  <1>4. checkpoint' \in {checkpoint, MainShuttingDown} /\ (~ ok => UNCHANGED checkpoint)
    BY <1>2, <1>3, FreshDoCheckpoint DEF DoCheckpoint, Stage
  <1>5. CASE ~ ok
    BY <1>1, <1>3, <1>4, <1>5, IdlePassType, PassIsQuiet DEF Retry, QuietPC, At, ReplicaIsNew
  <1>6. CASE Goto("main")
    <2>1. pass'.pc = "main" /\ pass'.inst = tc /\ pass'.stage = ReplicaReady
      BY <1>1, <1>2, <1>6 DEF Goto, Continue, Pass
    <2>2. PassFits'
      BY <1>1, <1>2, <1>4, <2>1 DEF PassFits, At, BuilderPC, MainRuns, Runs, Outdated
    <2> QED
      BY <1>1, <1>4, <2>1, <2>2, NodesStay DEF ReplicaIsNew
  <1> QED
    BY <1>3, <1>5, <1>6

\* The detection of an upgrade misses no main node that has to be changed: as all nodes
\* run, it compares it, or comes to a secondary that has to be changed as well.
LEMMA DetectionAvailable ==
    ASSUME Setting, Known, AvailInv, DetectUpgrade \/ PerformZeroDowntimeUpgrade
    PROVE  Available
  <1> USE StageValues
  <1>1. /\ pass.pc \in {"ongoing", "upgrade"} /\ UNCHANGED <<sts, pod, tc, checkpoint>>
    BY DEF DetectUpgrade, PerformZeroDowntimeUpgrade, At, userVars
  <1>2. /\ tc # NoTC /\ tc \in Specs /\ pass.inst = tc /\ NodesFit /\ PassFits /\ FreshInv
        /\ stsSeen = sts /\ pass \in Pass
    BY <1>1, BusyPass DEF At
  <1>3. ASSUME NEW mark \in BOOLEAN, pass' = [pass EXCEPT !.pc = "main", !.mark = mark],
               ~ Outdated
        PROVE  Available
    <2>1. pass'.pc = "main" /\ pass'.inst = tc
      BY <1>2, <1>3 DEF Pass
    <2> QED
      BY <1>1, <1>3, <2>1, PassBuilds DEF BuilderPC, ReplicaIsNew
  <1>4. CASE pass'.pc \in {"upgrade", "stage"} /\ pass'.inst = tc
    BY <1>1, <1>4, PassIsQuiet DEF QuietPC, At, ReplicaIsNew
  <1>5. CASE DetectUpgrade
    <2>1. PICK ongoing \in BOOLEAN :
             pass' = [pass EXCEPT !.mark = ongoing,
                        !.pc = IF ongoing \/ pass.inst.zeroDowntime THEN "upgrade" ELSE "main"]
      BY <1>5 DEF DetectUpgrade, Continue
    <2>2. CASE ongoing \/ tc.zeroDowntime
      BY <1>2, <1>4, <2>1, <2>2 DEF Pass
    <2>3. CASE ~ ongoing /\ ~ tc.zeroDowntime
      <3>1. ~ Outdated
        BY <1>2, <2>3 DEF NodesFit
      <3> QED
        BY <1>2, <1>3, <2>1, <2>3, <3>1
    <2> QED
      BY <2>2, <2>3
  <1>6. CASE PerformZeroDowntimeUpgrade
    <2> DEFINE first == [pass EXCEPT !.pc = "stage", !.mark = FALSE, !.stage =
                            IF cmSeen # NoCheckpoint THEN cmSeen
                            ELSE InitialStage(IsMultiNode(pass.inst))]
    <2>1. PICK changes \in BOOLEAN :
             /\ DoesNodesUpdateChangeStatefulSetSpec(changes)
             /\ pass' = IF changes \/ pass.mark THEN first
                        ELSE [pass EXCEPT !.pc = "main", !.mark = FALSE]
      BY <1>6 DEF PerformZeroDowntimeUpgrade, Continue, Fault, Setting
    <2>2. CASE changes \/ pass.mark
      <3>1. pass' = first
        BY <2>1, <2>2
      <3>2. pass'.pc = "stage" /\ pass'.inst = tc
        BY <1>2, <3>1 DEF Pass
      <3> QED
        BY <1>4, <3>2
    <2>3. CASE ~ changes /\ ~ pass.mark
      <3>1. ASSUME Outdated PROVE FALSE
        <4>1. \A n \in DOMAIN tc.nodes : sts[n] # NoSts
          BY <1>2, <3>1 DEF NodesFit, Runs
        <4>2. /\ ChangesRequireNodeStatefulSetRestart(tc.nodes[Main], sts[Main])
              /\ Main \in DOMAIN tc.nodes
          BY <1>2, <3>1, SpecType DEF NodesFit
        <4> QED
          BY <1>2, <2>1, <2>3, <4>1, <4>2 DEF DoesNodesUpdateChangeStatefulSetSpec
      <3> QED
        BY <1>3, <2>1, <2>3, <3>1
    <2> QED
      BY <2>2, <2>3
  <1> QED
    BY <1>5, <1>6

\* Looking for obsolete nodes, and checking the preconditions of the secondaries.
LEMMA PreconditionsAvailable ==
    ASSUME Setting, Known, AvailInv,
           ListObsolete \/ CheckPreconditionGeneration \/ CheckPreconditionFinished
    PROVE  Available
  <1> USE StageValues
  <1>1. /\ pass.pc \in {"listObsolete", "mainGeneration", "mainFinished"}
        /\ UNCHANGED <<sts, pod, tc, checkpoint>>
    BY DEF ListObsolete, CheckPreconditionGeneration, CheckPreconditionFinished, At, userVars
  <1>2. tc # NoTC /\ pass.inst = tc /\ PassFits /\ stsSeen = sts /\ pass \in Pass
    BY <1>1, BusyPass DEF At
  <1>3. ~ Outdated
    BY <1>1, <1>2 DEF PassFits, BuilderPC
  <1>4. CASE ListObsolete
    <2>1. /\ pass'.pc \in {"deleteObsolete", "mainGeneration", "report"} /\ pass'.inst = tc
          /\ pass'.todo = ObsoleteNodes
      BY <1>2, <1>4 DEF ListObsolete, Continue, AfterObsolete, Pass
    <2>2. pass'.todo \cap DOMAIN tc.nodes = {}
      BY <1>2, <2>1 DEF ObsoleteNodes
    <2> QED
      BY <1>1, <1>3, <2>1, <2>2, PassBuilds DEF BuilderPC, ReplicaIsNew
  <1>5. CASE CheckPreconditionGeneration
    <2>1. /\ pass'.pc = "mainFinished" /\ pass'.inst = tc
          /\ pass'.mark = IsNewestGeneration(sts[Main])
      BY <1>2, <1>5 DEF CheckPreconditionGeneration, Continue, Pass
    <2> QED
      BY <1>1, <1>3, <2>1, PassBuilds DEF BuilderPC, ReplicaIsNew
  <1>6. CASE CheckPreconditionFinished
    <2>1. \/ pass' = IdlePass
          \/ /\ pass.mark /\ IsNodeUpdateFinished(sts[Main])
             /\ pass' = [pass EXCEPT !.pc = "secondaries", !.mark = FALSE,
                           !.todo = SecondaryNodes(pass.inst)]
      BY <1>2, <1>6 DEF CheckPreconditionFinished, Continue, RequeueAfter
    <2>2. CASE pass' = IdlePass
      BY <1>1, <2>2, IdlePassType, PassIsQuiet DEF QuietPC, At, ReplicaIsNew
    <2>3. CASE /\ pass.mark /\ IsNodeUpdateFinished(sts[Main])
               /\ pass' = [pass EXCEPT !.pc = "secondaries", !.mark = FALSE,
                             !.todo = SecondaryNodes(pass.inst)]
      <3>1. pass'.pc = "secondaries" /\ pass'.inst = tc
        BY <1>2, <2>3 DEF Pass
      <3>2. MainRuns
        BY <1>2, <1>6, <2>3, MainSeenRunning DEF CheckPreconditionFinished, PassFits
      <3> QED
        BY <1>1, <1>3, <3>1, <3>2, PassBuilds DEF BuilderPC, ReplicaIsNew
    <2> QED
      BY <2>1, <2>2, <2>3
  <1> QED
    BY <1>4, <1>5, <1>6

\* A pass ends with a report.
LEMMA ReportAvailable ==
    ASSUME Setting, Known, AvailInv, ReportSuccess
    PROVE  Available
  <1>1. At("report") /\ UNCHANGED <<sts, pod, tc, checkpoint>> /\ pass' = IdlePass
    BY DEF ReportSuccess, RequeueAfter, Done, userVars
  <1> QED
    BY <1>1, IdlePassType, PassIsQuiet DEF QuietPC, At, ReplicaIsNew

-------------------------------------------------------------------------------
(* The replica and the obsolete nodes *)

\* While the main node runs what the object asks for, nodes outside the spec may go.
LEMMA NodesLeave ==
    ASSUME FreshInv, AvailInv, tc # NoTC, UNCHANGED <<tc, checkpoint>>,
           MainRuns, ~ Outdated, PassFits',
           pass'.pc # "recreating",
           \A n \in Nodes : \/ Still(n)
                            \/ n \notin DOMAIN tc.nodes /\ sts'[n] = NoSts /\ pod'[n] = NoPod
    PROVE  Available
  <1>1. Main \in DOMAIN tc.nodes /\ DOMAIN tc.nodes \subseteq Nodes /\ Secondaries \subseteq Nodes
    BY SpecType, Typed
  <1>2. \A n \in DOMAIN tc.nodes : Still(n)
    BY <1>1
  <1>3. MainRuns' /\ ~ Outdated'
    BY <1>1, <1>2 DEF MainRuns, Runs, Outdated, Still
  <1>4. (\E n \in Nodes : Runs(n))'
    BY <1>1, <1>3 DEF MainRuns
  <1>5. NodesFit'
    BY <1>2, <1>3, <1>4 DEF AvailInv, NodesFit, Still, Runs
  <1>6. PodsFit' /\ MainStatusFits'
    BY <1>1, <1>2, <1>3 DEF AvailInv, PodsFit, MainStatusFits, Still
  <1>7. ReplicaSteady'
    BY <1>1, <1>2, Typed DEF AvailInv, ReplicaSteady, ReplicaChanged, Still
  <1> QED
    BY <1>4, <1>5, <1>6, <1>7 DEF Available, AvailInv, At

\* DeleteObsolete: secondaries have left only a cluster whose main node runs.
LEMMA DeleteObsoleteAvailable ==
    ASSUME Setting, Known, AvailInv, DeleteObsolete
    PROVE  Available
  <1>1. /\ At("deleteObsolete") /\ UNCHANGED <<tc, checkpoint>>
    BY DEF DeleteObsolete, userVars
  <1>2. /\ tc # NoTC /\ tc \in Specs /\ pass.inst = tc /\ NodesFit /\ PassFits
        /\ FreshInv /\ ~ StaleReads /\ pass \in Pass
    BY <1>1, BusyPass DEF At
  <1>3. PICK n \in pass.todo :
           \/ sts[n] = NoSts /\ Retry /\ UNCHANGED <<sts, pod>>
           \/ /\ sts[n] # NoSts /\ WriteStatefulSets([sts EXCEPT ![n] = NoSts])
              /\ pod' = [pod EXCEPT ![n] = NoPod]
              /\ pass' = [pass EXCEPT !.todo = pass.todo \ {n}, !.pc =
                            IF pass.todo \ {n} # {} THEN "deleteObsolete" ELSE AfterObsolete]
    BY DEF DeleteObsolete
  <1>4. CASE Retry /\ UNCHANGED <<sts, pod>>
    BY <1>1, <1>4, IdlePassType, PassIsQuiet DEF Retry, QuietPC, At, ReplicaIsNew
  <1>5. CASE /\ sts[n] # NoSts /\ WriteStatefulSets([sts EXCEPT ![n] = NoSts])
             /\ pod' = [pod EXCEPT ![n] = NoPod]
             /\ pass' = [pass EXCEPT !.todo = pass.todo \ {n}, !.pc =
                           IF pass.todo \ {n} # {} THEN "deleteObsolete" ELSE AfterObsolete]
    <2>1. n \in Secondaries /\ n \notin DOMAIN tc.nodes /\ pass.todo \cap DOMAIN tc.nodes = {}
      BY <1>1, <1>2 DEF PassFits, Pass
    <2>2. MainRuns /\ ~ Outdated
      BY <1>2, <1>5, <2>1 DEF NodesFit
    <2>3. sts' = [sts EXCEPT ![n] = NoSts]
      BY <1>5 DEF WriteStatefulSets
    <2>4. \A m \in Nodes : \/ Still(m)
                           \/ m \notin DOMAIN tc.nodes /\ sts'[m] = NoSts /\ pod'[m] = NoPod
      BY <1>2, <1>5, <2>1, <2>3, Typed DEF Still
    <2>5. /\ pass'.pc \in {"deleteObsolete", "mainGeneration", "report"} /\ pass'.inst = tc
          /\ pass'.todo \subseteq pass.todo
      BY <1>2, <1>5 DEF AfterObsolete, Pass
    <2>6. MainRuns' /\ ~ Outdated'
      BY <1>1, <1>2, <2>1, <2>2, <2>4, Typed, SpecType DEF MainRuns, Runs, Outdated, Still
    <2>7. PassFits'
      BY <1>1, <1>2, <2>1, <2>5, <2>6 DEF PassFits, At
    <2> QED
      BY <1>1, <1>2, <2>2, <2>4, <2>5, <2>7, NodesLeave
  <1> QED
    BY <1>3, <1>4, <1>5

\* HandleMainReady takes the replica away when the main node runs again.
LEMMA HandleMainReadyAvailable ==
    ASSUME Setting, Known, AvailInv, HandleMainReady
    PROVE  Available
  <1> USE StageValues
  <1>1. /\ At("stage") /\ pass.stage = MainReady /\ UNCHANGED <<tc, checkpoint>>
    BY DEF HandleMainReady, AtStage, userVars
  <1>2. /\ tc # NoTC /\ tc \in Specs /\ pass.inst = tc /\ NodesFit /\ PassFits
        /\ FreshInv /\ ~ StaleReads /\ pass \in Pass /\ checkpoint = MainReady
    BY <1>1, BusyPass DEF At, FreshInv, PassIsFresh
  <1>3. MainRuns /\ ~ Outdated
    BY <1>2 DEF PassFits
  <1>4. pass' = [pass EXCEPT !.pc = "advance"]
    BY DEF HandleMainReady, Fault, Setting
  <1>5. \/ UNCHANGED <<sts, pod>>
        \/ sts' = [sts EXCEPT ![Replica] = NoSts] /\ pod' = [pod EXCEPT ![Replica] = NoPod]
    BY <1>2, FreshStatefulSets DEF HandleMainReady, Fault, Setting
  <1>6. Main \in DOMAIN tc.nodes /\ Replica \notin DOMAIN tc.nodes
    BY <1>2, SpecType
  <1>7. \A n \in Nodes : \/ Still(n)
                         \/ n \notin DOMAIN tc.nodes /\ sts'[n] = NoSts /\ pod'[n] = NoPod
    BY <1>2, <1>5, <1>6, Typed DEF Still
  <1>8. MainRuns' /\ ~ Outdated'
    BY <1>1, <1>2, <1>3, <1>6, <1>7, Typed DEF MainRuns, Runs, Outdated, Still
  <1>9. pass'.pc = "advance" /\ pass'.inst = tc
    BY <1>2, <1>4 DEF Pass
  <1>10. PassFits'
    BY <1>1, <1>8, <1>9 DEF PassFits, At
  <1> QED
    BY <1>1, <1>2, <1>3, <1>7, <1>9, <1>10, NodesLeave

\* Making the replica takes no service away.
LEMMA HandleReplicaCreatedAvailable ==
    ASSUME Setting, Known, AvailInv, HandleReplicaCreated
    PROVE  Available
  <1> USE StageValues
  <1>1. At("stage") /\ ~ At("idle")
    BY DEF HandleReplicaCreated, AtStage, At
  <1>2. /\ tc # NoTC /\ tc \in Specs /\ pass.inst = tc /\ NodesFit /\ PassFits
        /\ FreshInv /\ ~ StaleReads /\ CoverInv
    BY <1>1, BusyPass
  <1>3. /\ UNCHANGED <<pod, tc, checkpoint>> /\ checkpoint = ReplicaCreated
        /\ \A n \in Nodes \ {Replica} : Still(n)
        /\ Still(Replica) \/ ReplicaIsMade
        /\ pass'.pc = "idle" \/ (pass'.pc = "advance" /\ pass'.inst = tc)
    BY <1>2, HandleReplicaCreatedEffect DEF AvailInv, ReplicaSteady, ReplicaTemplate
  <1>4. /\ Main \in DOMAIN tc.nodes /\ DOMAIN tc.nodes \subseteq Nodes \ {Replica}
        /\ Secondaries \subseteq Nodes \ {Replica}
    BY <1>2, SpecType, Typed
  <1>5. \A n \in Nodes \ {Replica} : Still(n)
    BY <1>3
  <1>6. \A n \in Nodes : Runs(n) => Runs(n)'
    BY <1>3 DEF Runs, Still, ReplicaIsMade
  <1>7. (MainRuns <=> MainRuns') /\ (Outdated' <=> Outdated)
    BY <1>3, <1>4, <1>5 DEF MainRuns, Runs, Outdated, Still
  <1>8. Serving' <=> Serving
    BY <1>3 DEF Serving
  <1>9. NodesFit'
    BY <1>2, <1>3, <1>4, <1>5, <1>6, <1>7, <1>8 DEF NodesFit, Still
  <1>10. PodsFit' /\ MainStatusFits'
    BY <1>4, <1>5, <1>7 DEF AvailInv, PodsFit, MainStatusFits, Still
  <1>11. PassFits' /\ pass'.pc # "recreating"
    BY <1>1, <1>2, <1>3, <1>7 DEF PassFits, At, BuilderPC
  <1>12. Serving => (\E n \in Nodes : Runs(n))'
    BY <1>2, <1>6 DEF NodesFit
  <1>13. ReplicaSteady'
    BY <1>2, <1>3, <1>4, <1>5, Typed
    DEF AvailInv, ReplicaSteady, ReplicaChanged, ReplicaIsMade, ReplicaTemplate, Still
  <1> QED
    BY <1>9, <1>10, <1>11, <1>12, <1>13 DEF Available, AvailInv, At

-------------------------------------------------------------------------------
(* The builders *)

\* No recreate gets in the way of the builders: they make a node what the object asks for.
LEMMA BuilderBuilds ==
    ASSUME Setting, Known, AvailInv, BuilderStep
    PROVE  /\ ~ At("idle") /\ UNCHANGED <<pod, checkpoint, tc>>
           /\ \E n \in DOMAIN tc.nodes :
                 /\ (At("main") /\ n = Main) \/ (At("secondaries") /\ n # Main)
                 /\ Built(n)
  <1>1. ~ StaleReads /\ FreshInv /\ ~ At("recreating")
    BY DEF Setting, Known, AvailInv
  <1>2. ~ At("idle") /\ UNCHANGED <<pod, checkpoint, tc>>
    BY <1>1, BuilderStepEffect DEF userVars
  <1>3. tc \in Specs /\ pass.inst = tc
    BY <1>2, BusyPass
  <1>4. ASSUME NEW n \in DOMAIN tc.nodes, ApplyStatefulSet(n)
        PROVE  Built(n)
    <2>1. n \in Nodes \ {Replica} /\ (sts[n] # NoSts => sts[n].svc = tc.nodes[n].svc)
      BY <1>3, <1>4, SpecType DEF Known, NotRecreated
    <2> QED
      BY <1>1, <1>2, <1>3, <1>4, <2>1, ApplyStatefulSetEffect DEF RecreateBlocked, RecreateStarted
  <1>5. CASE ApplyMain
    <2>1. At("main") /\ Main \in DOMAIN tc.nodes /\ ApplyStatefulSet(Main)
      BY <1>3, <1>5, SpecType DEF ApplyMain
    <2> QED
      BY <1>2, <1>4, <2>1
  <1>6. CASE ApplySecondary
    <2>1. At("secondaries") /\ pass.todo \subseteq SecondaryNodes(tc)
      BY <1>1, <1>3, <1>6 DEF ApplySecondary, FreshInv, TypeOK, PassTypeOK
    <2>2. PICK n \in pass.todo : ApplyStatefulSet(n)
      BY <1>6 DEF ApplySecondary
    <2>3. n \in DOMAIN tc.nodes /\ n # Main
      BY <2>1, <2>2 DEF SecondaryNodes
    <2> QED
      BY <1>2, <1>4, <2>1, <2>2, <2>3
  <1> QED
    BY <1>1, <1>5, <1>6 DEF BuilderStep, FinishRecreate, UpdateDeleted

\* What is built has the template the object asks for, and no other node is touched.
LEMMA BuiltAsAsked ==
    ASSUME FreshInv, ~ At("idle"), pass.inst = tc, NEW n \in DOMAIN tc.nodes, Built(n),
           UNCHANGED pod
    PROVE  /\ n \in Nodes \ {Replica} /\ sts'[n] = Made(n) /\ sts'[n] # NoSts
           /\ sts'[n].template = tc.nodes[n].template
           /\ \A m \in Nodes \ {n} : Still(m)
           /\ sts[n] # NoSts /\ sts[n].template = tc.nodes[n].template => UNCHANGED sts
  <1>1. tc \in Specs /\ n \in Nodes \ {Replica} /\ Made(n) \in StatefulSet /\ Made(n) # NoSts
    BY MadeType, InstType DEF FreshInv
  <1>2. /\ sts' = [sts EXCEPT ![n] = Made(n)] /\ sts \in [Nodes -> StatefulSet \cup {NoSts}]
        /\ pod \in [Nodes -> Pod \cup {NoPod}]
    BY Typed DEF Built
  <1>3. sts'[n] = Made(n) /\ \A m \in Nodes \ {n} : Still(m)
    BY <1>1, <1>2 DEF Still
  <1>4. sts'[n].template = tc.nodes[n].template
    BY <1>1, <1>2, <1>3 DEF Made, FreshStatefulSet, ConfigureStatefulSet, StatefulSet
  <1>5. sts[n] # NoSts /\ sts[n].template = tc.nodes[n].template => UNCHANGED sts
    BY <1>1, <1>2 DEF Made, ConfigureStatefulSet
  <1> QED
    BY <1>1, <1>3, <1>4, <1>5

\* The main node is changed while all nodes run and another one serves in its place: a
\* secondary, or the replica.
LEMMA MainBuiltAvailable ==
    ASSUME Setting, Known, AvailInv, At("main"), Built(Main), UNCHANGED <<pod, checkpoint, tc>>
    PROVE  Available
  <1> USE StageValues
  <1> DEFINE s == sts[Main]
             config == tc.nodes[Main]
  <1>1. /\ tc # NoTC /\ tc \in Specs /\ pass.inst = tc /\ NodesFit /\ PassFits
        /\ FreshInv /\ CoverInv /\ pass \in Pass /\ ~ At("idle") /\ Main \in DOMAIN tc.nodes
    BY BusyPass, SpecType DEF At
  <1>2. /\ sts'[Main] = Made(Main) /\ sts'[Main] # NoSts
        /\ sts'[Main].template = config.template
        /\ \A m \in Nodes \ {Main} : Still(m)
        /\ s # NoSts /\ s.template = config.template => UNCHANGED sts
    BY <1>1, BuiltAsAsked
  <1>3. pass'.pc = "listObsolete" /\ pass'.inst = tc
    BY <1>1 DEF Built, AfterNode, Pass
  <1>4. /\ Main \in Nodes \ {Replica} /\ DOMAIN tc.nodes \subseteq Nodes
        /\ Secondaries \subseteq Nodes \ {Main} /\ s \in StatefulSet \cup {NoSts}
    BY <1>1, Typed, SpecType
  <1>5. ~ Outdated'
    BY <1>2 DEF Outdated
  <1>6. CASE s # NoSts /\ ~ Outdated
    <2>1. UNCHANGED sts
      BY <1>2, <1>6 DEF Outdated
    <2> QED
      BY <1>3, <1>6, <2>1, PassBuilds DEF BuilderPC, At, ReplicaIsNew
  <1>7. ASSUME s = NoSts \/ Outdated,
               Serving => \E m \in Nodes \ {Main} : Runs(m),
               MainStatusFits'
        PROVE  Available
    <2>1. ~ (MainRuns /\ ~ Outdated)
      BY <1>7 DEF MainRuns, Runs
    <2>2. Serving' <=> Serving
      BY DEF Serving
    <2>3. \A m \in Nodes \ {Main} : Runs(m)' <=> Runs(m)
      BY <1>2 DEF Runs, Still
    <2>4. Serving => (\E m \in Nodes : Runs(m))'
      BY <1>7, <2>3
    <2>5. \A m \in Secondaries \ DOMAIN tc.nodes : sts'[m] = NoSts
      BY <1>1, <1>2, <1>4, <2>1 DEF NodesFit, Still
    <2>6. \A m \in DOMAIN tc.nodes :
             sts'[m] # NoSts /\ sts'[m].template # tc.nodes[m].template => Runs(m)'
      BY <1>1, <1>2, <1>4, <2>3 DEF NodesFit, Still
    <2>7. NodesFit'
      BY <1>5, <2>2, <2>4, <2>5, <2>6 DEF NodesFit
    <2>8. PodsFit'
      <3>1. s # NoSts => pod[Main] # NoPod /\ pod[Main].ready
        BY <1>1, <1>4, <1>7, RunsMeans DEF NodesFit
      <3>2. s = NoSts => pod[Main] = NoPod
        BY <1>4 DEF AvailInv, PodsFit
      <3> QED
        BY <1>2, <1>4, <3>1, <3>2 DEF AvailInv, PodsFit, Still
    <2>9. PassFits'
      BY <1>1, <1>3, <1>5, <2>1 DEF PassFits, At
    <2>10. ReplicaSteady'
      BY <1>1, <1>2, <1>4, Typed
      DEF CoverInv, CoverPass, BuilderPC, At, AvailInv, ReplicaSteady, ReplicaChanged, Still
    <2> QED
      BY <1>3, <1>7, <2>4, <2>7, <2>8, <2>9, <2>10 DEF Available, AvailInv, At
  <1>8. CASE s = NoSts
    <2>1. \A m \in Nodes : Runs(m) => m # Main
      BY <1>8 DEF Runs
    <2>2. pod'[Main] = NoPod /\ sts'[Main].ready = FALSE /\ sts'[Main].observed = FALSE
      BY <1>2, <1>4, <1>8 DEF AvailInv, PodsFit, Made, FreshStatefulSet
    <2>3. MainStatusFits'
      BY <2>2 DEF MainStatusFits
    <2> QED
      BY <1>1, <1>7, <1>8, <2>1, <2>3 DEF NodesFit
  <1>9. CASE Outdated
    <2>1. /\ s \in StatefulSet /\ s # NoSts /\ s.template # config.template
          /\ s.current = s.template /\ \A m \in DOMAIN tc.nodes : Runs(m)
          /\ pass.stage = ReplicaReady
      BY <1>1, <1>4, <1>9 DEF NodesFit, Outdated, PassFits
    <2>2. sts'[Main] = [s EXCEPT !.template = config.template, !.observed = FALSE, !.changed = TRUE]
      BY <1>1, <1>2, <2>1 DEF Made, ConfigureStatefulSet
    <2>3. sts'[Main].current # sts'[Main].template /\ sts'[Main].observed = FALSE
      BY <1>2, <2>1, <2>2 DEF StatefulSet
    <2>4. MainStatusFits'
      BY <2>3 DEF MainStatusFits
    <2>5. \E m \in Nodes \ {Main} : Runs(m)
      <3>1. CASE IsMultiNode(tc)
        BY <1>4, <2>1, <3>1 DEF IsMultiNode, SecondaryNodes
      <3>2. CASE ~ IsMultiNode(tc)
        <4>1. ReplicaUp
          BY <1>1, <2>1, <3>2
          DEF CoverInv, CoverPass, AtOnlyNode, ReplicaCovers, AvailInv, ReplicaSteady
        <4>2. Runs(Replica)
          BY <1>1, <4>1, ReplicaRuns DEF CoverInv, ReplicaFits, AvailInv
        <4> QED
          BY <1>4, <4>2, Typed, <1>1
      <3> QED
        BY <3>1, <3>2
    <2> QED
      BY <1>7, <1>9, <2>4, <2>5
  <1> QED
    BY <1>6, <1>8, <1>9

\* Secondaries are changed while the main node runs.
LEMMA SecondaryBuiltAvailable ==
    ASSUME Setting, Known, AvailInv, At("secondaries"), NEW n \in DOMAIN tc.nodes, n # Main,
           Built(n), UNCHANGED <<pod, checkpoint, tc>>
    PROVE  Available
  <1>1. /\ tc # NoTC /\ tc \in Specs /\ pass.inst = tc /\ NodesFit /\ PassFits
        /\ FreshInv /\ pass \in Pass /\ ~ At("idle") /\ Main \in DOMAIN tc.nodes
    BY BusyPass, SpecType DEF At
  <1>2. /\ n \in Nodes \ {Replica} /\ sts'[n] # NoSts
        /\ sts'[n].template = tc.nodes[n].template
        /\ \A m \in Nodes \ {n} : Still(m)
        /\ sts[n] # NoSts /\ sts[n].template = tc.nodes[n].template => UNCHANGED sts
    BY <1>1, BuiltAsAsked
  <1>3. pass'.pc \in {"report", "secondaries"} /\ pass'.inst = tc
    BY <1>1 DEF Built, AfterNode, Pass
  <1>4. /\ Main \in Nodes \ {Replica} /\ DOMAIN tc.nodes \subseteq Nodes
        /\ Secondaries \subseteq Nodes /\ Still(Main)
    BY <1>1, <1>2, Typed, SpecType
  <1>5. MainRuns /\ ~ Outdated
    BY <1>1 DEF PassFits
  <1>6. MainRuns' /\ ~ Outdated'
    BY <1>4, <1>5 DEF MainRuns, Runs, Outdated, Still
  <1>7. (\E m \in Nodes : Runs(m))'
    BY <1>4, <1>6 DEF MainRuns
  <1>8. NodesFit'
    BY <1>1, <1>2, <1>4, <1>6, <1>7 DEF NodesFit, Runs, Still
  <1>9. PodsFit'
    <2>1. sts[n] # NoSts /\ sts[n].template # tc.nodes[n].template =>
             pod[n] # NoPod /\ pod[n].ready
      BY <1>1, <1>2, RunsMeans DEF NodesFit
    <2> QED
      BY <1>2, <2>1 DEF AvailInv, PodsFit, Still
  <1>10. MainStatusFits'
    BY <1>4, <1>6 DEF AvailInv, MainStatusFits, Still
  <1>11. PassFits'
    BY <1>3, <1>6 DEF PassFits, At
  <1>12. ReplicaSteady'
    BY <1>2, <1>4, Typed, <1>1 DEF AvailInv, ReplicaSteady, ReplicaChanged, Still
  <1> QED
    BY <1>3, <1>7, <1>8, <1>9, <1>10, <1>11, <1>12 DEF Available, AvailInv, At

\* So the builders keep the service available.
LEMMA BuilderStepAvailable ==
    ASSUME Setting, Known, AvailInv, BuilderStep
    PROVE  Available
  BY BuilderBuilds, MainBuiltAvailable, SecondaryBuiltAvailable

-------------------------------------------------------------------------------
(* The user *)

\* What has settled is what the object asks for, and runs.
LEMMA SettledRuns ==
    ASSUME Setting, Known, Settled, ~ Released
    PROVE  /\ NothingObsolete /\ \A n \in DOMAIN tc.nodes : NodeApplied(n)
           /\ \A n \in Nodes : sts[n] # NoSts => Runs(n)
           /\ checkpoint = NoCheckpoint /\ tc \in Specs
           /\ sts[Main].current = sts[Main].template
  <1>1. FreshInv /\ RestInv /\ AtRest /\ tc \in Specs /\ checkpoint = NoCheckpoint
    BY Typed DEF Known, Settled, AtRest, Released
  <1>2. ~ Going
    BY <1>1 DEF Known, NotRecreated, FreshInv, Going
  <1>3. ~ Blocked
    BY <1>1, SpecType DEF Known, NotRecreated, Blocked
  <1>4. NothingObsolete /\ \A n \in DOMAIN tc.nodes : NodeApplied(n)
    BY <1>1, <1>2, <1>3, RestCases
  <1>5. \A n \in Nodes : sts[n] # NoSts => Runs(n)
    BY DEF Settled, Runs
  <1>6. sts[Main].current = sts[Main].template
    <2>1. /\ Main \in Nodes /\ sts[Main] # NoSts /\ sts[Main] \in StatefulSet /\ Runs(Main)
      BY <1>1, <1>4, <1>5, SpecType, Typed DEF NodeApplied
    <2>2. pod[Main] # NoPod /\ pod[Main].ready /\ pod[Main].template = sts[Main].template
      BY <1>1, <2>1, RunsMeans
    <2>3. StatusOf(sts[Main], pod[Main]) = sts[Main]
      BY <2>1 DEF Settled
    <2>4. StatusOf(sts[Main], pod[Main]).current = sts[Main].template
      BY <2>1, <2>2 DEF StatusOf, StatefulSet
    <2> QED
      BY <2>3, <2>4
  <1> QED
    BY <1>1, <1>4, <1>5, <1>6

\* An edit that is not rash comes when all nodes run, and if it changes the main node then
\* not which nodes there are.
LEMMA EditAvailable ==
    ASSUME Setting, Known, AvailInv, EditTeamCity, ~ RashEdit, tc' # tc
    PROVE  Available
  <1> USE StageValues
  <1>0. tc \in Specs /\ tc' \in Specs /\ tc' # NoTC
    BY Typed, SpecsAssumption, NoTCAssumption DEF EditTeamCity, Known
  <1>1. /\ Settled /\ ~ Released /\ UNCHANGED <<sts, pod, pass, checkpoint>>
        /\ Undisruptive(tc, tc') /\ At("idle")
    BY <1>0 DEF EditTeamCity, RashEdit, Released, Settled
  <1>2. /\ NothingObsolete /\ \A n \in DOMAIN tc.nodes : NodeApplied(n)
        /\ \A n \in Nodes : sts[n] # NoSts => Runs(n)
        /\ checkpoint = NoCheckpoint /\ tc \in Specs /\ sts[Main].current = sts[Main].template
    BY <1>1, SettledRuns
  <1>3. tc' \in Specs /\ Undisruptive(tc, tc')
    BY <1>0, <1>1
  <1>4. /\ Main \in DOMAIN tc.nodes /\ DOMAIN tc.nodes \subseteq Nodes
        /\ DOMAIN tc'.nodes \subseteq Nodes /\ Secondaries \subseteq Nodes
    BY <1>2, <1>3, SpecType, Typed DEF Known
  <1>5. \A n \in Nodes : Runs(n)' <=> Runs(n)
    BY <1>1 DEF Runs
  <1>6. MainRuns' /\ sts[Main].template = tc.nodes[Main].template /\ sts[Main].svc = tc.nodes[Main].svc
    BY <1>2, <1>4, <1>5 DEF MainRuns, NodeApplied
  <1>7. Serving => (\E n \in Nodes : Runs(n))'
    BY <1>1, <1>5 DEF AvailInv, NodesFit, Released
  <1>8. Outdated' =>
           /\ tc'.zeroDowntime /\ ChangesRequireNodeStatefulSetRestart(tc'.nodes[Main], sts[Main])
           /\ DOMAIN tc'.nodes = DOMAIN tc.nodes
    <2> SUFFICES ASSUME Outdated'
                 PROVE  /\ tc'.zeroDowntime /\ DOMAIN tc'.nodes = DOMAIN tc.nodes
                        /\ ChangesRequireNodeStatefulSetRestart(tc'.nodes[Main], sts[Main])
      OBVIOUS
    <2>1. tc'.nodes[Main].template # tc.nodes[Main].template
      BY <1>1, <1>6 DEF Outdated
    <2>2. /\ tc'.zeroDowntime /\ DOMAIN tc'.nodes = DOMAIN tc.nodes
          /\ ChangesRequireNodeStatefulSetRestart(tc'.nodes[Main], tc.nodes[Main])
      BY <1>3, <2>1 DEF Undisruptive
    <2> QED
      BY <1>6, <2>2 DEF ChangesRequireNodeStatefulSetRestart, DeepDerivative
  <1>9. (\E n \in Secondaries \ DOMAIN tc'.nodes : sts[n] # NoSts) => ~ Outdated'
    BY <1>2, <1>8 DEF NothingObsolete
  <1>10. \A n \in DOMAIN tc'.nodes : sts[n] # NoSts => Runs(n)'
    BY <1>2, <1>4, <1>5
  <1>11. \A n \in DOMAIN tc.nodes : Runs(n)'
    BY <1>2, <1>4, <1>5 DEF NodeApplied
  <1>12. Serving' <=> Serving
    BY <1>1 DEF Serving
  <1>13. NodesFit'
    BY <1>1, <1>2, <1>6, <1>7, <1>8, <1>9, <1>10, <1>11, <1>12 DEF NodesFit
  <1>14. PassFits'
    BY <1>1, <1>2 DEF PassFits, At, BuilderPC
  <1>15. PodsFit' /\ ReplicaSteady' /\ MainStatusFits' /\ ~ At("recreating")'
    BY <1>1, <1>2
    DEF AvailInv, PodsFit, ReplicaSteady, ReplicaChanged, MainStatusFits, MainRuns, Runs, At
  <1> QED
    BY <1>7, <1>13, <1>14, <1>15 DEF Available, AvailInv

\* A deletion only marks the object, and a new object finds nothing of the old one.
LEMMA UserStepAvailable ==
    ASSUME Setting, Known, AvailInv, UserStep, ~ RashEdit
    PROVE  Available
  <1> USE StageValues
  <1>1. CASE DeleteTeamCity \/ (EditTeamCity /\ tc' = tc)
    <2>1. UNCHANGED <<sts, pod, tc, pass, checkpoint>>
      BY <1>1 DEF DeleteTeamCity, EditTeamCity, Setting
    <2>2. tc # NoTC => PassFits'
      BY <2>1 DEF AvailInv, PassFits, At, MainRuns, Runs, Outdated
    <2>3. pass'.pc # "recreating"
      BY <2>1 DEF AvailInv, At
    <2> QED
      BY <2>1, <2>2, <2>3, NodesStay DEF ReplicaIsNew
  <1>2. CASE RecreateTeamCity
    <2>1. /\ UNCHANGED <<sts, pod, pass, checkpoint>> /\ At("idle") /\ tc = NoTC
          /\ \A n \in Nodes : sts[n] = NoSts
      BY <1>2 DEF RecreateTeamCity
    <2>2. checkpoint = NoCheckpoint
      BY <2>1 DEF Setting, Known, FinalizerInv
    <2>3. \A n \in Nodes : pod[n] = NoPod
      BY <2>1, PodFits DEF AvailInv
    <2>4. ~ Serving /\ ~ Serving'
      BY <2>1, <2>3 DEF Serving
    <2>5. Main \in Nodes /\ Secondaries \subseteq Nodes /\ tc' \in Specs
      BY <1>2, Typed DEF Known, RecreateTeamCity
    <2>6. ~ Outdated'
      BY <2>1, <2>5 DEF Outdated
    <2>7. NodesFit'
      BY <2>1, <2>4, <2>5, <2>6, SpecType DEF NodesFit
    <2>8. PassFits'
      BY <2>1, <2>2, <2>6 DEF PassFits, At
    <2>9. PodsFit' /\ ReplicaSteady' /\ MainStatusFits' /\ ~ At("recreating")'
      BY <2>1, Typed
      DEF Known, AvailInv, PodsFit, ReplicaSteady, ReplicaChanged, MainStatusFits, MainRuns, Runs, At
    <2> QED
      BY <2>4, <2>7, <2>8, <2>9 DEF Available, AvailInv
  <1> QED
    BY <1>1, <1>2, EditAvailable DEF UserStep

-------------------------------------------------------------------------------
(* Crashes and errors *)

\* A pass may end anywhere, but for the one that has persisted MainShuttingDown and has yet
\* to change the main node.
LEMMA PassEndsAvailable ==
    ASSUME Setting, Known, AvailInv, Crash \/ ApiError, ~ LostChange
    PROVE  Available
  <1> USE StageValues
  <1>1. UNCHANGED <<sts, pod, tc, checkpoint>> /\ pass'.pc = "idle"
    BY IdlePassType DEF Crash, ApiError, Retry, userVars
  <1>2. CASE ~ At("main")
    BY <1>1, <1>2, PassIsQuiet DEF QuietPC, ReplicaIsNew
  <1>3. CASE At("main")
    <2>1. /\ tc # NoTC /\ PassFits /\ checkpoint \in {NoCheckpoint, ReplicaReady, MainShuttingDown}
      BY <1>3, BusyPass DEF At, CoverInv, CoverPass, BuilderPC
    <2>2. Outdated => checkpoint # MainShuttingDown
      BY <1>1, <1>3, <2>1 DEF LostChange
    <2>3. PassFits'
      BY <1>1, <2>1, <2>2 DEF PassFits, At, BuilderPC, MainRuns, Runs, Outdated
    <2> QED
      BY <1>1, <2>3, NodesStay DEF ReplicaIsNew
  <1> QED
    BY <1>2, <1>3

-------------------------------------------------------------------------------
(* The theorems *)

\* There is no node at the start.
LEMMA InitAvailable == Init => AvailInv
  <1> SUFFICES ASSUME Init PROVE AvailInv
    OBVIOUS
  <1>1. /\ \A n \in Nodes : sts[n] = NoSts /\ pod[n] = NoPod
        /\ checkpoint = NoCheckpoint /\ pass.pc = "idle" /\ tc \in Specs
    BY IdlePassType, SpecsAssumption DEF Init, ClusterInit
  <1>2. Main \in Nodes /\ DOMAIN tc.nodes \subseteq Nodes /\ Secondaries \subseteq Nodes
    BY <1>1, SpecType DEF Nodes
  <1>3. ~ Outdated /\ ~ Serving
    BY <1>1, <1>2 DEF Outdated, Serving
  <1>4. NodesFit /\ PassFits
    BY <1>1, <1>2, <1>3, StageValues DEF NodesFit, PassFits, At
  <1> QED
    BY <1>1, <1>2, <1>4 DEF AvailInv, PodsFit, ReplicaSteady, ReplicaChanged, Nodes,
       MainStatusFits, At

\* Every step that is no mishap keeps the invariant, and a node running if one served.
LEMMA StepAvailable ==
    ASSUME Setting, Known, AvailInv, [Next /\ ~ Mishap]_vars
    PROVE  Available
  <1>1. [Next]_vars
    OBVIOUS
  <1>2. CASE UNCHANGED vars
    BY <1>2, QueueAvailable
  <1>3. CASE ~ RashEdit /\ ~ LostChange /\ ~ TornRead
    BY <1>1, <1>3, StepCases, BuilderStepAvailable, ClusterAvailable, QueueAvailable,
       DetectionAvailable, StagesAvailable, HandleReplicaCreatedAvailable,
       HandleReplicaReadyAvailable, MainShuttingDownAvailable, HandleMainReadyAvailable,
       PreconditionsAvailable, DeleteObsoleteAvailable, ReportAvailable, UserStepAvailable,
       PassEndsAvailable
    DEF OtherPassStep
  <1> QED
    BY <1>2, <1>3 DEF Mishap

\* What was proved before holds in all these runs.
LEMMA KnownInvariant ==
    ASSUME Setting
    PROVE  Spec => []Known
  <1> DEFINE NothingRecreated == \A n \in Nodes \ {Replica} : NotRecreated(n)
  <1>1. /\ ~ StaleReads /\ HasFinalizer /\ "read" \notin FaultKinds
        /\ \A n \in Nodes \ {Replica} : SteadyService(n)
    BY DEF Setting
  <1>2. Init => FinalizerInv /\ NothingRecreated
    BY IdlePassType, InitNotRecreated DEF Init, ClusterInit, FinalizerInv, At
  <1>3. FreshInv /\ FinalizerInv /\ NothingRecreated /\ [Next]_vars =>
           FinalizerInv' /\ NothingRecreated'
    BY <1>1, FinalizerStep, StepNotRecreated
  <1>4. Spec => [](FreshInv /\ RestInv /\ CoverInv)
    BY <1>1, FreshInvariant, RestInvariant, CoverInvariant, PTL
  <1>5. FreshInv /\ RestInv /\ CoverInv /\ FinalizerInv /\ NothingRecreated => Known
    BY DEF Known
  <1> HIDE DEF NothingRecreated
  <1> QED
    BY <1>2, <1>3, <1>4, <1>5, PTL DEF Spec

LEMMA CarefulIsSpec == CarefulSpec => Spec
  <1>1. [Next /\ ~ Mishap]_vars => [Next]_vars
    OBVIOUS
  <1> QED
    BY <1>1, PTL DEF CarefulSpec, Spec

\* With fresh caches, reads that do not fail, the finalizer and steady services, through
\* crashes, failing calls and upgrades: as long as no edit is rash, no pass ends between
\* the checkpoint and the change of the main node, and no status of it lands between two
\* reads, a node that nothing is about to replace serves whenever one does.
THEOREM AvailabilityInvariant ==
    ASSUME Setting
    PROVE  CarefulSpec => []AvailInv
  <1>1. Known /\ AvailInv /\ [Next /\ ~ Mishap]_vars => AvailInv'
    BY StepAvailable DEF Available
  <1> QED
    BY <1>1, InitAvailable, KnownInvariant, CarefulIsSpec, PTL DEF CarefulSpec

\* So these three mishaps are all there is to break "at least one node is serving": without
\* them, edits, upgrades, scaling, deletions, crashes and failing calls never leave a cluster
\* that serves without a node that does, as long as the object exists.
THEOREM ServiceStaysAvailable ==
    ASSUME Setting
    PROVE  CarefulSpec => AvailabilityKept
  <1> DEFINE StillServes == Serving /\ tc' # NoTC => Serving'
  <1>1. Known /\ (\E n \in Nodes : Runs(n)) => Serving
    BY RunsMeans DEF Known, Serving, Runs
  <1>2. Known' /\ (\E n \in Nodes : Runs(n))' => Serving'
    BY <1>1, PTL
  <1>3. Known /\ Known' /\ AvailInv /\ [Next /\ ~ Mishap]_vars => StillServes
    BY <1>2, StepAvailable DEF Available
  <1> HIDE DEF StillServes
  <1>4. Known /\ Known' /\ AvailInv /\ [Next /\ ~ Mishap]_vars => [StillServes]_vars
    BY <1>3
  <1> QED
    BY <1>4, KnownInvariant, AvailabilityInvariant, CarefulIsSpec, PTL
    DEF CarefulSpec, AvailabilityKept, StillServes
===============================================================================
