-------------------------------- MODULE Cluster -------------------------------
(***************************************************************************)
(* What the operator runs in: the API server that holds the StatefulSets    *)
(* and the checkpoint ConfigMap, the StatefulSet controller and garbage     *)
(* collector that act on them, and the informer caches the operator reads   *)
(* through, whose events put the TeamCity object on the operator's work     *)
(* queue.  Only the event filter (internal/predicate) is the operator's own *)
(* code; the rest is modelled from how the operator uses it.                *)
(*                                                                          *)
(* Simplifications.  A cache catches up with the latest state at once.  A   *)
(* deletion in the background takes the StatefulSet and its pod together.   *)
(* Pods become ready and stay ready until they are replaced.                *)
(***************************************************************************)
EXTENDS Checkpoint, StatefulSets

CONSTANTS
    Main,           \* the main node
    Replica,        \* its temporary copy, "<main>-update-replica"
    Secondaries,    \* names of secondary nodes
    StaleReads      \* TRUE: caches lag; FALSE: they follow every write at once

ASSUME NodesAssumption ==
    Main # Replica /\ Main \notin Secondaries /\ Replica \notin Secondaries
ASSUME StaleReadsAssumption == StaleReads \in BOOLEAN

Nodes == {Main, Replica} \cup Secondaries

VARIABLES
    sts,            \* StatefulSets at the API server
    pod,            \* the pod of each StatefulSet
    checkpoint,     \* the stage in the ConfigMap
    stsSeen,        \* StatefulSets in the informer cache
    cmSeen,         \* the ConfigMap in the informer cache
    queued          \* the TeamCity object is on the work queue

clusterVars == <<sts, pod, checkpoint, stsSeen, cmSeen, queued>>

ClusterTypeOK ==
    /\ sts \in [Nodes -> StatefulSet \cup {NoSts}]
    /\ stsSeen \in [Nodes -> StatefulSet \cup {NoSts}]
    /\ pod \in [Nodes -> Pod \cup {NoPod}]
    /\ checkpoint \in MaybeStage /\ cmSeen \in MaybeStage
    /\ queued \in BOOLEAN

ClusterInit ==
    /\ sts = [n \in Nodes |-> NoSts] /\ stsSeen = sts
    /\ pod = [n \in Nodes |-> NoPod]
    /\ checkpoint = NoCheckpoint /\ cmSeen = NoCheckpoint
    /\ queued = TRUE

CachesSynced == stsSeen = sts /\ cmSeen = checkpoint

(***************************************************************************)
(* The event filter.  Creations and deletions pass; an update passes only   *)
(* if what the old spec sets has changed, so a status never passes.         *)
(***************************************************************************)
StatefulSetEventPasses(old, new) ==
    IF old = NoSts \/ new = NoSts THEN old # new
    ELSE ~ DeepDerivative(old, new)

\* Writes to the API server; without StaleReads the caches follow in the same step.
WriteStatefulSets(new) ==
    /\ sts' = new
    /\ stsSeen' = IF StaleReads THEN stsSeen ELSE new

WriteCheckpoint(stage) ==
    /\ checkpoint' = stage
    /\ cmSeen' = IF StaleReads THEN cmSeen ELSE stage

EventsOf(new) ==
    ~ StaleReads /\ \E n \in Nodes : StatefulSetEventPasses(sts[n], new[n])

(***************************************************************************)
(* Informers.  A deletion learnt from a relist has DeleteStateUnknown set   *)
(* and is filtered out, so the event of a deletion may be lost.             *)
(***************************************************************************)
SyncStatefulSet(n) ==
    /\ stsSeen[n] # sts[n]
    /\ stsSeen' = [stsSeen EXCEPT ![n] = sts[n]]
    /\ \/ queued' = (queued \/ StatefulSetEventPasses(stsSeen[n], sts[n]))
       \/ sts[n] = NoSts /\ queued' = queued
    /\ UNCHANGED <<sts, pod, checkpoint, cmSeen>>

SyncCheckpoint ==
    /\ cmSeen # checkpoint
    /\ cmSeen' = checkpoint
    /\ UNCHANGED <<sts, pod, checkpoint, stsSeen, queued>>

(***************************************************************************)
(* The StatefulSet controller.                                              *)
(***************************************************************************)
UpdateStatus(n) ==
    /\ sts[n] # NoSts /\ StatusOf(sts[n], pod[n]) # sts[n]
    /\ WriteStatefulSets([sts EXCEPT ![n] = StatusOf(sts[n], pod[n])])
    /\ UNCHANGED <<pod, checkpoint, cmSeen, queued>>

CreatePod(n) ==
    /\ sts[n] # NoSts /\ ~ sts[n].terminating /\ pod[n] = NoPod
    /\ pod' = [pod EXCEPT ![n] = [template |-> sts[n].template, ready |-> FALSE]]
    /\ UNCHANGED <<sts, checkpoint, stsSeen, cmSeen, queued>>

PodBecomesReady(n) ==
    /\ pod[n] # NoPod /\ ~ pod[n].ready
    /\ pod' = [pod EXCEPT ![n].ready = TRUE]
    /\ UNCHANGED <<sts, checkpoint, stsSeen, cmSeen, queued>>

\* OrderedReady: an outdated pod is replaced once it is ready.
KillOutdatedPod(n) ==
    /\ sts[n] # NoSts /\ ~ sts[n].terminating
    /\ pod[n] # NoPod /\ pod[n].ready /\ pod[n].template # sts[n].template
    /\ pod' = [pod EXCEPT ![n] = NoPod]
    /\ UNCHANGED <<sts, checkpoint, stsSeen, cmSeen, queued>>

(***************************************************************************)
(* Deletion in the foreground: the pod goes first, then the StatefulSet.    *)
(***************************************************************************)
DeletePodOfTerminating(n) ==
    /\ sts[n] # NoSts /\ sts[n].terminating /\ pod[n] # NoPod
    /\ pod' = [pod EXCEPT ![n] = NoPod]
    /\ UNCHANGED <<sts, checkpoint, stsSeen, cmSeen, queued>>

RemoveStatefulSet(n) ==
    /\ sts[n] # NoSts /\ sts[n].terminating /\ pod[n] = NoPod
    /\ LET new == [sts EXCEPT ![n] = NoSts]
       IN  WriteStatefulSets(new) /\ queued' = (queued \/ EventsOf(new))
    /\ UNCHANGED <<pod, checkpoint, cmSeen>>

\* The owner is gone: the garbage collector takes what it owned.
CollectGarbage(n) ==
    /\ sts[n] # NoSts
    /\ LET new == [sts EXCEPT ![n] = NoSts]
       IN  WriteStatefulSets(new) /\ queued' = (queued \/ EventsOf(new))
    /\ pod' = [pod EXCEPT ![n] = NoPod]
    /\ UNCHANGED <<checkpoint, cmSeen>>

NodeStep(n) ==
    \/ SyncStatefulSet(n) \/ CreatePod(n) \/ PodBecomesReady(n)
    \/ KillOutdatedPod(n) \/ DeletePodOfTerminating(n) \/ RemoveStatefulSet(n)
===============================================================================
