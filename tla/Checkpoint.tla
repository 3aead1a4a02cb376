------------------------------ MODULE Checkpoint ------------------------------
(***************************************************************************)
(* The checkpoint of a zero-downtime upgrade: the stage the operator has    *)
(* persisted in the ConfigMap update-checkpoint-<TeamCity name>, and the    *)
(* rule by which one stage may be overwritten with another                  *)
(* (internal/checkpoint).  A stage is its number, as in the Go enumeration; *)
(* NoCheckpoint is the absence of the ConfigMap.                            *)
(***************************************************************************)
EXTENDS Integers

UpdateInitiated  == 0
ReplicaCreated   == 1
ReplicaStarting  == 2
ReplicaReady     == 3
MainShuttingDown == 4
MainReady        == 5
UpdateFinished   == 6

Stage == UpdateInitiated .. UpdateFinished
NoCheckpoint == -1
MaybeStage == Stage \cup {NoCheckpoint}

\* A stage may be rewritten or advanced by one, never skipped or taken back.
CanChangeStageValue(current, desired) == desired - current \in {0, 1}

\* A cluster with secondaries needs no temporary replica.
\* Mutations: no cluster needs one, or even a checkpoint before its main node restarts.
InitialStageWithoutReplica(multiNode) == ReplicaReady
InitialStageLate(multiNode) == MainShuttingDown
InitialStage(multiNode) == IF multiNode THEN ReplicaReady ELSE UpdateInitiated
===============================================================================
