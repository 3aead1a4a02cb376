---------------------------- MODULE UpgradeProtocol ---------------------------
(***************************************************************************)
(* What the checkpoint of a zero-downtime upgrade promises, whatever the    *)
(* operator forgets in a crash or reads late: an upgrade starts at one of   *)
(* two stages, goes through the others in order, ends only at the last, and *)
(* its temporary replica is there at no other time than between             *)
(* ReplicaCreated and MainReady.  Once the TeamCity object is being deleted *)
(* or gone, the upgrade may be dropped and the replica collected.           *)
(***************************************************************************)
EXTENDS Checkpoint

VARIABLES
    stage,      \* the persisted stage, or NoCheckpoint
    replica,    \* the temporary replica exists
    released    \* the TeamCity object is being deleted or gone

protocolVars == <<stage, replica, released>>

ProtocolTypeOK == stage \in MaybeStage /\ {replica, released} \subseteq BOOLEAN

ProtocolInit == stage = NoCheckpoint /\ replica = FALSE /\ released = FALSE

\* A cluster of one node starts with a replica, one of several with its main node.
Begin ==
    /\ stage = NoCheckpoint
    /\ stage' \in {ReplicaCreated, MainShuttingDown}
    /\ UNCHANGED <<replica, released>>

CreateReplica ==
    /\ stage \in {ReplicaCreated, ReplicaStarting}
    /\ replica' = TRUE
    /\ UNCHANGED <<stage, released>>

\* The replica is there when the main node is about to restart, and gone at the end.
Advance ==
    /\ stage \in ReplicaCreated .. MainReady
    /\ stage' = stage + 1
    /\ stage' = UpdateFinished => ~ replica
    /\ UNCHANGED <<replica, released>>

DropReplica ==
    /\ stage = MainReady \/ released
    /\ replica' = FALSE
    /\ UNCHANGED <<stage, released>>

Finish ==
    /\ stage = UpdateFinished \/ released
    /\ stage' = NoCheckpoint
    /\ UNCHANGED <<replica, released>>

\* The owner is released, and a new object may take its name.
Release == released' = TRUE /\ UNCHANGED <<stage, replica>>
Reclaim == released /\ ~ replica /\ released' = FALSE /\ UNCHANGED <<stage, replica>>

ProtocolNext ==
    Begin \/ CreateReplica \/ Advance \/ DropReplica \/ Finish \/ Release \/ Reclaim

ProtocolSpec == ProtocolInit /\ [][ProtocolNext]_protocolVars
===============================================================================
