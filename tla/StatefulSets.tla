----------------------------- MODULE StatefulSets -----------------------------
(***************************************************************************)
(* StatefulSets as the operator sees them, and the questions it asks of     *)
(* them.  A pod template is reduced to its environment, which the spec of   *)
(* the TeamCity object gives, the update replica's as well, and to an image *)
(* that stands for all the rest.  The environment has its last, optional    *)
(* variables (those of the database secret) or not.  A revision is the      *)
(* template it was made from, so going back to an earlier template goes     *)
(* back to its revision.                                                    *)
(*                                                                          *)
(*   template, svc    spec.template and spec.serviceName                    *)
(*   changed          metadata.generation > 1                               *)
(*   observed         status.observedGeneration = metadata.generation       *)
(*   current, update  status.currentRevision, status.updateRevision         *)
(*   ready            status.readyReplicas = 1 (= availableReplicas)        *)
(*   terminating      metadata.deletionTimestamp is set                     *)
(***************************************************************************)
EXTENDS Integers

CONSTANTS
    Images,         \* container images
    ServiceNames,   \* names of governing services
    NoService,      \* the empty serviceName
    NoSts, NoPod    \* absence of a StatefulSet, of its pod

Template   == [image : Images, env : BOOLEAN]
Service    == ServiceNames \cup {NoService}
NodeConfig == [template : Template, svc : Service]
Pod        == [template : Template, ready : BOOLEAN]
StatefulSet ==
    [template : Template, svc : Service, observed : BOOLEAN,
     current : Template, update : Template, ready : BOOLEAN,
     terminating : BOOLEAN, changed : BOOLEAN]

ASSUME AbsenceAssumption == NoSts \notin StatefulSet /\ NoPod \notin Pod

FreshStatefulSet(config) ==
    [template |-> config.template, svc |-> config.svc, observed |-> FALSE,
     current |-> config.template, update |-> config.template,
     ready |-> FALSE, terminating |-> FALSE, changed |-> FALSE]

\* spec.template is overwritten; the API server bumps the generation if it changed.
ConfigureStatefulSet(s, template) ==
    IF s.template = template THEN s
    ELSE [s EXCEPT !.template = template, !.observed = FALSE, !.changed = TRUE]

\* A deletion in the foreground; the first one bumps the generation.
MarkForDeletion(s) ==
    [s EXCEPT !.terminating = TRUE, !.observed = s.observed /\ s.terminating, !.changed = TRUE]

\* equality.Semantic.DeepDerivative: what is unset on the left is not compared.
DeepDerivative(left, right) ==
    /\ left.template.image = right.template.image
    /\ left.template.env => right.template.env
    /\ left.svc = NoService \/ left.svc = right.svc

ChangesRequireNodeStatefulSetRestart(config, existing) ==
    ~ DeepDerivative(config, existing)

ImmutableStatefulSetSpecChanged(existing, config) == existing.svc # config.svc

\* Mutation: an unobserved generation passes.
AnyGeneration(s) == s # NoSts
IsNewestGeneration(s)   == s # NoSts /\ s.observed
IsNodeUpdateFinished(s) == s # NoSts /\ s.current = s.update /\ s.ready

(***************************************************************************)
(* The status the StatefulSet controller of Kubernetes computes from the    *)
(* pod: currentRevision follows updateRevision only once the updated pod is *)
(* ready.                                                                   *)
(***************************************************************************)
StatusOf(s, p) ==
    LET ready == p # NoPod /\ p.ready
    IN  [s EXCEPT !.observed = TRUE,
                  !.update   = s.template,
                  !.ready    = ready,
                  !.current  = IF ready /\ p.template = s.template
                               THEN s.template ELSE s.current]
===============================================================================
