-------------------------------- MODULE Webhook -------------------------------
(***************************************************************************)
(* What the admission webhook checks of a TeamCity object besides its       *)
(* serviceNames: validateCommonFields of api/v1beta1/teamcity_webhook.go.   *)
(* A form is what it looks at:                                              *)
(*                                                                          *)
(*   xmx          spec.xmxPercentage                                        *)
(*   claims       the volume claims, each named or not, mounted (a volume   *)
(*                mount with a name and a path) or not                      *)
(*   main         responsibilities of the main node                         *)
(*   secondaries  responsibilities of the secondaries, in their order       *)
(*                                                                          *)
(* The two checks of resource requests (lines 147 and 188) compare the      *)
(* length of a printed quantity with zero; a quantity that is not set       *)
(* prints as "0", so they let everything pass and are left out.             *)
(***************************************************************************)
EXTENDS Integers, Sequences

CONSTANTS Messages, Changes, Triggers, UserData, MainNode
    \* CAN_PROCESS_BUILD_MESSAGES, CAN_CHECK_FOR_CHANGES, CAN_PROCESS_BUILD_TRIGGERS,
    \* CAN_PROCESS_USER_DATA_MODIFICATION_REQUESTS, MAIN_NODE

ASSUME ResponsibilitiesAssumption == MainNode \notin {Messages, Changes, Triggers, UserData}

allTeamCityResponsibilities == {MainNode, Messages, Changes, Triggers, UserData}
minimumRequiredMainNodeResponsibilities == {MainNode, UserData}
validSecondaryNodeResponsibilities == {Messages, Changes, Triggers, UserData}
validMainNodeResponsibilities == allTeamCityResponsibilities

\* An error is named for what is wrong; "none" admits.
Admitted == "none"
Warning == "not all responsibilities are distributed"

validateXmxPercentage(form) == IF form.xmx <= 0 THEN "xmxPercentage" ELSE Admitted

\* Mutation: the name of a claim is not looked at.
validateMountOfClaim(claim) == claim.mounted
validateCustomPersistentVolumeClaim(claim) == claim.named /\ claim.mounted

validateAllCustomPersistentVolumeClaimsInObject(form) ==
    IF \A claim \in form.claims : validateCustomPersistentVolumeClaim(claim)
    THEN Admitted ELSE "claim"

getAllResponsibilitiesFromAllNodes(form) ==
    form.main \cup UNION {form.secondaries[k] : k \in DOMAIN form.secondaries}

\* Mutation: the main node's responsibilities speak for all.
MainNodeHasEmptyResponsibility(form) == form.main = {}
allNodesHaveEmptyResponsibility(form) == getAllResponsibilitiesFromAllNodes(form) = {}

validateMainNodeResponsibilities(form) ==
    IF /\ form.main # {}
       /\ form.main \subseteq validMainNodeResponsibilities
       /\ minimumRequiredMainNodeResponsibilities \subseteq form.main
    THEN Admitted ELSE "mainNode"

\* A secondary without responsibilities is valid.
validateNodeResponsibilities(responsibilities) ==
    responsibilities \subseteq validSecondaryNodeResponsibilities

validatePresenceOfAllResponsibilities(form) ==
    IF allTeamCityResponsibilities \subseteq getAllResponsibilitiesFromAllNodes(form)
    THEN {} ELSE {Warning}

Verdict(error, warnings) == [error |-> error, warnings |-> warnings]

validateResponsibilitiesOfAllNodes(form) ==
    IF allNodesHaveEmptyResponsibility(form) THEN Verdict(Admitted, {})
    ELSE IF validateMainNodeResponsibilities(form) # Admitted
    THEN Verdict(validateMainNodeResponsibilities(form), {})
    ELSE IF \E k \in DOMAIN form.secondaries :
                ~ validateNodeResponsibilities(form.secondaries[k])
    THEN Verdict("secondaryNode", {})
    ELSE Verdict(Admitted, validatePresenceOfAllResponsibilities(form))

\* The first error counts.
validateCommonFields(form) ==
    IF validateXmxPercentage(form) # Admitted
    THEN Verdict(validateXmxPercentage(form), {})
    ELSE IF validateAllCustomPersistentVolumeClaimsInObject(form) # Admitted
    THEN Verdict(validateAllCustomPersistentVolumeClaimsInObject(form), {})
    ELSE validateResponsibilitiesOfAllNodes(form)

\* The warning of an admitted object gets lost on creation (line 79).
ValidateCreate(form) == Verdict(validateCommonFields(form).error, {})
===============================================================================
