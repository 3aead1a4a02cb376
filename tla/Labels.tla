-------------------------------- MODULE Labels --------------------------------
(***************************************************************************)
(* The labels the operator writes on its objects and selects them by        *)
(* (internal/metadata).  Labels are a set of <<key, value>> pairs with one  *)
(* pair for a key.  The three default labels come and go together: the one  *)
(* that tells TeamCity objects apart, the name, stands for them.            *)
(***************************************************************************)
Keys(labels) == {pair[1] : pair \in labels}

\* What l2 says of a key goes before what l1 says of it.
mergeLabels(l1, l2) == {pair \in l1 : pair[1] \notin Keys(l2)} \cup l2

getDefaultLabelsFromInstanceName(instanceName) == {<<"name", instanceName>>}

\* Mutation: the labels of the TeamCity object override the default ones.
GetLabelsOverridden(instanceName, instanceLabels) ==
    mergeLabels(getDefaultLabelsFromInstanceName(instanceName), instanceLabels)

\* The labels of the TeamCity object never override the default ones.
GetLabels(instanceName, instanceLabels) ==
    mergeLabels(instanceLabels, getDefaultLabelsFromInstanceName(instanceName))

\* What all StatefulSets of a role have in common.
GetStatefulSetCommonLabels(instanceName, nodeRole, instanceLabels) ==
    mergeLabels(GetLabels(instanceName, instanceLabels), {<<"role", nodeRole>>})

GetStatefulSetLabels(instanceName, nodeName, nodeRole, instanceLabels) ==
    mergeLabels(GetStatefulSetCommonLabels(instanceName, nodeRole, instanceLabels),
                {<<"node-name", nodeName>>})

\* client.MatchingLabels: an object may carry more than the selector asks for.
MatchingLabels(selector, labels) == selector \subseteq labels
===============================================================================
