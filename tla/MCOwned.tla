-------------------------------- MODULE MCOwned -------------------------------
(***************************************************************************)
(* Two TeamCity objects of one namespace.                                   *)
(***************************************************************************)
EXTENDS OwnedProperties, TLC

CONSTANTS a, b, claim, claim2, account, service, ingress, n1, n2

Nothing == [o \in {} |-> 1]

Wants(claims, accounts, services, ingresses, main, secondaries) ==
    [builder \in {Builders[k] : k \in DOMAIN Builders} |->
        CASE builder = "PersistentVolumeClaim" -> claims
          [] builder = "ServiceAccount"        -> accounts
          [] builder = "Service"               -> services
          [] builder = "Ingress"               -> ingresses
          [] builder = "StatefulSet"           -> main
          [] builder = "SecondaryStatefulSet"  -> secondaries]

TeamCity(labels, want) ==
    [labels |-> labels, want |-> want, mounts |-> {claim, claim2, NoName}, xmx |-> 95,
     main |-> {}, secondaries |-> <<>>]

Responsible(spec, main, secondaries) ==
    [spec EXCEPT !.main = main, !.secondaries = secondaries]

Full == Wants(claim :> 1, Nothing, service :> 1, Nothing, n1 :> 1, n2 :> 2)

RequestsOfA == {
    TeamCity({}, Full),
    \* n2 is promoted, the claim gets another name
    TeamCity({}, Wants(claim2 :> 1, Nothing, service :> 1, Nothing, n2 :> 2, n1 :> 1)),
    \* the service makes way for an ingress, an account, no secondary
    Responsible(
        TeamCity({}, Wants(claim :> 1, account :> 1, Nothing, ingress :> 1, n1 :> 1, Nothing)),
        {MainNode, UserData, Changes}, <<>>),
    \* responsibilities of the secondary only, those of a main node, those of nobody
    Responsible(TeamCity({}, Full), {}, <<{Messages}>>),
    Responsible(TeamCity({}, Full), {MainNode, UserData}, <<{MainNode}>>),
    Responsible(TeamCity({}, Full), {MainNode, UserData, "unknown"}, <<{Triggers}>>),
    \* a larger claim and a service without a name, a claim without
    TeamCity({}, Wants(claim :> 2, Nothing, NoName :> 1, Nothing, n1 :> 1, Nothing)),
    TeamCity({}, Wants(NoName :> 1, Nothing, Nothing, Nothing, n1 :> 1, Nothing))}

\* The other object competes for the second claim, the service and a node.
RequestsOfB == {
    TeamCity({}, Wants(claim2 :> 1, Nothing, service :> 3, Nothing, n2 :> 1, Nothing)),
    \* a larger claim, no service; other labels, one of them the other's name
    TeamCity({<<"env", "test">>, <<"name", a>>},
             Wants(claim2 :> 2, Nothing, Nothing, Nothing, n2 :> 2, Nothing))}

\* Of the first two configs, the second adds to the first.
MCExtends == {<<1, 2>>}
MCLabelPairs ==
    {"name"} \X {a, b} \cup {"role"} \X {"main", "secondary"} \cup {"node-name"} \X {n1, n2}
    \cup {<<"env", "test">>}
MCInitially == {(a :> TeamCity({}, Full)) @@ (b :> NoTC)}
MCRequests == (a :> RequestsOfA) @@ (b :> RequestsOfB)

\* The main node gets another name.
MCRenamed ==
    (a :> {TeamCity({}, Wants(claim :> 1, Nothing, service :> 1, Nothing, n2 :> 1, Nothing))})
    @@ (b :> {})
MCInitiallySingle ==
    {(a :> TeamCity({}, Wants(claim :> 1, Nothing, service :> 1, Nothing, n1 :> 1, Nothing)))
     @@ (b :> NoTC)}
===============================================================================
