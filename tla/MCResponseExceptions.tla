------------------------ MODULE MCResponseExceptions ------------------------
(***************************************************************************)
(* Two workloads, a role and vectors of them, under exceptions by fields,   *)
(* labels, containers and selectors.                                        *)
(***************************************************************************)
EXTENDS ResponseExceptions, TLC

Role ==
    [type |-> "workload", kind |-> "Role", name |-> "reader", namespace |-> "prod",
     id |-> "role", path |-> Absent, apiGroup |-> "rbac", labels |-> << >>,
     annotations |-> << >>, containers |-> << >>, initContainers |-> << >>, related |-> {}]

Pod ==
    [Role EXCEPT !.kind = "Pod", !.name = "web", !.id = "pod", !.apiGroup = "",
                 !.labels = "app" :> "job",
                 !.containers = <<"sidecar">>, !.initContainers = <<"setup">>]

Deployment ==
    [Role EXCEPT !.kind = "Deployment", !.name = "web", !.id = "deployment", !.apiGroup = "apps",
                 !.path = "web.yaml", !.labels = "tier" :> "front",
                        !.annotations = "app" :> "web",
                 !.containers = <<"app", "sidecar">>]

Namespace == [Role EXCEPT !.kind = "Namespace", !.name = "prod", !.namespace = "", !.id = "ns"]

Vector(related) ==
    [Role EXCEPT !.type = "vector", !.kind = "User", !.name = "jane", !.namespace = "",
                 !.id = "user", !.related = related]

Workloads ==
    {Role, Pod, Deployment, Namespace, Vector({Role}), Vector({Deployment}),
     Vector({Pod, Deployment}), Vector({Role, Deployment})}

Paths == {{}, {[init |-> FALSE, index |-> 0]}, {[init |-> FALSE, index |-> 1]},
          {[init |-> FALSE, index |-> 1], [init |-> TRUE, index |-> 0]}}

Response(workloads, paths) ==
    [workloads |-> workloads, paths |-> paths, exception |-> NoException, ruleStatus |-> Unset]

AllResponses ==
    {<<Response(<<w>>, p)>> : w \in Workloads, p \in Paths}
    \union {<<Response(<<v, w>>, p), Response(<< >>, p)>> : v, w \in {Role, Deployment}, p \in Paths}

By(field, pattern) == [EmptyDesignator EXCEPT ![field] = pattern]
ByLabels(labels) == [EmptyDesignator EXCEPT !.labels = labels]

AppAndSidecar == ByLabels("app" :> "web" @@ ContainerName :> "sidecar")
KindAndSidecar == [ByLabels(ContainerName :> "sidecar") EXCEPT !.kind = "Deployment"]
ProdAndApp == [ByLabels("app" :> "web") EXCEPT !.cluster = "prod"]

Designator ==
    {EmptyDesignator, By("namespace", "prod"), By("kind", "Deployment"), By("kind", "User"),
     By("name", "w.*"), By("resourceID", "role"), By("path", "w.*"), By("cluster", "prod"),
     ByLabels("app" :> "web"), ByLabels("app" :> "web" @@ "tier" :> "back"), ProdAndApp,
     ByLabels(ApiGroup :> ""), ByLabels(ApiGroup :> "apps" @@ "app" :> "w.*"),
     ByLabels(ContainerName :> "sidecar"), AppAndSidecar, KindAndSidecar}

Requirement(op) == [op |-> op, key |-> "tier", values |-> {"back"}]
Selectors == {NoSelector} \union {{Requirement(op)} : op \in {"In", "NotIn", "Exists", "DoesNotExist"}}

Exception(resources, selector, alertOnly) ==
    [resources |-> resources, selector |-> selector, malformed |-> FALSE, alertOnly |-> alertOnly]

AllExceptionLists ==
    {<<Exception(<<d>>, s, TRUE)>> : d \in Designator, s \in Selectors}
    \union {<<Exception(<< >>, s, FALSE)>> : s \in Selectors}
    \union {<<>>, <<[Exception(<< >>, {Requirement("Exists")}, TRUE) EXCEPT !.malformed = TRUE]>>,
            <<Exception(<<By("kind", "Role"), By("kind", "Deployment")>>, NoSelector, TRUE),
              Exception(<<By("name", "w.*")>>, NoSelector, FALSE)>>}

AllRegexMatch ==
    {<<v, v>> : v \in {"", "prod", "test", "web", "app", "sidecar", "front", "back", "apps",
                       "Deployment", "User", "Role", "role"}}
    \union {<<"w.*", "web">>, <<"w.*", "web.yaml">>}

(* TLC evaluates a definition without parameters once, but one that a        *)
(* constant is replaced with wherever the constant occurs.                   *)
MCResponses == AllResponses
MCExceptionLists == AllExceptionLists
MCRegexMatch == AllRegexMatch
=============================================================================
