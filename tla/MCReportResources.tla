-------------------------- MODULE MCReportResources --------------------------
(***************************************************************************)
(* Two families of scenarios.  Joins: every binding and two roles of the    *)
(* kinds, namespaces and groups that the join tells apart, with no calls    *)
(* after it.  Lives: a few mixed reports, with calls on their resources.    *)
(***************************************************************************)
EXTENDS ReportResources

CONSTANTS MaxCalls

AllGroup == "rbac/v1" :> "rbac" @@ "corp/v1" :> "corp" @@ "v1" :> ""
           @@ "hostdata/v1" :> "hostdata" @@ "eks/v1" :> "eks"
MCBindingKinds == {"RoleBinding", "ClusterRoleBinding", "ProjectRoleBinding"}
MCRoleKinds == {"Role", "ClusterRole", "ProjectRole"}

Optional(k, v) == IF v = "" THEN << >> ELSE k :> v
Obj(apiVersion, kind, name, namespace) ==
    ("apiVersion" :> apiVersion @@ "kind" :> kind @@ "metadata.name" :> name)
    @@ Optional("metadata.namespace", namespace)
Binding(kind, namespace, roleKind, group, subjects) ==
    Obj("rbac/v1", kind, "bind", namespace)
    @@ ("roleRef.kind" :> roleKind @@ "roleRef.name" :> "reader" @@ "subjects" :> subjects)
    @@ Optional("roleRef.apiGroup", group)
Subject(name) == "kind" :> "ServiceAccount" @@ "name" :> name @@ "namespace" :> "ns-a"

Pair == "subject-role-rolebinding"
Qualifiers == {"", "ns-a", "ns-b", NotAString}

Joins ==
    {[heap |-> <<Subject("sa"), Binding(b.kind, b.ns, b.roleKind, b.group, <<1>>),
                 Obj(r.api, r.kind, r.name, r.ns), Obj("rbac/v1", "Role", "reader", "ns-b")>>,
      objects |-> <<3, 2, 4>>, aggregator |-> Pair, calls |-> 0] :
        b \in [kind : MCBindingKinds, ns : Qualifiers, roleKind : MCRoleKinds,
               group : {"", "rbac", "corp", NotAString}],
        r \in [api : {"rbac/v1", "corp/v1", NotAString}, kind : MCRoleKinds,
               name : {"reader", "writer"}, ns : Qualifiers]}

Rules ==
    <<Subject("sa"), Subject("sb"), Binding("RoleBinding", "ns-a", "Role", "rbac", <<1, 0, 2>>),
      Obj("rbac/v1", "Role", "reader", "ns-a"), Obj("rbac/v1", "Role", "reader", ""),
      Binding("RoleBinding", "ns-b", "Role", "", <<1, 8>>), Put(Subject("sc"), "nested", "list"),
      Put(Subject("sd"), "nested", "list")>>

Lives ==
    {[heap |-> Rules, objects |-> <<3, 4, 5>>, aggregator |-> Pair, calls |-> MaxCalls],
     [heap |-> Rules, objects |-> <<3, 6, 5, 4>>, aggregator |-> Pair, calls |-> 1],
     [heap |-> <<Obj("v1", "Pod", "kube-apiserver", "kube-system"), Obj("v1", "Pod", "web", "ns-a")>>,
      objects |-> <<2, 1>>, aggregator |-> "apiserver-pod", calls |-> MaxCalls],
     [heap |-> <<Put(Obj("v1", "Pod", "kube-apiserver", "kube-system"), "sourcePath", "a.yaml")>>,
      objects |-> <<1>>, aggregator |-> "apiserver-pod", calls |-> MaxCalls],
     [heap |-> <<Obj("v1", "Pod", "web", "")>>, objects |-> <<1>>, aggregator |-> "apiserver-pod",
      calls |-> 0],
     [heap |-> <<Put(Obj("v1", "Deployment", "web", ""), "sourcePath", "a.yaml"),
                 Put(Obj("hostdata/v1", "KubeletInfo", "node", ""), "data", "data")>>,
      objects |-> <<1, 2>>, aggregator |-> "none", calls |-> MaxCalls],
     [heap |-> <<Obj("eks/v1", "ClusterDescribe", "cluster", ""),
                 "apiVersion" :> "v1" @@ "kind" :> "PodList" @@ "items" :> "pods",
                 "kind" :> "User" @@ "name" :> "ann" @@ "relatedObjects" :> [typed |-> FALSE, list |-> <<1>>]>>,
      objects |-> <<1, 2, 3>>, aggregator |-> "none", calls |-> MaxCalls]}

AllScenarios == Joins \union Lives
AllSpare == {Obj("v1", "Service", "spare", "ns-b"), Obj("hostdata/v1", "KubeletInfo", "spare", "")}

(* TLC evaluates a definition without parameters once, but one that a        *)
(* constant is replaced with wherever the constant occurs.                   *)
MCScenarios == AllScenarios
MCSpare == AllSpare
MCGroup == AllGroup
=============================================================================
