---------------------------- MODULE SubjectVectors ----------------------------
(***************************************************************************)
(* reporthandling/regoresourcesaggregator.go: which role a role binding     *)
(* refers to, decided on the decoded objects, whose qualifiers may be unset *)
(* (manifests) or corrupt.  The suffix tests on kinds are sets of kinds.    *)
(***************************************************************************)
EXTENDS Envelopes

CONSTANTS
    BindingKinds,  \* the kinds that end in Binding
    RoleKinds,     \* the kinds that end in Role
    APIServerNames \* the names that contain apiserver or api-server

namespacesCompatible(roleNamespace, bindingNamespace) ==
    roleNamespace = "" \/ bindingNamespace = "" \/ roleNamespace = bindingNamespace

roleIsNamespaced(roleKind, roleNamespace) ==
    roleKind = "Role" \/ (roleKind # "ClusterRole" /\ roleNamespace # "")

bindingResolvesNamespacedRole(roleKind, bindingKind) ==
    IF roleKind = "Role" THEN bindingKind = "RoleBinding" ELSE bindingKind # "ClusterRoleBinding"

SameReference(b, r) ==
    /\ objectString(b, "roleRef.name") = objectString(r, "metadata.name")
    /\ objectString(b, "roleRef.kind") = objectString(r, "kind")
    /\ "roleRef.name" \in DOMAIN b /\ b["roleRef.name"] # NotAString
    /\ "roleRef.kind" \in DOMAIN b /\ b["roleRef.kind"] # NotAString

GroupOf(apiVersion) == IF apiVersion \in DOMAIN Group THEN Group[apiVersion] ELSE ""

GroupsCompatible(b, r) ==
    LET apiGroup == objectString(b, "roleRef.apiGroup")
        roleGroup == GroupOf(objectString(r, "apiVersion"))
    IN  apiGroup = "" \/ roleGroup = "" \/ apiGroup = roleGroup

(* Mutated: kind and name alone decide, as before namespaces were compared.  *)
bindingReferencesRole_Bug(b, r) == SameReference(b, r) /\ GroupsCompatible(b, r)

(* Whether the roleRef of map b resolves to map r.                           *)
bindingReferencesRole(b, r) ==
    LET roleNamespace == objectString(r, "metadata.namespace")
        roleKind == objectString(r, "kind")
    IN  /\ SameReference(b, r)
        /\ GroupsCompatible(b, r)
        /\ \/ ~roleIsNamespaced(roleKind, roleNamespace)
           \/ /\ bindingResolvesNamespacedRole(roleKind, objectString(b, "kind"))
              /\ namespacesCompatible(roleNamespace, objectString(b, "metadata.namespace"))

IsAPIServerPod(m) ==
    /\ IsTypeWorkload(m)
    /\ m["kind"] = "Pod"
    /\ objectString(m, "metadata.namespace") = "kube-system"
    /\ m["metadata.name"] \in APIServerNames
=============================================================================
