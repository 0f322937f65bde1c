--------------------------- MODULE MCReportDecoder ---------------------------
(***************************************************************************)
(* Whole reports, whose keys are read in every order; the metadata of three  *)
(* with all that a decoder tells apart; and every structure on its own, with *)
(* every key of its table.                                                   *)
(***************************************************************************)
EXTENDS ReportDecoder

All(keys) == [k \in keys |-> 1]

Cluster ==
    All({"customerGUID", "clusterName", "reportGUID", "jobID", "generationTime", "customerGUIDGenerated",
         "summaryDetails", "attributes", "clusterAPIServerInfo", "clusterCloudProvider", "triggeredByCLI",
         "resources", "results"})
    @@ "metadata" :> ("scanMetadata" :> All({"submit"}))
    @@ "paginationInfo" :> All({"number", "last"})

Contexts ==
    "clusterMetadata" :> All({"contextName", "numberOfWorkerNodes", "cloudMetadata"})
    @@ "targetMetadata" :> ("clusterContextMetadata" :> All({"contextName"})
                            @@ "gitRepoContextMetadata" :> All({"repo", "branch", "lastCommit"})
                            @@ All({"fileContextMetadata"}))
    @@ "scanMetadata" :> All({"targetType", "formats", "scanningTarget", "complianceThreshold"})
    @@ "encryptionMetadata" :> All({"version", "encryptedDEK"})

Gates ==
    "effective" :> ("failure" :> ("complianceBelow" :> 0 @@ "severityAtLeast" :> 1 @@ "degradedPolicyInput" :> 0)
                    @@ "output" :> ("formats" :> 1 @@ "omitRawResources" :> 0)
                    @@ "policy" :> Zero)
    @@ "gateResolution" :> ("coverageBelow" :> ("contract" :> 0 @@ "effective" :> 1)
                            @@ "degradedPolicyInput" :> ("runnerFloor" :> 0 @@ "effective" :> 1))
    @@ All({"name", "allowedSections"})

Overrides ==
    "runnerInputs" :> (1 :> All({"role", "digest"}) @@ 2 :> Zero)
    @@ "ordinaryCliOverrides" :> ("policy" :> ("controls" :> 0 @@ "frameworks" :> 1)
                                  @@ "scope" :> ("excludeNamespaces" :> 0)
                                  @@ "evaluation" :> ("scanTimeout" :> 1)
                                  @@ "output" :> ("omitRawResources" :> 0 @@ "formats" :> 0))
    @@ "effective" :> ("scope" :> All({"includeNamespaces"}) @@ "evaluation" :> All({"controlTimeout"}))

(* Every structure with all its values set; with one value set, or kept though  *)
(* it is zero; and with one section that is there and empty.                 *)
OfKind(type, kinds) == {k \in DOMAIN Encoded[type] : Encoded[type][k].kind \in kinds}
Values(type) == OfKind(type, {"always", "omitempty", "pointer"})
Structures == DOMAIN Encoded \ {"PostureReport", "PostureReportV1", "scanContractRunnerInputs"}

OfStructure(type) ==
    {All(Values(type))}
    \union {k :> 1 : k \in Values(type)}
    \union {k :> 0 : k \in OfKind(type, {"pointer"})}
    \union {k :> Zero : k \in OfKind(type, {"section"}) \ {"runnerInputs"}}

AllReports ==
    {[type |-> "PostureReport", value |-> Cluster],
     [type |-> "PostureReportV1", value |-> All(Values("PostureReportV1"))],
     [type |-> "Metadata", value |-> Contexts],
     [type |-> "Metadata", value |-> "scanMetadata" :> ("scanContract" :> Gates @@ All({"hostScanner"}))],
     [type |-> "Metadata", value |-> "scanMetadata" :> ("scanContract" :> Overrides)]}
    \union UNION {{[type |-> t, value |-> v] : v \in OfStructure(t)} : t \in Structures}

(* TLC evaluates a definition without parameters once, but one that a        *)
(* constant is replaced with wherever the constant occurs.                   *)
MCReports == AllReports
=============================================================================
