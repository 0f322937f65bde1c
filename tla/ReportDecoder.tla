---------------------------- MODULE ReportDecoder ----------------------------
(***************************************************************************)
(* The fast decoding of the common part of a posture report                 *)
(* (reporthandling/v2/gojayunmarshaller.go and the one of v1): a streaming  *)
(* decoder calls UnmarshalJSONObject of the open structure for every key,   *)
(* in the order of the document, and may stop at any byte.  The structures  *)
(* are tables of their keys; a value is 0 (zero, false, empty) or 1, a      *)
(* structure a function of the keys that differ from its zero value.        *)
(***************************************************************************)
EXTENDS Naturals, Sequences, FiniteSets, TLC

CONSTANTS
    Reports,   \* [type, value]: the reports written
    MaxRelays  \* bound: how often a decoded report is written and decoded again

VARIABLES
    report,    \* the report written
    frames,    \* the open structures, outermost first: [key, type, value, doc, left]
    status,    \* "reading", "read" or "failed"
    decoded,   \* what the caller holds when reading has ended
    relays     \* relays left

vars == <<report, frames, status, decoded, relays>>

Keys(keys, kind) == [k \in keys |-> [kind |-> kind, type |-> ""]]
Field(key, kind, type) == key :> [kind |-> kind, type |-> type]

-----------------------------------------------------------------------------
(* The struct tags: "always" is written even if zero, "omitempty" only if    *)
(* not, a "pointer" to a value if it is not nil; an "object" is a structure  *)
(* in place, always written, a "section" a pointer to one or a list of them. *)
EncodedV1 ==
    [PostureReportV1 |->
        Keys({"customerGUID", "clusterName", "clusterAPIServerInfo", "clusterCloudProvider", "reportID",
              "jobID", "generationTime", "frameworks"}, "always") @@ Keys({"rbacObjects", "resource"}, "omitempty")]

EncodedReport ==
    [PostureReport |->
        Keys({"generationTime", "clusterAPIServerInfo", "clusterCloudProvider", "customerGUID",
              "clusterName", "reportGUID", "jobID", "summaryDetails", "attributes",
              "customerGUIDGenerated"}, "always")
        @@ Keys({"resources", "results", "triggeredByCLI"}, "omitempty")
        @@ Field("metadata", "object", "Metadata") @@ Field("paginationInfo", "object", "PaginationMarks"),
     ClusterMetadata |->
        Keys({"namespaceToNumberOfResources", "cloudMetadata", "cloudProvider", "contextName",
              "numberOfWorkerNodes"}, "omitempty"),
     RepoContextMetadata |->
        Keys({"lastCommit"}, "always")
        @@ Keys({"provider", "repo", "owner", "branch", "defaultBranch", "remoteURL", "localRootPath"}, "omitempty"),
     ContextMetadata |->
        Field("clusterContextMetadata", "section", "ClusterMetadata")
        @@ Field("gitRepoContextMetadata", "section", "RepoContextMetadata")
        @@ Keys({"fileContextMetadata", "helmContextMetadata", "directoryContextMetadata"}, "pointer"),
     Metadata |->
        Field("targetMetadata", "object", "ContextMetadata")
        @@ Field("clusterMetadata", "object", "ClusterMetadata")
        @@ Field("scanMetadata", "object", "ScanMetadata")
        @@ Field("encryptionMetadata", "section", "EncryptionMetadata"),
     EncryptionMetadata |-> Keys({"version", "dekAlgorithm", "kekAlgorithm", "encryptedDEK"}, "omitempty"),
     ScanMetadata |->
        Keys({"targetType", "kubescapeVersion", "formatVersion", "controlsInputs", "format", "formats",
              "useExceptions", "logger", "excludedNamespaces", "includeNamespaces", "targetNames",
              "failThreshold", "complianceThreshold", "scanningTarget", "hostScanner", "submit",
              "verboseMode"}, "omitempty")
        @@ Field("scanContract", "section", "ScanContractMetadata")]

EncodedContract ==
    [ScanContractMetadata |->
        Keys({"apiVersion", "name", "contract", "minimumKubescapeVersion", "digestSchema",
              "contractDigest", "effectiveRunDigest", "source", "allowedSections", "deniedSections"}, "omitempty")
        @@ Field("effective", "section", "ScanContractEffectiveSettings")
        @@ Field("runnerInputs", "section", "scanContractRunnerInputs")
        @@ Field("gateResolution", "section", "ScanContractGateResolution")
        @@ Field("ordinaryCliOverrides", "section", "ScanContractCLIOverrides"),
     ScanContractRunnerInput |-> Keys({"role", "source", "digest"}, "omitempty"),
     ScanContractEffectiveSettings |->
        Field("policy", "section", "ScanContractPolicy") @@ Field("scope", "section", "ScanContractScope")
        @@ Field("evaluation", "section", "ScanContractEvaluation")
        @@ Field("failure", "section", "ScanContractFailure") @@ Field("output", "section", "ScanContractOutput"),
     ScanContractPolicy |-> Keys({"frameworks", "controls", "controlsVersion"}, "omitempty"),
     ScanContractScope |-> Keys({"includeNamespaces", "excludeNamespaces"}, "omitempty"),
     ScanContractEvaluation |-> Keys({"scanTimeout", "controlTimeout"}, "omitempty"),
     ScanContractFailure |->
        Keys({"severityAtLeast", "complianceBelow", "coverageBelow", "degradedPolicyInput"}, "pointer"),
     ScanContractOutput |-> Keys({"formats"}, "omitempty") @@ Keys({"omitRawResources"}, "pointer"),
     ScanContractGateResolution |->
        [k \in {"severityAtLeast", "complianceBelow", "coverageBelow", "degradedPolicyInput"} |->
            [kind |-> "object", type |-> "GateResolution"]],
     GateResolution |-> Keys({"contract", "runnerFloor", "effective"}, "pointer"),
     ScanContractCLIOverrides |->
        Field("policy", "section", "ScanContractPolicyOverrides")
        @@ Field("scope", "section", "ScanContractScopeOverrides")
        @@ Field("evaluation", "section", "ScanContractEvaluationOverrides")
        @@ Field("output", "section", "ScanContractOutputOverrides"),
     ScanContractPolicyOverrides |-> Keys({"frameworks", "controls", "controlsVersion"}, "pointer"),
     ScanContractScopeOverrides |-> Keys({"includeNamespaces", "excludeNamespaces"}, "pointer"),
     ScanContractEvaluationOverrides |-> Keys({"scanTimeout", "controlTimeout"}, "pointer"),
     ScanContractOutputOverrides |-> Keys({"formats", "omitRawResources"}, "pointer"),
     scanContractRunnerInputs |->
        [i \in 1 .. 2 |-> [kind |-> "section", type |-> "ScanContractRunnerInput"]]]

(* The pagination marks are a type of another module (armoapi-go), decoded    *)
(* where they are; two keys stand for its fields.                            *)
EncodedMarks == [PaginationMarks |-> Keys({"number", "last"}, "always")]
DecodedMarks == [PaginationMarks |-> Keys({"number", "last"}, "value")]

Encoded == EncodedV1 @@ EncodedReport @@ EncodedMarks @@ EncodedContract

(* UnmarshalJSONObject of each structure: the keys it reads, a "value" into   *)
(* its field, a "pointer" to a fresh one, an "object" where it is, a          *)
(* "section" fresh and set when it is complete.                              *)
Section(key, type) == Field(key, "section", type)
DecodedV1 ==
    [PostureReportV1 |-> Keys({"customerGUID", "clusterName", "reportID", "jobID", "generationTime"}, "value")]

DecodedReport ==
    [PostureReport |->
        Keys({"customerGUID", "clusterName", "reportGUID", "jobID", "generationTime",
              "customerGUIDGenerated", "triggeredByCLI"}, "value")
        @@ Field("metadata", "object", "Metadata") @@ Field("paginationInfo", "object", "PaginationMarks"),
     Metadata |->
        Field("scanMetadata", "object", "ScanMetadata") @@ Field("clusterMetadata", "object", "ClusterMetadata")
        @@ Field("targetMetadata", "object", "ContextMetadata") @@ Section("encryptionMetadata", "EncryptionMetadata"),
     ContextMetadata |->
        Section("clusterContextMetadata", "ClusterMetadata") @@ Section("gitRepoContextMetadata", "RepoContextMetadata"),
     RepoContextMetadata |-> Keys({"provider", "repo", "owner", "branch", "remoteURL"}, "value")]

DecodedContext ==
    [ClusterMetadata |-> Keys({"numberOfWorkerNodes", "cloudProvider", "contextName"}, "value"),
     EncryptionMetadata |-> Keys({"version", "dekAlgorithm", "kekAlgorithm", "encryptedDEK"}, "value")]

DecodedScan ==
    [ScanMetadata |->
        Keys({"format", "formats", "excludedNamespaces", "includeNamespaces", "failThreshold", "submit",
              "hostScanner", "logger", "targetType", "targetNames", "useExceptions", "controlsInputs",
              "verboseMode", "scanningTarget"}, "value")
        @@ Section("scanContract", "ScanContractMetadata"),
     ScanContractMetadata |->
        Keys({"apiVersion", "name", "contract", "minimumKubescapeVersion", "digestSchema",
              "contractDigest", "effectiveRunDigest", "source", "allowedSections", "deniedSections"}, "value")
        @@ Section("effective", "ScanContractEffectiveSettings") @@ Section("runnerInputs", "scanContractRunnerInputs")
        @@ Section("gateResolution", "ScanContractGateResolution")
        @@ Section("ordinaryCliOverrides", "ScanContractCLIOverrides"),
     scanContractRunnerInputs |-> [i \in 1 .. 2 |-> [kind |-> "section", type |-> "ScanContractRunnerInput"]],
     ScanContractRunnerInput |-> Keys({"role", "source", "digest"}, "value")]

DecodedSettings ==
    [ScanContractEffectiveSettings |->
        Section("policy", "ScanContractPolicy") @@ Section("scope", "ScanContractScope")
        @@ Section("evaluation", "ScanContractEvaluation") @@ Section("failure", "ScanContractFailure")
        @@ Section("output", "ScanContractOutput"),
     ScanContractPolicy |-> Keys({"frameworks", "controls", "controlsVersion"}, "value"),
     ScanContractScope |-> Keys({"includeNamespaces", "excludeNamespaces"}, "value"),
     ScanContractEvaluation |-> Keys({"scanTimeout", "controlTimeout"}, "value"),
     ScanContractFailure |->
        Keys({"severityAtLeast", "complianceBelow", "coverageBelow", "degradedPolicyInput"}, "pointer"),
     ScanContractOutput |-> Keys({"formats"}, "value") @@ Keys({"omitRawResources"}, "pointer")]

DecodedGates ==
    [ScanContractGateResolution |->
        [k \in {"severityAtLeast", "complianceBelow", "coverageBelow", "degradedPolicyInput"} |->
            [kind |-> "object", type |-> "GateResolution"]],
     GateResolution |-> Keys({"contract", "runnerFloor", "effective"}, "pointer")]

DecodedOverrides ==
    [ScanContractCLIOverrides |->
        Section("policy", "ScanContractPolicyOverrides") @@ Section("scope", "ScanContractScopeOverrides")
        @@ Section("evaluation", "ScanContractEvaluationOverrides") @@ Section("output", "ScanContractOutputOverrides"),
     ScanContractPolicyOverrides |-> Keys({"frameworks", "controls", "controlsVersion"}, "pointer"),
     ScanContractScopeOverrides |-> Keys({"includeNamespaces", "excludeNamespaces"}, "pointer"),
     ScanContractEvaluationOverrides |-> Keys({"scanTimeout", "controlTimeout"}, "pointer"),
     ScanContractOutputOverrides |-> Keys({"formats", "omitRawResources"}, "pointer")]

Decoded ==
    DecodedV1 @@ DecodedReport @@ DecodedMarks @@ DecodedContext @@ DecodedScan @@ DecodedSettings
    @@ DecodedGates @@ DecodedOverrides

-----------------------------------------------------------------------------
Zero == << >>
Put(v, k, x) == (k :> x) @@ v
Without(v, k) == [x \in DOMAIN v \ {k} |-> v[x]]

(* ToBytes: the document of a value.                                         *)
RECURSIVE ToBytes(_, _)
ToBytes(type, v) ==
    LET tag == Encoded[type]
        always == {k \in DOMAIN tag : tag[k].kind \in {"always", "object"}}
    IN  [k \in DOMAIN v \union always |->
            IF tag[k].kind = "object" THEN ToBytes(tag[k].type, IF k \in DOMAIN v THEN v[k] ELSE Zero)
            ELSE IF tag[k].kind = "section" THEN ToBytes(tag[k].type, v[k])
            ELSE IF k \in DOMAIN v THEN v[k] ELSE 0]

Frame(key, type, value, doc) ==
    [key |-> key, type |-> type, value |-> value, doc |-> doc, left |-> DOMAIN doc]

Init ==
    /\ report \in Reports
    /\ frames = <<Frame("", report.type, Zero, ToBytes(report.type, report.value))>>
    /\ status = "reading"
    /\ decoded = Zero
    /\ relays = MaxRelays

Top == frames[Len(frames)]

(* The keys the document may have next; the elements of a list have an order. *)
NextKeys ==
    IF Top.type = "scanContractRunnerInputs"
    THEN {i \in Top.left : \A j \in Top.left : i <= j} ELSE Top.left

(* Mutated: a fresh value that is zero is not kept.                          *)
Stored_Bug(v, kind, k, x) ==
    IF kind \in {"value", "pointer"} /\ x = 0 THEN Without(v, k) ELSE Put(v, k, x)

(* Field k of v set to x: only a pointer tells zero from nothing.            *)
Stored(v, kind, k, x) ==
    IF kind = "value" /\ x = 0 THEN Without(v, k)
    ELSE IF kind = "object" /\ DOMAIN x = {} THEN Without(v, k)
    ELSE Put(v, k, x)

(* A key of no case is skipped.                                              *)
KindOf(frame, k) ==
    IF k \in DOMAIN Decoded[frame.type] THEN Decoded[frame.type][k].kind ELSE "skipped"

(* decodeContractString, -Float64, -Bool and -StringSlice, and the decoder's  *)
(* own methods.                                                              *)
ReadValue(k) ==
    /\ KindOf(Top, k) \in {"value", "pointer", "skipped"}
    /\ frames' = [frames EXCEPT ![Len(frames)] =
            [@ EXCEPT !.left = @ \ {k},
                      !.value = IF KindOf(Top, k) = "skipped" THEN @
                                ELSE Stored(@, KindOf(Top, k), k, Top.doc[k])]]
    /\ UNCHANGED <<report, status, decoded, relays>>

(* dec.Object and dec.Array call the method of the structure they are given.  *)
OpenStructure(k) ==
    /\ KindOf(Top, k) \in {"object", "section"}
    /\ frames' = Append([frames EXCEPT ![Len(frames)].left = @ \ {k}],
            Frame(k, Decoded[Top.type][k].type,
                  IF KindOf(Top, k) = "object" /\ k \in DOMAIN Top.value THEN Top.value[k] ELSE Zero,
                  Top.doc[k]))
    /\ UNCHANGED <<report, status, decoded, relays>>

Closed(parent, child) ==
    [parent EXCEPT !.value = Stored(@, KindOf(parent, child.key), child.key, child.value)]

Outer(fs) == SubSeq(fs, 1, Len(fs) - 2)
CloseStructure ==
    /\ Len(frames) > 1
    /\ Top.left = {}
    /\ frames' = Append(Outer(frames), Closed(frames[Len(frames) - 1], Top))
    /\ UNCHANGED <<report, status, decoded, relays>>

End ==
    /\ Len(frames) = 1
    /\ Top.left = {}
    /\ status' = "read"
    /\ decoded' = Top.value
    /\ frames' = << >>
    /\ UNCHANGED <<report, relays>>

(* Mutated: a section is set before it is read.                              *)
RECURSIVE Held_Bug(_)
Held_Bug(fs) ==
    IF Len(fs) = 1 THEN fs[1].value
    ELSE Held_Bug(Append(Outer(fs), Closed(fs[Len(fs) - 1], fs[Len(fs)])))

(* What the report holds while structures are open: those in place as far as  *)
(* they are read, and no open section.                                       *)
RECURSIVE Held(_)
Held(fs) ==
    IF Len(fs) = 1 THEN fs[1].value
    ELSE LET parent == fs[Len(fs) - 1]
             child == fs[Len(fs)]
         IN  Held(Append(Outer(fs),
                IF KindOf(parent, child.key) = "object" THEN Closed(parent, child) ELSE parent))

(* The document is cut, or broken, between two of its values: every open       *)
(* method returns the error.  A number cut in two and a value of another type *)
(* are left to the reader of bytes (gojay).                                   *)
Fail ==
    /\ status' = "failed"
    /\ decoded' = Held(frames)
    /\ frames' = << >>
    /\ UNCHANGED <<report, relays>>

(* The receiver of a report writes it for the next one.                      *)
Relay ==
    /\ status = "read"
    /\ relays > 0
    /\ relays' = relays - 1
    /\ frames' = <<Frame("", report.type, Zero, ToBytes(report.type, decoded))>>
    /\ status' = "reading"
    /\ decoded' = Zero
    /\ UNCHANGED report

Next ==
    \/ /\ status = "reading"
       /\ \/ \E k \in NextKeys : ReadValue(k) \/ OpenStructure(k)
          \/ CloseStructure
          \/ End
          \/ Fail
    \/ Relay

Spec == Init /\ [][Next]_vars

-----------------------------------------------------------------------------
(* What the common part leaves out.                                          *)
NotCommon(type) ==
    IF type = "PostureReportV1"
    THEN {"clusterAPIServerInfo", "clusterCloudProvider", "frameworks", "rbacObjects", "resource"}
    ELSE IF type = "PostureReport"
    THEN {"clusterAPIServerInfo", "clusterCloudProvider", "summaryDetails", "resources", "attributes", "results"}
    ELSE IF type = "ScanMetadata" THEN {"kubescapeVersion", "formatVersion", "complianceThreshold"}
    ELSE IF type = "ClusterMetadata" THEN {"namespaceToNumberOfResources", "cloudMetadata"}
    ELSE IF type = "RepoContextMetadata" THEN {"defaultBranch", "lastCommit", "localRootPath"}
    ELSE IF type = "ContextMetadata"
    THEN {"fileContextMetadata", "helmContextMetadata", "directoryContextMetadata"}
    ELSE {}

RECURSIVE Common(_, _)
Common(type, v) ==
    LET part(k) ==
            IF Encoded[type][k].kind \in {"object", "section"} THEN Common(Encoded[type][k].type, v[k]) ELSE v[k]
        keys == {k \in DOMAIN v \ NotCommon(type) :
                    Encoded[type][k].kind # "object" \/ DOMAIN part(k) # {}}
    IN  [k \in keys |-> part(k)]

(* A report that is read has exactly the common part of the report that was   *)
(* written, whatever the order of its keys and however often it was relayed:  *)
(* an explicit zero, false or empty list of the scan contract stays apart     *)
(* from an omitted one.  (ToBytes and every UnmarshalJSONObject.)            *)
DecodedIsCommon == status = "read" => decoded = Common(report.type, report.value)

RECURSIVE PartOf(_, _, _)
PartOf(type, got, whole) ==
    \A k \in DOMAIN got :
        /\ k \in DOMAIN whole
        /\ IF Encoded[type][k].kind = "object" THEN PartOf(Encoded[type][k].type, got[k], whole[k])
           ELSE got[k] = whole[k]

(* Reading that fails leaves values of the report in its place, and a section *)
(* behind a pointer whole or not at all: no scan contract without the gates   *)
(* or the overrides that the report gave it.  (err == nil before every        *)
(* assignment of a section.)                                                 *)
SectionsAreWhole == status = "failed" => PartOf(report.type, decoded, Common(report.type, report.value))
=============================================================================
