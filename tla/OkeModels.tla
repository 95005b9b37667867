------------------------------- MODULE OkeModels -------------------------------
(***************************************************************************)
(* The generated models of the OKE API, provider/oke/models: what a client *)
(* can read from a JSON document, what Validate() says of it, and what     *)
(* MarshalBinary() makes of it again.  A model is given by its fields; a   *)
(* field by its Go type and by what Validate() checks of it.               *)
(***************************************************************************)
EXTENDS Integers, Sequences, FiniteSetsExt, Functions, TLC

-----------------------------------------------------------------------------
(* JSON.  Null is also the zero value of a Go field: "", 0, or nil.         *)

Null == [json |-> "null"]
Text(s) == [json |-> "text", text |-> s]
Number(n) == [json |-> "number", number |-> n]
Object(o) == [json |-> "object", object |-> o]
Array(a) == [json |-> "array", items |-> a]

Empty == Object(<<>>)

EmptyString == ""

\* Bytes that are not a JSON document.
Garbage == [json |-> "garbage"]

-----------------------------------------------------------------------------
(* The kinds of fields.                                                     *)

String == [kind |-> "string"]                \* string, omitted when empty
StringKept == [kind |-> "stringKept"]        \* string, never omitted
Integer == [kind |-> "int32"]                \* int32, omitted when 0
Other == [kind |-> "other"]                  \* a list or a map of strings
Enum(values) == [kind |-> "enum", values |-> values]
Between(lo, hi) == [kind |-> "between", lo |-> lo, hi |-> hi]   \* *int32
RequiredText == [kind |-> "requiredText"]    \* *string, "Required: true"
RequiredNumber == [kind |-> "requiredNumber"]
Nested(t) == [kind |-> "nested", of |-> t]   \* a pointer to a model
Each(t) == [kind |-> "each", of |-> t]       \* a slice of pointers to models

Strings(names) == [f \in names |-> String]

StringsAnd(names, others) ==
  [f \in names \cup DOMAIN others |-> IF f \in names THEN String ELSE others[f]]

-----------------------------------------------------------------------------
(* The models.                                                              *)

ADstruct == Strings({"compartmentId", "name"})
AWSauthConfig == Strings({"accessKeyId", "secretAccessKey"})
AdDetails == Strings({"id", "subnet"})
AuthConfig ==
  StringsAnd(
    {"name"},
    [aws |-> Nested("AWSauthConfig"), bmc |-> Nested("BMCauthConfig")])
AuthConfigSecure == Strings({"cloudType", "id", "name", "resourceOwnerId", "tenantId"})
AuthConfigWithID ==
  StringsAnd(
    {"id", "name", "tenantId"},
    [aws |-> Nested("AWSauthConfig"), bmc |-> Nested("BMCauthConfig")])
AuthConfigsListResponse == [authConfigs |-> Each("AuthConfigSecure")]
BMCClusterConfig ==
  StringsAnd(
    {"compartment", "region", "sshPrivateKey", "sshPublicKey", "vcnId"},
    [pools |-> Each("Pool")])
BMCauthConfig == Strings({"fingerprint", "privateKey", "region", "tenancy", "user"})
CloudDetails == [bmc |-> Nested("CloudDetailsBmc")]
CloudDetailsBmc ==
  StringsAnd(
    {"lbShape", "nodeId"},
    [lbType |-> Enum({"node-port", "external"})])

\* The states of the masters and of the master pods.
ClusterMastersState ==
  Enum({"PendingState", "Running", "Succeeded", "Failed", "Unknown", "Terminating",
        "Terminated"})
ClusterTkmState ==
  Enum({"PendingState", "Running", "Succeeded", "Failed", "Unknown", "Terminating",
        "Terminated"})

\* The states of the nodes, of the cluster and of the worker pods.
ClusterNodesState ==
  Enum({"INITIALIZING", "PROVISIONING", "RUNNING", "TERMINATING", "TERMINATED", "FAILING"})
ClusterState ==
  Enum({"INITIALIZING", "PROVISIONING", "RUNNING", "TERMINATING", "TERMINATED", "FAILING"})
ClusterTkwState ==
  Enum({"INITIALIZING", "PROVISIONING", "RUNNING", "TERMINATING", "TERMINATED", "FAILING"})

\* The endpoints are not validated.
Cluster ==
  StringsAnd(
    {"authConfigId", "cloudType", "desiredState", "id", "k8Version", "name",
     "resourceOwnerId", "tenantId"},
    [endpoints |-> Other, bmcClusterConfig |-> Nested("BMCClusterConfig"),
     cloudDetails |-> Nested("CloudDetails"), metadata |-> Nested("ClusterMetadata"),
     stateDetails |-> Nested("StateDetails"), mastersState |-> ClusterMastersState,
     nodesState |-> ClusterNodesState, state |-> ClusterState, tkmState |-> ClusterTkmState,
     tkwState |-> ClusterTkwState])

\* The tag of linuxVersion is "linuxVersion, omitempty": an unknown option.
ClusterCreateRequest ==
  StringsAnd(
    {"cloudAuthId", "cloudType", "k8Version", "name", "tenantId", "werckerId"},
    [bmcClusterConfig |-> Nested("BMCClusterConfig"),
     lbType |-> Enum({"node-port", "external"}), linuxVersion |-> StringKept])
ClusterDetails == [k8 |-> Nested("Cluster"), workers |-> Each("WorkerDetails")]
ClusterEndpoint == Strings({"name", "value"})
ClusterMetadata ==
  Strings({"createdAt", "createdBy", "createdByWorkItem", "deletedAt", "deletedBy",
           "deletedByWorkItem"})
ClusterPools == StringsAnd({"clusterId"}, [pools |-> Each("Pool")])
ClusterPoolsResponse == StringsAnd({"resourceOwnerId"}, [pools |-> Each("Pool")])
ClusterWorkItemResponse == Strings({"clusterId", "workItemId"})
ClustersListResponse == [clusters |-> Each("Cluster")]
Compartmentstruct ==
  StringsAnd(
    {"ETag", "compartmentId", "description", "id", "lifecycleState", "name", "timeCreated"},
    [inactiveStatus |-> Integer])
Error == [code |-> RequiredNumber, message |-> RequiredText]
GetADsRequest == Strings({"cloudAuthId", "compartmentOcid"})
GetADsResponse == [ads |-> Each("ADstruct")]
GetCompartmentsRequest == Strings({"cloudAuthId"})
GetCompartmentsResponse == [compartments |-> Each("Compartmentstruct")]
GetSubnetsRequest == Strings({"cloudAuthId", "compartmentOcid", "vcnOcid"})
GetSubnetsResponse == [compartments |-> Each("Subnetstruct")]
GetVCNsRequest == Strings({"cloudAuthId", "compartmentOcid"})
GetVCNsResponse == [ads |-> Each("VCNstruct")]
Pool ==
  StringsAnd(
    {"imageId", "imageName", "k8Version", "name", "shape"},
    [ads |-> Each("AdDetails"), workersPerAD |-> Integer])
StateDetails == [nodesRollup |-> Nested("StateDetailsNodesRollup"),
                 tkwRollup |-> Nested("StateDetailsTkwRollup")]
StateDetailsNodesRollup == [PROVISIONING |-> Integer]
StateDetailsTkwRollup == [PROVISIONING |-> Integer]
Subnetstruct ==
  StringsAnd(
    {"ETag", "availabilityDomain", "cidrBlock", "compartmentId", "dhcpOptionsId",
     "displayName", "dnsLabel", "id", "lifecycleState", "routeTableId", "subnetDomainName",
     "timeCreated", "vcnId", "virtualRouterIp", "virtualRouterMac"},
    [securityListIds |-> Other])
VCNstruct ==
  Strings({"ETag", "cidrBlock", "compartmentId", "defaultDhcpOptionsId",
           "defaultRouteTableId", "defaultSecurityListId", "displayName", "dnsLabel", "id",
           "lifecycleState", "timeCreated", "vcnDomainName"})

\* The list of activities is not validated.
Actarray == Other

WorkItem ==
  StringsAnd(
    {"closedAt", "clusterId", "createdAt", "id", "lockedUntil", "resourceOwnerId",
     "responseError", "startedAt", "tenantId", "tmId"},
    [activity |-> Actarray, status |-> Between(0, 3), type |-> Between(0, 2),
     statusString |-> Enum({"New", "Running", "Complete", "Failed"})])
WorkItemsListResponse == [workItems |-> Each("WorkItem")]
WorkerDetails ==
  StringsAnd(
    {"availabilityDomain", "compartmentId", "id", "imageId", "k8Version", "name", "pool",
     "publicIp", "region", "shape", "subnetId", "workerStatus"},
    [bmcLifecycleState |->
       Enum({"PROVISIONING", "RUNNING", "TERMINATING", "TERMINATED", "DELETED"}),
     error |-> Nested("WorkerErrors"), slot |-> Integer])
WorkerErrors == Strings({"message"})

-----------------------------------------------------------------------------
Model ==
  [ADstruct |-> ADstruct, AWSauthConfig |-> AWSauthConfig, AdDetails |-> AdDetails,
   AuthConfig |-> AuthConfig, AuthConfigSecure |-> AuthConfigSecure,
   AuthConfigWithID |-> AuthConfigWithID,
   AuthConfigsListResponse |-> AuthConfigsListResponse,
   BMCClusterConfig |-> BMCClusterConfig, BMCauthConfig |-> BMCauthConfig,
   CloudDetails |-> CloudDetails, CloudDetailsBmc |-> CloudDetailsBmc, Cluster |-> Cluster,
   ClusterCreateRequest |-> ClusterCreateRequest, ClusterDetails |-> ClusterDetails,
   ClusterEndpoint |-> ClusterEndpoint, ClusterMetadata |-> ClusterMetadata,
   ClusterPools |-> ClusterPools, ClusterPoolsResponse |-> ClusterPoolsResponse,
   ClusterWorkItemResponse |-> ClusterWorkItemResponse,
   ClustersListResponse |-> ClustersListResponse, Compartmentstruct |-> Compartmentstruct,
   Error |-> Error, GetADsRequest |-> GetADsRequest, GetADsResponse |-> GetADsResponse,
   GetCompartmentsRequest |-> GetCompartmentsRequest,
   GetCompartmentsResponse |-> GetCompartmentsResponse,
   GetSubnetsRequest |-> GetSubnetsRequest, GetSubnetsResponse |-> GetSubnetsResponse,
   GetVCNsRequest |-> GetVCNsRequest, GetVCNsResponse |-> GetVCNsResponse, Pool |-> Pool,
   StateDetails |-> StateDetails, StateDetailsNodesRollup |-> StateDetailsNodesRollup,
   StateDetailsTkwRollup |-> StateDetailsTkwRollup, Subnetstruct |-> Subnetstruct,
   VCNstruct |-> VCNstruct, WorkItem |-> WorkItem,
   WorkItemsListResponse |-> WorkItemsListResponse, WorkerDetails |-> WorkerDetails,
   WorkerErrors |-> WorkerErrors]

\* The models that models refer to.
Referred(types) ==
  {k.of : k \in {k \in UNION {Range(Model[t]) : t \in types} : k.kind \in {"nested", "each"}}}

\* Models are nested at most five deep; the operators below have five levels.
ASSUME DepthAssumption ==
  Referred(Referred(Referred(Referred(Referred(DOMAIN Model))))) = {}

-----------------------------------------------------------------------------
(* MarshalBinary, UnmarshalBinary and Validate: generated once for every    *)
(* model, with the same text.                                               *)
(*                                                                          *)
(* Models are nested at most five deep: a ClustersListResponse has Clusters,*)
(* a Cluster a BMCClusterConfig, that Pools, and a Pool AdDetails, whose    *)
(* fields are plain.  The recursion of the code is written out from the     *)
(* plain fields up: each operator takes the one for the level below.        *)

\* Whether a JSON value can be read into a plain field of kind k; null always can.
FitsPlain(k, v) ==
  \/ v = Null
  \/ k.kind \in {"string", "stringKept", "enum", "requiredText"} /\ v.json = "text"
  \/ k.kind \in {"int32", "between", "requiredNumber"} /\ v.json = "number"
  \/ k.kind = "other" /\ v.json = "other"

\* A JSON list, which is what a slice is read from.
IsList(v) == v.json = "array" /\ v.items \in Seq(Range(v.items))

FitsModel(Below(_, _), t, v) ==
  /\ v.json = "object"
  /\ \A f \in DOMAIN Model[t] \cap DOMAIN v.object : Below(Model[t][f], v.object[f])

FitsField(Below(_, _), k, v) ==
  \/ FitsPlain(k, v)
  \/ k.kind = "nested" /\ FitsModel(Below, k.of, v)
  \/ /\ k.kind = "each" /\ IsList(v)
     /\ \A i \in DOMAIN v.items : v.items[i] = Null \/ FitsModel(Below, k.of, v.items[i])

Fits1(k, v) == FitsField(FitsPlain, k, v)
Fits2(k, v) == FitsField(Fits1, k, v)
Fits3(k, v) == FitsField(Fits2, k, v)
Fits4(k, v) == FitsField(Fits3, k, v)

\* Whether a JSON value can be read into a field of kind k.
Fits(k, v) == FitsField(Fits4, k, v)

\* The Go value a fitting JSON value is read into.  Without a pointer, "" and 0 are
\* the zero value; a field the document lacks has the zero value; a field the model
\* lacks is skipped.
DecodePlain(k, v) ==
  IF \/ k.kind \in {"string", "stringKept", "enum"} /\ v = Text(EmptyString)
     \/ k.kind = "int32" /\ v = Number(0)
  THEN Null ELSE v

DecodeModel(Below(_, _), t, v) ==
  IF v = Null THEN Null
  ELSE Object([f \in DOMAIN Model[t] |->
                 IF f \in DOMAIN v.object THEN Below(Model[t][f], v.object[f]) ELSE Null])

DecodeField(Below(_, _), k, v) ==
  CASE v.json = "object" -> DecodeModel(Below, k.of, v)
    [] v.json = "array" ->
         Array([i \in DOMAIN v.items |-> DecodeModel(Below, k.of, v.items[i])])
    [] OTHER -> DecodePlain(k, v)

Decode1(k, v) == DecodeField(DecodePlain, k, v)
Decode2(k, v) == DecodeField(Decode1, k, v)
Decode3(k, v) == DecodeField(Decode2, k, v)
Decode4(k, v) == DecodeField(Decode3, k, v)
Decode(k, v) == DecodeField(Decode4, k, v)

\* Variant for mutation: a zero behind a pointer is left out as well.
OmitsPointedZero(k, v) == v \in {Null, Number(0)}

\* A zero value is left out, unless its tag has no omitempty: the slices, the maps, the
\* required fields and linuxVersion.
Omits(k, v) ==
  v = Null /\ k.kind \in {"string", "int32", "enum", "between", "nested"}

\* The JSON value a Go value is written as.
EncodePlain(k, v) == IF k = StringKept /\ v = Null THEN Text(EmptyString) ELSE v

EncodeModel(Below(_, _), t, v) ==
  IF v = Null THEN Null
  ELSE Object([f \in {g \in DOMAIN v.object : ~Omits(Model[t][g], v.object[g])} |->
                 Below(Model[t][f], v.object[f])])

EncodeField(Below(_, _), k, v) ==
  CASE v.json = "object" -> EncodeModel(Below, k.of, v)
    [] v.json = "array" ->
         Array([i \in DOMAIN v.items |-> EncodeModel(Below, k.of, v.items[i])])
    [] OTHER -> EncodePlain(k, v)

Encode1(k, v) == EncodeField(EncodePlain, k, v)
Encode2(k, v) == EncodeField(Encode1, k, v)
Encode3(k, v) == EncodeField(Encode2, k, v)
Encode4(k, v) == EncodeField(Encode3, k, v)
Encode(k, v) == EncodeField(Encode4, k, v)

\* A model no document was read into.
New(t) == Decode(Nested(t), Empty)

\* Variant for mutation: reads into the model itself.
UnmarshalInPlace(t, m, b) ==
  IF ~Fits(Nested(t), b) THEN [ok |-> FALSE, m |-> m]
  ELSE [ok |-> TRUE, m |-> IF b = Null THEN m ELSE
          Object([f \in DOMAIN b.object \cap DOMAIN m.object |->
                    Decode(Nested(t), b).object[f]] @@ m.object)]

\* Variant for mutation: keeps the document as it is.
UnmarshalUnread(t, m, b) ==
  IF ~Fits(Nested(t), b) THEN [ok |-> FALSE, m |-> m]
  ELSE [ok |-> TRUE, m |-> IF b = Null THEN Empty ELSE b]

\* Reads into a fresh value and replaces the whole model with it, or nothing.  The
\* document null leaves the fresh value as it was made.
UnmarshalBinary(t, m, b) ==
  IF ~Fits(Nested(t), b) THEN [ok |-> FALSE, m |-> m]
  ELSE [ok |-> TRUE, m |-> Decode(Nested(t), IF b = Null THEN Empty ELSE b)]

MarshalBinary(t, m) == Encode(Nested(t), m)

\* Variant for mutation: stops at a nil element.
CheckedUpToNil(items) ==
  {i \in DOMAIN items : \A j \in 1 .. i : items[j] # Null}

\* The elements of a slice Validate() looks at.
Checked(items) == {i \in DOMAIN items : items[i] # Null}

\* The fields Validate() reports.  The zero value is not checked (swag.IsZero), except
\* for a required field; a nil element of a slice is skipped; a slice is checked up to
\* its first element with an error; the errors of the fields of a model are collected.
ValidatePlain(k, f, v) ==
  CASE v = Null -> IF k.kind \in {"requiredText", "requiredNumber"} THEN {f} ELSE {}
    [] v # Null /\ k.kind = "enum" -> IF v.text \in k.values THEN {} ELSE {f}
    [] v # Null /\ k.kind = "between" -> IF v.number \in k.lo .. k.hi THEN {} ELSE {f}
    [] OTHER -> {}

ValidateModel(Below(_, _, _), t, m) ==
  UNION {Below(Model[t][f], f, m.object[f]) : f \in DOMAIN m.object}

ValidateField(Below(_, _, _), k, f, v) ==
  LET failing == {i \in Checked(v.items) : ValidateModel(Below, k.of, v.items[i]) # {}}
  IN  IF v = Null \/ k.kind \notin {"nested", "each"} THEN ValidatePlain(k, f, v)
      ELSE IF k.kind = "nested" THEN ValidateModel(Below, k.of, v)
      ELSE IF failing = {} THEN {}
      ELSE ValidateModel(Below, k.of, v.items[Min(failing)])

Validate1(k, f, v) == ValidateField(ValidatePlain, k, f, v)
Validate2(k, f, v) == ValidateField(Validate1, k, f, v)
Validate3(k, f, v) == ValidateField(Validate2, k, f, v)
Validate4(k, f, v) == ValidateField(Validate3, k, f, v)
Validate(t, m) == ValidateModel(Validate4, t, m)

=============================================================================
