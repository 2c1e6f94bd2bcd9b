SPECIFICATION Spec
CONSTANTS
    NoBackend = NoBackend
    NoInstance = NoInstance
    NoEncoding = NoEncoding
    NoPolicy = NoPolicy
    NoTemplate = NoTemplate
    NoType = NoType
    NoKeyId = NoKeyId
    NoVersion = NoVersion
    Backends <- MCBackends
    Instances <- MCInstances
    Types <- MCTypes
    Templates <- MCTemplates
    Properties = {}
    Encodings <- MCEncodings
    Mechanisms = {}
    Desc <- MCDesc
    Scopes <- MCScopes
    Compatible <- MCCompatible
    KeyNames = {"k"}
    PolicyNames = {"pol"}
    TemplateScopes <- MCTemplateScopes
    PolicyDocs <- MCPolicyDocs
    Rules <- MCRules
    InitialRegistry <- AllBackends
    Requests = {r1, r2}
    KeyIds = {k1}
    Specs <- RaceSpecs
    PolicyEdits = {}
    Reconfigurable = {}
    InitialPolicies <- OpenPolicies
    MaxVersions = 3
INVARIANT LineageSound
INVARIANT SnapshotIsPast
INVARIANT StagesOK
PROPERTY KeysSpec
PROPERTY NewVersionHonoursItsRequest
