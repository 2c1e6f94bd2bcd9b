SPECIFICATION Spec
CONSTANTS
    NoBackend = NoBackend
    NoInstance = NoInstance
    NoEncoding = NoEncoding
    NoPolicy = NoPolicy
    NoTemplate = NoTemplate
    NoType = NoType
    NoKeyId = NoKeyId
    NoVersion = NoVersion
    Backends <- MCBackends
    Instances <- MCInstances
    Types <- MCTypes
    Templates <- MCTemplates
    Properties = {}
    Encodings <- MCEncodings
    Mechanisms = {}
    Desc <- MCDesc
    Scopes <- MCScopes
    Compatible <- MCCompatible
    KeyNames = {"k"}
    PolicyNames = {"pol", "strictpol"}
    TemplateScopes <- MCTemplateScopes
    PolicyDocs <- MCPolicyDocs
    Rules <- MCRules
    InitialRegistry <- SinkBackends
    Requests = {r1}
    KeyIds = {k1}
    Specs <- TypeSpecs
    PolicyEdits = {"strict"}
    Reconfigurable = {"b_sink", "b_standin"}
    InitialPolicies <- TwoPolicies
    MaxVersions = 3
INVARIANT TypeOK
INVARIANT LineageSound
INVARIANT FipsLevelsRespected
INVARIANT PlacedUnderAPolicyInForce
INVARIANT StrictPolicyKeepsLineage
PROPERTY NewVersionHonoursItsRequest
PROPERTY RequestsMoveOn
