SPECIFICATION FairReportSpec
CONSTANTS
    NoBackend = NoBackend
    NoInstance = NoInstance
    NoEncoding = NoEncoding
    NoPolicy = NoPolicy
    NoTemplate = NoTemplate
    NoType = NoType
    NoKeyId = NoKeyId
    NoVersion = NoVersion
    Backends <- MCBackends
    Instances <- MCInstances
    Types <- MCTypes
    Templates <- MCTemplates
    Properties = {}
    Encodings <- MCEncodings
    Mechanisms = {}
    Desc <- MCDesc
    Scopes <- MCScopes
    Compatible <- MCCompatible
    KeyNames = {"k"}
    PolicyNames = {"pol"}
    TemplateScopes <- MCTemplateScopes
    PolicyDocs <- MCPolicyDocs
    Rules <- MCRules
    InitialRegistry <- AllBackends
    Requests = {r1}
    Validators = {v1}
    KeyIds = {k1}
    Specs <- ReturnSpecs
    Probes <- ReturnProbes
    PolicyEdits = {}
    Reconfigurable = {"b_module"}
    InitialPolicies <- OpenPolicies
    MaxVersions = 2
PROPERTY EveryRequestReturns
PROPERTY EveryReportReturns
