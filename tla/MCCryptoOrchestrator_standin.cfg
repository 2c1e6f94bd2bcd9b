SPECIFICATION CryptoSpec
CONSTANTS
    NoBackend = NoBackend
    NoInstance = NoInstance
    NoEncoding = NoEncoding
    NoPolicy = NoPolicy
    NoTemplate = NoTemplate
    NoType = NoType
    NoKeyId = NoKeyId
    NoVersion = NoVersion
    Backends <- MCBackends
    Instances <- MCInstances
    Types <- MCTypes
    Templates <- MCTemplates
    Properties = {}
    Encodings <- MCEncodings
    Mechanisms = {}
    Desc <- MCDesc
    Scopes <- CryptoScopes
    Compatible <- MCCompatible
    KeyNames = {"k"}
    PolicyNames = {"pol"}
    TemplateScopes <- CryptoTemplateScopes
    PolicyDocs <- CryptoDocs
    Rules <- CryptoRules
    InitialRegistry <- AllBackends
    Requests = {r1}
    KeyIds = {k1}
    Specs <- ModuleSpecs
    PolicyEdits = {}
    Reconfigurable = {"b_module", "b_standin"}
    InitialPolicies <- OpenPolicies
    MaxVersions = 1
    NoArtifact = NoArtifact
    Declares <- MCDeclares
    Capabilities <- MCCapabilities
    Calls = {c1}
    CallSpecs <- ModuleCalls
    StateEdits = {}
    MaxArtifacts = 1
INVARIANT ApprovedMaterialStaysInModules
