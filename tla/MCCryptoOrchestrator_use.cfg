SPECIFICATION CryptoSpec
CONSTANTS
    NoBackend = NoBackend
    NoInstance = NoInstance
    NoEncoding = NoEncoding
    NoPolicy = NoPolicy
    NoTemplate = NoTemplate
    NoType = NoType
    NoKeyId = NoKeyId
    NoVersion = NoVersion
    Backends <- MCBackends
    Instances <- MCInstances
    Types <- MCTypes
    Templates <- MCTemplates
    Properties = {}
    Encodings <- MCEncodings
    Mechanisms = {}
    Desc <- MCDesc
    Scopes <- CryptoScopes
    Compatible <- MCCompatible
    KeyNames = {"k"}
    PolicyNames = {"pol"}
    TemplateScopes <- CryptoTemplateScopes
    PolicyDocs <- CryptoDocs
    Rules <- CryptoRules
    InitialRegistry <- AllBackends
    Requests = {r1}
    KeyIds = {k1, k2}
    Specs <- UseSpecs
    PolicyEdits = {"messages"}
    Reconfigurable = {}
    InitialPolicies <- OpenPolicies
    MaxVersions = 2
    NoArtifact = NoArtifact
    Declares <- MCDeclares
    Capabilities <- MCCapabilities
    Calls = {c1}
    CallSpecs <- UseCalls
    StateEdits <- UseStates
    MaxArtifacts = 1
CONSTRAINT OneKeyAtATime
SYMMETRY KeyIdSymmetry
INVARIANT CryptoTypeOK
INVARIANT TakenBackByItsMaker
INVARIANT ContractKept
INVARIANT PerformedWithinItsRights
