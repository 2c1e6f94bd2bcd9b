SPECIFICATION Spec
CONSTANTS
    NoBackend = NoBackend
    NoInstance = NoInstance
    NoEncoding = NoEncoding
    Backends <- MCBackends
    Instances <- MCInstances
    Types = {"t"}
    Templates <- MCTemplates
    Properties = {}
    Encodings = {}
    Mechanisms = {}
    Desc <- MCDesc
    Lists <- MCLists
    FirstList <- MCFirstList
    Changing = {"b_module"}
    Asked <- MCAsked
    MaxNames = 4
INVARIANT TypeOK
INVARIANT OrderMatchesMap
INVARIANT IndexFollowsOrder
INVARIANT MatchAgrees
INVARIANT MatchIsSound
PROPERTY ImplementsListing
