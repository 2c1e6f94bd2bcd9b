SPECIFICATION Spec
CONSTANTS
    Hashes <- MCHashes
    Additional = {}
    TemplateIds <- MCTemplateIds
    Catalog <- MCCatalog
    Editions <- MCEditions
    Allowed <- MCTemplateIds
    Asked <- MCAsked
    MaxVersions = 3
    MaxSignatures = 1
INVARIANT TypeOK
INVARIANT SingleChokePoint
INVARIANT NeverCorrupt
INVARIANT ReadBackIsAccepted
INVARIANT SignedWithinTheOffer
INVARIANT RetainedMaterialFits
INVARIANT SignaturesStayVerifiable
INVARIANT ComparableWithAll
