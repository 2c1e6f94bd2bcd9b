SPECIFICATION Spec
CONSTANTS
    Hashes <- MCHashes
    Additional = {}
    TemplateIds <- MCTemplateIds
    Catalog <- MCCatalog
    Editions <- MCEditions
    Allowed <- MCTemplateIds
    Asked <- MCAsked
    MaxVersions = 3
    MaxSignatures = 1
INVARIANT CallersKeepWorking
