SPECIFICATION Spec
CONSTANTS
    NoPolicy = NoPolicy
    NoName = NoName
    Absent = Absent
    Calls = {c1, c2}
    Names = {p, q}
    TemplateIds = {"p256", ""}
    KnownOperations = {"sign", "create_key"}
    OtherOperations = {"fly"}
    Documents <- MCDocuments
INVARIANT TypeOK
INVARIANT ListIsOfItsTime
SYMMETRY Symmetric
