SPECIFICATION Spec
CONSTANTS
    Signers = {s1, s2, s3}
    SelectCounts = {0, 1, 2, 3, 4}
    Versions = {1, 2}
    MaxPower = 1004
    DrawWrap = 2
INVARIANTS
    TypeOK
    NoDuplicateUpdate
    ResponseExact
    PowersCountDraws
PROPERTY EndsIfEnough
