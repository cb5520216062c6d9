SPECIFICATION Spec
CONSTANTS
    Signers = {s1, s2, s3, s4}
    SelectCounts = {7}
    Versions = {2}
    MaxPower = 1001
    DrawWrap = 2
PROPERTY Returns
