SPECIFICATION Spec
CONSTANTS
    Stages = {s1, s2, s3}
    MaxKills = 1
    MaxLosses = 0
    MaxForeign = 0
CHECK_DEADLOCK FALSE
INVARIANTS ReceiptIsDurable
