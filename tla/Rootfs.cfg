SPECIFICATION FairSpec
CONSTANTS
    Stages = {s1, s2, s3}
    MaxKills = 2
    MaxLosses = 2
    MaxForeign = 1
CHECK_DEADLOCK FALSE
INVARIANTS PublicationIsSound
PROPERTIES InstallationCompletes ForeignIsPreserved ActiveIsFinal
