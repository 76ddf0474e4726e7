\* The storage object, status, configuration and API explorer pages.
CONSTANTS
    Ids <- TwoIds
    Values <- TwoValues
    Perms <- TwoPerms
    MaxWrites = 3
    Names = {"n1", "n2"}
    samples = 2
    Ranges = {1, 10}
    MaxReqs = 2
    MaxTime = 3
    MaxDrops = 2
    MaxFiles = 2
    MaxDialogs = 2
    MaxDeletes = 2
    Rpcs = {"rpc"}
    Apis = {"write", "read"}
    Bodies = {"write"}
    MaxCalls = 2
    MaxSent = 3
SPECIFICATION MCSpec
INVARIANTS
    PollsAtRange
    FlagsTellTruth
    EditorsFitCall
    VersionIsCurrent
    PageTypesOK
    SeriesLineUp
    EverySettingListed
PROPERTY
    SavesOverSeen
\* The bounds on writes, drops and deletes end a behaviour.
CHECK_DEADLOCK FALSE
