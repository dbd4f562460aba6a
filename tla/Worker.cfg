SPECIFICATION MCSpec
CONSTANTS
    Configs = {1, 2}
    Keys = {1, 2}
    KeyOf <- OwnKeys
    Instances = {1, 2}
    MaxCrashes = 1
    None = None
INVARIANTS ImagesSound
PROPERTIES GitIsShared RunsReportTruly ContainersRemoved ChildrenServe UploadsRun
CHECK_DEADLOCK FALSE
