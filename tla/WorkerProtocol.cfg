CONSTANTS
    Runs = {1}
    Deploys = {11}
    Conns = {1, 2}
    Nobody = 0
    NArtifacts = 1
    UploadsMayFail = TRUE
    MaxBreaks = 1
    QueueBound = 2
SPECIFICATION FairSpec
PROPERTIES SidesAgree NothingLost WorkComesToAnEnd
