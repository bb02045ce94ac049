SPECIFICATION FairSpec
CONSTANTS
    Replica = {api, worker}
    Id = {1, 2, 3}
    Text <- Texts
    None = None
    Versions <- TwoVersions
    MaxFaults = 1
    MaxQueue = 2
    Asked = {0, 1, 2}
    CandidateK = 1
    RerankCandidateK = 1
    RrfK = 60
    Scale = 238266
    Document <- SmallDocuments
    ChunkSize = {0, 2, 4, 7}
INVARIANTS
    TypeOK
    UpIsIndexed
    RolloutConverges
    AnswersSound
    PiecesAreTheText
PROPERTY
    AllServe
CHECK_DEADLOCK FALSE
