CONSTANTS
    Runners = {a1, a2}
    Client = Client
    SharedCursors = {a1}
    TornReads = TRUE
    MaxStarts = 2
    MaxLog = 4
    MaxCrashes = 1
    MaxResets = 1
SPECIFICATION FairSpec
INVARIANTS TypeOK AnsweredOnce JoinedFirst LateAnswerBounded
PROPERTIES EveryRecordRead
CHECK_DEADLOCK FALSE
