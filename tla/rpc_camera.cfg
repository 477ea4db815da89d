SPECIFICATION RpcSpec
CONSTANTS
    Callers <- MCCallers
    Commands <- MCCommands
    MaxPhotos = 1
INVARIANTS
    TypeOK
    CountAgrees
    ModeAgrees
    NullOnlyAfterRestart
    StreamsAlone
