SPECIFICATION RpcFairSpec
CONSTANTS
    Callers <- MCCallers
    Commands <- MCResetOnly
    MaxPhotos = 0
PROPERTY ResetRefills
