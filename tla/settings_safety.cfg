SPECIFICATION Spec
CONSTANTS
    EnvModes = {"unset", "1"}
    EnvResolutions = {"unset", "0"}
    Faults = {"set", "reset"}
    MaxUnsaved = 1
INVARIANTS
    TypeOK
    StoreAgrees
    CameraAgrees
    RenderFresh
PROPERTIES
    ImplementsStore
