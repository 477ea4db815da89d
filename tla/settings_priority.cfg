SPECIFICATION Spec
CONSTANTS
    EnvModes = {"unset", "1"}
    EnvResolutions = {"unset"}
    Faults = {}
    MaxUnsaved = 0
PROPERTY EnvironmentFirst
