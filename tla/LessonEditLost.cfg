\* A lesson whose title, tags and suggestions are edited.
SPECIFICATION Spec
CONSTANTS
    Versions = {1}
    Signals = {1}
    Keys = {1}
    MaxTransitions = 2
    Metadata = {"title", "tags", "suggestion"}
CHECK_DEADLOCK FALSE
INVARIANT
    AnsweredIsStored
