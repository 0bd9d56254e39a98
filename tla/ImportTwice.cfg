\* Two requests that upload the same content to one job.
SPECIFICATION Spec
CONSTANTS
    Clients = {"client", "other"}
    Jobs = {"job"}
    Contents = {"a"}
    Files = {1, 2}
    Outcomes = {"FAILED", "VALID"}
CHECK_DEADLOCK FALSE
INVARIANT
    ContentImportedOnce
