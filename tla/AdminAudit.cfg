CONSTANTS
    AdminIds = {"cyd"}
    Roles = {"admin", "owner"}
    Actors <- MCActors
    Minutes = {0, 7, 40}
    MaxAudit = 2
    NULL = NULL
SPECIFICATION Spec
INVARIANT
    ValidRequestsSucceed
CHECK_DEADLOCK FALSE
