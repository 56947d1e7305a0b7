\* A user who is approved and one who is not; two starts of the gateway and
\* two pairing commands.
CONSTANTS
    Users = {u1, u2}
    DmPolicy = "pairing"
    AllowFrom = {}
    MaxUpdates = 3
    MaxLives = 2
    MaxCli = 2
SPECIFICATION MCSpec
INVARIANTS
    ConfirmedWereHandled
    HandledInOrder
    AdmittedWereApproved
PROPERTY UpdatesAreHandled
CHECK_DEADLOCK FALSE
