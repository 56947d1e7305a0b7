\* Two callers and the writers that go past the mutex; two turns and a note,
\* or any other three messages.
CONSTANTS
    Keys = {main, other}
    Main = main
    Callers = {c1, c2}
    NoOne = none
    Policies <- MCPolicies
    MaxMessages = 3
SPECIFICATION FairSpec
INVARIANTS
    TurnsDoNotInterleave
    PromptEndsHere
    RepliesAreRecorded
PROPERTY SessionsAreFreed
