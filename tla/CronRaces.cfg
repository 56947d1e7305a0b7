\* Two jobs, the loop and one HTTP thread race; every write succeeds.
CONSTANTS
    Jobs = {j1, j2}
    NoJob = NoJob
    Loop = Loop
    Http = {h1}
    Specs <- MCRaceSpecs
    NextRuns = {0}
    Period = 1
    CronPeriod = 2
    Ladder <- MCLadder
    MaxTime = 1
    MaxErrors = 2
    SaveFaults = {}
SPECIFICATION FairSpec
INVARIANTS
    InFlightExact
    OneShotOnce
PROPERTIES
    DueJobsFire
    StopCompletes
