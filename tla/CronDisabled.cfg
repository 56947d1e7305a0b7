\* The instance of CronRestarts.cfg without failing writes; the loop is asked
\* not to start a job that is disabled.
CONSTANTS
    Jobs = {j1}
    NoJob = NoJob
    Loop = Loop
    Http = {h1}
    Specs <- MCAllSpecs
    NextRuns = {0}
    Period = 1
    CronPeriod = 2
    Ladder <- MCLadder
    MaxTime = 2
    MaxErrors = 1
    SaveFaults = {}
SPECIFICATION Spec
PROPERTIES
    DisabledJobsDoNotRun
