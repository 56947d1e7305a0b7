\* One job over crashes and restarts; any write of jobs.json may fail, and
\* failures run past the end of the ladder.
CONSTANTS
    Jobs = {j1}
    NoJob = NoJob
    Loop = Loop
    Http = {h1}
    Specs <- MCAllSpecs
    NextRuns = {0, 2}
    Period = 1
    CronPeriod = 2
    Ladder <- MCOneRung
    MaxTime = 2
    MaxErrors = 2
    SaveFaults = {"stale", "torn"}
SPECIFICATION Spec
INVARIANTS
    EnabledJobsAreScheduled
    RepliesStayTrue
