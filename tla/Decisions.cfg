\* Two commands at a time, three in all; a calendar of two seconds, three
\* minutes, two hours and three days; lists that do and do not name the tool.
CONSTANTS
    Commands = {c1, c2}
    Profiles = {"main", "work"}
    Providers = {"codex", "gemini"}
    Codex = "codex"
    EnvKeys = {"gemini"}
    Refs = {"gpt", "fast", "typo"}
    ProviderOf <- MCProviderOf
    Chain <- MCChain
    None = none
    Torn = torn
    MaxNow = 1
    MaxCommands = 3
    Tools = {"exec", "read"}
    Channels = {"telegram", "web"}
    Peers = {"p1", "p2"}
    Nobody = ""
    Seconds = 2
    Minutes = 3
    Hours = 2
    Weekdays = 3
    Null = null
    Times = {"t1", "t2"}
    JobKey = "cron:id"
SPECIFICATION MCSpec
SYMMETRY Symmetry
INVARIANTS
    NoDanglingIds
    ToolsFollowPolicy
    CronRunsOnTime
    JobsKeepTheirSpec
PROPERTY LiveTokensAreSent
CHECK_DEADLOCK FALSE
