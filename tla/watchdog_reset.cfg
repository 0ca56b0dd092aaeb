\* The watchdog alone, no run dies: a healthy host whose answers are not recorded.
SPECIFICATION WdSpec
CONSTANTS
    MaxFailures = 3
    MaxDeaths = 0
PROPERTY KillOnlyAfterThree
