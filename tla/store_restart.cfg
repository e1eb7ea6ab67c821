\* One process, two API calls at a time, stops and failures at every step.
SPECIFICATION FairSpec
CONSTANTS
    p1 = p1  w1 = w1  w2 = w2
    Procs = {"serve"}
    Workers = {w1, w2}
    Main = w1
    Configs <- MCConfigs
    Edits <- MCEdits
    Seeded <- MCSeeded
    MaxFaults = 2
INVARIANTS TypeOK DiskIsWhole RunningIsOnDisk FlagsOnlyAdd
PROPERTIES EditsAreAtomic ComesUpAgain
