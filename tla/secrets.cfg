\* serve and connect with --admin, and a command without, started together.
SPECIFICATION FairSpec
CONSTANTS
    Procs = {serve, connect, id}
    WithAdmin = {serve, connect}
    MaxFaults = 2
INVARIANTS TypeOK OneIdentity TokenOpensTheUi
PROPERTIES EveryProcessComesUp
\* The stops are bounded: once all processes are up, nothing happens.
CHECK_DEADLOCK FALSE
