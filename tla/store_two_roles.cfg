\* A machine that serves and connects: two processes, one file.
SPECIFICATION Spec
CONSTANTS
    p1 = p1  w1 = w1  w2 = w2
    Procs = {"serve", "connect"}
    Workers = {w1}
    Main = w1
    Configs <- MCConfigs
    Edits <- MCEdits
    Seeded <- MCSeeded
    MaxFaults = 0
INVARIANTS OwnEditsStay
