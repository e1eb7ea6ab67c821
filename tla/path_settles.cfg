\* Two connections with one peer, of either role; their paths change.
SPECIFICATION FairSpec
CONSTANTS
    Conns = {c1, c2}
    Paths = {direct, relayed}
    Pending = pending
    MaxEvents = 1
    MaxChanges = 2
INVARIANTS TypeOK NoGhostEntry
PROPERTIES PathSettles
\* Each connection ends once: the model may stop.
CHECK_DEADLOCK FALSE
