\* Two programs, of which one uses two services; a respawn with an empty table,
\* and one listener retargeted, while datagrams, replies and the serving side's
\* sessions of the old generation are still about.
SPECIFICATION Spec
CONSTANTS
    s1 = s1  s2 = s2
    Sources = {s1, s2}
    Locals = {1, 2}
    Uses <- MixedUses
    Remotes = {11, 12}
    FirstBound <- TwoListeners
    LaterBounds <- RetargetedLater
    MaxGen = 2
    MaxOpened = 2
    IdSpace = 3
    MaxInFlight = 1
    MayFallSilent = {"client"}
    MayStop = {}
INVARIANTS TypeOK TablesAgree RepliesFindTheirSource PayloadsReachTheirPort
\* The ids and generations are bounded: the model may stop.
CHECK_DEADLOCK FALSE
