\* One generation of forwarders, two programs with a service each, of which one
\* may stop and start; the serving side reaps its sessions.
SPECIFICATION FairSpec
CONSTANTS
    s1 = s1  s2 = s2
    Sources = {s1, s2}
    Locals = {1, 2}
    Uses <- SplitUses
    Remotes = {11, 12}
    FirstBound <- TwoListeners
    LaterBounds = {}
    MaxGen = 1
    MaxOpened = 2
    IdSpace = 4
    MaxInFlight = 2
    MayFallSilent = {"server"}
    MayStop = {12}
PROPERTIES ServesAsPromised RetriesAreAnswered
\* The ids are bounded: the model may stop.
CHECK_DEADLOCK FALSE
