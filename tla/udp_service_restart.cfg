\* The service may stop and start again under a session that is in use.
SPECIFICATION FairSpec
CONSTANTS
    s1 = s1  s2 = s2
    Sources = {s1}
    Locals = {1}
    Uses <- AllUses
    Remotes = {11}
    FirstBound <- OneListener
    LaterBounds = {}
    MaxGen = 1
    MaxOpened = 1
    IdSpace = 2
    MaxInFlight = 2
    MayFallSilent = {}
    MayStop = {11}
PROPERTIES RestartedServiceAnswers
