\* Two programs, and a respawn that starts the ids over.
SPECIFICATION Spec
CONSTANTS
    s1 = s1  s2 = s2
    Sources = {s1, s2}
    Locals = {1}
    Uses <- AllUses
    Remotes = {11}
    FirstBound <- OneListener
    LaterBounds <- OneLater
    MaxGen = 2
    MaxOpened = 1
    IdSpace = 2
    MaxInFlight = 1
    MayFallSilent = {}
    MayStop = {}
INVARIANTS EveryAnswerReachesItsAsker
