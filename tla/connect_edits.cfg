\* Two bindings, edited while the link comes and goes.
SPECIFICATION FairSpec
CONSTANTS
    x1 = x1
    Keys <- MCKeys
    Remotes = {11, 12}
    Configs <- MCConfigs
    FirstConfig <- MCFirst
    Edits <- MCEdits
    MaxVersion = 2
    MaxConn = 2
    BackoffMax = 3
    Clients = {x1}
    Contested <- Dns
    MayFail <- Dns
INVARIANTS TypeOK ListenersFollowConfig ReportedAsListening ForwardersFollow
PROPERTIES OthersUndisturbed EditsAreApplied LostLinkIsRedialed ClientsAreServed
\* A refused process ends: the model may stop.
CHECK_DEADLOCK FALSE
