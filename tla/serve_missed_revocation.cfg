\* A peer revoked between the admission check and the watcher's subscription.
SPECIFICATION FairSpec
CONSTANTS
    p1 = p1  c1 = c1  s1 = s1
    Peers = {p1}
    Conns = {c1}
    PeerOf <- OneConn
    Streams = {}
    Keys <- NoKeys
    FirstConfig <- MCFirst
    MaxVersion = 1
    MaxBuffered = 0
    IdSpace = 1
PROPERTIES EveryRevocationCloses
