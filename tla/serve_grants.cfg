\* One peer, one connection, one stream, two UDP ports: grants and the admission
\* come and go.
SPECIFICATION FairSpec
CONSTANTS
    p1 = p1  c1 = c1  s1 = s1
    Peers = {p1}
    Conns = {c1}
    PeerOf <- OneConn
    Streams = {s1}
    Keys <- MCKeys
    FirstConfig <- MCFirst
    MaxVersion = 2
    MaxBuffered = 1
    IdSpace = 2
INVARIANTS TypeOK NoStaleSession NoMissedRevocation LeftoversAreFew
PROPERTIES WithdrawnSessionCloses RevokedPeerIsCutOff
