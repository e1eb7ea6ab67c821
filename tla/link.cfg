\* One machine dials another; edits, lost links, a restart.
SPECIFICATION FairLinkSpec
CONSTANTS
    p1 = p1
    Peers = {p1}
    Me = p1
    Conns = {1, 2, 3}
    MaxConn = 3
    PeerOf <- MCPeerOf
    Streams = {}
    Keys = {}
    FirstConfig <- MCFirst
    MaxVersion = 2
    MaxBuffered = 0
    IdSpace = 1
INVARIANTS OnlyRefusalEndsNear ShownUnlessOverlapped NoGhostPeers
PROPERTIES AdmittedPeerIsServed RevokedPeerGivesUp
\* The edits and connections are bounded: the model may stop.
CHECK_DEADLOCK FALSE
