SPECIFICATION FairHopperSpec
CONSTANTS
    Channels <- ThreeChannels
    Threads = {t1, t2, t3}
    NoThread = NoThread
    NoChannel = 0
INVARIANTS HopperInv
PROPERTIES StoppedEnds AllChannelsVisited
CHECK_DEADLOCK FALSE
