SPECIFICATION FairBridgeSpec
CONSTANTS
    Kinds = {"esp32", "s2", "ssh", "serial"}
    Senders = {"m"}
    MaxReadings = 2
    MaxUnplugs = 1
    Cap = 1
    MinFrames = 2
    WindowSize = 2
INVARIANTS BridgeInv StopSendsBle
PROPERTIES Flushed ReadsAgain
CHECK_DEADLOCK FALSE
