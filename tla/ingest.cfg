SPECIFICATION FairSpec
CONSTANTS
    Stream <- OneDay
    Ids = {"monday"}
    Calls = {"k1"}
    Containers = {"l1"}
    NoItem = ""
    Macs = {"m", "n"}
    BatchSize = 3
    MaxTries = 2
INVARIANTS IngestInv
PROPERTIES Drains OverwrittenUnseenOnly
CHECK_DEADLOCK FALSE
