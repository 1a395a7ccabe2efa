SPECIFICATION Spec
CONSTANTS
    Macs = {"m", "n"}
    Lines <- ThreeLines
    TtyLines = 2
    MaxPosts = 2
    Sessions = {"s", "t"}
    RelaySession = "s"
    NoSession = ""
    Sizes <- Instances
INVARIANTS DataInv MapCoversAll SettledShowsSelected
PROPERTIES SeenInOrder
CHECK_DEADLOCK FALSE
