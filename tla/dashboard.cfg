SPECIFICATION FairSpec
CONSTANTS
    Deployments <- Three
    MaxKills = 1
    Nobody = "nobody"
INVARIANTS FileInv LockersReadEachOther
PROPERTIES Heals
