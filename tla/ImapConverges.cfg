CONSTANTS
    m1 = m1
    m2 = m2
    m3 = m3
    Msg = {m1, m2}
    Blank = Blank
    Absent = Absent
    UserFlag = {"S"}
    MaxUID = 6
    Kind <- ImapImap
    Expunge <- BothExpunge
    Configs <- ExpungeOnly
    UserOps <- AllOps
    MaxUserOps = 4
    MaxFaults = 1
SPECIFICATION FairSpec
PROPERTIES InSyncUnlessOrphaned DeletionsPropagate
