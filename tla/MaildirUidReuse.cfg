CONSTANTS
    m1 = m1
    m2 = m2
    m3 = m3
    Msg = {m1, m2}
    Blank = Blank
    Absent = Absent
    UserFlag = {"S"}
    MaxUID = 8
    Kind <- ImapMaildir
    Expunge <- BothExpunge
    Configs <- ExpungeOnly
    UserOps <- ArriveAtOne
    MaxUserOps = 4
    MaxFaults = 0
SPECIFICATION Spec
PROPERTY LastCopyKept
