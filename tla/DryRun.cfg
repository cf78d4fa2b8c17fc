CONSTANTS
    m1 = m1
    m2 = m2
    m3 = m3
    Msg = {m1, m2}
    Blank = Blank
    Absent = Absent
    UserFlag = {"S", "T"}
    MaxUID = 5
    Kind <- ImapImap
    Expunge <- BothExpunge
    Configs <- DryRun
    UserOps <- AllOps
    MaxUserOps = 3
    MaxFaults = 0
SPECIFICATION Spec
PROPERTY DryRunChangesNothing
