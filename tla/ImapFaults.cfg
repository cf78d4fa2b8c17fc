CONSTANTS
    m1 = m1
    m2 = m2
    m3 = m3
    Msg = {m1, m2}
    Blank = Blank
    Absent = Absent
    UserFlag = {"S", "T"}
    MaxUID = 6
    Kind <- ImapImap
    Expunge <- BothExpunge
    Configs <- ExpungeOrNone
    UserOps <- AllOps
    MaxUserOps = 3
    MaxFaults = 2
SPECIFICATION Spec
SYMMETRY MsgSymmetry
INVARIANTS
    TypeOK
    PairingSound
    RowsOneToOne
    DuplicatesBounded
    CleanPassConverges
    CleanAbortMeansOrphan
PROPERTIES
    LastCopyKept
    IsTwoWaySync
