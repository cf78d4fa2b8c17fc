CONSTANTS
    m1 = m1
    m2 = m2
    m3 = m3
    Msg = {m1, m2}
    Blank = Blank
    Absent = Absent
    UserFlag = {"S", "T"}
    MaxUID = 8
    Kind <- MaildirImap
    Expunge <- NoExpunge
    Configs <- DryRunOrNotNone
    UserOps <- ArriveAtTwo
    MaxUserOps = 3
    MaxFaults = 1
SPECIFICATION Spec
SYMMETRY MsgSymmetry
INVARIANTS
    PairingSound
    RowsOneToOne
    DuplicatesBounded
    CleanPassConverges
    CleanAbortMeansOrphan
PROPERTIES
    LastCopyKept
    OnlyExpungeRemoves
    IsTwoWaySync
