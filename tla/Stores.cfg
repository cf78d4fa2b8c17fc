CONSTANTS
    f1 = f1
    f2 = f2
    imap1 = imap1
    imap2 = imap2
    md1 = md1
    md2 = md2
    Folder = {f1, f2}
    Store = {imap1, md1, md2}
    ImapStores = {imap1}
    Patterns <- RefuseF2
    Expunge <- ExpungeAll
    Group = {1, 2}
    StoresOf <- OneServer
    FlagGroups = {2}
    Worker <- Three
    Situations <- OneOrTwo
    Dryruns = {FALSE, TRUE}
    Client <- OpsOnF1
    MaxOps = 1
    MaxFaults = 1
SPECIFICATION FairSpec
INVARIANTS
    TypeOK
    IdentityKept
    OnlyHurtFoldersAreRefused
    OnlyAcceptedFoldersAreOpened
    FlagGroupsNeverExpunge
PROPERTIES
    RestartsChooseAlike
    FoldersAreOpened
CHECK_DEADLOCK FALSE
