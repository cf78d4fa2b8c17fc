CONSTANTS
    f1 = f1
    f2 = f2
    imap1 = imap1
    imap2 = imap2
    md1 = md1
    md2 = md2
    Folder = {f1, f2}
    Store = {imap1, imap2, md1}
    ImapStores = {imap1, imap2}
    Patterns <- AllAccepted
    Expunge <- ExpungeAll
    Group = {1, 2}
    StoresOf <- OneMaildir
    FlagGroups = {2}
    Worker <- AllFolders
    Situations <- FirstUse
    Dryruns = {FALSE}
    Client <- OpsOnF1
    MaxOps = 0
    MaxFaults = 0
SPECIFICATION FairSpec
INVARIANTS
    IdentityKept
CHECK_DEADLOCK FALSE
