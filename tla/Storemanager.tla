---------------------------- MODULE Storemanager ----------------------------
(***************************************************************************)
(* The stores behind the interface StoreManager: which folders a server or *)
(* a Maildir really has, the files in which a folder's identity is kept,   *)
(* and what the store objects of the running program know of it.  A folder *)
(* is identified twice: the store says who it is (an IMAP server its       *)
(* UIDVALIDITY, a Maildir the file .gomailsync-folderuid), and the metadata*)
(* directory says who it was when it was first used.                       *)
(***************************************************************************)
EXTENDS Integers, FiniteSets

CONSTANTS
    Folder,     \* the names of the folders
    Store,      \* the stores of the configuration
    ImapStores, \* those of storetype IMAP; the others are Maildirs
    Patterns,   \* Patterns[s]: regexppatterns, the folders each one matches
    Expunge,    \* Expunge[s]: the expunge option of IMAP store s
    Group,      \* the syncgroups of the configuration, numbered in its order
    StoresOf,   \* StoresOf[g]: the two stores of syncgroup g
    FlagGroups, \* the syncgroups with deletemode flag
    Worker      \* the goroutines, each a syncgroup and a folder (bound: those
                \* that are looked at)

NoFile == -1                    \* a file that does not exist
Empty == 0                      \* one created and not written
Identity == Nat \ {Empty}       \* the contents of a written one
Tag == Identity \cup {NoFile, Empty}

ASSUME GroupAssumption == Group \subseteq Nat
ASSUME StoresOfAssumption == StoresOf \in [Group -> [{1, 2} -> Store]]
ASSUME ImapStoresAssumption == ImapStores \subseteq Store
ASSUME PatternsAssumption ==
    Patterns \in [Store -> SUBSET [not : BOOLEAN, matches : SUBSET Folder]]
ASSUME WorkerAssumption == Worker \subseteq Group \X Folder
ASSUME ExpungeAssumption == Expunge \in [Store -> BOOLEAN]

VARIABLES
    there,      \* there[s]: the folders store s really has
    tag,        \* tag[s][f]: what the store says the folder is
    meta,       \* meta[s][f]: the file uidvalidity or folderuid of the metadata
    fresh,      \* fresh[s][f]: the next identity the folder may get
    folders,    \* folders[g][i]: m.folders of store i of syncgroup g
    excluded,   \* excluded[g][i]: those of them that are Excluded
    expunge,    \* expunge[s]: Expunge of the store's configuration, in memory
    dryrun,     \* the option -n of the running program
    pass        \* pass[w]: what the goroutine w has in hand

disk == <<there, tag, meta, fresh>>
memory == <<folders, excluded, expunge, dryrun>>
-----------------------------------------------------------------------------
(* A goroutine: where it is, which store it opens, whether it is inside    *)
(* CreateFolder, the identity it has read or made, the slice it read to    *)
(* append to, the identities its folders were opened under, and whether it *)
(* will expunge.                                                           *)
ImapSteps == {"create", "select", "saved", "createSaved", "fillSaved", "connect"}
MaildirCreation == {"createMd", "fillMd", "createDir", "fillDir", "slice", "append"}
Steps == {"idle", "open", "read", "compare", "list", "work"}
             \cup ImapSteps \cup MaildirCreation

Pass == [pc : Steps, at : {1, 2}, new : BOOLEAN, uid : Tag,
         slice : SUBSET Folder, id : [{1, 2} -> Tag], expunges : BOOLEAN]

Idle == [pc |-> "idle", at |-> 1, new |-> FALSE, uid |-> NoFile,
         slice |-> {}, id |-> [i \in {1, 2} |-> NoFile], expunges |-> FALSE]

StoreOf(w, i) == StoresOf[w[1]][i]
StoreAt(w) == StoreOf(w, pass[w].at)
Listed(w) == folders[w[1]][pass[w].at]

Return(w) == pass' = [pass EXCEPT ![w] = Idle]
Goto(w, pc) == pass' = [pass EXCEPT ![w].pc = pc]

(* GetMailfolderManager returns a folder: the next store is opened, or the *)
(* messages are listed.                                                    *)
Opened(w, uid, expunges) ==
    pass' = [pass EXCEPT ![w].id[pass[w].at] = uid,
                         ![w].expunges = @ \/ expunges,
                         ![w].at = 2,
                         ![w].new = FALSE,
                         ![w].uid = NoFile,
                         ![w].slice = {},
                         ![w].pc = IF pass[w].at = 1 THEN "open" ELSE "list"]
-----------------------------------------------------------------------------
(* applyRegExpPatterns: every pattern must match, or not match if negated. *)
Accepted(s, f) == \A p \in Patterns[s] : (f \in p.matches) # p.not

(* UpdateFolderList of a new store object, store i of syncgroup g.         *)
UpdateFolderList(g, i) ==
    LET s == StoresOf[g][i] IN
    /\ folders' = [folders EXCEPT ![g][i] = there[s]]
    /\ excluded' = [excluded EXCEPT ![g][i] = {f \in there[s] : ~Accepted(s, f)}]
=============================================================================
