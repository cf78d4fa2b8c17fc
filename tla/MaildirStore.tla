---------------------------- MODULE MaildirStore ----------------------------
(***************************************************************************)
(* MaildirStore.GetMailfolderManager and CreateFolder.  There is no mutex: *)
(* goroutines create folders of one store object at the same time, and the *)
(* four steps that write the two folderuid files may end at each of them.  *)
(* The three directories are one step: with one or two of them the folder  *)
(* is not listed and CreateFolder makes the rest.                          *)
(***************************************************************************)
EXTENDS Storemanager

(* NewMaildirStore walks through the directory of the Maildir.             *)
NewMaildirStore(g, i) == StoresOf[g][i] \notin ImapStores /\ UpdateFolderList(g, i)

(* HasFolder; if not, CreateFolder begins with cur, new and tmp.           *)
MaildirHasFolder(w) ==
    LET s == StoreAt(w)
        create == w[2] \notin Listed(w) /\ ~dryrun
    IN
    /\ pass[w].pc = "open"
    /\ s \notin ImapStores
    /\ there' = IF create THEN [there EXCEPT ![s] = @ \cup {w[2]}] ELSE there
    /\ pass' = [pass EXCEPT ![w].new = create, ![w].pc = "read"]
    /\ UNCHANGED <<tag, meta, fresh, memory>>

(* getFolderUID, called by CreateFolder and again after it: the file in the*)
(* metadata, then the one in the Maildir.  A missing file reads as no uid, *)
(* an empty one is an error.                                               *)
ReadFolderUID(w) ==
    LET uid == meta[StoreAt(w)][w[2]] IN
    /\ pass[w].pc = "read"
    /\ IF uid = Empty THEN Return(w)
       ELSE pass' = [pass EXCEPT ![w].uid = uid, ![w].pc = "compare"]
    /\ UNCHANGED <<disk, memory>>

(* CreateFolder generates an identity for a folder that has none; then it  *)
(* adds the folder to the list.                                            *)
CreateFolder(w) ==
    \/ /\ pass[w].uid = NoFile
       /\ pass' = [pass EXCEPT ![w].uid = fresh[StoreAt(w)][w[2]], ![w].pc = "createMd"]
       /\ fresh' = [fresh EXCEPT ![StoreAt(w)][w[2]] = @ + 1]
    \/ pass[w].uid # NoFile /\ Goto(w, "slice") /\ UNCHANGED fresh

(* GetMailfolderManager takes the folder from the list.                    *)
TakeFolder(w) ==
    \/ w[2] \in Listed(w) /\ Opened(w, pass[w].uid, FALSE)
    \/ w[2] \notin Listed(w) /\ Return(w)

GetFolderUID(w) ==
    LET same == tag[StoreAt(w)][w[2]] = pass[w].uid IN
    /\ pass[w].pc = "compare"
    /\ \/ ~same /\ Return(w) /\ UNCHANGED fresh
       \/ same /\ pass[w].new /\ CreateFolder(w)
       \/ same /\ ~pass[w].new /\ TakeFolder(w) /\ UNCHANGED fresh
    /\ UNCHANGED <<there, tag, meta, memory>>

(* writeFolderUID of the file in the metadata: create, then write.         *)
CreateMetadataFile(w) ==
    /\ pass[w].pc = "createMd"
    /\ meta' = [meta EXCEPT ![StoreAt(w)][w[2]] = Empty]
    /\ Goto(w, "fillMd")
    /\ UNCHANGED <<there, tag, fresh, memory>>

WriteMetadataFile(w) ==
    /\ pass[w].pc = "fillMd"
    /\ meta' = [meta EXCEPT ![StoreAt(w)][w[2]] = pass[w].uid]
    /\ Goto(w, "createDir")
    /\ UNCHANGED <<there, tag, fresh, memory>>

(* writeFolderUID of the file in the Maildir, whose error nobody looks at: *)
(* a directory that is gone has no file, and CreateFolder goes on.         *)
CreateMaildirFile(w) ==
    LET s == StoreAt(w) IN
    /\ pass[w].pc = "createDir"
    /\ \/ /\ w[2] \in there[s]
          /\ tag' = [tag EXCEPT ![s][w[2]] = Empty]
          /\ Goto(w, "fillDir")
       \/ w[2] \notin there[s] /\ Goto(w, "slice") /\ UNCHANGED tag
    /\ UNCHANGED <<there, meta, fresh, memory>>

(* Wrong: the file is closed before its buffer is flushed.                 *)
WriteMaildirFileUnflushed(w) ==
    /\ pass[w].pc = "fillDir"
    /\ Goto(w, "slice")
    /\ UNCHANGED <<disk, memory>>

WriteMaildirFile(w) ==
    LET s == StoreAt(w) IN
    /\ pass[w].pc = "fillDir"
    /\ tag' = IF w[2] \in there[s] THEN [tag EXCEPT ![s][w[2]] = pass[w].uid] ELSE tag
    /\ Goto(w, "slice")
    /\ UNCHANGED <<there, meta, fresh, memory>>

(* m.folders = append(m.folders, ...), a read and a write without a lock.  *)
ReadFolders(w) ==
    /\ pass[w].pc = "slice"
    /\ pass' = [pass EXCEPT ![w].slice = Listed(w), ![w].pc = "append"]
    /\ UNCHANGED <<disk, memory>>

(* Wrong: the old slice becomes an element of the new one.                 *)
AppendFolderNested(w) ==
    /\ pass[w].pc = "append"
    /\ folders' = [folders EXCEPT ![w[1]][pass[w].at] = {pass[w].slice, w[2]}]
    /\ pass' = [pass EXCEPT ![w].new = FALSE, ![w].slice = {}, ![w].pc = "read"]
    /\ UNCHANGED <<disk, excluded, expunge, dryrun>>

AppendFolder(w) ==
    /\ pass[w].pc = "append"
    /\ folders' = [folders EXCEPT ![w[1]][pass[w].at] = pass[w].slice \cup {w[2]}]
    /\ pass' = [pass EXCEPT ![w].new = FALSE, ![w].slice = {}, ![w].pc = "read"]
    /\ UNCHANGED <<disk, excluded, expunge, dryrun>>

MaildirStoreStep(w) ==
    \/ MaildirHasFolder(w) \/ ReadFolderUID(w) \/ GetFolderUID(w)
    \/ CreateMetadataFile(w) \/ WriteMetadataFile(w)
    \/ CreateMaildirFile(w) \/ WriteMaildirFile(w)
    \/ ReadFolders(w) \/ AppendFolder(w)
=============================================================================
