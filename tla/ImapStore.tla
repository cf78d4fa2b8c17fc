----------------------------- MODULE ImapStore -----------------------------
(***************************************************************************)
(* ImapStore.GetMailfolderManager.  It holds the mutex of the store object *)
(* from the look at m.folders to the new folder, but the server, the files *)
(* and another syncgroup's object of the same store do not know the mutex. *)
(***************************************************************************)
EXTENDS Storemanager

(* NewImapStore asks the server for its mailboxes.                         *)
NewImapStore(g, i) == StoresOf[g][i] \in ImapStores /\ UpdateFolderList(g, i)

Locked(w) ==
    \E v \in Worker :
        v[1] = w[1] /\ pass[v].pc \in ImapSteps /\ pass[v].at = pass[w].at

(* Wrong: the folders that are there are created.                          *)
ImapLockInverted(w) ==
    /\ pass[w].pc = "open"
    /\ StoreAt(w) \in ImapStores
    /\ ~Locked(w)
    /\ Goto(w, IF w[2] \in Listed(w) THEN "create" ELSE "select")
    /\ UNCHANGED <<disk, memory>>

(* m.Lock and HasFolder.                                                   *)
ImapLock(w) ==
    /\ pass[w].pc = "open"
    /\ StoreAt(w) \in ImapStores
    /\ ~Locked(w)
    /\ Goto(w, IF w[2] \in Listed(w) THEN "select" ELSE "create")
    /\ UNCHANGED <<disk, memory>>

(* CREATE, which a server refuses for a mailbox it has; then the append.   *)
ImapCreateFolder(w) ==
    LET s == StoreAt(w) IN
    /\ pass[w].pc = "create"
    /\ \/ /\ w[2] \in there[s]
          /\ Return(w)
          /\ UNCHANGED <<disk, folders>>
       \/ /\ w[2] \notin there[s]
          /\ there' = [there EXCEPT ![s] = @ \cup {w[2]}]
          /\ tag' = [tag EXCEPT ![s][w[2]] = fresh[s][w[2]]]
          /\ fresh' = [fresh EXCEPT ![s][w[2]] = @ + 1]
          /\ folders' = [folders EXCEPT ![w[1]][pass[w].at] = @ \cup {w[2]}]
          /\ Goto(w, "select")
          /\ UNCHANGED meta
    /\ UNCHANGED <<excluded, expunge, dryrun>>

(* getUIDValidity: SELECT answers with the UIDVALIDITY of the mailbox ...  *)
ImapSelect(w) ==
    LET s == StoreAt(w) IN
    /\ pass[w].pc = "select"
    /\ \/ w[2] \notin there[s] /\ Return(w)
       \/ /\ w[2] \in there[s]
          /\ pass' = [pass EXCEPT ![w].uid = tag[s][w[2]], ![w].pc = "saved"]
    /\ UNCHANGED <<disk, memory>>

(* Wrong: a saved one that differs is replaced.                            *)
ImapSavedUIDValidityReplaced(w) ==
    LET saved == meta[StoreAt(w)][w[2]] IN
    /\ pass[w].pc = "saved"
    /\ \/ saved # pass[w].uid /\ Goto(w, "createSaved")
       \/ saved = pass[w].uid /\ Goto(w, "connect")
    /\ UNCHANGED <<disk, memory>>

(* ... which is compared with the saved one, or saved if there is none.    *)
ImapSavedUIDValidity(w) ==
    LET saved == meta[StoreAt(w)][w[2]] IN
    /\ pass[w].pc = "saved"
    /\ \/ saved = NoFile /\ Goto(w, "createSaved")
       \/ saved = pass[w].uid /\ Goto(w, "connect")
       \/ saved \notin {NoFile, pass[w].uid} /\ Return(w)
    /\ UNCHANGED <<disk, memory>>

(* The file is created, or emptied, and then written.                      *)
ImapCreateUIDValidity(w) ==
    /\ pass[w].pc = "createSaved"
    /\ meta' = [meta EXCEPT ![StoreAt(w)][w[2]] = Empty]
    /\ Goto(w, "fillSaved")
    /\ UNCHANGED <<there, tag, fresh, memory>>

ImapWriteUIDValidity(w) ==
    /\ pass[w].pc = "fillSaved"
    /\ meta' = [meta EXCEPT ![StoreAt(w)][w[2]] = pass[w].uid]
    /\ Goto(w, "connect")
    /\ UNCHANGED <<there, tag, fresh, memory>>

(* NewImapFolder opens a connection of its own and selects the mailbox; a  *)
(* second look at its UIDVALIDITY is not taken.                            *)
NewImapFolder(w) ==
    LET s == StoreAt(w) IN
    /\ pass[w].pc = "connect"
    /\ \/ w[2] \notin there[s] /\ Return(w)
       \/ w[2] \in there[s] /\ Opened(w, pass[w].uid, expunge[s])
    /\ UNCHANGED <<disk, memory>>

ImapStoreStep(w) ==
    \/ ImapCreateFolder(w) \/ ImapSelect(w) \/ ImapSavedUIDValidity(w)
    \/ ImapCreateUIDValidity(w) \/ ImapWriteUIDValidity(w) \/ NewImapFolder(w)
=============================================================================
