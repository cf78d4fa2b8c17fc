----------------------------- MODULE SyncFolder -----------------------------
(***************************************************************************)
(* Syncgroup.SyncFolder: the passes that synchronise one folder, one after *)
(* the other, while mail clients change both stores, commands fail and the *)
(* program is killed.  One step is one command to a store, together with   *)
(* the local work around it; the transaction of the syncstatus is the step *)
(* that commits it, for nothing else reads it before.                      *)
(***************************************************************************)
EXTENDS ImapFolder, MaildirFolder, Syncstatus

CONSTANTS
    Configs,     \* the [deletemode, dryrun] settings under study
    UserOps,     \* the <<operation, store>> pairs the mail clients perform
    MaxUserOps,  \* bound: operations of mail clients in a behaviour
    MaxFaults    \* bound: failed commands and crashes in a behaviour

Deletemodes == {"expunge", "flag", "trash", "none"}

ASSUME ConfigsAssumption ==
    Configs \subseteq [deletemode : Deletemodes, dryrun : BOOLEAN]
ASSUME BoundsAssumption == MaxUserOps \in Nat /\ MaxFaults \in Nat

VARIABLES
    config,     \* the deletemode and dryrun of the syncgroup
    pc,         \* where the pass is; "idle" between passes
    iter,       \* i + 1: the iteration of the loop over the two directions
    src,        \* srcstore; dststore is the other one
    todo,       \* newMessages, deletedMessages, changedMessages still to do
    cur,        \* the message in hand: srcuid, dstuid, body and flags
    outcome,    \* how the last pass ended, or "running"
    \* auxiliary: what the properties need to know of the past
    born,       \* messages delivered to a store
    gone,       \* messages a mail client deleted or flagged Deleted somewhere
    disturbed,  \* a mail client, a failure or a crash since the pass started
    userops, faults

syncVars == <<config, pc, iter, src, todo, cur, outcome>>
auxVars == <<born, gone, disturbed, userops, faults>>
vars == <<box, list, uidnext, db, config, pc, iter, src, todo, cur, outcome,
          born, gone, disturbed, userops, faults>>

dst == Other(src)

NothingToDo == [new |-> {}, del |-> {}, chg |-> {}]
NoCur == [src |-> 0, dst |-> 0, msg |-> Blank, flags |-> {}]

PCs == {"idle", "list1", "list2", "diff", "work", "add", "update", "commit",
        "commitDel", "commitChg", "close2", "close1"}
ClosePCs == {"close2", "close1"}

TypeOK ==
    /\ FolderTypeOK
    /\ db \subseteq Row
    /\ config \in [deletemode : Deletemodes, dryrun : BOOLEAN]
    /\ pc \in PCs
    /\ iter \in {1, 2}
    /\ src \in Stores
    /\ todo \in [new : SUBSET UID, del : SUBSET Row, chg : SUBSET Row]
    /\ cur \in [src : UID, dst : UID, msg : Msg \cup {Blank},
                flags : SUBSET Letter]
    /\ outcome \in {"none", "running", "ok", "error", "crashed"}
    /\ born \subseteq Msg
    /\ gone \subseteq Msg \cup {Blank}
    /\ disturbed \in BOOLEAN
    /\ userops \in Nat
    /\ faults \in Nat

(* Both stores start empty and nothing was ever synchronised.              *)
Init ==
    /\ FolderInit
    /\ db = {}
    /\ config \in Configs
    /\ pc = "idle"
    /\ iter = 1
    /\ src = 1
    /\ todo = NothingToDo
    /\ cur = NoCur
    /\ outcome = "none"
    /\ born = {}
    /\ gone = {}
    /\ disturbed = FALSE
    /\ userops = 0
    /\ faults = 0
-----------------------------------------------------------------------------
(* The MailfolderManager interface: the operation of the store's kind.     *)
IsImap(s) == Kind[s] = "IMAP"

UpdateMessageList(s) ==
    IF IsImap(s) THEN ImapUpdateMessageList(s) ELSE MaildirUpdateMessageList(s)

CanRead(s, u) == IsImap(s) \/ HasFile(s, u)
Body(s, u) == IF IsImap(s) THEN ImapBody(s, u) ELSE MaildirBody(s, u)

AddMessage(s, m, fl, u) ==
    IF IsImap(s) THEN ImapAddMessage(s, m, fl, u)
                 ELSE MaildirAddMessage(s, m, fl, u)

CanUpdate(s, u) == IsImap(s) \/ HasFile(s, u)
UpdateMessage(s, u, out) ==
    IF IsImap(s) THEN out = u /\ UNCHANGED folderVars
                 ELSE MaildirUpdate(s, u, out)

CanSetFlags(s, u) == IF IsImap(s) THEN HasUID(s, u) ELSE HasFile(s, u)
SetFlags(s, u, fl) ==
    IF IsImap(s) THEN ImapSetFlags(s, u, fl) ELSE MaildirSetFlags(s, u, fl)

DeleteMessage(s, u) ==
    IF IsImap(s) THEN ImapDeleteMessage(s, u) ELSE MaildirDeleteMessage(s, u)

(* newStore turns expunge off when deletemode is "flag".                   *)
CloseFolder(s) ==
    IF IsImap(s)
    THEN ImapClose(s, Expunge[s] /\ config.deletemode # "flag")
    ELSE UNCHANGED box
-----------------------------------------------------------------------------
(* A return with an error: the deferred Close of both folders still runs.  *)
Abort ==
    /\ pc' = "close2"
    /\ outcome' = "error"
    /\ todo' = NothingToDo
    /\ cur' = NoCur
    /\ UNCHANGED <<config, iter, src, db, auxVars>>

StartSync ==
    /\ pc = "idle"
    /\ pc' = "list1"
    /\ outcome' = "running"
    /\ disturbed' = FALSE
    /\ UNCHANGED <<folderVars, db, config, iter, src, todo, cur, born, gone, userops, faults>>

ListFolder(s, here, next) ==
    /\ pc = here
    /\ UpdateMessageList(s)
    /\ pc' = next
    /\ UNCHANGED <<db, config, iter, src, todo, cur, outcome, auxVars>>

ListFolder1 == ListFolder(1, "list1", "list2")
ListFolder2 == ListFolder(2, "list2", "diff")

(* The three queries of one direction; deletemode none skips the deletions.*)
(* A dry run goes on with the loop before the two stores are swapped.      *)
Diff ==
    /\ pc = "diff"
    /\ todo' = IF config.dryrun THEN NothingToDo ELSE
          [new |-> NewMessages(src),
           del |-> IF config.deletemode = "none" THEN {}
                   ELSE DeletedMessages(src),
           chg |-> ChangedMessages(src)]
    /\ IF ~config.dryrun
       THEN pc' = "work" /\ UNCHANGED <<iter, outcome>>
       ELSE IF iter = 1
       THEN iter' = 2 /\ UNCHANGED <<pc, outcome>>
       ELSE pc' = "close2" /\ outcome' = "ok" /\ UNCHANGED iter
    /\ UNCHANGED <<folderVars, db, config, src, cur, auxVars>>

(* New messages, in the order of their uids.                               *)
ReadNew(u) ==
    /\ pc = "work"
    /\ u \in todo.new
    /\ \A v \in todo.new : u <= v
    /\ \/ /\ CanRead(src, u)
          /\ cur' = [src |-> u, dst |-> 0, msg |-> Body(src, u),
                     flags |-> list[src][u].flags]
          /\ todo' = [todo EXCEPT !.new = @ \ {u}]
          /\ pc' = "add"
          /\ UNCHANGED <<config, iter, src, outcome, db, auxVars>>
       \/ ~CanRead(src, u) /\ Abort
    /\ UNCHANGED folderVars

ReadMessage == \E u \in UID : ReadNew(u)

AddNew ==
    /\ pc = "add"
    /\ \E u \in UID :
          /\ AddMessage(dst, cur.msg, cur.flags, u)
          /\ cur' = [cur EXCEPT !.dst = u]
    /\ pc' = "update"
    /\ UNCHANGED <<db, config, iter, src, todo, outcome, auxVars>>

(* When Update fails the message stays on the destination without a row.   *)
UpdateSource ==
    /\ pc = "update"
    /\ \/ /\ CanUpdate(src, cur.src)
          /\ \E u \in UID :
                /\ UpdateMessage(src, cur.src, u)
                /\ cur' = [cur EXCEPT !.src = u]
          /\ pc' = "commit"
          /\ UNCHANGED <<config, iter, src, todo, outcome, db, auxVars>>
       \/ ~CanUpdate(src, cur.src) /\ Abort /\ UNCHANGED folderVars

Committed ==
    /\ pc' = "work"
    /\ cur' = NoCur
    /\ UNCHANGED <<folderVars, config, iter, src, todo, outcome, auxVars>>

(* Wrong: the row of the new message is rolled back.                       *)
CommitNewRolledBack == pc = "commit" /\ UNCHANGED db /\ Committed

CommitNew ==
    /\ pc = "commit"
    /\ db' = RowUpdated(src, cur.src, cur.dst, cur.flags)
    /\ Committed
-----------------------------------------------------------------------------
(* Wrong: trash and none delete like expunge.                              *)
DeleteDstInEveryMode(r, v) == HasUID(dst, v) /\ DeleteMessage(dst, v)

(* A deleted message, once no new one is left: r is the row it came from.  *)
(* addFlags(flags, "T") adds the letters of the word "newflags" and no "T",*)
(* and the error of SetFlags, whatever its reason, is shadowed.            *)
DeleteDst(r, v) ==
    \/ /\ config.deletemode = "expunge"
       /\ HasUID(dst, v)
       /\ DeleteMessage(dst, v)
    \/ /\ config.deletemode = "trash"
       /\ HasUID(dst, v)
       /\ CanSetFlags(dst, v)
       /\ SetFlags(dst, v, list[dst][v].flags \cup Newflags)
    \/ /\ config.deletemode = "trash"
       /\ HasUID(dst, v)
       /\ UNCHANGED folderVars

DeleteRow(r, v) ==
    /\ pc = "work"
    /\ todo.new = {}
    /\ r \in todo.del
    /\ \A q \in todo.del : r.uid[src] <= q.uid[src]
    /\ v \in DststoreUID(src, r.uid[src])
    /\ \/ /\ DeleteDst(r, v)
          /\ cur' = [NoCur EXCEPT !.src = r.uid[src], !.dst = v]
          /\ todo' = [todo EXCEPT !.del = @ \ {r}]
          /\ pc' = "commitDel"
          /\ UNCHANGED <<config, iter, src, outcome, db, auxVars>>
       \/ /\ ~HasUID(dst, v) \/ config.deletemode = "flag"
          /\ Abort
          /\ UNCHANGED folderVars

DeleteMessages == \E r \in todo.del, v \in UID : DeleteRow(r, v)

CommitDelete ==
    /\ pc = "commitDel"
    /\ db' = RowDeleted(src, cur.src)
    /\ Committed

(* A changed message: the flags of the source replace those of the other   *)
(* copy, if the destination still lists it.                                *)
ChangeRow(r, v) ==
    /\ pc = "work"
    /\ todo.new = {} /\ todo.del = {}
    /\ r \in todo.chg
    /\ \A q \in todo.chg : r.uid[src] <= q.uid[src]
    /\ v \in DststoreUID(src, r.uid[src])
    /\ \/ /\ ~HasUID(dst, v)
          /\ todo' = [todo EXCEPT !.chg = @ \ {r}]
          /\ UNCHANGED <<folderVars, config, pc, iter, src, cur, outcome, db, auxVars>>
       \/ /\ CanSetFlags(dst, v)
          /\ SetFlags(dst, v, list[src][r.uid[src]].flags)
          /\ cur' = [src |-> r.uid[src], dst |-> v, msg |-> Blank,
                     flags |-> list[src][r.uid[src]].flags]
          /\ todo' = [todo EXCEPT !.chg = @ \ {r}]
          /\ pc' = "commitChg"
          /\ UNCHANGED <<config, iter, src, outcome, db, auxVars>>
       \/ /\ HasUID(dst, v) /\ ~CanSetFlags(dst, v)
          /\ Abort
          /\ UNCHANGED folderVars

ChangeMessages == \E r \in todo.chg, v \in UID : ChangeRow(r, v)

(* Wrong: the row keeps the flags it had before.                           *)
CommitChangeRolledBack == pc = "commitChg" /\ UNCHANGED db /\ Committed

CommitChange ==
    /\ pc = "commitChg"
    /\ db' = RowUpdated(src, cur.src, cur.dst, cur.flags)
    /\ Committed

(* Wrong: an iteration too many, and both iterations in one direction.     *)
NextDirectionOnceMore ==
    /\ pc = "work"
    /\ todo = NothingToDo
    /\ IF iter <= 2
       THEN pc' = "diff" /\ iter' = iter + 1 /\ src' = Other(src) /\ UNCHANGED outcome
       ELSE pc' = "close2" /\ outcome' = "ok" /\ UNCHANGED <<iter, src>>
    /\ UNCHANGED <<folderVars, db, config, todo, cur, auxVars>>

NextDirectionUnswapped ==
    /\ pc = "work"
    /\ todo = NothingToDo
    /\ IF iter = 1
       THEN pc' = "diff" /\ iter' = 2 /\ UNCHANGED outcome
       ELSE pc' = "close2" /\ outcome' = "ok" /\ UNCHANGED iter
    /\ UNCHANGED <<folderVars, db, config, src, todo, cur, auxVars>>

(* One direction is finished: swap the stores, or end the pass.            *)
NextDirection ==
    /\ pc = "work"
    /\ todo = NothingToDo
    /\ IF iter = 1
       THEN pc' = "diff" /\ iter' = 2 /\ src' = 2 /\ UNCHANGED outcome
       ELSE pc' = "close2" /\ outcome' = "ok" /\ UNCHANGED <<iter, src>>
    /\ UNCHANGED <<folderVars, db, config, todo, cur, auxVars>>

(* The deferred calls: folder2.Close, then folder1.Close.  The folder      *)
(* objects, and with them both lists, go when the pass returns.            *)
EndPass ==
    /\ pc' = "idle"
    /\ list' = [s \in Stores |-> NoMessages]
    /\ iter' = 1
    /\ src' = 1

Close2 ==
    /\ pc = "close2"
    /\ CloseFolder(2)
    /\ pc' = "close1"
    /\ UNCHANGED <<list, uidnext, db, config, iter, src, todo, cur, outcome, auxVars>>

Close1 ==
    /\ pc = "close1"
    /\ CloseFolder(1)
    /\ EndPass
    /\ UNCHANGED <<uidnext, db, config, todo, cur, outcome, auxVars>>
-----------------------------------------------------------------------------
(* A folder cannot be opened.  When it is the second one, the deferred     *)
(* Close of the first runs all the same, with its expunge.                 *)
OpenFails ==
    /\ pc = "idle"
    /\ faults < MaxFaults
    /\ faults' = faults + 1
    /\ disturbed' = TRUE
    /\ pc' \in {"idle", "close1"}
    /\ outcome' = "error"
    /\ UNCHANGED <<folderVars, db, config, iter, src, todo, cur, born, gone, userops>>

(* A command or a query fails: the pass returns its error.                 *)
Fail ==
    /\ pc \notin {"idle"} \cup ClosePCs
    /\ faults < MaxFaults
    /\ faults' = faults + 1
    /\ disturbed' = TRUE
    /\ pc' = "close2"
    /\ outcome' = "error"
    /\ todo' = NothingToDo
    /\ cur' = NoCur
    /\ UNCHANGED <<folderVars, db, config, iter, src, born, gone, userops>>

(* A Close that does not reach its server: nobody looks at its error.      *)
CloseFails ==
    /\ pc \in ClosePCs
    /\ faults < MaxFaults
    /\ faults' = faults + 1
    /\ disturbed' = TRUE
    /\ \/ pc = "close2" /\ pc' = "close1" /\ UNCHANGED <<list, iter, src>>
       \/ pc = "close1" /\ EndPass
    /\ UNCHANGED <<box, uidnext, db, config, todo, cur, outcome, born, gone, userops>>

(* The program is killed: what it held in memory is lost, Close included.  *)
Crash ==
    /\ pc # "idle"
    /\ faults < MaxFaults
    /\ faults' = faults + 1
    /\ disturbed' = TRUE
    /\ EndPass
    /\ outcome' = "crashed"
    /\ todo' = NothingToDo
    /\ cur' = NoCur
    /\ UNCHANGED <<box, uidnext, db, config, born, gone, userops>>

(* The outside world.                                                      *)
UserStep(op, s) ==
    /\ <<op, s>> \in UserOps
    /\ userops < MaxUserOps
    /\ userops' = userops + 1
    /\ disturbed' = TRUE
    /\ UNCHANGED <<syncVars, db, faults>>

Deliver(s, m) ==
    /\ UserStep("deliver", s)
    /\ m \notin born
    /\ IF IsImap(s) THEN ImapDeliver(s, m) ELSE MaildirDeliver(s, m)
    /\ born' = born \cup {m}
    /\ UNCHANGED gone

Remove(s, h) ==
    /\ UserStep("delete", s)
    /\ UserDelete(s, h)
    /\ gone' = gone \cup {box[s][h].msg}
    /\ UNCHANGED born

Toggle(s, h, f) ==
    /\ UserStep("flag", s)
    /\ IsImap(s) => f \in Mapped
    /\ \/ f \in box[s][h].flags /\ UserFlags(s, h, box[s][h].flags \ {f})
       \/ f \notin box[s][h].flags /\ UserFlags(s, h, box[s][h].flags \cup {f})
    /\ gone' = IF f = "T" THEN gone \cup {box[s][h].msg} ELSE gone
    /\ UNCHANGED born

User ==
    \E s \in Stores :
        \/ \E m \in Msg : Deliver(s, m)
        \/ \E h \in Handles(s) : Remove(s, h)
        \/ \E h \in Handles(s), f \in UserFlag : Toggle(s, h, f)

SyncStep ==
    \/ ListFolder1 \/ ListFolder2 \/ Diff
    \/ ReadMessage \/ AddNew \/ UpdateSource \/ CommitNew
    \/ DeleteMessages \/ CommitDelete
    \/ ChangeMessages \/ CommitChange
    \/ NextDirection \/ Close2 \/ Close1

Next == StartSync \/ SyncStep \/ OpenFails \/ Fail \/ CloseFails \/ Crash \/ User

Spec == Init /\ [][Next]_vars

(* The scheduler starts the next pass when the interval is over, and a     *)
(* started pass goes on by itself.                                         *)
FairSpec == Spec /\ WF_vars(StartSync) /\ WF_vars(SyncStep)
-----------------------------------------------------------------------------
(* The copies a row speaks of: those that carry its uid.                   *)
Under(s, u) == {h \in Handles(s) : box[s][h].uid = u}

(* A row of the syncstatus never pairs two different messages, whatever    *)
(* fails or happens between reading a message, appending it and committing *)
(* the row: SyncFolder would copy the flags and the deletion of the one to *)
(* the other.                                                              *)
PairingSound ==
    \A r \in db : \A h1 \in Under(1, r.uid[1]), h2 \in Under(2, r.uid[2]) :
        box[1][h1].msg = box[2][h2].msg

(* The primary key is the pair, so nothing in the table keeps a uid from   *)
(* two rows; GetDststoreUID and Delete(srcuid) rely on there being one.    *)
RowsOneToOne ==
    \A r, q \in db, s \in Stores : r.uid[s] = q.uid[s] => r = q

(* A store never loses its last copy of a message unless a mail client     *)
(* deleted a copy of it, or flagged one Deleted.                           *)
LastCopyKept ==
    [][\A s \in Stores, m \in Msg :
          CopiesOf(s, m) # {} /\ CopiesOf(s, m)' = {} => m \in gone']_vars

(* The messages of a folder as TwoWaySync sees them.                       *)
Held == [s \in Stores |-> {m \in Msg : CopiesOf(s, m) # {}}]
GivenUp == gone \ {Blank}
InHand == IF pc = "add" /\ cur.msg # Blank THEN {<<src, cur.msg>>} ELSE {}

Mirror == INSTANCE TwoWaySync WITH held <- Held, gone <- GivenUp, hand <- InHand

(* The passes are a two-way synchronisation: whatever fails or changes in  *)
(* between, a message reaches a store only from the other one, once for    *)
(* every time it was read there, and leaves it only if it was given up.    *)
IsTwoWaySync == Mirror!Spec

(* A message appended without its row is copied again by the next pass, so *)
(* every failure may add a copy; nothing else does.                        *)
DuplicatesBounded ==
    \A s \in Stores, m \in Msg : Cardinality(CopiesOf(s, m)) <= 1 + faults

(* The copies not flagged Deleted; Close may expunge the others at once.   *)
Live(s) == {h \in Handles(s) : "T" \notin box[s][h].flags}

(* The stores hold the same messages with the same flags, equally often.   *)
Alike(s, c) == {h \in Live(s) : box[s][h].msg = c.msg /\ box[s][h].flags = c.flags}
StoresAgree ==
    \A s \in Stores : \A h \in Live(s) :
        Cardinality(Alike(1, box[s][h])) = Cardinality(Alike(2, box[s][h]))

(* Every copy has a row whose flags are its flags and whose other uid is   *)
(* there: the next pass finds nothing to do for it.                        *)
AllPaired ==
    \A s \in Stores : \A h \in Live(s) :
        \E r \in db : /\ r.uid[s] = box[s][h].uid
                      /\ r.flags = box[s][h].flags
                      /\ Under(Other(s), r.uid[Other(s)]) # {}

InSync == StoresAgree /\ AllPaired

FullSync == [deletemode |-> "expunge", dryrun |-> FALSE]
CleanPass == pc = "idle" /\ ~disturbed

(* A pass that ends without an error, and during and after which nothing   *)
(* else happened, leaves both stores alike and the syncstatus up to date.  *)
CleanPassConverges ==
    CleanPass /\ outcome = "ok" /\ config = FullSync => InSync

(* A row whose message is gone from both stores.                           *)
HasOrphan == \E r \in db : \A s \in Stores : Under(s, r.uid[s]) = {}

(* The only reason for which a pass that nothing disturbed returns an error*)
(* is a row whose message is gone from both stores.                        *)
CleanAbortMeansOrphan ==
    CleanPass /\ outcome = "error" /\ config.deletemode # "flag" => HasOrphan

(* Once the mail clients are quiet, the stores become and stay alike.  The *)
(* code keeps this promise only while no row is orphaned, as below.        *)
EventuallyInSync == <>[]InSync

(* Once the mail clients are quiet and the failures over, the stores become*)
(* and stay alike, whatever rows, copies and empty messages were left      *)
(* behind; unless one of those rows is an orphan, which DeleteMessage      *)
(* refuses in every pass to come.                                          *)
InSyncUnlessOrphaned == EventuallyInSync \/ <>[]HasOrphan

(* When no command fails, a message a mail client deleted on either store  *)
(* is eventually gone from both, whenever in a pass it was deleted, and no *)
(* later pass brings it back; unless an orphaned row ends every pass first.*)
DeletionsPropagate ==
    \/ <>(faults > 0)
    \/ <>[]HasOrphan
    \/ \A m \in Msg : [](m \in gone => <>[](\A s \in Stores : CopiesOf(s, m) = {}))

(* Without deletemode expunge a pass takes no copy away but those that are *)
(* flagged Deleted, which the Close of an IMAP folder may expunge.         *)
OnlyExpungeRemoves ==
    [][SyncStep /\ config.deletemode # "expunge" =>
          \A s \in Stores : \A h \in Live(s) : box'[s][h] # Absent]_vars

(* A dry run leaves the stores and the syncstatus alone.                   *)
DryRunChangesNothing ==
    [][SyncStep /\ config.dryrun => UNCHANGED <<box, db>>]_vars

(* The uid that replaces a temporary one is the uid of no other file.      *)
NewUidIsNew ==
    [][\A u \in UID : pc = "update" /\ pc' = "commit" /\ cur'.src # cur.src
          => Under(src, cur'.src) = {}]_vars

(* deletemode flag marks deleted messages on the other store: it is no     *)
(* reason to give up the pass.                                             *)
FlagModeWorks ==
    [][config.deletemode = "flag" /\ DeleteMessages => outcome' # "error"]_vars
=============================================================================
