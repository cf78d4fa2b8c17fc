----------------------------- MODULE Syncgroup -----------------------------
(***************************************************************************)
(* The program around a pass: main creates the selected syncgroups one     *)
(* after the other, each with store objects of its own, and starts them;   *)
(* a syncgroup chooses its folders once and then synchronises each of them *)
(* again and again, every folder in a goroutine that first opens it on both*)
(* stores.  The process may be killed between any two steps and is started *)
(* again; mail clients create and delete folders, and a server may renumber*)
(* a mailbox.  What happens inside a pass is the module SyncFolder.        *)
(***************************************************************************)
EXTENDS ImapStore, MaildirStore

CONSTANTS
    Situations, \* what the program may find: the syncgroups selected with -s,
                \* the folders of each store, the stores already synchronised,
                \* and bound: whether the mail clients are quiet
    Dryruns,    \* the values the option -n may have
    Client,     \* what mail clients do: <<operation, store, folder>>
    MaxOps,     \* bound: operations of mail clients and renumberings
    MaxFaults   \* bound: failures and kills

ASSUME SituationsAssumption ==
    Situations \subseteq [selected : SUBSET Group,
                          there : [Store -> SUBSET Folder],
                          synced : SUBSET Store,
                          quiet : BOOLEAN]
ASSUME DryrunsAssumption == Dryruns \subseteq BOOLEAN
ASSUME BoundsAssumption == MaxOps \in Nat /\ MaxFaults \in Nat

VARIABLES
    selected,   \* opts.SyncgroupList
    state,      \* state[g]: how far main is with syncgroup g
    tosync,     \* tosync[g]: the folders syncgroup g synchronises
    first,      \* history: the identity a folder was first synchronised under
    hurt,       \* history: folders whose creation was disturbed, or that a
                \* client created, deleted or renumbered
    overtaken,  \* history: goroutines whose folder that happened to meanwhile
    chosen,     \* history: chosen[g]: {}, or {the last choice of folders}
    ops, faults \* how often the outside acted

history == <<first, hurt, overtaken, chosen>>
vars == <<disk, memory, pass, selected, state, tosync, history, ops, faults>>

TypeOK ==
    /\ there \in [Store -> SUBSET Folder]
    /\ tag \in [Store -> [Folder -> Tag]]
    /\ meta \in [Store -> [Folder -> Tag]]
    /\ fresh \in [Store -> [Folder -> Identity]]
    /\ folders \in [Group -> [{1, 2} -> SUBSET Folder]]
    /\ excluded \in [Group -> [{1, 2} -> SUBSET Folder]]
    /\ expunge \in [Store -> BOOLEAN]
    /\ pass \in [Worker -> Pass]
    /\ dryrun \in BOOLEAN
    /\ selected \subseteq Group
    /\ state \in [Group -> {"waiting", "store1", "running", "failed"}]
    /\ tosync \in [Group -> SUBSET Folder]
    /\ first \in [Store -> [Folder -> Tag]]
    /\ hurt \subseteq Store \X Folder
    /\ overtaken \subseteq Worker
    /\ chosen \in [Group -> SUBSET SUBSET Folder]
    /\ ops \in 0 .. MaxOps
    /\ faults \in 0 .. MaxFaults

(* The memory of a process that starts.                                    *)
NoFolders == [g \in Group |-> [i \in {1, 2} |-> {}]]
NotSelected == [g \in Group |-> "waiting"]
NoWork == [w \in Worker |-> Idle]

(* A Maildir that was never synchronised has no folderuid files; a server  *)
(* has a UIDVALIDITY for every mailbox.                                    *)
Init ==
    \E now \in Situations :
        /\ selected = now.selected
        /\ there = now.there
        /\ tag = [s \in Store |-> [f \in Folder |->
                    IF f \in now.there[s] /\ (s \in ImapStores \/ s \in now.synced)
                    THEN 1 ELSE NoFile]]
        /\ meta = [s \in Store |-> [f \in Folder |->
                    IF f \in now.there[s] /\ s \in now.synced THEN 1 ELSE NoFile]]
        /\ fresh = [s \in Store |-> [f \in Folder |-> 2]]
        /\ hurt = {h \in Store \X Folder :
                    h[2] \in now.there[h[1]] /\ h[1] \notin ImapStores \cup now.synced}
        /\ folders = NoFolders
        /\ excluded = NoFolders
        /\ expunge = Expunge
        /\ pass = NoWork
        /\ dryrun \in Dryruns
        /\ state = NotSelected
        /\ tosync = [g \in Group |-> {}]
        /\ first = [s \in Store |-> [f \in Folder |-> NoFile]]
        /\ overtaken = {}
        /\ chosen = [g \in Group |-> {}]
        /\ ops = IF now.quiet THEN MaxOps ELSE 0
        /\ faults = 0
-----------------------------------------------------------------------------
(* Creation of a syncgroup.                                                *)

(* Wrong: an exclusion of the second store counts only where the first     *)
(* store does not have the folder.                                         *)
MergeFoldersFirst(list, excl) == (list[1] \ excl[1]) \cup (list[2] \ (list[1] \cup excl[2]))

(* Wrong: a folder of both stores cancels out.                             *)
MergeFoldersOnce(list, excl) ==
    ((list[1] \ list[2]) \cup (list[2] \ list[1])) \ (excl[1] \cup excl[2])

(* The folders of either store that neither store excludes.                *)
MergeFolders(list, excl) == (list[1] \cup list[2]) \ (excl[1] \cup excl[2])

(* Main reaches syncgroup g when the ones before it are started or failed. *)
Turn(g) ==
    /\ g \in selected
    /\ \A h \in selected : h < g => state[h] \in {"running", "failed"}
    /\ state[g] \in {"waiting", "store1"}

(* Wrong: the configuration is left alone.                                 *)
ConfigExpungeKept(g, i) == expunge' = expunge

(* newStore turns Expunge off in the configuration of the store, which     *)
(* every syncgroup that names the store shares.                            *)
ConfigExpunge(g, i) ==
    expunge' = IF g \in FlagGroups THEN [expunge EXCEPT ![StoresOf[g][i]] = FALSE]
               ELSE expunge

(* newStore: by storetype, a new object for store i.                       *)
NewStore(g, i) == ConfigExpunge(g, i) /\ (NewImapStore(g, i) \/ NewMaildirStore(g, i))

NewStore1(g) ==
    /\ Turn(g)
    /\ state[g] = "waiting"
    /\ NewStore(g, 1)
    /\ state' = [state EXCEPT ![g] = "store1"]
    /\ UNCHANGED <<disk, pass, dryrun, selected, tosync, history, ops, faults>>

(* The second store; then the goroutine of Sync chooses the folders.       *)
NewStore2(g) ==
    /\ Turn(g)
    /\ state[g] = "store1"
    /\ NewStore(g, 2)
    /\ state' = [state EXCEPT ![g] = "running"]
    /\ tosync' = [tosync EXCEPT ![g] = MergeFolders(folders'[g], excluded'[g])]
    /\ chosen' = [chosen EXCEPT ![g] = {tosync'[g]}]
    /\ UNCHANGED <<disk, pass, dryrun, selected, first, hurt, overtaken, ops, faults>>

(* A store that cannot be reached: main goes on without the syncgroup.     *)
NewStoreFails(g) ==
    /\ Turn(g)
    /\ faults < MaxFaults
    /\ ConfigExpunge(g, IF state[g] = "waiting" THEN 1 ELSE 2)
    /\ state' = [state EXCEPT ![g] = "failed"]
    /\ faults' = faults + 1
    /\ UNCHANGED <<disk, folders, excluded, pass, dryrun, selected, tosync,
                   history, ops>>
-----------------------------------------------------------------------------
(* A pass.                                                                 *)
SyncFolder(w) ==
    /\ state[w[1]] = "running"
    /\ w[2] \in tosync[w[1]]
    /\ pass[w].pc = "idle"
    /\ Goto(w, "open")
    /\ overtaken' = overtaken \ {w}
    /\ UNCHANGED <<disk, memory, selected, state, tosync, first, hurt,
                   chosen, ops, faults>>

OpenStep(w) ==
    /\ ImapLock(w) \/ ImapStoreStep(w) \/ MaildirStoreStep(w)
    /\ UNCHANGED <<selected, state, tosync, history, ops, faults>>

(* Both folders are listed; from here on uids are compared with rows.      *)
UpdateMessageLists(w) ==
    /\ pass[w].pc = "list"
    /\ \/ /\ \E i \in {1, 2} : w[2] \notin there[StoreOf(w, i)]
          /\ Return(w)
          /\ UNCHANGED first
       \/ /\ \A i \in {1, 2} : w[2] \in there[StoreOf(w, i)]
          /\ Goto(w, "work")
          /\ first' = [s \in Store |-> [f \in Folder |->
                IF f = w[2] /\ first[s][f] = NoFile /\ w \notin overtaken
                THEN CASE s = StoreOf(w, 1) -> pass[w].id[1]
                       [] s = StoreOf(w, 2) -> pass[w].id[2]
                       [] OTHER -> NoFile
                ELSE first[s][f]]]
    /\ UNCHANGED <<disk, memory, selected, state, tosync, hurt, overtaken,
                   chosen, ops, faults>>

EndPass(w) ==
    /\ pass[w].pc = "work"
    /\ Return(w)
    /\ UNCHANGED <<disk, memory, selected, state, tosync, history, ops, faults>>

Step(w) ==
    \/ SyncFolder(w) \/ OpenStep(w) \/ UpdateMessageLists(w) \/ EndPass(w)
-----------------------------------------------------------------------------
(* Failures.                                                               *)

(* The folder exists and its identity is not complete yet.                 *)
InCreation(w) ==
    \/ pass[w].pc \in {"createMd", "fillMd", "createDir", "fillDir", "fillSaved"}
    \/ pass[w].new /\ pass[w].pc \in {"read", "compare"}

Disturbed(W) == {<<StoreAt(w), w[2]>> : w \in {v \in W : InCreation(v)}}

(* A command, a read or a write fails and GetMailfolderManager or the pass *)
(* returns the error.                                                      *)
Fail(w) ==
    /\ faults < MaxFaults
    /\ pass[w].pc \notin {"idle", "createDir", "fillDir"}
    /\ Return(w)
    /\ hurt' = hurt \cup Disturbed({w})
    /\ faults' = faults + 1
    /\ UNCHANGED <<disk, memory, selected, state, tosync, first, overtaken,
                   chosen, ops>>

(* The errors CreateFolder does not return: of MkdirAll, which it logs, and*)
(* of the write to the Maildir, which it drops.                            *)
MkdirFails(w) ==
    /\ faults < MaxFaults
    /\ pass[w].pc = "open"
    /\ StoreAt(w) \notin ImapStores
    /\ w[2] \notin Listed(w) /\ ~dryrun
    /\ pass' = [pass EXCEPT ![w].new = TRUE, ![w].pc = "read"]
    /\ hurt' = hurt \cup {<<StoreAt(w), w[2]>>}
    /\ faults' = faults + 1
    /\ UNCHANGED <<disk, memory, selected, state, tosync, first, overtaken,
                   chosen, ops>>

WriteMaildirFileFails(w) ==
    /\ faults < MaxFaults
    /\ pass[w].pc \in {"createDir", "fillDir"}
    /\ Goto(w, "slice")
    /\ hurt' = hurt \cup {<<StoreAt(w), w[2]>>}
    /\ faults' = faults + 1
    /\ UNCHANGED <<disk, memory, selected, state, tosync, first, overtaken,
                   chosen, ops>>

(* The process is killed and started again, with -n or without.            *)
Restart ==
    /\ faults < MaxFaults
    /\ \E g \in Group : state[g] # "waiting"
    /\ folders' = NoFolders
    /\ excluded' = NoFolders
    /\ expunge' = Expunge
    /\ pass' = NoWork
    /\ dryrun' \in Dryruns
    /\ state' = NotSelected
    /\ tosync' = [g \in Group |-> {}]
    /\ hurt' = hurt \cup Disturbed(Worker)
    /\ overtaken' = {}
    /\ faults' = faults + 1
    /\ UNCHANGED <<disk, selected, first, chosen, ops>>
-----------------------------------------------------------------------------
(* The outside.                                                            *)
ClientStep(op, s, f) ==
    /\ <<op, s, f>> \in Client
    /\ ops < MaxOps
    /\ hurt' = hurt \cup {<<s, f>>}
    /\ overtaken' = overtaken \cup {w \in Worker : w[2] = f /\ pass[w].pc # "idle"}
    /\ ops' = ops + 1
    /\ UNCHANGED <<meta, memory, pass, selected, state, tosync, first,
                   chosen, faults>>

ClientCreates(s, f) ==
    /\ ClientStep("create", s, f)
    /\ f \notin there[s]
    /\ there' = [there EXCEPT ![s] = @ \cup {f}]
    /\ tag' = [tag EXCEPT ![s][f] = IF s \in ImapStores THEN fresh[s][f] ELSE NoFile]
    /\ fresh' = [fresh EXCEPT ![s][f] = IF s \in ImapStores THEN @ + 1 ELSE @]

ClientDeletes(s, f) ==
    /\ ClientStep("delete", s, f)
    /\ f \in there[s]
    /\ there' = [there EXCEPT ![s] = @ \ {f}]
    /\ tag' = [tag EXCEPT ![s][f] = IF s \in ImapStores THEN @ ELSE NoFile]
    /\ UNCHANGED fresh

ServerRenumbers(s, f) ==
    /\ ClientStep("renumber", s, f)
    /\ s \in ImapStores /\ f \in there[s]
    /\ tag' = [tag EXCEPT ![s][f] = fresh[s][f]]
    /\ fresh' = [fresh EXCEPT ![s][f] = @ + 1]
    /\ UNCHANGED there

Next ==
    \/ \E g \in Group : NewStore1(g) \/ NewStore2(g) \/ NewStoreFails(g)
    \/ \E w \in Worker : Step(w) \/ Fail(w) \/ MkdirFails(w) \/ WriteMaildirFileFails(w)
    \/ Restart
    \/ \E s \in Store, f \in Folder :
          ClientCreates(s, f) \/ ClientDeletes(s, f) \/ ServerRenumbers(s, f)

Spec == Init /\ [][Next]_vars

(* Main goes on, the scheduler starts passes again and again, and a call   *)
(* returns.  A goroutine that waits for a mutex gets it in the end.        *)
FairSpec ==
    /\ Spec
    /\ WF_vars(\E g \in Group : NewStore1(g) \/ NewStore2(g))
    /\ \A w \in Worker :
        /\ WF_vars(Step(w))
        /\ SF_vars(ImapLock(w) /\ UNCHANGED <<selected, state, tosync, history, ops, faults>>)
-----------------------------------------------------------------------------
(* A folder is synchronised under one identity, through restarts, failures,*)
(* renumberings and deletions: uids and rows of different lives of a folder*)
(* are never compared.  Only what changes during a pass goes unnoticed in  *)
(* that pass, and a Maildir without folderuid has no identity to compare.  *)
IdentityKept ==
    \A w \in Worker : pass[w].pc = "work" /\ w \notin overtaken =>
        \A i \in {1, 2} : LET s == StoreOf(w, i) IN
            /\ pass[w].id[i] = first[s][w[2]]
            /\ pass[w].id[i] = tag[s][w[2]]

(* The two sides of the identity disagree, and the folder will be refused. *)
Torn(s, f) ==
    /\ f \in there[s]
    /\ meta[s][f] # tag[s][f] \/ meta[s][f] = Empty
    /\ s \in ImapStores => meta[s][f] # NoFile

(* Races between goroutines, lost appends and repeated creation never leave*)
(* a folder that is refused, or that is used without an identity: that     *)
(* takes a failure, a kill, or somebody else, at this very folder.         *)
OnlyHurtFoldersAreRefused ==
    /\ \A s \in Store, f \in Folder :
          Torn(s, f) => \/ <<s, f>> \in hurt
                        \/ \E w \in Worker : w[2] = f /\ StoreAt(w) = s /\ InCreation(w)
    /\ \A w \in Worker, i \in {1, 2} :
          pass[w].pc = "work" /\ pass[w].id[i] = NoFile
              => <<StoreOf(w, i), w[2]>> \in hurt

(* A folder is opened only for a store that accepts it and had it when the *)
(* syncgroup was made, and never when a store that had it then refuses it; *)
(* and the lost appends to m.folders do not unlist it at that store.       *)
OnlyAcceptedFoldersAreOpened ==
    \A w \in Worker : pass[w].pc # "idle" =>
        /\ \A i \in {1, 2} : w[2] \notin excluded[w[1]][i]
        /\ \E i \in {1, 2} : /\ w[2] \in folders[w[1]][i]
                             /\ Accepted(StoreOf(w, i), w[2])

(* A syncgroup with deletemode flag never expunges, although it shares the *)
(* configuration of its stores with syncgroups that do.                    *)
FlagGroupsNeverExpunge ==
    \A w \in Worker : w[1] \in FlagGroups => ~pass[w].expunges

(* Without the help of others a restart chooses the same folders again,    *)
(* whatever the last process had created or was creating; except that it   *)
(* drops what was created in a store whose patterns refuse it.             *)
Alone(g) ==
    \A h \in selected \ {g}, i, j \in {1, 2} : StoresOf[g][i] # StoresOf[h][j]

RestartsChooseAlike ==
    [][\A g \in Group : \A last \in chosen[g] :
          state'[g] = "running" /\ state[g] # "running" /\ Alone(g) /\ ops = 0 =>
              /\ tosync'[g] \subseteq last
              /\ \A f \in last \ tosync'[g] :
                    \E i \in {1, 2} : ~Accepted(StoresOf[g][i], f)]_vars

(* What a store answers with an error until somebody intervenes: a folder  *)
(* that was deleted, one whose identity is torn, a mailbox that was created*)
(* behind the back of the store object, and one a dry run would create.    *)
Refused(g, f) ==
    \E i \in {1, 2} : LET s == StoresOf[g][i] IN
        \/ Torn(s, f)
        \/ f \notin there[s] /\ f \in folders[g][i]
        \/ f \in there[s] /\ f \notin folders[g][i] /\ s \in ImapStores
        \/ f \notin folders[g][i] /\ s \notin ImapStores /\ dryrun

(* Every folder of a syncgroup is synchronised again and again, unless it  *)
(* is refused for good: a folder whose append to m.folders was lost is     *)
(* created once more, and no goroutine waits for ever for a store.         *)
FoldersAreOpened ==
    \A w \in Worker :
        \/ []<>(pass[w].pc = "work")
        \/ <>[](w[2] \notin tosync[w[1]] \/ Refused(w[1], w[2]))
=============================================================================
