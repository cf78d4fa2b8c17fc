--------------------------- MODULE SyncgroupProofs ---------------------------
(***************************************************************************)
(* What holds of the syncgroups and their stores for every configuration,  *)
(* every set of folders and any number of operations, failures and kills.  *)
(***************************************************************************)
EXTENDS Syncgroup, TLAPS

(* Every store belongs to one syncgroup, once.                             *)
NotShared ==
    \A g, h \in Group, i, j \in {1, 2} :
        StoresOf[g][i] = StoresOf[h][j] => g = h /\ i = j

(* A folder is in work only if its syncgroup chose it when it was started, *)
(* and it chooses none that a store excludes.                              *)
ChoiceInv ==
    /\ \A g \in Group, i \in {1, 2} :
          state[g] = "running" => tosync[g] \cap excluded[g][i] = {}
    /\ \A w \in Worker :
          pass[w].pc # "idle" => state[w[1]] = "running" /\ w[2] \in tosync[w[1]]

(* What newStore knows of the first store before the second one is made.   *)
FirstAccepted(g) ==
    \A f \in folders[g][1] \ excluded[g][1] : Accepted(StoresOf[g][1], f)

(* The stores have had the folders of "have" since g was started: for each *)
(* that g chose there is one that accepts it, and no append can lose them. *)
StartedFrom(g, have) ==
    /\ \A f \in tosync[g] : \E i \in {1, 2} :
          f \in have[i] /\ Accepted(StoresOf[g][i], f)
    /\ \A i \in {1, 2} : have[i] \subseteq folders[g][i]
    /\ \A w \in Worker : w[1] = g /\ pass[w].pc = "append" =>
          have[pass[w].at] \subseteq pass[w].slice

StartedInv ==
    \A g \in Group :
        /\ state[g] = "store1" => FirstAccepted(g)
        /\ state[g] = "running" =>
              \E have \in [{1, 2} -> SUBSET Folder] : StartedFrom(g, have)

(* The configuration of a store of a flag group is cleared when the object *)
(* is made, before any folder is opened, and stays so.                     *)
ExpungeInv ==
    \A g \in Group : g \in FlagGroups =>
        /\ state[g] \in {"store1", "running"} => expunge[StoresOf[g][1]] = FALSE
        /\ state[g] = "running" => expunge[StoresOf[g][2]] = FALSE
        /\ \A w \in Worker : w[1] = g => pass[w].expunges = FALSE

(* What is known of goroutine w's folder on store i: the metadata, the     *)
(* store itself, the history, and whether the folder exists.               *)
Saved(w, i) == meta[StoreOf(w, i)][w[2]]
Told(w, i) == tag[StoreOf(w, i)][w[2]]
First(w, i) == first[StoreOf(w, i)][w[2]]
Here(w, i) == w[2] \in there[StoreOf(w, i)]

(* Whether w has opened the folder on store i, or is opening it.           *)
Took(w, i) == pass[w].at > i \/ pass[w].pc \in {"list", "work"}
Takes(w, i) == pass[w].at = i /\ pass[w].pc \notin {"list", "work"}

Selected == {"saved", "createSaved", "fillSaved", "connect"}
Generated == {"createMd", "fillMd", "createDir", "fillDir"}

(* What w has in hand while it opens the folder.                           *)
HandInv(w, i) ==
    LET pc == pass[w].pc
        uid == pass[w].uid
    IN
    /\ pc \in ImapSteps => StoreOf(w, i) \in ImapStores
    /\ pc \in MaildirCreation \cup {"read", "compare"} => StoreOf(w, i) \notin ImapStores
    /\ pc \in Selected \cup Generated => uid \in Identity
    /\ pc \in Selected /\ w \notin overtaken => uid = Told(w, i)
    /\ pc \in {"connect", "compare"} => uid = Saved(w, i) /\ uid # Empty
    /\ pc \in {"createMd", "createSaved"} => Saved(w, i) = NoFile
    /\ pc \in {"fillMd", "fillSaved"} => Saved(w, i) = Empty

(* The identity a folder was first used under is the one in the metadata,  *)
(* and so is the one it is opened under; unless somebody interfered, it is *)
(* what the store says.                                                    *)
IdentityInv(w, i) ==
    /\ First(w, i) # NoFile => First(w, i) = Saved(w, i) /\ First(w, i) # Empty
    /\ pass[w].pc = "idle" => pass[w].at = 1
    /\ Took(w, i) => pass[w].id[i] = Saved(w, i) /\ pass[w].id[i] # Empty
    /\ Took(w, i) /\ w \notin overtaken => pass[w].id[i] = Told(w, i)
    /\ Takes(w, i) => HandInv(w, i)
    /\ pass[w].pc = "work" /\ w \notin overtaken => pass[w].id[i] = First(w, i)
    /\ StoreOf(w, i) \in ImapStores /\ Here(w, i) => Told(w, i) \in Identity

WorkInv == \A w \in Worker, i \in {1, 2} : IdentityInv(w, i)
-----------------------------------------------------------------------------
(* The step moves no other goroutine than w.                               *)
Moves(w) ==
    /\ pass' \in [Worker -> Pass]
    /\ \A v \in Worker : v # w => pass'[v] = pass[v]

LEMMA WorkerType ==
    ASSUME NEW w \in Worker, pass \in [Worker -> Pass]
    PROVE  /\ w[1] \in Group /\ w[2] \in Folder
           /\ pass[w] \in Pass
           /\ StoreAt(w) \in Store
           /\ \A i \in {1, 2} : StoreOf(w, i) \in Store
<1>1. w[1] \in Group /\ w[2] \in Folder
  BY WorkerAssumption
<1>2. pass[w] \in Pass /\ pass[w].at \in {1, 2}
  BY DEF Pass
<1>3. \A i \in {1, 2} : StoreOf(w, i) \in Store
  BY <1>1, StoresOfAssumption DEF StoreOf
<1> QED
  BY <1>1, <1>2, <1>3 DEF StoreAt

LEMMA ReturnMoves ==
    ASSUME NEW w \in Worker, pass \in [Worker -> Pass], Return(w)
    PROVE  /\ Moves(w)
           /\ pass'[w] = Idle
           /\ pass'[w].pc = "idle" /\ pass'[w].at = 1 /\ pass'[w].expunges = FALSE
<1>1. Idle \in Pass
  BY DEF Idle, Pass, Steps, Tag
<1> QED
  BY <1>1 DEF Return, Moves, Idle

LEMMA GotoMoves ==
    ASSUME NEW w \in Worker, pass \in [Worker -> Pass], NEW pc \in Steps, Goto(w, pc)
    PROVE  /\ Moves(w)
           /\ pass'[w].pc = pc
           /\ pass'[w].at = pass[w].at
           /\ pass'[w].uid = pass[w].uid
           /\ pass'[w].id = pass[w].id
           /\ pass'[w].new = pass[w].new
           /\ pass'[w].slice = pass[w].slice
           /\ pass'[w].expunges = pass[w].expunges
<1>1. pass[w] \in Pass
  OBVIOUS
<1>2. [pass[w] EXCEPT !.pc = pc] \in Pass
  BY <1>1 DEF Pass
<1>3. pass' = [pass EXCEPT ![w] = [pass[w] EXCEPT !.pc = pc]]
  BY DEF Goto
<1> QED
  BY <1>1, <1>2, <1>3 DEF Moves, Pass

LEMMA OpenedMoves ==
    ASSUME NEW w \in Worker, pass \in [Worker -> Pass], NEW uid \in Tag,
           NEW expunges \in BOOLEAN, Opened(w, uid, expunges)
    PROVE  /\ Moves(w)
           /\ pass'[w].pc = IF pass[w].at = 1 THEN "open" ELSE "list"
           /\ pass'[w].at = 2
           /\ pass'[w].id = [pass[w].id EXCEPT ![pass[w].at] = uid]
           /\ pass'[w].expunges = (pass[w].expunges \/ expunges)
<1> DEFINE p == [pass[w] EXCEPT !.id[pass[w].at] = uid,
                                !.expunges = @ \/ expunges,
                                !.at = 2,
                                !.new = FALSE,
                                !.uid = NoFile,
                                !.slice = {},
                                !.pc = IF pass[w].at = 1 THEN "open" ELSE "list"]
<1>1. pass[w] \in Pass
  OBVIOUS
<1>2. pass' = [pass EXCEPT ![w] = p]
  BY DEF Opened
<1>3. (pass[w].expunges \/ expunges) \in BOOLEAN
  OBVIOUS
<1>4. p \in Pass
  BY <1>1, <1>3 DEF Pass, Steps, Tag
<1> QED
  BY <1>1, <1>2, <1>4 DEF Moves, Pass
-----------------------------------------------------------------------------
(* Types.                                                                  *)
LEMMA InitType == Init => TypeOK
<1> SUFFICES ASSUME Init PROVE TypeOK
  OBVIOUS
<1>1. PICK now \in Situations :
        /\ selected = now.selected
        /\ there = now.there
        /\ ops = IF now.quiet THEN MaxOps ELSE 0
  BY DEF Init
<1>2. /\ selected \subseteq Group
      /\ there \in [Store -> SUBSET Folder]
      /\ ops \in 0 .. MaxOps
  BY <1>1, SituationsAssumption, BoundsAssumption
<1>3. /\ tag \in [Store -> [Folder -> Tag]]
      /\ meta \in [Store -> [Folder -> Tag]]
      /\ fresh \in [Store -> [Folder -> Identity]]
      /\ first \in [Store -> [Folder -> Tag]]
  BY DEF Init, Tag, Identity, NoFile, Empty
<1>4. Idle \in Pass
  BY DEF Idle, Pass, Steps, Tag
<1>5. /\ pass \in [Worker -> Pass]
      /\ folders \in [Group -> [{1, 2} -> SUBSET Folder]]
      /\ excluded \in [Group -> [{1, 2} -> SUBSET Folder]]
      /\ state \in [Group -> {"waiting", "store1", "running", "failed"}]
      /\ tosync \in [Group -> SUBSET Folder]
      /\ chosen \in [Group -> SUBSET SUBSET Folder]
  BY <1>4 DEF Init, NoWork, NoFolders, NotSelected
<1>6. /\ expunge \in [Store -> BOOLEAN]
      /\ dryrun \in BOOLEAN
      /\ hurt \subseteq Store \X Folder
      /\ overtaken \subseteq Worker
      /\ faults \in 0 .. MaxFaults
  BY ExpungeAssumption, DryrunsAssumption, BoundsAssumption DEF Init
<1> QED
  BY <1>2, <1>3, <1>5, <1>6 DEF TypeOK

LEMMA NewObjectType ==
    ASSUME TypeOK, NEW g \in Group, NEW i \in {1, 2}, NewStore(g, i)
    PROVE  /\ folders' \in [Group -> [{1, 2} -> SUBSET Folder]]
           /\ excluded' \in [Group -> [{1, 2} -> SUBSET Folder]]
           /\ expunge' \in [Store -> BOOLEAN]
<1>1. StoresOf[g][i] \in Store
  BY StoresOfAssumption
<1>2. UpdateFolderList(g, i) /\ ConfigExpunge(g, i)
  BY DEF NewStore, NewImapStore, NewMaildirStore
<1>3. there[StoresOf[g][i]] \subseteq Folder
  BY <1>1 DEF TypeOK
<1>4. /\ folders' \in [Group -> [{1, 2} -> SUBSET Folder]]
      /\ excluded' \in [Group -> [{1, 2} -> SUBSET Folder]]
  BY <1>2, <1>3 DEF TypeOK, UpdateFolderList
<1>5. expunge' \in [Store -> BOOLEAN]
  BY <1>1, <1>2 DEF TypeOK, ConfigExpunge
<1> QED
  BY <1>4, <1>5

LEMMA GroupType ==
    ASSUME TypeOK, NEW g \in Group, NewStore1(g) \/ NewStore2(g) \/ NewStoreFails(g)
    PROVE  TypeOK'
<1>1. CASE NewStore1(g)
  BY <1>1, NewObjectType DEF NewStore1, TypeOK, disk, history
<1>2. CASE NewStore2(g)
  <2>1. /\ folders' \in [Group -> [{1, 2} -> SUBSET Folder]]
        /\ excluded' \in [Group -> [{1, 2} -> SUBSET Folder]]
        /\ expunge' \in [Store -> BOOLEAN]
    BY <1>2, NewObjectType DEF NewStore2
  <2>2. MergeFolders(folders'[g], excluded'[g]) \subseteq Folder
    BY <2>1 DEF MergeFolders
  <2>3. tosync' \in [Group -> SUBSET Folder]
    BY <1>2, <2>2 DEF NewStore2, TypeOK
  <2>4. chosen' \in [Group -> SUBSET SUBSET Folder]
    BY <1>2, <2>3 DEF NewStore2, TypeOK
  <2> QED
    BY <1>2, <2>1, <2>3, <2>4 DEF NewStore2, TypeOK, disk
<1>3. CASE NewStoreFails(g)
  <2>1. \A i \in {1, 2} : StoresOf[g][i] \in Store
    BY StoresOfAssumption
  <2>2. expunge' \in [Store -> BOOLEAN]
    BY <1>3, <2>1 DEF NewStoreFails, ConfigExpunge, TypeOK
  <2>3. faults' \in 0 .. MaxFaults
    BY <1>3, BoundsAssumption DEF NewStoreFails, TypeOK
  <2> QED
    BY <1>3, <2>2, <2>3 DEF NewStoreFails, TypeOK, disk, history
<1> QED
  BY <1>1, <1>2, <1>3

(* The part of the state that the steps of GetMailfolderManager write.     *)
StoreType ==
    /\ there \in [Store -> SUBSET Folder]
    /\ tag \in [Store -> [Folder -> Tag]]
    /\ meta \in [Store -> [Folder -> Tag]]
    /\ fresh \in [Store -> [Folder -> Identity]]
    /\ folders \in [Group -> [{1, 2} -> SUBSET Folder]]
    /\ excluded \in [Group -> [{1, 2} -> SUBSET Folder]]
    /\ expunge \in [Store -> BOOLEAN]
    /\ dryrun \in BOOLEAN
    /\ pass \in [Worker -> Pass]

LEMMA ImapType ==
    ASSUME StoreType, NEW w \in Worker, ImapLock(w) \/ ImapStoreStep(w)
    PROVE  StoreType' /\ Moves(w)
<1> USE DEF StoreType
<1>0. /\ w[1] \in Group /\ w[2] \in Folder
      /\ pass[w] \in Pass
      /\ StoreAt(w) \in Store
  BY WorkerType
<1>a. /\ pass[w].at \in {1, 2} /\ pass[w].uid \in Tag
      /\ fresh[StoreAt(w)][w[2]] \in Identity
      /\ fresh[StoreAt(w)][w[2]] + 1 \in Identity
      /\ tag[StoreAt(w)][w[2]] \in Tag
      /\ expunge[StoreAt(w)] \in BOOLEAN
  BY <1>0 DEF Pass, Identity, Empty
<1>b. Empty \in Tag /\ Identity \subseteq Tag
  BY DEF Tag
<1>c. {"idle", "open", "create", "select", "saved", "createSaved", "fillSaved", "connect"}
          \subseteq Steps
  BY DEF Steps, ImapSteps
<1>1. CASE ImapLock(w)
  <2>1. PICK pc \in Steps : Goto(w, pc)
    BY <1>1, <1>c DEF ImapLock
  <2> QED
    BY <1>1, <2>1, GotoMoves DEF ImapLock, disk, memory, Moves
<1>2. CASE ImapCreateFolder(w)
  <2>1. CASE w[2] \in there[StoreAt(w)]
    BY <1>2, <2>1, ReturnMoves DEF ImapCreateFolder, disk, Moves
  <2>2. CASE w[2] \notin there[StoreAt(w)]
    <3>0. /\ there' = [there EXCEPT ![StoreAt(w)] = @ \cup {w[2]}]
          /\ tag' = [tag EXCEPT ![StoreAt(w)][w[2]] = fresh[StoreAt(w)][w[2]]]
          /\ fresh' = [fresh EXCEPT ![StoreAt(w)][w[2]] = @ + 1]
          /\ folders' = [folders EXCEPT ![w[1]][pass[w].at] = @ \cup {w[2]}]
          /\ UNCHANGED <<meta, excluded, expunge, dryrun>>
          /\ Goto(w, "select")
      BY <1>2, <2>2 DEF ImapCreateFolder
    <3>1. Goto(w, "select")
      BY <3>0
    <3>2. Moves(w)
      BY <3>1, <1>c, GotoMoves
    <3>3. there' \in [Store -> SUBSET Folder]
      BY <1>0, <3>0
    <3>4. /\ tag' \in [Store -> [Folder -> Tag]]
          /\ fresh' \in [Store -> [Folder -> Identity]]
      BY <1>0, <3>0, <1>a, <1>b
    <3>5. folders' \in [Group -> [{1, 2} -> SUBSET Folder]]
      BY <1>0, <3>0, <1>a
    <3> QED
      BY <3>0, <3>2, <3>3, <3>4, <3>5 DEF Moves
  <2> QED
    BY <2>1, <2>2
<1>3. CASE ImapSelect(w)
  <2>1. Moves(w)
    <3>1. CASE Return(w)
      BY <3>1, ReturnMoves
    <3>2. CASE pass' = [pass EXCEPT ![w].uid = tag[StoreAt(w)][w[2]], ![w].pc = "saved"]
      BY <3>2, <1>0, <1>a, <1>c DEF Moves, Pass
    <3> QED
      BY <1>3, <3>1, <3>2 DEF ImapSelect
  <2> QED
    BY <1>3, <2>1 DEF ImapSelect, disk, memory, Moves
<1>4. CASE ImapSavedUIDValidity(w)
  BY <1>4, <1>c, GotoMoves, ReturnMoves DEF ImapSavedUIDValidity, disk, memory, Moves
<1>5. CASE ImapCreateUIDValidity(w)
  BY <1>5, <1>0, <1>b, <1>c, GotoMoves DEF ImapCreateUIDValidity, memory, Moves
<1>6. CASE ImapWriteUIDValidity(w)
  BY <1>6, <1>0, <1>a, <1>c, GotoMoves DEF ImapWriteUIDValidity, memory, Moves
<1>7. CASE NewImapFolder(w)
  BY <1>7, <1>a, OpenedMoves, ReturnMoves DEF NewImapFolder, disk, memory, Moves
<1> QED
  BY <1>1, <1>2, <1>3, <1>4, <1>5, <1>6, <1>7 DEF ImapStoreStep

LEMMA MaildirType ==
    ASSUME StoreType, NEW w \in Worker, MaildirStoreStep(w)
    PROVE  StoreType' /\ Moves(w)
<1> USE DEF StoreType
<1>0. /\ w[1] \in Group /\ w[2] \in Folder
      /\ pass[w] \in Pass
      /\ StoreAt(w) \in Store
  BY WorkerType
<1>a. /\ pass[w].at \in {1, 2} /\ pass[w].uid \in Tag /\ pass[w].slice \subseteq Folder
      /\ fresh[StoreAt(w)][w[2]] \in Identity
      /\ fresh[StoreAt(w)][w[2]] + 1 \in Identity
      /\ meta[StoreAt(w)][w[2]] \in Tag
      /\ Listed(w) \subseteq Folder
  BY <1>0 DEF Pass, Identity, Empty, Listed
<1>b. Empty \in Tag /\ Identity \subseteq Tag
  BY DEF Tag
<1>c. {"idle", "read", "compare"} \cup MaildirCreation \subseteq Steps
  BY DEF Steps
<1>d. MaildirCreation = {"createMd", "fillMd", "createDir", "fillDir", "slice", "append"}
  BY DEF MaildirCreation
<1>1. CASE MaildirHasFolder(w)
  BY <1>1, <1>0, <1>c DEF MaildirHasFolder, memory, Moves, Pass
<1>2. CASE ReadFolderUID(w)
  <2>1. Moves(w)
    <3>1. CASE Return(w)
      BY <3>1, ReturnMoves
    <3>2. CASE pass' = [pass EXCEPT ![w].uid = meta[StoreAt(w)][w[2]], ![w].pc = "compare"]
      BY <3>2, <1>0, <1>a, <1>c DEF Moves, Pass
    <3> QED
      BY <1>2, <3>1, <3>2 DEF ReadFolderUID
  <2> QED
    BY <1>2, <2>1 DEF ReadFolderUID, disk, memory, Moves
<1>3. CASE GetFolderUID(w)
  <2>1. CASE Return(w) /\ UNCHANGED fresh
    BY <1>3, <2>1, ReturnMoves DEF GetFolderUID, memory, Moves
  <2>2. CASE CreateFolder(w)
    <3>1. CASE /\ pass' = [pass EXCEPT ![w].uid = fresh[StoreAt(w)][w[2]], ![w].pc = "createMd"]
               /\ fresh' = [fresh EXCEPT ![StoreAt(w)][w[2]] = @ + 1]
      BY <1>3, <3>1, <1>0, <1>a, <1>b, <1>c, <1>d DEF GetFolderUID, memory, Moves, Pass
    <3>2. CASE Goto(w, "slice") /\ UNCHANGED fresh
      BY <1>3, <3>2, <1>c, <1>d, GotoMoves DEF GetFolderUID, memory, Moves
    <3> QED
      BY <2>2, <3>1, <3>2 DEF CreateFolder
  <2>3. CASE TakeFolder(w) /\ UNCHANGED fresh
    <3>1. Moves(w)
      BY <2>3, <1>a, OpenedMoves, ReturnMoves DEF TakeFolder
    <3> QED
      BY <1>3, <2>3, <3>1 DEF GetFolderUID, memory, Moves
  <2> QED
    BY <1>3, <2>1, <2>2, <2>3 DEF GetFolderUID
<1>4. CASE CreateMetadataFile(w)
  BY <1>4, <1>0, <1>b, <1>c, <1>d, GotoMoves DEF CreateMetadataFile, memory, Moves
<1>5. CASE WriteMetadataFile(w)
  BY <1>5, <1>0, <1>a, <1>c, <1>d, GotoMoves DEF WriteMetadataFile, memory, Moves
<1>6. CASE CreateMaildirFile(w)
  <2>1. Moves(w)
    BY <1>6, <1>c, <1>d, GotoMoves DEF CreateMaildirFile
  <2>2. tag' = tag \/ tag' = [tag EXCEPT ![StoreAt(w)][w[2]] = Empty]
    BY <1>6 DEF CreateMaildirFile
  <2>3. tag' \in [Store -> [Folder -> Tag]]
    <3>1. CASE tag' = tag
      BY <3>1
    <3>2. CASE tag' = [tag EXCEPT ![StoreAt(w)][w[2]] = Empty]
      BY <3>2, <1>0, <1>b
    <3> QED
      BY <2>2, <3>1, <3>2
  <2> QED
    BY <1>6, <2>1, <2>3 DEF CreateMaildirFile, memory, Moves
<1>7. CASE WriteMaildirFile(w)
  BY <1>7, <1>0, <1>a, <1>c, <1>d, GotoMoves DEF WriteMaildirFile, memory, Moves
<1>8. CASE ReadFolders(w)
  BY <1>8, <1>a, <1>c, <1>d DEF ReadFolders, disk, memory, Moves, Pass
<1>9. CASE AppendFolder(w)
  BY <1>9, <1>0, <1>a, <1>c DEF AppendFolder, disk, Moves, Pass
<1> QED
  BY <1>1, <1>2, <1>3, <1>4, <1>5, <1>6, <1>7, <1>8, <1>9 DEF MaildirStoreStep

LEMMA StepType ==
    ASSUME TypeOK, NEW w \in Worker, Step(w)
    PROVE  TypeOK' /\ Moves(w)
<1>0. StoreType
  BY DEF TypeOK, StoreType
<1>1. CASE SyncFolder(w)
  <2>1. Moves(w)
    BY <1>1, GotoMoves DEF SyncFolder, TypeOK, Steps
  <2> QED
    BY <1>1, <2>1 DEF SyncFolder, TypeOK, disk, memory, Moves
<1>2. CASE OpenStep(w)
  <2>1. StoreType' /\ Moves(w)
    BY <1>0, <1>2, ImapType, MaildirType DEF OpenStep
  <2> QED
    BY <1>2, <2>1 DEF OpenStep, TypeOK, StoreType, history
<1>3. CASE UpdateMessageLists(w)
  <2>1. Moves(w)
    BY <1>3, GotoMoves, ReturnMoves DEF UpdateMessageLists, TypeOK, Steps
  <2>2. pass[w].id[1] \in Tag /\ pass[w].id[2] \in Tag /\ NoFile \in Tag
    BY DEF TypeOK, Pass, Tag
  <2>3. first' \in [Store -> [Folder -> Tag]]
    <3>1. CASE first' = first
      BY <3>1 DEF TypeOK
    <3>2. CASE first' = [s \in Store |-> [f \in Folder |->
                 IF f = w[2] /\ first[s][f] = NoFile /\ w \notin overtaken
                 THEN CASE s = StoreOf(w, 1) -> pass[w].id[1]
                        [] s = StoreOf(w, 2) -> pass[w].id[2]
                        [] OTHER -> NoFile
                 ELSE first[s][f]]]
      BY <2>2, <3>2 DEF TypeOK
    <3> QED
      BY <1>3, <3>1, <3>2 DEF UpdateMessageLists
  <2> QED
    BY <1>3, <2>1, <2>3 DEF UpdateMessageLists, TypeOK, disk, memory, Moves
<1>4. CASE EndPass(w)
  BY <1>4, ReturnMoves DEF EndPass, TypeOK, disk, memory, history, Moves
<1> QED
  BY <1>1, <1>2, <1>3, <1>4 DEF Step

LEMMA FailureType ==
    ASSUME TypeOK, NEW w \in Worker, Fail(w) \/ MkdirFails(w) \/ WriteMaildirFileFails(w)
    PROVE  TypeOK' /\ Moves(w)
<1>1. \A v \in Worker : StoreAt(v) \in Store /\ v[2] \in Folder
  BY WorkerType DEF TypeOK
<1>2. faults < MaxFaults => faults + 1 \in 0 .. MaxFaults
  BY BoundsAssumption DEF TypeOK
<1>3. CASE Fail(w)
  <2>1. Disturbed({w}) \subseteq Store \X Folder
    BY <1>1 DEF Disturbed
  <2>2. Moves(w)
    BY <1>3, ReturnMoves DEF Fail, TypeOK
  <2> QED
    BY <1>2, <1>3, <2>1, <2>2 DEF Fail, TypeOK, disk, memory, Moves
<1>4. CASE MkdirFails(w)
  <2>1. Moves(w)
    <3>1. pass' = [pass EXCEPT ![w].new = TRUE, ![w].pc = "read"]
      BY <1>4 DEF MkdirFails
    <3>2. pass \in [Worker -> Pass] /\ pass[w] \in Pass /\ "read" \in Steps
      BY DEF TypeOK, Steps
    <3> QED
      BY <3>1, <3>2 DEF Moves, Pass
  <2> QED
    BY <1>1, <1>2, <1>4, <2>1 DEF MkdirFails, TypeOK, disk, memory, Moves
<1>5. CASE WriteMaildirFileFails(w)
  <2>1. Moves(w)
    BY <1>5, GotoMoves DEF WriteMaildirFileFails, TypeOK, Steps, MaildirCreation
  <2> QED
    BY <1>1, <1>2, <1>5, <2>1 DEF WriteMaildirFileFails, TypeOK, disk, memory, Moves
<1> QED
  BY <1>3, <1>4, <1>5

LEMMA RestartType == ASSUME TypeOK, Restart PROVE TypeOK'
<1>1. Idle \in Pass
  BY DEF Idle, Pass, Steps, Tag
<1>2. Disturbed(Worker) \subseteq Store \X Folder
  BY WorkerType DEF TypeOK, Disturbed
<1>3. faults' \in 0 .. MaxFaults
  BY BoundsAssumption DEF TypeOK, Restart
<1>4. /\ expunge' \in [Store -> BOOLEAN]
      /\ dryrun' \in BOOLEAN
  BY ExpungeAssumption, DryrunsAssumption DEF Restart
<1>5. /\ pass' \in [Worker -> Pass]
      /\ folders' \in [Group -> [{1, 2} -> SUBSET Folder]]
      /\ excluded' \in [Group -> [{1, 2} -> SUBSET Folder]]
      /\ state' \in [Group -> {"waiting", "store1", "running", "failed"}]
      /\ tosync' \in [Group -> SUBSET Folder]
  BY <1>1 DEF Restart, NoWork, NoFolders, NotSelected
<1> QED
  BY <1>2, <1>3, <1>4, <1>5 DEF Restart, TypeOK, disk

LEMMA OutsideType ==
    ASSUME TypeOK, NEW s \in Store, NEW f \in Folder,
           ClientCreates(s, f) \/ ClientDeletes(s, f) \/ ServerRenumbers(s, f)
    PROVE  TypeOK'
<1>1. PICK op : ClientStep(op, s, f)
  BY DEF ClientCreates, ClientDeletes, ServerRenumbers
<1>2. /\ ops' \in 0 .. MaxOps
      /\ hurt' \subseteq Store \X Folder
      /\ overtaken' \subseteq Worker
  BY <1>1, BoundsAssumption DEF ClientStep, TypeOK
<1>3. fresh[s][f] \in Identity /\ fresh[s][f] + 1 \in Identity
  BY DEF TypeOK, Identity, Empty
<1>4. Identity \subseteq Tag /\ NoFile \in Tag
  BY DEF Tag
<1>5. /\ there' \in [Store -> SUBSET Folder]
      /\ tag' \in [Store -> [Folder -> Tag]]
      /\ fresh' \in [Store -> [Folder -> Identity]]
  <2>1. CASE ClientCreates(s, f)
    BY <2>1, <1>3, <1>4 DEF ClientCreates, TypeOK
  <2>2. CASE ClientDeletes(s, f)
    BY <2>2, <1>3, <1>4 DEF ClientDeletes, TypeOK
  <2>3. CASE ServerRenumbers(s, f)
    BY <2>3, <1>3, <1>4 DEF ServerRenumbers, TypeOK
  <2> QED
    BY <2>1, <2>2, <2>3
<1> QED
  BY <1>1, <1>2, <1>5 DEF ClientStep, TypeOK, memory

LEMMA NextType == TypeOK /\ [Next]_vars => TypeOK'
<1> SUFFICES ASSUME TypeOK, [Next]_vars PROVE TypeOK'
  OBVIOUS
<1>1. CASE UNCHANGED vars
  BY <1>1 DEF TypeOK, vars, disk, memory, history
<1>2. CASE Next
  BY <1>2, GroupType, StepType, FailureType, RestartType, OutsideType DEF Next
<1> QED
  BY <1>1, <1>2

(* Every variable of the program, its files and its stores keeps its type, *)
(* whatever the configuration and whatever the outside does.               *)
THEOREM SyncgroupTypeCorrect == Spec => []TypeOK
BY InitType, NextType, PTL DEF Spec
-----------------------------------------------------------------------------
(* The choice of folders, and what the configuration says of them.         *)

(* A goroutine leaves the choice and the configuration alone, and works    *)
(* only after SyncFolder started it.                                       *)
LEMMA StepKeepsChoice ==
    ASSUME NEW w \in Worker, Step(w)
    PROVE  /\ UNCHANGED <<excluded, expunge, state, tosync>>
           /\ SyncFolder(w) \/ pass[w].pc # "idle"
<1>1. CASE SyncFolder(w)
  BY <1>1 DEF SyncFolder, memory
<1>2. CASE OpenStep(w)
  <2>1. UNCHANGED <<state, tosync>>
    BY <1>2 DEF OpenStep
  <2>2. CASE ImapLock(w) \/ ImapStoreStep(w)
    BY <2>1, <2>2 DEF ImapStoreStep, ImapLock, ImapCreateFolder, ImapSelect,
        ImapSavedUIDValidity, ImapCreateUIDValidity, ImapWriteUIDValidity, NewImapFolder, memory
  <2>3. CASE MaildirStoreStep(w)
    BY <2>1, <2>3 DEF MaildirStoreStep, MaildirHasFolder, ReadFolderUID, GetFolderUID,
        CreateMetadataFile, WriteMetadataFile, CreateMaildirFile, WriteMaildirFile,
        ReadFolders, AppendFolder, memory
  <2> QED
    BY <1>2, <2>2, <2>3 DEF OpenStep
<1>3. CASE UpdateMessageLists(w)
  BY <1>3 DEF UpdateMessageLists, memory
<1>4. CASE EndPass(w)
  BY <1>4 DEF EndPass, memory
<1> QED
  BY <1>1, <1>2, <1>3, <1>4 DEF Step

LEMMA FailureKeepsChoice ==
    ASSUME NEW w \in Worker, Fail(w) \/ MkdirFails(w) \/ WriteMaildirFileFails(w)
    PROVE  /\ UNCHANGED <<excluded, expunge, state, tosync>>
           /\ pass[w].pc # "idle"
<1>1. CASE Fail(w)
  BY <1>1 DEF Fail, memory
<1>2. CASE MkdirFails(w)
  BY <1>2 DEF MkdirFails, memory
<1>3. CASE WriteMaildirFileFails(w)
  BY <1>3 DEF WriteMaildirFileFails, memory
<1> QED
  BY <1>1, <1>2, <1>3

LEMMA OutsideKeepsMemory ==
    ASSUME NEW s \in Store, NEW f \in Folder,
           ClientCreates(s, f) \/ ClientDeletes(s, f) \/ ServerRenumbers(s, f)
    PROVE  UNCHANGED <<excluded, expunge, state, tosync, pass, first, meta>>
BY DEF ClientCreates, ClientDeletes, ServerRenumbers, ClientStep, memory

LEMMA ChoiceInvariant == TypeOK /\ ChoiceInv /\ [Next]_vars => ChoiceInv'
<1> SUFFICES ASSUME TypeOK, ChoiceInv, [Next]_vars PROVE ChoiceInv'
  OBVIOUS
<1>0. \A w \in Worker : w[1] \in Group
  BY WorkerType DEF TypeOK
<1>1. ASSUME NEW g \in Group, NewStore1(g) PROVE ChoiceInv'
  <2>1. /\ state[g] = "waiting" /\ state' = [state EXCEPT ![g] = "store1"]
        /\ UNCHANGED <<pass, tosync>>
        /\ UpdateFolderList(g, 1)
    BY <1>1 DEF NewStore1, NewStore, NewImapStore, NewMaildirStore
  <2>2. \A h \in Group : h # g => excluded'[h] = excluded[h] /\ state'[h] = state[h]
    BY <2>1 DEF UpdateFolderList, TypeOK
  <2>3. state'[g] = "store1"
    BY <2>1 DEF TypeOK
  <2> QED
    BY <1>0, <2>1, <2>2, <2>3 DEF ChoiceInv
<1>2. ASSUME NEW g \in Group, NewStore2(g) PROVE ChoiceInv'
  <2>1. /\ state[g] = "store1" /\ state' = [state EXCEPT ![g] = "running"]
        /\ tosync' = [tosync EXCEPT ![g] = MergeFolders(folders'[g], excluded'[g])]
        /\ UNCHANGED pass
        /\ UpdateFolderList(g, 2)
    BY <1>2 DEF NewStore2, NewStore, NewImapStore, NewMaildirStore
  <2>2. \A h \in Group : h # g =>
            excluded'[h] = excluded[h] /\ state'[h] = state[h] /\ tosync'[h] = tosync[h]
    BY <2>1 DEF UpdateFolderList, TypeOK
  <2>3. tosync'[g] = MergeFolders(folders'[g], excluded'[g])
    BY <2>1 DEF TypeOK
  <2>4. \A i \in {1, 2} : tosync'[g] \cap excluded'[g][i] = {}
    BY <2>3 DEF MergeFolders
  <2> QED
    BY <1>0, <2>1, <2>2, <2>4 DEF ChoiceInv
<1>3. ASSUME NEW g \in Group, NewStoreFails(g) PROVE ChoiceInv'
  <2>1. /\ state[g] # "running" /\ state' = [state EXCEPT ![g] = "failed"]
        /\ UNCHANGED <<pass, tosync, excluded>>
    BY <1>3 DEF NewStoreFails, Turn
  <2>2. \A h \in Group : state'[h] = "running" <=> state[h] = "running"
    BY <2>1 DEF TypeOK
  <2> QED
    BY <1>0, <2>1, <2>2 DEF ChoiceInv
<1>4. ASSUME NEW w \in Worker, Step(w) PROVE ChoiceInv'
  <2>1. state[w[1]] = "running" /\ w[2] \in tosync[w[1]]
    BY <1>4, StepKeepsChoice DEF ChoiceInv, SyncFolder
  <2>2. \A v \in Worker : v # w => pass'[v] = pass[v]
    BY <1>4, StepType DEF Moves
  <2> QED
    BY <1>4, <2>1, <2>2, StepKeepsChoice DEF ChoiceInv
<1>5. ASSUME NEW w \in Worker, Fail(w) \/ MkdirFails(w) \/ WriteMaildirFileFails(w)
      PROVE  ChoiceInv'
  <2>1. \A v \in Worker : v # w => pass'[v] = pass[v]
    BY <1>5, FailureType DEF Moves
  <2> QED
    BY <1>5, <2>1, FailureKeepsChoice DEF ChoiceInv
<1>6. CASE Restart
  BY <1>0, <1>6 DEF Restart, ChoiceInv, NotSelected, NoWork, Idle
<1>7. ASSUME NEW s \in Store, NEW f \in Folder,
             ClientCreates(s, f) \/ ClientDeletes(s, f) \/ ServerRenumbers(s, f)
      PROVE  ChoiceInv'
  BY <1>7, OutsideKeepsMemory DEF ChoiceInv
<1>8. CASE UNCHANGED vars
  BY <1>8 DEF ChoiceInv, vars, memory
<1> QED
  BY <1>1, <1>2, <1>3, <1>4, <1>5, <1>6, <1>7, <1>8 DEF Next

(* What the first store was asked for is remembered until the second one is*)
(* there, for no goroutine of g runs before.                               *)
LEMMA StepFirst ==
    ASSUME TypeOK, ChoiceInv, NEW g \in Group, state[g] = "store1", NEW w \in Worker,
           Step(w) \/ Fail(w) \/ MkdirFails(w) \/ WriteMaildirFileFails(w)
    PROVE  folders'[g] = folders[g]
<1>0. w[1] \in Group /\ pass[w] \in Pass /\ pass[w].at \in {1, 2}
  BY WorkerType DEF TypeOK, Pass
<1>1. CASE SyncFolder(w) \/ UpdateMessageLists(w) \/ EndPass(w)
  BY <1>1 DEF SyncFolder, UpdateMessageLists, EndPass, memory
<1>2. CASE Fail(w) \/ MkdirFails(w) \/ WriteMaildirFileFails(w)
  BY <1>2 DEF Fail, MkdirFails, WriteMaildirFileFails, memory
<1>3. CASE OpenStep(w)
  <2>1. w[1] # g
    BY <1>3, StepKeepsChoice DEF Step, ChoiceInv, SyncFolder
  <2>2. CASE ImapLock(w) \/ ImapStoreStep(w)
    BY <1>0, <2>1, <2>2 DEF TypeOK, ImapStoreStep, ImapLock, ImapCreateFolder,
        ImapSelect, ImapSavedUIDValidity, ImapCreateUIDValidity, ImapWriteUIDValidity,
        NewImapFolder, memory
  <2>3. CASE MaildirStoreStep(w)
    BY <1>0, <2>1, <2>3 DEF TypeOK, MaildirStoreStep, MaildirHasFolder,
        ReadFolderUID, GetFolderUID, CreateMetadataFile, WriteMetadataFile,
        CreateMaildirFile, WriteMaildirFile, ReadFolders, AppendFolder, memory
  <2> QED
    BY <1>3, <2>2, <2>3 DEF OpenStep
<1> QED
  BY <1>1, <1>2, <1>3 DEF Step

(* Only the read of m.folders leads to the write of it.                    *)
LEMMA StepWithoutSlice ==
    ASSUME TypeOK, NEW w \in Worker, ~ReadFolders(w),
           Step(w) \/ Fail(w) \/ MkdirFails(w) \/ WriteMaildirFileFails(w)
    PROVE  pass'[w].pc # "append"
<1>0. pass \in [Worker -> Pass] /\ pass[w] \in Pass
  BY DEF TypeOK
<1>1. CASE \E pc \in Steps \ {"append"} : Goto(w, pc)
  BY <1>0, <1>1, GotoMoves
<1>2. CASE Return(w)
  BY <1>0, <1>2, ReturnMoves
<1>3. CASE \E uid \in Tag, expunges \in BOOLEAN : Opened(w, uid, expunges)
  BY <1>0, <1>3, OpenedMoves
<1>4. CASE \/ MaildirHasFolder(w) \/ AppendFolder(w) \/ MkdirFails(w)
  BY <1>0, <1>4 DEF MaildirHasFolder, AppendFolder, MkdirFails, Pass
<1>5. CASE ImapSelect(w)
  <2>1. CASE pass' = [pass EXCEPT ![w].uid = tag[StoreAt(w)][w[2]], ![w].pc = "saved"]
    BY <1>0, <2>1 DEF Pass
  <2> QED
    BY <1>2, <1>5, <2>1 DEF ImapSelect
<1>6. CASE ReadFolderUID(w)
  <2>1. CASE pass' = [pass EXCEPT ![w].uid = meta[StoreAt(w)][w[2]], ![w].pc = "compare"]
    BY <1>0, <2>1 DEF Pass
  <2> QED
    BY <1>2, <1>6, <2>1 DEF ReadFolderUID
<1>7. CASE GetFolderUID(w)
  <2>1. CASE pass' = [pass EXCEPT ![w].uid = fresh[StoreAt(w)][w[2]], ![w].pc = "createMd"]
    BY <1>0, <2>1 DEF Pass
  <2>2. pass[w].uid \in Tag /\ FALSE \in BOOLEAN
    BY <1>0 DEF Pass
  <2> QED
    BY <1>1, <1>2, <1>3, <1>7, <2>1, <2>2
       DEF GetFolderUID, CreateFolder, TakeFolder, Steps, MaildirCreation
<1>8. CASE NewImapFolder(w)
  <2>1. pass[w].uid \in Tag /\ expunge[StoreAt(w)] \in BOOLEAN
    BY <1>0, WorkerType DEF Pass, TypeOK
  <2> QED
    BY <1>2, <1>3, <1>8, <2>1 DEF NewImapFolder
<1>9. CASE \/ SyncFolder(w) \/ UpdateMessageLists(w) \/ EndPass(w) \/ Fail(w)
           \/ WriteMaildirFileFails(w) \/ ImapLock(w) \/ ImapCreateFolder(w)
           \/ ImapSavedUIDValidity(w) \/ ImapCreateUIDValidity(w)
           \/ ImapWriteUIDValidity(w) \/ CreateMetadataFile(w)
           \/ WriteMetadataFile(w) \/ CreateMaildirFile(w) \/ WriteMaildirFile(w)
  BY <1>1, <1>2, <1>9 DEF SyncFolder, UpdateMessageLists, EndPass, Fail,
     WriteMaildirFileFails, ImapLock, ImapCreateFolder, ImapSavedUIDValidity,
     ImapCreateUIDValidity, ImapWriteUIDValidity, CreateMetadataFile,
     WriteMetadataFile, CreateMaildirFile, WriteMaildirFile, Steps, ImapSteps,
     MaildirCreation
<1> QED
  BY <1>4, <1>5, <1>6, <1>7, <1>8, <1>9
     DEF Step, OpenStep, ImapStoreStep, MaildirStoreStep

(* The append of a goroutine of g puts back what g started with: a slice   *)
(* was read after that, and only such slices are written.                  *)
LEMMA StepStarted ==
    ASSUME TypeOK, NEW g \in Group, NEW w \in Worker,
           NEW have \in [{1, 2} -> SUBSET Folder], StartedFrom(g, have),
           Step(w) \/ Fail(w) \/ MkdirFails(w) \/ WriteMaildirFileFails(w)
    PROVE  StartedFrom(g, have)'
<1>0. /\ w[1] \in Group /\ pass \in [Worker -> Pass]
      /\ pass[w] \in Pass /\ pass[w].at \in {1, 2}
  BY WorkerType DEF TypeOK, Pass
<1>1. UNCHANGED tosync
  BY StepKeepsChoice, FailureKeepsChoice
<1>2. \A v \in Worker : v # w => pass'[v] = pass[v]
  BY StepType, FailureType DEF Moves
<1>3. CASE ReadFolders(w)
  <2>1. /\ UNCHANGED folders
        /\ pass'[w].slice = folders[w[1]][pass[w].at] /\ pass'[w].at = pass[w].at
    BY <1>0, <1>3 DEF ReadFolders, memory, Listed, Pass
  <2>2. ASSUME NEW v \in Worker, v[1] = g, pass'[v].pc = "append"
        PROVE  have[pass'[v].at] \subseteq pass'[v].slice
    <3>1. CASE v = w
      BY <1>0, <2>1, <2>2, <3>1 DEF StartedFrom
    <3>2. CASE v # w
      <4>1. pass'[v] = pass[v]
        BY <1>2, <3>2
      <4> QED
        BY <2>2, <4>1 DEF StartedFrom
    <3> QED
      BY <3>1, <3>2
  <2> QED
    BY <1>1, <2>1, <2>2 DEF StartedFrom
<1>4. CASE AppendFolder(w)
  <2>1. /\ pass[w].pc = "append" /\ pass'[w].pc = "read"
        /\ \A h \in Group, i \in {1, 2} : folders'[h][i] =
              IF h = w[1] /\ i = pass[w].at THEN pass[w].slice \cup {w[2]} ELSE folders[h][i]
    BY <1>0, <1>4 DEF AppendFolder, TypeOK, Pass
  <2>2. ASSUME NEW i \in {1, 2} PROVE have[i] \subseteq folders'[g][i]
    <3>1. CASE g = w[1] /\ i = pass[w].at
      <4>1. have[i] \subseteq pass[w].slice
        BY <2>1, <3>1 DEF StartedFrom
      <4> QED
        BY <2>1, <3>1, <4>1
    <3>2. CASE ~(g = w[1] /\ i = pass[w].at)
      <4>1. have[i] \subseteq folders[g][i] /\ folders'[g][i] = folders[g][i]
        BY <2>1, <3>2 DEF StartedFrom
      <4> QED
        BY <4>1
    <3> QED
      BY <3>1, <3>2
  <2>3. ASSUME NEW v \in Worker, v[1] = g, pass'[v].pc = "append"
        PROVE  have[pass'[v].at] \subseteq pass'[v].slice
    <3>1. pass'[v] = pass[v]
      BY <1>2, <2>1, <2>3
    <3> QED
      BY <2>3, <3>1 DEF StartedFrom
  <2> QED
    BY <1>1, <2>2, <2>3 DEF StartedFrom
<1>5. CASE ~ReadFolders(w) /\ ~AppendFolder(w)
  <2>1. \A h \in Group, i \in {1, 2} : folders[h][i] \subseteq folders'[h][i]
    <3>1. CASE ImapCreateFolder(w)
      <4>1. CASE UNCHANGED folders
        BY <4>1
      <4>2. CASE folders' = [folders EXCEPT ![w[1]][pass[w].at] = @ \cup {w[2]}]
        BY <1>0, <4>2 DEF TypeOK
      <4> QED
        BY <3>1, <4>1, <4>2 DEF ImapCreateFolder
    <3>2. CASE ~ImapCreateFolder(w)
      BY <1>5, <3>2 DEF Step, Fail, MkdirFails, WriteMaildirFileFails, SyncFolder,
          OpenStep, UpdateMessageLists, EndPass, ImapStoreStep, ImapLock, ImapSelect,
          ImapSavedUIDValidity, ImapCreateUIDValidity, ImapWriteUIDValidity,
          NewImapFolder, MaildirStoreStep, MaildirHasFolder, ReadFolderUID,
          GetFolderUID, CreateMetadataFile, WriteMetadataFile, CreateMaildirFile,
          WriteMaildirFile, memory
    <3> QED
      BY <3>1, <3>2
  <2>2. pass'[w].pc # "append"
    BY <1>0, <1>5, StepWithoutSlice
  <2> QED
    BY <1>1, <1>2, <2>1, <2>2 DEF StartedFrom
<1> QED
  BY <1>3, <1>4, <1>5

LEMMA StartedInvariant == TypeOK /\ ChoiceInv /\ StartedInv /\ [Next]_vars => StartedInv'
<1> SUFFICES ASSUME TypeOK, ChoiceInv, StartedInv, [Next]_vars, NEW g \in Group
             PROVE  /\ state'[g] = "store1" => FirstAccepted(g)'
                    /\ state'[g] = "running" =>
                          \E have \in [{1, 2} -> SUBSET Folder] : StartedFrom(g, have)'
  BY DEF StartedInv
<1>1. ASSUME NEW h \in Group, NewStore1(h) \/ NewStore2(h) \/ NewStoreFails(h), h # g
      PROVE  UNCHANGED <<state[g], tosync[g], folders[g], excluded[g], pass>>
  BY <1>1 DEF NewStore1, NewStore2, NewStoreFails, NewStore, NewImapStore,
              NewMaildirStore, UpdateFolderList, TypeOK
<1>2. CASE UNCHANGED <<state[g], tosync[g], folders[g], excluded[g], pass>>
  BY <1>2 DEF StartedInv, FirstAccepted, StartedFrom
<1>3. CASE NewStore1(g)
  <2>1. state'[g] = "store1" /\ UpdateFolderList(g, 1)
    BY <1>3 DEF NewStore1, NewStore, NewImapStore, NewMaildirStore, TypeOK
  <2> QED
    BY <2>1 DEF UpdateFolderList, FirstAccepted, TypeOK
<1>4. CASE NewStore2(g)
  <2>1. /\ state[g] = "store1" /\ state'[g] = "running"
        /\ tosync'[g] = MergeFolders(folders'[g], excluded'[g])
        /\ UNCHANGED pass
        /\ UpdateFolderList(g, 2)
    BY <1>4 DEF NewStore2, NewStore, NewImapStore, NewMaildirStore, TypeOK
  <2>2. FirstAccepted(g)
    BY <2>1 DEF StartedInv
  <2>3. /\ folders'[g] \in [{1, 2} -> SUBSET Folder]
        /\ folders'[g][1] = folders[g][1] /\ excluded'[g][1] = excluded[g][1]
        /\ folders'[g][2] = there[StoresOf[g][2]]
        /\ excluded'[g][2] = {f \in there[StoresOf[g][2]] : ~Accepted(StoresOf[g][2], f)}
    <3>1. there[StoresOf[g][2]] \in SUBSET Folder
      BY StoresOfAssumption DEF TypeOK
    <3> QED
      BY <2>1, <3>1 DEF UpdateFolderList, TypeOK
  <2>4. \A f \in tosync'[g] : \E i \in {1, 2} :
           f \in folders'[g][i] /\ Accepted(StoresOf[g][i], f)
    BY <2>1, <2>2, <2>3 DEF FirstAccepted, MergeFolders
  <2>5. \A w \in Worker : w[1] = g => pass[w].pc = "idle"
    BY <2>1 DEF ChoiceInv
  <2>6. PICK have \in [{1, 2} -> SUBSET Folder] : have = folders'[g]
    BY <2>3
  <2>7. StartedFrom(g, have)'
    BY <2>1, <2>4, <2>5, <2>6 DEF StartedFrom
  <2> QED
    BY <2>1, <2>7
<1>5. CASE NewStoreFails(g)
  BY <1>5 DEF NewStoreFails, TypeOK
<1>6. ASSUME NEW w \in Worker,
             Step(w) \/ Fail(w) \/ MkdirFails(w) \/ WriteMaildirFileFails(w)
      PROVE  /\ state'[g] = "store1" => FirstAccepted(g)'
             /\ state'[g] = "running" =>
                   \E have \in [{1, 2} -> SUBSET Folder] : StartedFrom(g, have)'
  <2>1. UNCHANGED <<state, excluded>>
    BY <1>6, StepKeepsChoice, FailureKeepsChoice
  <2>2. state[g] = "store1" => FirstAccepted(g)'
    BY <1>6, <2>1, StepFirst DEF StartedInv, FirstAccepted
  <2>3. ASSUME state[g] = "running"
        PROVE  \E have \in [{1, 2} -> SUBSET Folder] : StartedFrom(g, have)'
    <3>1. PICK have \in [{1, 2} -> SUBSET Folder] : StartedFrom(g, have)
      BY <2>3 DEF StartedInv
    <3>2. StartedFrom(g, have)'
      BY <1>6, <3>1, StepStarted
    <3> QED
      BY <3>2
  <2> QED
    BY <2>1, <2>2, <2>3
<1>7. CASE Restart
  BY <1>7 DEF Restart, NotSelected
<1>8. ASSUME NEW s \in Store, NEW f \in Folder,
             ClientCreates(s, f) \/ ClientDeletes(s, f) \/ ServerRenumbers(s, f)
      PROVE  UNCHANGED <<state[g], tosync[g], folders[g], excluded[g], pass>>
  BY <1>8 DEF ClientCreates, ClientDeletes, ServerRenumbers, ClientStep, memory
<1>9. CASE UNCHANGED vars
  BY <1>2, <1>9 DEF vars, memory
<1> QED
  BY <1>1, <1>2, <1>3, <1>4, <1>5, <1>6, <1>7, <1>8, <1>9 DEF Next

(* A folder is opened only if a store that accepts it had it when the      *)
(* syncgroup was made, and still lists it whatever the appends of other    *)
(* goroutines lost; and never if a store that had it then refuses it.  What*)
(* a store refuses without having it is not covered, and is opened.        *)
THEOREM OnlyAcceptedFolders == Spec => []OnlyAcceptedFoldersAreOpened
<1>1. Init => ChoiceInv /\ StartedInv
  BY WorkerAssumption DEF Init, ChoiceInv, StartedInv, NotSelected, NoWork, Idle
<1>2. TypeOK /\ ChoiceInv /\ StartedInv => OnlyAcceptedFoldersAreOpened
  <2> SUFFICES ASSUME TypeOK, ChoiceInv, StartedInv,
                      NEW w \in Worker, pass[w].pc # "idle"
               PROVE  /\ \A i \in {1, 2} : w[2] \notin excluded[w[1]][i]
                      /\ \E i \in {1, 2} : /\ w[2] \in folders[w[1]][i]
                                           /\ Accepted(StoreOf(w, i), w[2])
    BY DEF OnlyAcceptedFoldersAreOpened
  <2>1. w[1] \in Group /\ state[w[1]] = "running" /\ w[2] \in tosync[w[1]]
    BY WorkerType DEF TypeOK, ChoiceInv
  <2>2. \A i \in {1, 2} : w[2] \notin excluded[w[1]][i]
    BY <2>1 DEF ChoiceInv
  <2>3. PICK have \in [{1, 2} -> SUBSET Folder] : StartedFrom(w[1], have)
    BY <2>1 DEF StartedInv
  <2> QED
    BY <2>1, <2>2, <2>3 DEF StartedFrom, StoreOf
<1> QED
  BY <1>1, <1>2, InitType, NextType, ChoiceInvariant, StartedInvariant, PTL DEF Spec

(* A goroutine will expunge only where the configuration said so when it   *)
(* opened the folder.                                                      *)
LEMMA StepExpunges ==
    ASSUME TypeOK, NEW w \in Worker, Step(w)
    PROVE  \/ pass'[w].expunges = FALSE
           \/ pass'[w].expunges = pass[w].expunges
           \/ /\ pass[w].pc # "idle"
              /\ pass'[w].expunges = (pass[w].expunges \/ expunge[StoreAt(w)])
<1>0. pass \in [Worker -> Pass] /\ pass[w] \in Pass
  BY DEF TypeOK
<1>1. CASE \E pc \in Steps : Goto(w, pc)
  BY <1>0, <1>1, GotoMoves
<1>2. CASE Return(w)
  BY <1>0, <1>2, ReturnMoves
<1>3. CASE OpenStep(w)
  <2>1. CASE ImapLock(w) \/ ImapStoreStep(w)
    <3>1. CASE NewImapFolder(w)
      <4>1. CASE Return(w)
        BY <1>2, <4>1
      <4>2. CASE Opened(w, pass[w].uid, expunge[StoreAt(w)])
        <5>1. pass[w].uid \in Tag /\ expunge[StoreAt(w)] \in BOOLEAN
          BY <1>0, WorkerType DEF Pass, TypeOK
        <5>2. pass'[w].expunges = (pass[w].expunges \/ expunge[StoreAt(w)])
          BY <1>0, <4>2, <5>1, OpenedMoves
        <5>3. pass[w].pc = "connect"
          BY <3>1 DEF NewImapFolder
        <5> QED
          BY <5>2, <5>3
      <4> QED
        BY <3>1, <4>1, <4>2 DEF NewImapFolder
    <3>2. CASE ImapSelect(w)
      <4>1. CASE pass' = [pass EXCEPT ![w].uid = tag[StoreAt(w)][w[2]], ![w].pc = "saved"]
        BY <1>0, <4>1 DEF Pass
      <4> QED
        BY <1>2, <3>2, <4>1 DEF ImapSelect
    <3>3. CASE ~NewImapFolder(w) /\ ~ImapSelect(w)
      BY <1>1, <1>2, <2>1, <3>3 DEF ImapStoreStep, ImapLock, ImapCreateFolder,
          ImapSavedUIDValidity, ImapCreateUIDValidity, ImapWriteUIDValidity, Steps, ImapSteps
    <3> QED
      BY <3>1, <3>2, <3>3
  <2>2. CASE MaildirStoreStep(w)
    <3>1. CASE MaildirHasFolder(w) \/ ReadFolderUID(w) \/ ReadFolders(w) \/ AppendFolder(w)
      <4>1. CASE MaildirHasFolder(w)
        BY <1>0, <4>1 DEF MaildirHasFolder, Pass
      <4>2. CASE ReadFolderUID(w)
        <5>1. CASE pass' = [pass EXCEPT ![w].uid = meta[StoreAt(w)][w[2]], ![w].pc = "compare"]
          BY <1>0, <5>1 DEF Pass
        <5> QED
          BY <1>2, <4>2, <5>1 DEF ReadFolderUID
      <4>3. CASE ReadFolders(w)
        BY <1>0, <4>3 DEF ReadFolders, Pass
      <4>4. CASE AppendFolder(w)
        BY <1>0, <4>4 DEF AppendFolder, Pass
      <4> QED
        BY <3>1, <4>1, <4>2, <4>3, <4>4
    <3>2. CASE GetFolderUID(w)
      <4>1. CASE pass' = [pass EXCEPT ![w].uid = fresh[StoreAt(w)][w[2]], ![w].pc = "createMd"]
        BY <1>0, <4>1 DEF Pass
      <4>2. CASE Opened(w, pass[w].uid, FALSE)
        <5>1. pass[w].uid \in Tag
          BY <1>0 DEF Pass
        <5>2. pass'[w].expunges = (pass[w].expunges \/ FALSE)
          BY <1>0, <4>2, <5>1, OpenedMoves
        <5>3. pass[w].expunges \in BOOLEAN
          BY <1>0 DEF Pass
        <5>4. (pass[w].expunges \/ FALSE) = pass[w].expunges
          BY <5>3, Zenon
        <5> QED
          BY <5>2, <5>4
      <4>3. CASE Goto(w, "slice")
        BY <1>1, <4>3 DEF Steps, MaildirCreation
      <4> QED
        BY <1>2, <3>2, <4>1, <4>2, <4>3 DEF GetFolderUID, CreateFolder, TakeFolder
    <3>3. CASE \/ CreateMetadataFile(w) \/ WriteMetadataFile(w)
               \/ CreateMaildirFile(w) \/ WriteMaildirFile(w)
      BY <1>1, <3>3 DEF CreateMetadataFile, WriteMetadataFile, CreateMaildirFile,
          WriteMaildirFile, Steps, MaildirCreation
    <3> QED
      BY <2>2, <3>1, <3>2, <3>3 DEF MaildirStoreStep
  <2> QED
    BY <1>3, <2>1, <2>2 DEF OpenStep
<1>4. CASE ~OpenStep(w)
  BY <1>1, <1>2, <1>4 DEF Step, SyncFolder, UpdateMessageLists, EndPass, Steps
<1> QED
  BY <1>3, <1>4

LEMMA FailureExpunges ==
    ASSUME TypeOK, NEW w \in Worker, Fail(w) \/ MkdirFails(w) \/ WriteMaildirFileFails(w)
    PROVE  pass'[w].expunges = FALSE \/ pass'[w].expunges = pass[w].expunges
<1>0. pass \in [Worker -> Pass] /\ pass[w] \in Pass
  BY DEF TypeOK
<1>1. CASE Fail(w)
  BY <1>0, <1>1, ReturnMoves DEF Fail
<1>2. CASE MkdirFails(w)
  BY <1>0, <1>2 DEF MkdirFails, Pass
<1>3. CASE WriteMaildirFileFails(w)
  BY <1>0, <1>3, GotoMoves DEF WriteMaildirFileFails, Steps, MaildirCreation
<1> QED
  BY <1>1, <1>2, <1>3

LEMMA NewStoreExpunge ==
    ASSUME TypeOK, NEW g \in Group, NEW i \in {1, 2}, ConfigExpunge(g, i)
    PROVE  /\ g \in FlagGroups => expunge'[StoresOf[g][i]] = FALSE
           /\ \A s \in Store : expunge[s] = FALSE => expunge'[s] = FALSE
<1>1. StoresOf[g][i] \in Store
  BY StoresOfAssumption
<1> QED
  BY <1>1 DEF ConfigExpunge, TypeOK

LEMMA ExpungeInvariant == TypeOK /\ ChoiceInv /\ ExpungeInv /\ [Next]_vars => ExpungeInv'
<1> SUFFICES ASSUME TypeOK, ChoiceInv, ExpungeInv, [Next]_vars PROVE ExpungeInv'
  OBVIOUS
<1>0. \A g \in Group, i \in {1, 2} : StoresOf[g][i] \in Store
  BY StoresOfAssumption
<1>1. ASSUME NEW g \in Group, NewStore1(g) PROVE ExpungeInv'
  <2>1. /\ state' = [state EXCEPT ![g] = "store1"]
        /\ UNCHANGED pass
        /\ ConfigExpunge(g, 1)
    BY <1>1 DEF NewStore1, NewStore
  <2>2. \A h \in Group : h # g => state'[h] = state[h]
    BY <2>1 DEF TypeOK
  <2>3. state'[g] = "store1"
    BY <2>1 DEF TypeOK
  <2> QED
    BY <1>0, <2>1, <2>2, <2>3, NewStoreExpunge DEF ExpungeInv
<1>2. ASSUME NEW g \in Group, NewStore2(g) PROVE ExpungeInv'
  <2>1. /\ state[g] = "store1" /\ state' = [state EXCEPT ![g] = "running"]
        /\ UNCHANGED pass
        /\ ConfigExpunge(g, 2)
    BY <1>2 DEF NewStore2, NewStore
  <2>2. \A h \in Group : h # g => state'[h] = state[h]
    BY <2>1 DEF TypeOK
  <2> QED
    BY <1>0, <2>1, <2>2, NewStoreExpunge DEF ExpungeInv
<1>3. ASSUME NEW g \in Group, NewStoreFails(g) PROVE ExpungeInv'
  <2>1. /\ state' = [state EXCEPT ![g] = "failed"]
        /\ UNCHANGED pass
        /\ ConfigExpunge(g, 1) \/ ConfigExpunge(g, 2)
    BY <1>3 DEF NewStoreFails
  <2>2. \A h \in Group : h # g => state'[h] = state[h]
    BY <2>1 DEF TypeOK
  <2>3. state'[g] = "failed"
    BY <2>1 DEF TypeOK
  <2> QED
    BY <1>0, <2>1, <2>2, <2>3, NewStoreExpunge DEF ExpungeInv
<1>4. ASSUME NEW w \in Worker, Step(w) PROVE ExpungeInv'
  <2>1. \A v \in Worker : v # w => pass'[v] = pass[v]
    BY <1>4, StepType DEF Moves
  <2>2. UNCHANGED <<expunge, state>>
    BY <1>4, StepKeepsChoice
  <2>3. ASSUME w[1] \in FlagGroups PROVE pass'[w].expunges = FALSE
    <3>1. w[1] \in Group /\ pass[w].at \in {1, 2} /\ pass[w].expunges = FALSE
      BY <2>3, WorkerType DEF TypeOK, Pass, ExpungeInv
    <3>2. pass[w].pc # "idle" => expunge[StoreAt(w)] = FALSE
      BY <2>3, <3>1 DEF ChoiceInv, ExpungeInv, StoreAt, StoreOf
    <3>3. CASE /\ pass[w].pc # "idle"
               /\ pass'[w].expunges = (pass[w].expunges \/ expunge[StoreAt(w)])
      <4>1. expunge[StoreAt(w)] = FALSE
        BY <3>2, <3>3
      <4> QED
        BY <3>1, <3>3, <4>1, Zenon
    <3> QED
      BY <1>4, <3>1, <3>3, StepExpunges
  <2> QED
    BY <2>1, <2>2, <2>3 DEF ExpungeInv
<1>5. ASSUME NEW w \in Worker, Fail(w) \/ MkdirFails(w) \/ WriteMaildirFileFails(w)
      PROVE  ExpungeInv'
  <2>1. \A v \in Worker : v # w => pass'[v] = pass[v]
    BY <1>5, FailureType DEF Moves
  <2>2. pass'[w].expunges = FALSE \/ pass'[w].expunges = pass[w].expunges
    BY <1>5, FailureExpunges
  <2> QED
    BY <1>5, <2>1, <2>2, FailureKeepsChoice DEF ExpungeInv
<1>6. CASE Restart
  BY <1>6 DEF Restart, ExpungeInv, NotSelected, NoWork, Idle
<1>7. ASSUME NEW s \in Store, NEW f \in Folder,
             ClientCreates(s, f) \/ ClientDeletes(s, f) \/ ServerRenumbers(s, f)
      PROVE  ExpungeInv'
  BY <1>7, OutsideKeepsMemory DEF ExpungeInv
<1>8. CASE UNCHANGED vars
  BY <1>8 DEF ExpungeInv, vars, memory
<1> QED
  BY <1>1, <1>2, <1>3, <1>4, <1>5, <1>6, <1>7, <1>8 DEF Next

(* A syncgroup in deletemode flag never expunges, whichever syncgroups it  *)
(* shares its stores with.                                                 *)
THEOREM FlagGroupsDoNotExpunge == Spec => []FlagGroupsNeverExpunge
<1>1. Init => ChoiceInv /\ ExpungeInv
  BY WorkerAssumption DEF Init, ChoiceInv, ExpungeInv, NotSelected, NoWork, Idle
<1>2. ExpungeInv => FlagGroupsNeverExpunge
  BY WorkerAssumption DEF ExpungeInv, FlagGroupsNeverExpunge
<1> QED
  BY <1>1, <1>2, InitType, NextType, ChoiceInvariant, ExpungeInvariant, PTL DEF Spec
-----------------------------------------------------------------------------
(* The identity of a folder.                                               *)

LEMMA Apart ==
    ASSUME NotShared, NEW v \in Worker, NEW w \in Worker,
           NEW i \in {1, 2}, NEW j \in {1, 2}, v # w \/ i # j
    PROVE  StoreOf(v, i) # StoreOf(w, j) \/ v[2] # w[2]
<1>1. /\ v[1] \in Group /\ w[1] \in Group
      /\ v = <<v[1], v[2]>> /\ w = <<w[1], w[2]>>
  BY WorkerAssumption
<1> QED
  BY <1>1 DEF NotShared, StoreOf

LEMMA SavedAt ==
    ASSUME NotShared, TypeOK, NEW w \in Worker, NEW x,
           meta' = [meta EXCEPT ![StoreAt(w)][w[2]] = x],
           NEW v \in Worker, NEW i \in {1, 2}
    PROVE  Saved(v, i)' = IF v = w /\ i = pass[w].at THEN x ELSE Saved(v, i)
<1>1. /\ pass[w].at \in {1, 2} /\ StoreOf(v, i) \in Store /\ v[2] \in Folder
      /\ StoreAt(w) \in Store /\ w[2] \in Folder
  BY WorkerType DEF TypeOK, Pass
<1>2. CASE v = w /\ i = pass[w].at
  BY <1>1, <1>2 DEF Saved, StoreAt, StoreOf, TypeOK
<1>3. CASE ~(v = w /\ i = pass[w].at)
  <2>1. StoreOf(v, i) # StoreAt(w) \/ v[2] # w[2]
    BY <1>1, <1>3, Apart DEF StoreAt
  <2> QED
    BY <1>1, <1>3, <2>1 DEF Saved, StoreOf, TypeOK
<1> QED
  BY <1>2, <1>3

LEMMA ToldAt ==
    ASSUME NotShared, TypeOK, NEW w \in Worker, NEW x,
           tag' = [tag EXCEPT ![StoreAt(w)][w[2]] = x],
           NEW v \in Worker, NEW i \in {1, 2}
    PROVE  Told(v, i)' = IF v = w /\ i = pass[w].at THEN x ELSE Told(v, i)
<1>1. /\ pass[w].at \in {1, 2} /\ StoreOf(v, i) \in Store /\ v[2] \in Folder
      /\ StoreAt(w) \in Store /\ w[2] \in Folder
  BY WorkerType DEF TypeOK, Pass
<1>2. CASE v = w /\ i = pass[w].at
  BY <1>1, <1>2 DEF Told, StoreAt, StoreOf, TypeOK
<1>3. CASE ~(v = w /\ i = pass[w].at)
  <2>1. StoreOf(v, i) # StoreAt(w) \/ v[2] # w[2]
    BY <1>1, <1>3, Apart DEF StoreAt
  <2> QED
    BY <1>1, <1>3, <2>1 DEF Told, StoreOf, TypeOK
<1> QED
  BY <1>2, <1>3

LEMMA HereAt ==
    ASSUME NotShared, TypeOK, NEW w \in Worker,
           there' = [there EXCEPT ![StoreAt(w)] = @ \cup {w[2]}],
           NEW v \in Worker, NEW i \in {1, 2}, v # w \/ i # pass[w].at
    PROVE  Here(v, i)' <=> Here(v, i)
<1>1. /\ pass[w].at \in {1, 2} /\ StoreOf(v, i) \in Store
  BY WorkerType DEF TypeOK, Pass
<1>2. StoreOf(v, i) # StoreAt(w) \/ v[2] # w[2]
  BY <1>1, Apart DEF StoreAt
<1> QED
  BY <1>1, <1>2 DEF Here, StoreOf, TypeOK

(* Nothing the goroutine v relies on changes.                              *)
Same(v) ==
    /\ v \in overtaken' <=> v \in overtaken
    /\ \A i \in {1, 2} :
          /\ Saved(v, i)' = Saved(v, i)
          /\ Told(v, i)' = Told(v, i)
          /\ First(v, i)' = First(v, i)
          /\ Here(v, i)' <=> Here(v, i)

LEMMA OthersKept ==
    ASSUME WorkInv, NEW w \in Worker, Moves(w),
           \A v \in Worker : v # w => Same(v),
           \A i \in {1, 2} : IdentityInv(w, i)'
    PROVE  WorkInv'
<1> SUFFICES ASSUME NEW v \in Worker, NEW i \in {1, 2}, v # w
             PROVE  IdentityInv(v, i)'
  BY DEF WorkInv
<1>1. Same(v) /\ pass'[v] = pass[v] /\ IdentityInv(v, i)
  BY DEF Moves, WorkInv
<1>2. StoreOf(v, i)' = StoreOf(v, i)
  BY DEF StoreOf
<1> QED
  BY <1>1, <1>2 DEF Same, IdentityInv, Took, Takes, HandInv

LEMMA AllSame ==
    ASSUME UNCHANGED <<there, tag, meta, first, overtaken>>, NEW v
    PROVE  Same(v)
BY DEF Same, Saved, Told, First, Here, StoreOf

LEMMA ReturnKeeps ==
    ASSUME TypeOK, WorkInv, NEW w \in Worker, Return(w),
           UNCHANGED <<there, tag, meta, first, overtaken>>
    PROVE  WorkInv'
<1>1. Moves(w) /\ pass'[w].pc = "idle" /\ pass'[w].at = 1
  BY ReturnMoves DEF TypeOK
<1>2. \A v \in Worker : Same(v)
  BY AllSame
<1>3. ASSUME NEW i \in {1, 2} PROVE IdentityInv(w, i)'
  <2>1. IdentityInv(w, i) /\ StoreOf(w, i)' = StoreOf(w, i)
    BY DEF WorkInv, StoreOf
  <2>2. ~Took(w, i)'
    BY <1>1 DEF Took
  <2>3. Takes(w, i)' => HandInv(w, i)'
    BY <1>1 DEF Takes, HandInv, ImapSteps, MaildirCreation, Selected, Generated
  <2> QED
    BY <1>1, <1>2, <2>1, <2>2, <2>3 DEF Same, IdentityInv
<1> QED
  BY <1>1, <1>2, <1>3, OthersKept

(* A step of w while it opens the folder on store i.                       *)
LEMMA OpenKeeps ==
    ASSUME TypeOK, WorkInv, NEW w \in Worker, NEW i \in {1, 2}, pass[w].at = i,
           Moves(w), UNCHANGED <<first, overtaken>>,
           \A v \in Worker : v # w => Same(v),
           pass[w].pc \notin {"idle", "list", "work"},
           pass'[w].pc \notin {"idle", "list", "work"},
           pass'[w].at = i, pass'[w].id = pass[w].id,
           \A j \in {1, 2} : j # i => /\ Saved(w, j)' = Saved(w, j)
                                      /\ Told(w, j)' = Told(w, j)
                                      /\ Here(w, j)' <=> Here(w, j),
           First(w, i) # NoFile => Saved(w, i)' = Saved(w, i),
           HandInv(w, i)',
           StoreOf(w, i) \in ImapStores /\ Here(w, i)' => Told(w, i)' \in Identity
    PROVE  WorkInv'
<1>1. \A j \in {1, 2} : First(w, j)' = First(w, j) /\ StoreOf(w, j)' = StoreOf(w, j)
  BY DEF First, StoreOf
<1>2. IdentityInv(w, i)'
  <2>1. IdentityInv(w, i)
    BY DEF WorkInv
  <2>2. ~Took(w, i)'
    BY DEF Took
  <2> QED
    BY <1>1, <2>1, <2>2 DEF IdentityInv
<1>3. ASSUME NEW j \in {1, 2}, j # i PROVE IdentityInv(w, j)'
  <2>1. IdentityInv(w, j)
    BY DEF WorkInv
  <2>2. Took(w, j)' <=> Took(w, j)
    BY DEF Took
  <2>3. ~Takes(w, j)'
    BY <1>3 DEF Takes
  <2> QED
    BY <1>1, <1>3, <2>1, <2>2, <2>3 DEF IdentityInv
<1> QED
  BY <1>2, <1>3, OthersKept

(* The folder is opened under the identity the metadata has.               *)
LEMMA OpenedKeeps ==
    ASSUME TypeOK, WorkInv, NEW w \in Worker, NEW i \in {1, 2}, pass[w].at = i,
           NEW expunges \in BOOLEAN, Opened(w, pass[w].uid, expunges),
           UNCHANGED <<there, tag, meta, first, overtaken>>,
           pass[w].pc \notin {"idle", "list", "work"},
           pass[w].uid = Saved(w, i), pass[w].uid # Empty,
           w \notin overtaken => pass[w].uid = Told(w, i)
    PROVE  WorkInv'
<1>1. pass[w].uid \in Tag /\ pass[w] \in Pass /\ pass \in [Worker -> Pass]
  BY DEF TypeOK, Pass
<1>2. /\ Moves(w)
      /\ pass'[w].pc = IF i = 1 THEN "open" ELSE "list"
      /\ pass'[w].at = 2
      /\ pass'[w].id = [pass[w].id EXCEPT ![i] = pass[w].uid]
  BY <1>1, OpenedMoves
<1>3. \A v \in Worker : Same(v)
  BY AllSame
<1>4. ASSUME NEW j \in {1, 2} PROVE IdentityInv(w, j)'
  <2>1. IdentityInv(w, j) /\ StoreOf(w, j)' = StoreOf(w, j)
    BY DEF WorkInv, StoreOf
  <2>2. Same(w)
    BY <1>3
  <2>3. pass'[w].id[j] = IF j = i THEN pass[w].uid ELSE pass[w].id[j]
    BY <1>1, <1>2 DEF Pass
  <2>4. Took(w, j)' => j = i \/ Took(w, j)
    BY <1>2 DEF Took
  <2>5. Takes(w, j)' => HandInv(w, j)'
    BY <1>2 DEF Takes, HandInv, ImapSteps, MaildirCreation, Selected, Generated
  <2>6. pass'[w].pc \notin {"idle", "work"}
    BY <1>2
  <2> QED
    BY <2>1, <2>2, <2>3, <2>4, <2>5, <2>6 DEF IdentityInv, Same
<1> QED
  BY <1>2, <1>3, <1>4, OthersKept
(* The same when the step changes only what w has in hand.                 *)
LEMMA HandKeeps ==
    ASSUME TypeOK, WorkInv, NEW w \in Worker, NEW i \in {1, 2}, pass[w].at = i,
           Moves(w), UNCHANGED <<there, tag, meta, first, overtaken>>,
           pass[w].pc \notin {"idle", "list", "work"},
           pass'[w].pc \notin {"idle", "list", "work"},
           pass'[w].at = i, pass'[w].id = pass[w].id,
           HandInv(w, i)'
    PROVE  WorkInv'
<1>1. \A v \in Worker : Same(v)
  BY AllSame
<1>2. IdentityInv(w, i) /\ StoreOf(w, i)' = StoreOf(w, i)
  BY DEF WorkInv, StoreOf
<1>3. StoreOf(w, i) \in ImapStores /\ Here(w, i)' => Told(w, i)' \in Identity
  BY <1>1, <1>2 DEF IdentityInv, Same
<1> QED
  BY <1>1, <1>3, OpenKeeps DEF Same

(* What w knows of the store it is at.                                     *)
LEMMA InHand ==
    ASSUME TypeOK, WorkInv, NEW w \in Worker,
           pass[w].pc \notin {"list", "work"}
    PROVE  /\ pass[w].at \in {1, 2} /\ pass \in [Worker -> Pass] /\ pass[w] \in Pass
           /\ StoreOf(w, pass[w].at) = StoreAt(w)
           /\ StoreAt(w) \in Store /\ w[1] \in Group /\ w[2] \in Folder
           /\ IdentityInv(w, pass[w].at) /\ HandInv(w, pass[w].at)
           /\ Saved(w, pass[w].at) = meta[StoreAt(w)][w[2]]
           /\ Told(w, pass[w].at) = tag[StoreAt(w)][w[2]]
           /\ Here(w, pass[w].at) <=> w[2] \in there[StoreAt(w)]
<1>1. /\ pass[w].at \in {1, 2} /\ pass \in [Worker -> Pass] /\ pass[w] \in Pass
      /\ StoreAt(w) \in Store /\ w[1] \in Group /\ w[2] \in Folder
  BY WorkerType DEF TypeOK, Pass
<1>2. StoreOf(w, pass[w].at) = StoreAt(w)
  BY DEF StoreAt
<1>3. IdentityInv(w, pass[w].at)
  BY <1>1 DEF WorkInv
<1>4. HandInv(w, pass[w].at)
  BY <1>3 DEF IdentityInv, Takes
<1> QED
  BY <1>1, <1>2, <1>3, <1>4 DEF Saved, Told, Here

LEMMA ImapIdentity ==
    ASSUME TypeOK, NotShared, WorkInv, NEW w \in Worker,
           ImapLock(w) \/ ImapStoreStep(w), UNCHANGED <<first, overtaken>>
    PROVE  WorkInv'
<1>i. PICK i \in {1, 2} : pass[w].at = i
  BY WorkerType DEF TypeOK, Pass
<1>c. Moves(w)
  BY ImapType DEF TypeOK, StoreType
<1>e. ImapSteps \subseteq Steps
  BY DEF Steps
<1>f. ImapSteps = {"create", "select", "saved", "createSaved", "fillSaved", "connect"}
  BY DEF ImapSteps
<1>1. CASE ImapLock(w)
  <2>1. PICK pc \in {"create", "select"} : Goto(w, pc)
    BY <1>1 DEF ImapLock
  <2>2. pass[w].pc = "open" /\ StoreAt(w) \in ImapStores
        /\ UNCHANGED <<there, tag, meta>>
    BY <1>1 DEF ImapLock, disk
  <2>0. pass[w].at \in {1, 2} /\ pass \in [Worker -> Pass]
        /\ StoreOf(w, pass[w].at) = StoreAt(w)
    BY <1>i, <2>2, InHand
  <2>3. pass'[w].pc = pc /\ pass'[w].at = i /\ pass'[w].id = pass[w].id
    BY <1>i, <2>0, <1>e, <1>f, <2>1, GotoMoves
  <2>4. HandInv(w, i)'
    BY <1>i, <2>0, <2>1, <2>2, <2>3 DEF HandInv, StoreOf, MaildirCreation, Selected, Generated
  <2> QED
    BY <1>i, <2>0, <1>c, <2>2, <2>3, <2>4, HandKeeps
<1>2. CASE ImapCreateFolder(w)
  <2>1. CASE Return(w) /\ UNCHANGED disk
    BY <1>i, <2>1, ReturnKeeps DEF disk
  <2>2. CASE ~(Return(w) /\ UNCHANGED disk)
    <3>1. /\ pass[w].pc = "create" /\ w[2] \notin there[StoreAt(w)]
          /\ there' = [there EXCEPT ![StoreAt(w)] = @ \cup {w[2]}]
          /\ tag' = [tag EXCEPT ![StoreAt(w)][w[2]] = fresh[StoreAt(w)][w[2]]]
          /\ Goto(w, "select")
          /\ UNCHANGED meta
      BY <1>i, <1>2, <2>2 DEF ImapCreateFolder
    <3>0. /\ pass[w].at \in {1, 2} /\ pass \in [Worker -> Pass]
          /\ StoreOf(w, pass[w].at) = StoreAt(w)
          /\ StoreAt(w) \in Store /\ w[2] \in Folder
          /\ HandInv(w, i)
      BY <1>i, <3>1, InHand
    <3>2. pass'[w].pc = "select" /\ pass'[w].at = i /\ pass'[w].id = pass[w].id
      BY <1>i, <3>0, <1>e, <1>f, <3>1, GotoMoves
    <3>3. \A v \in Worker, j \in {1, 2} : v # w \/ j # i =>
              /\ Told(v, j)' = Told(v, j)
              /\ Here(v, j)' <=> Here(v, j)
      BY <1>i, <3>1, ToldAt, HereAt
    <3>4. \A v \in Worker, j \in {1, 2} :
              Saved(v, j)' = Saved(v, j) /\ First(v, j)' = First(v, j)
      BY <1>i, <3>1 DEF Saved, First, StoreOf
    <3>5. \A v \in Worker : v # w => Same(v)
      BY <1>i, <3>3, <3>4 DEF Same
    <3>6. Told(w, i)' = fresh[StoreAt(w)][w[2]]
      BY <1>i, <3>0, <3>1, ToldAt
    <3>7. Told(w, i)' \in Identity
      BY <1>i, <3>0, <3>6 DEF TypeOK
    <3>8. HandInv(w, i)'
      BY <1>i, <3>0, <3>1, <3>2, <1>f DEF HandInv, StoreOf, MaildirCreation, Selected, Generated
    <3> QED
      BY <1>i, <1>c, <3>0, <3>1, <3>2, <3>3, <3>4, <3>5, <3>7, <3>8, OpenKeeps
  <2> QED
    BY <1>i, <2>1, <2>2
<1>3. CASE ImapSelect(w)
  <2>0. pass[w].pc = "select" /\ UNCHANGED <<there, tag, meta>>
    BY <1>3 DEF ImapSelect, disk
  <2>1. CASE Return(w)
    BY <1>i, <2>0, <2>1, ReturnKeeps
  <2>2. CASE ~Return(w)
    <3>1. /\ w[2] \in there[StoreAt(w)]
          /\ pass' = [pass EXCEPT ![w].uid = tag[StoreAt(w)][w[2]], ![w].pc = "saved"]
      BY <1>i, <1>3, <2>2 DEF ImapSelect
    <3>2. /\ pass[w].at \in {1, 2} /\ pass \in [Worker -> Pass] /\ pass[w] \in Pass
          /\ StoreOf(w, pass[w].at) = StoreAt(w)
          /\ IdentityInv(w, pass[w].at) /\ HandInv(w, pass[w].at)
          /\ Told(w, pass[w].at) = tag[StoreAt(w)][w[2]]
          /\ Here(w, pass[w].at)
      BY <1>i, <2>0, <3>1, InHand
    <3>3. StoreAt(w) \in ImapStores
      BY <1>i, <2>0, <3>2, <1>f DEF HandInv
    <3>4. Told(w, i) \in Identity
      BY <1>i, <3>2, <3>3 DEF IdentityInv
    <3>5. /\ pass'[w].pc = "saved" /\ pass'[w].uid = Told(w, i)
          /\ pass'[w].at = i /\ pass'[w].id = pass[w].id
      BY <1>i, <3>1, <3>2 DEF Pass
    <3>6. StoreOf(w, i)' = StoreOf(w, i) /\ Told(w, i)' = Told(w, i)
      BY <1>i, <2>0, <3>5 DEF StoreOf, Told
    <3>7. HandInv(w, i)'
      BY <1>i, <3>2, <3>3, <3>4, <3>5, <3>6 DEF HandInv, MaildirCreation, Selected, Generated
    <3> QED
      BY <1>i, <1>c, <2>0, <3>2, <3>5, <3>7, HandKeeps
  <2> QED
    BY <1>i, <2>1, <2>2
<1>4. CASE ImapSavedUIDValidity(w)
  <2>0. pass[w].pc = "saved" /\ UNCHANGED <<there, tag, meta>>
    BY <1>4 DEF ImapSavedUIDValidity, disk
  <2>1. CASE Return(w)
    BY <1>i, <2>0, <2>1, ReturnKeeps
  <2>2. CASE ~Return(w)
    <3>1. PICK pc \in {"createSaved", "connect"} :
              /\ Goto(w, pc)
              /\ pc = "createSaved" => meta[StoreAt(w)][w[2]] = NoFile
              /\ pc = "connect" => meta[StoreAt(w)][w[2]] = pass[w].uid
      BY <1>i, <1>4, <2>2 DEF ImapSavedUIDValidity
    <3>2. /\ pass[w].at \in {1, 2} /\ pass \in [Worker -> Pass] /\ pass[w] \in Pass
          /\ StoreOf(w, pass[w].at) = StoreAt(w)
          /\ HandInv(w, pass[w].at)
          /\ Saved(w, pass[w].at) = meta[StoreAt(w)][w[2]]
      BY <1>i, <2>0, InHand
    <3>3. /\ pass'[w].pc = pc /\ pass'[w].uid = pass[w].uid
          /\ pass'[w].at = i /\ pass'[w].id = pass[w].id
      BY <1>i, <3>1, <3>2, <1>e, <1>f, GotoMoves
    <3>4. /\ StoreOf(w, i)' = StoreOf(w, i) /\ Told(w, i)' = Told(w, i)
          /\ Saved(w, i)' = Saved(w, i)
      BY <1>i, <2>0, <3>3 DEF StoreOf, Told, Saved
    <3>5. /\ StoreAt(w) \in ImapStores /\ pass[w].uid \in Identity
          /\ w \notin overtaken => pass[w].uid = Told(w, i)
      BY <1>i, <2>0, <3>2, <1>f DEF HandInv, Selected
    <3>6. HandInv(w, i)'
      BY <1>i, <3>1, <3>2, <3>3, <3>4, <3>5 DEF HandInv, MaildirCreation, Selected, Generated, Identity
    <3> QED
      BY <1>i, <1>c, <2>0, <3>1, <3>2, <3>3, <3>6, HandKeeps
  <2> QED
    BY <1>i, <2>1, <2>2
<1>5. CASE ImapCreateUIDValidity(w) \/ ImapWriteUIDValidity(w)
  <2>0. pass[w].pc \in {"createSaved", "fillSaved"} /\ UNCHANGED <<there, tag>>
    BY <1>5 DEF ImapCreateUIDValidity, ImapWriteUIDValidity
  <2>2. /\ pass[w].at \in {1, 2} /\ pass \in [Worker -> Pass] /\ pass[w] \in Pass
        /\ StoreOf(w, pass[w].at) = StoreAt(w)
        /\ IdentityInv(w, pass[w].at) /\ HandInv(w, pass[w].at)
    BY <1>i, <2>0, InHand
  <2>3. /\ StoreAt(w) \in ImapStores /\ pass[w].uid \in Identity
        /\ w \notin overtaken => pass[w].uid = Told(w, i)
        /\ Saved(w, i) \in {NoFile, Empty}
    BY <1>i, <2>0, <2>2, <1>f DEF HandInv, Selected
  <2>4. First(w, i) = NoFile
    BY <1>i, <2>2, <2>3 DEF IdentityInv
  <2>5. PICK pc, x :
            /\ pc \in {"fillSaved", "connect"}
            /\ Goto(w, pc)
            /\ meta' = [meta EXCEPT ![StoreAt(w)][w[2]] = x]
            /\ pc = "fillSaved" => x = Empty
            /\ pc = "connect" => x = pass[w].uid
    BY <1>5 DEF ImapCreateUIDValidity, ImapWriteUIDValidity
  <2>6. /\ pass'[w].pc = pc /\ pass'[w].uid = pass[w].uid
        /\ pass'[w].at = i /\ pass'[w].id = pass[w].id
    BY <1>i, <2>2, <2>5, <1>e, <1>f, GotoMoves
  <2>7. \A v \in Worker, j \in {1, 2} :
            /\ Saved(v, j)' = IF v = w /\ j = i THEN x ELSE Saved(v, j)
            /\ Told(v, j)' = Told(v, j) /\ First(v, j)' = First(v, j)
            /\ Here(v, j)' <=> Here(v, j)
            /\ StoreOf(v, j)' = StoreOf(v, j)
    BY <1>i, <2>0, <2>5, SavedAt DEF Told, First, Here, StoreOf
  <2>8. \A v \in Worker : v # w => Same(v)
    BY <1>i, <2>7 DEF Same
  <2>9. HandInv(w, i)'
    BY <1>i, <2>2, <2>3, <2>5, <2>6, <2>7 DEF HandInv, MaildirCreation, Selected, Generated, Identity
  <2>10. StoreOf(w, i) \in ImapStores /\ Here(w, i)' => Told(w, i)' \in Identity
    BY <1>i, <2>2, <2>7 DEF IdentityInv
  <2> QED
    BY <1>i, <1>c, <2>0, <2>2, <2>4, <2>5, <2>6, <2>7, <2>8, <2>9, <2>10, OpenKeeps
<1>6. CASE NewImapFolder(w)
  <2>0. /\ pass[w].pc = "connect" /\ UNCHANGED <<there, tag, meta>>
        /\ Return(w) \/ Opened(w, pass[w].uid, expunge[StoreAt(w)])
    BY <1>i, <1>6 DEF NewImapFolder, disk
  <2>1. CASE Return(w)
    BY <1>i, <2>0, <2>1, ReturnKeeps
  <2>2. CASE Opened(w, pass[w].uid, expunge[StoreAt(w)])
    <3>1. /\ pass[w].at \in {1, 2} /\ StoreAt(w) \in Store
          /\ HandInv(w, pass[w].at)
      BY <1>i, <2>0, InHand
    <3>2. expunge[StoreAt(w)] \in BOOLEAN
      BY <1>i, <3>1 DEF TypeOK
    <3>3. /\ pass[w].uid = Saved(w, i) /\ pass[w].uid # Empty
          /\ w \notin overtaken => pass[w].uid = Told(w, i)
      BY <1>i, <2>0, <3>1 DEF HandInv, Selected
    <3> QED
      BY <1>i, <2>0, <2>2, <3>1, <3>2, <3>3, OpenedKeeps
  <2> QED
    BY <1>i, <2>0, <2>1, <2>2
<1> QED
  BY <1>1, <1>2, <1>3, <1>4, <1>5, <1>6 DEF ImapStoreStep
LEMMA MaildirIdentity ==
    ASSUME TypeOK, NotShared, WorkInv, NEW w \in Worker,
           MaildirStoreStep(w), UNCHANGED <<first, overtaken>>
    PROVE  WorkInv'
<1>i. PICK i \in {1, 2} : pass[w].at = i
  BY WorkerType DEF TypeOK, Pass
<1>c. Moves(w)
  BY MaildirType DEF TypeOK, StoreType
<1>d. MaildirCreation = {"createMd", "fillMd", "createDir", "fillDir", "slice", "append"}
  BY DEF MaildirCreation
<1>e. MaildirCreation \subseteq Steps
  BY DEF Steps
<1>f. pass[w].pc \in {"open", "read", "compare"} \cup MaildirCreation
  BY <1>d DEF MaildirStoreStep, MaildirHasFolder, ReadFolderUID, GetFolderUID,
      CreateMetadataFile, WriteMetadataFile, CreateMaildirFile, WriteMaildirFile,
      ReadFolders, AppendFolder
<1>g. /\ pass \in [Worker -> Pass] /\ pass[w] \in Pass
      /\ StoreOf(w, i) = StoreAt(w)
      /\ StoreAt(w) \in Store /\ w[1] \in Group /\ w[2] \in Folder
      /\ IdentityInv(w, i) /\ HandInv(w, i)
      /\ Saved(w, i) = meta[StoreAt(w)][w[2]]
      /\ Told(w, i) = tag[StoreAt(w)][w[2]]
  BY <1>i, <1>d, <1>f, InHand
<1>h. StoreAt(w) \notin ImapStores
  <2>1. pass[w].pc = "open" => StoreAt(w) \notin ImapStores
    BY <1>d DEF MaildirStoreStep, MaildirHasFolder, ReadFolderUID, GetFolderUID,
        CreateMetadataFile, WriteMetadataFile, CreateMaildirFile, WriteMaildirFile,
        ReadFolders, AppendFolder
  <2> QED
    BY <1>f, <1>g, <2>1 DEF HandInv
<1>1. CASE MaildirHasFolder(w)
  <2>1. /\ UNCHANGED <<tag, meta>> /\ pass[w].pc = "open"
        /\ pass' = [pass EXCEPT ![w].new = w[2] \notin Listed(w) /\ ~dryrun,
                                ![w].pc = "read"]
        /\ there' = there \/ there' = [there EXCEPT ![StoreAt(w)] = @ \cup {w[2]}]
    BY <1>1 DEF MaildirHasFolder
  <2>2. pass'[w].pc = "read" /\ pass'[w].at = i /\ pass'[w].id = pass[w].id
    BY <1>i, <1>g, <2>1 DEF Pass
  <2>3. \A v \in Worker, j \in {1, 2} :
            /\ Saved(v, j)' = Saved(v, j)
            /\ Told(v, j)' = Told(v, j)
            /\ First(v, j)' = First(v, j)
            /\ StoreOf(v, j)' = StoreOf(v, j)
    BY <2>1 DEF Saved, Told, First, StoreOf
  <2>4. \A v \in Worker, j \in {1, 2} : v # w \/ j # i => (Here(v, j)' <=> Here(v, j))
    <3>1. CASE there' = there
      BY <3>1 DEF Here, StoreOf
    <3>2. CASE there' = [there EXCEPT ![StoreAt(w)] = @ \cup {w[2]}]
      BY <1>i, <3>2, HereAt
    <3> QED
      BY <2>1, <3>1, <3>2
  <2>5. \A v \in Worker : v # w => Same(v)
    BY <2>3, <2>4 DEF Same
  <2>6. HandInv(w, i)'
    BY <1>g, <1>h, <2>2, <2>3 DEF HandInv, ImapSteps, Selected, Generated
  <2> QED
    BY <1>i, <1>c, <1>g, <1>h, <2>1, <2>2, <2>3, <2>4, <2>5, <2>6, OpenKeeps
<1>2. CASE ReadFolderUID(w)
  <2>1. UNCHANGED <<there, tag, meta>> /\ pass[w].pc = "read"
    BY <1>2 DEF ReadFolderUID, disk
  <2>2. CASE Return(w)
    BY <2>1, <2>2, ReturnKeeps
  <2>3. CASE ~Return(w)
    <3>1. /\ meta[StoreAt(w)][w[2]] # Empty
          /\ pass' = [pass EXCEPT ![w].uid = meta[StoreAt(w)][w[2]], ![w].pc = "compare"]
      BY <1>2, <2>3 DEF ReadFolderUID
    <3>2. /\ pass'[w].pc = "compare" /\ pass'[w].at = i /\ pass'[w].id = pass[w].id
          /\ pass'[w].uid = Saved(w, i)
      BY <1>i, <1>g, <3>1 DEF Pass
    <3>3. Saved(w, i)' = Saved(w, i) /\ StoreOf(w, i)' = StoreOf(w, i)
      BY <2>1 DEF Saved, StoreOf
    <3>4. HandInv(w, i)'
      BY <1>g, <1>h, <3>1, <3>2, <3>3
          DEF HandInv, ImapSteps, MaildirCreation, Selected, Generated
    <3> QED
      BY <1>i, <1>c, <2>1, <3>2, <3>4, HandKeeps
  <2> QED
    BY <2>2, <2>3
<1>3. CASE GetFolderUID(w)
  <2>1. UNCHANGED <<there, tag, meta>> /\ pass[w].pc = "compare"
    BY <1>3 DEF GetFolderUID
  <2>2. pass[w].uid = Saved(w, i) /\ pass[w].uid # Empty
    BY <1>g, <2>1 DEF HandInv
  <2>3. CASE Return(w)
    BY <2>1, <2>3, ReturnKeeps
  <2>4. CASE Opened(w, pass[w].uid, FALSE) /\ ~Return(w)
    <3>1. tag[StoreAt(w)][w[2]] = pass[w].uid \/ CreateFolder(w)
      BY <1>3, <2>4 DEF GetFolderUID
    <3>2. CASE tag[StoreAt(w)][w[2]] = pass[w].uid
      BY <1>i, <1>g, <2>1, <2>2, <2>4, <3>2, OpenedKeeps
    <3>3. CASE tag[StoreAt(w)][w[2]] # pass[w].uid
      BY <1>3, <2>4, <3>3 DEF GetFolderUID
    <3> QED
      BY <3>2, <3>3
  <2>5. CASE CreateFolder(w)
    <3>1. Saved(w, i)' = Saved(w, i) /\ StoreOf(w, i)' = StoreOf(w, i)
      BY <2>1 DEF Saved, StoreOf
    <3>2. CASE /\ pass[w].uid = NoFile
               /\ pass' = [pass EXCEPT ![w].uid = fresh[StoreAt(w)][w[2]],
                                       ![w].pc = "createMd"]
      <4>1. fresh[StoreAt(w)][w[2]] \in Identity
        BY <1>g DEF TypeOK
      <4>2. /\ pass'[w].pc = "createMd" /\ pass'[w].at = i /\ pass'[w].id = pass[w].id
            /\ pass'[w].uid \in Identity
        BY <1>i, <1>g, <3>2, <4>1 DEF Pass
      <4>3. HandInv(w, i)'
        BY <1>g, <1>h, <2>2, <3>1, <3>2, <4>2
            DEF HandInv, ImapSteps, MaildirCreation, Selected, Generated
      <4> QED
        BY <1>i, <1>c, <2>1, <4>2, <4>3, HandKeeps
    <3>3. CASE Goto(w, "slice")
      <4>1. pass'[w].pc = "slice" /\ pass'[w].at = i /\ pass'[w].id = pass[w].id
        BY <1>i, <1>d, <1>e, <1>g, <3>3, GotoMoves
      <4>2. HandInv(w, i)'
        BY <1>g, <1>h, <3>1, <4>1 DEF HandInv, ImapSteps, MaildirCreation, Selected, Generated
      <4> QED
        BY <1>i, <1>c, <2>1, <4>1, <4>2, HandKeeps
    <3> QED
      BY <2>5, <3>2, <3>3 DEF CreateFolder
  <2> QED
    BY <1>3, <2>3, <2>4, <2>5 DEF GetFolderUID, TakeFolder
<1>4. CASE CreateMetadataFile(w) \/ WriteMetadataFile(w)
  <2>1. pass[w].pc \in {"createMd", "fillMd"} /\ UNCHANGED <<there, tag>>
    BY <1>4 DEF CreateMetadataFile, WriteMetadataFile
  <2>2. pass[w].uid \in Identity /\ Saved(w, i) \in {NoFile, Empty}
    BY <1>g, <2>1 DEF HandInv, Generated
  <2>3. First(w, i) = NoFile
    BY <1>g, <2>2 DEF IdentityInv
  <2>4. PICK pc, x :
            /\ pc \in {"fillMd", "createDir"}
            /\ Goto(w, pc)
            /\ meta' = [meta EXCEPT ![StoreAt(w)][w[2]] = x]
            /\ pc = "fillMd" => x = Empty
    BY <1>4 DEF CreateMetadataFile, WriteMetadataFile
  <2>5. /\ pass'[w].pc = pc /\ pass'[w].uid = pass[w].uid
        /\ pass'[w].at = i /\ pass'[w].id = pass[w].id
    BY <1>i, <1>d, <1>e, <1>g, <2>4, GotoMoves
  <2>6. \A v \in Worker, j \in {1, 2} :
            /\ Saved(v, j)' = IF v = w /\ j = i THEN x ELSE Saved(v, j)
            /\ Told(v, j)' = Told(v, j)
            /\ First(v, j)' = First(v, j)
            /\ Here(v, j)' <=> Here(v, j)
            /\ StoreOf(v, j)' = StoreOf(v, j)
    BY <1>i, <2>1, <2>4, SavedAt DEF Told, First, Here, StoreOf
  <2>7. \A v \in Worker : v # w => Same(v)
    BY <2>6 DEF Same
  <2>8. HandInv(w, i)'
    BY <1>g, <1>h, <2>2, <2>4, <2>5, <2>6
        DEF HandInv, ImapSteps, MaildirCreation, Selected, Generated
  <2> QED
    BY <1>i, <1>c, <1>g, <1>h, <2>1, <2>3, <2>4, <2>5, <2>6, <2>7, <2>8, OpenKeeps
<1>5. CASE CreateMaildirFile(w) \/ WriteMaildirFile(w)
  <2>1. /\ pass[w].pc \in {"createDir", "fillDir"} /\ UNCHANGED <<there, meta>>
        /\ tag' = tag \/ \E x : tag' = [tag EXCEPT ![StoreAt(w)][w[2]] = x]
        /\ Goto(w, "fillDir") \/ Goto(w, "slice")
    BY <1>5 DEF CreateMaildirFile, WriteMaildirFile
  <2>2. pass[w].uid \in Identity
    BY <1>g, <2>1 DEF HandInv, Generated
  <2>3. /\ pass'[w].pc \in {"fillDir", "slice"} /\ pass'[w].uid = pass[w].uid
        /\ pass'[w].at = i /\ pass'[w].id = pass[w].id
    BY <1>i, <1>d, <1>e, <1>g, <2>1, GotoMoves
  <2>4. \A v \in Worker, j \in {1, 2} :
            /\ Saved(v, j)' = Saved(v, j)
            /\ First(v, j)' = First(v, j)
            /\ Here(v, j)' <=> Here(v, j)
            /\ StoreOf(v, j)' = StoreOf(v, j)
    BY <2>1 DEF Saved, First, Here, StoreOf
  <2>5. \A v \in Worker, j \in {1, 2} : v # w \/ j # i => Told(v, j)' = Told(v, j)
    <3>1. CASE tag' = tag
      BY <3>1 DEF Told, StoreOf
    <3>2. CASE \E x : tag' = [tag EXCEPT ![StoreAt(w)][w[2]] = x]
      BY <1>i, <3>2, ToldAt
    <3> QED
      BY <2>1, <3>1, <3>2
  <2>6. \A v \in Worker : v # w => Same(v)
    BY <2>4, <2>5 DEF Same
  <2>7. HandInv(w, i)'
    BY <1>g, <1>h, <2>2, <2>3, <2>4 DEF HandInv, ImapSteps, Selected
  <2> QED
    BY <1>i, <1>c, <1>d, <1>g, <1>h, <2>1, <2>3, <2>4, <2>5, <2>6, <2>7, OpenKeeps
<1>6. CASE ReadFolders(w) \/ AppendFolder(w)
  <2>1. /\ UNCHANGED <<there, tag, meta>> /\ pass[w].pc \in {"slice", "append"}
        /\ \/ pass' = [pass EXCEPT ![w].slice = Listed(w), ![w].pc = "append"]
           \/ pass' = [pass EXCEPT ![w].new = FALSE, ![w].slice = {}, ![w].pc = "read"]
    BY <1>6 DEF ReadFolders, AppendFolder, disk
  <2>2. /\ pass'[w].pc \in {"append", "read"} /\ pass'[w].at = i
        /\ pass'[w].id = pass[w].id
    BY <1>i, <1>g, <2>1 DEF Pass
  <2>3. StoreOf(w, i)' = StoreOf(w, i)
    BY DEF StoreOf
  <2>4. HandInv(w, i)'
    BY <1>g, <1>h, <2>2, <2>3 DEF HandInv, ImapSteps, Selected, Generated
  <2> QED
    BY <1>i, <1>c, <2>1, <2>2, <2>4, HandKeeps
<1> QED
  BY <1>1, <1>2, <1>3, <1>4, <1>5, <1>6 DEF MaildirStoreStep
LEMMA StepIdentity ==
    ASSUME TypeOK, NotShared, WorkInv, NEW w \in Worker, Step(w)
    PROVE  WorkInv'
<1>g. /\ pass \in [Worker -> Pass] /\ pass[w] \in Pass
      /\ w[2] \in Folder
      /\ \A i \in {1, 2} : StoreOf(w, i) \in Store
  BY WorkerType DEF TypeOK
<1>1. CASE SyncFolder(w)
  <2>1. /\ pass[w].pc = "idle" /\ Goto(w, "open")
        /\ overtaken' = overtaken \ {w}
        /\ UNCHANGED <<there, tag, meta, first>>
    BY <1>1 DEF SyncFolder, disk
  <2>2. Moves(w) /\ pass'[w].pc = "open" /\ pass'[w].at = pass[w].at
    BY <1>g, <2>1, GotoMoves DEF Steps
  <2>3. pass[w].at = 1
    BY <2>1 DEF WorkInv, IdentityInv
  <2>4. \A v \in Worker : v # w => Same(v)
    BY <2>1 DEF Same, Saved, Told, First, Here, StoreOf
  <2>5. ASSUME NEW i \in {1, 2} PROVE IdentityInv(w, i)'
    <3>1. /\ Saved(w, i)' = Saved(w, i) /\ Told(w, i)' = Told(w, i)
          /\ First(w, i)' = First(w, i)
      BY <2>1 DEF Saved, Told, First, StoreOf
    <3>2. Here(w, i)' <=> Here(w, i)
      BY <2>1 DEF Here, StoreOf
    <3>3. IdentityInv(w, i) /\ StoreOf(w, i)' = StoreOf(w, i)
      BY DEF WorkInv, StoreOf
    <3>4. ~Took(w, i)'
      BY <2>2, <2>3 DEF Took
    <3>5. HandInv(w, i)'
      BY <2>2 DEF HandInv, ImapSteps, MaildirCreation, Selected, Generated
    <3> QED
      BY <2>2, <3>1, <3>2, <3>3, <3>4, <3>5 DEF IdentityInv
  <2> QED
    BY <2>2, <2>4, <2>5, OthersKept
<1>2. CASE OpenStep(w)
  BY <1>2, ImapIdentity, MaildirIdentity DEF OpenStep, history
<1>3. CASE UpdateMessageLists(w)
  <2>0. pass[w].pc = "list" /\ UNCHANGED <<there, tag, meta, overtaken>>
    BY <1>3 DEF UpdateMessageLists, disk
  <2>1. CASE Return(w) /\ UNCHANGED first
    BY <2>0, <2>1, ReturnKeeps
  <2>2. CASE ~(Return(w) /\ UNCHANGED first)
    <3>1. /\ Goto(w, "work")
          /\ first' = [s \in Store |-> [f \in Folder |->
                IF f = w[2] /\ first[s][f] = NoFile /\ w \notin overtaken
                THEN CASE s = StoreOf(w, 1) -> pass[w].id[1]
                       [] s = StoreOf(w, 2) -> pass[w].id[2]
                       [] OTHER -> NoFile
                ELSE first[s][f]]]
      BY <1>3, <2>2 DEF UpdateMessageLists
    <3>2. Moves(w) /\ pass'[w].pc = "work" /\ pass'[w].id = pass[w].id
          /\ pass'[w].at = pass[w].at
      BY <1>g, <3>1, GotoMoves DEF Steps
    <3>3. StoreOf(w, 1) # StoreOf(w, 2)
      BY Apart
    <3>4. ASSUME NEW i \in {1, 2}
          PROVE  First(w, i)' = IF First(w, i) = NoFile /\ w \notin overtaken
                                THEN pass[w].id[i] ELSE First(w, i)
      BY <1>g, <3>1, <3>3 DEF First, StoreOf
    <3>5. ASSUME NEW v \in Worker, v # w, NEW i \in {1, 2}
          PROVE  First(v, i)' = First(v, i)
      <4>1. v[2] \in Folder /\ StoreOf(v, i) \in Store
        BY WorkerType DEF TypeOK
      <4>2. \A j \in {1, 2} : StoreOf(v, i) # StoreOf(w, j) \/ v[2] # w[2]
        BY <3>5, Apart
      <4> QED
        BY <3>1, <4>1, <4>2 DEF First, StoreOf
    <3>6. \A v \in Worker, i \in {1, 2} :
              /\ Saved(v, i)' = Saved(v, i)
              /\ Told(v, i)' = Told(v, i)
              /\ Here(v, i)' <=> Here(v, i)
              /\ StoreOf(v, i)' = StoreOf(v, i)
      BY <2>0 DEF Saved, Told, Here, StoreOf
    <3>7. \A v \in Worker : v # w => Same(v)
      BY <2>0, <3>5, <3>6 DEF Same
    <3>8. ASSUME NEW i \in {1, 2} PROVE IdentityInv(w, i)'
      <4>1. /\ IdentityInv(w, i) /\ Took(w, i)
            /\ pass[w].id[i] = Saved(w, i) /\ pass[w].id[i] # Empty
            /\ w \notin overtaken => pass[w].id[i] = Told(w, i)
        BY <2>0 DEF WorkInv, IdentityInv, Took
      <4>2. ~Takes(w, i)'
        BY <3>2 DEF Takes
      <4>3. First(w, i) # NoFile => First(w, i) = Saved(w, i) /\ First(w, i) # Empty
        BY <4>1 DEF IdentityInv
      <4>4. First(w, i)' # NoFile => First(w, i)' = Saved(w, i)' /\ First(w, i)' # Empty
        BY <3>4, <3>6, <4>1, <4>3
      <4>5. w \notin overtaken' => pass'[w].id[i] = First(w, i)'
        BY <2>0, <3>2, <3>4, <4>1, <4>3
      <4>6. StoreOf(w, i)' \in ImapStores /\ Here(w, i)' => Told(w, i)' \in Identity
        BY <3>6, <4>1 DEF IdentityInv
      <4> QED
        BY <2>0, <3>2, <3>6, <4>1, <4>2, <4>4, <4>5, <4>6 DEF IdentityInv
    <3> QED
      BY <3>2, <3>7, <3>8, OthersKept
  <2> QED
    BY <2>1, <2>2
<1>4. CASE EndPass(w)
  BY <1>4, ReturnKeeps DEF EndPass, disk, history
<1> QED
  BY <1>1, <1>2, <1>3, <1>4 DEF Step

LEMMA FailureIdentity ==
    ASSUME TypeOK, NotShared, WorkInv, NEW w \in Worker,
           Fail(w) \/ MkdirFails(w) \/ WriteMaildirFileFails(w)
    PROVE  WorkInv'
<1>i. PICK i \in {1, 2} : pass[w].at = i
  BY WorkerType DEF TypeOK, Pass
<1>c. Moves(w)
  BY FailureType
<1>1. CASE Fail(w)
  BY <1>1, ReturnKeeps DEF Fail, disk
<1>2. CASE MkdirFails(w)
  <2>1. /\ pass[w].pc = "open" /\ StoreAt(w) \notin ImapStores
        /\ pass' = [pass EXCEPT ![w].new = TRUE, ![w].pc = "read"]
        /\ UNCHANGED <<there, tag, meta, first, overtaken>>
    BY <1>2 DEF MkdirFails, disk
  <2>2. StoreOf(w, i) = StoreAt(w) /\ pass \in [Worker -> Pass] /\ pass[w] \in Pass
    BY <1>i, <2>1, InHand
  <2>3. pass'[w].pc = "read" /\ pass'[w].at = i /\ pass'[w].id = pass[w].id
    BY <1>i, <2>1, <2>2 DEF Pass
  <2>4. HandInv(w, i)'
    BY <2>1, <2>2, <2>3 DEF HandInv, StoreOf, ImapSteps, Selected, Generated
  <2> QED
    BY <1>i, <1>c, <2>1, <2>3, <2>4, HandKeeps
<1>3. CASE WriteMaildirFileFails(w)
  <2>1. /\ pass[w].pc \in {"createDir", "fillDir"} /\ Goto(w, "slice")
        /\ UNCHANGED <<there, tag, meta, first, overtaken>>
    BY <1>3 DEF WriteMaildirFileFails, disk
  <2>2. /\ StoreOf(w, i) = StoreAt(w) /\ pass \in [Worker -> Pass]
        /\ HandInv(w, i)
    BY <1>i, <2>1, InHand
  <2>3. StoreOf(w, i) \notin ImapStores
    BY <2>1, <2>2 DEF HandInv, MaildirCreation
  <2>4. pass'[w].pc = "slice" /\ pass'[w].at = i /\ pass'[w].id = pass[w].id
    BY <1>i, <2>1, <2>2, GotoMoves DEF Steps, MaildirCreation
  <2>5. HandInv(w, i)'
    BY <2>3, <2>4 DEF HandInv, StoreOf, ImapSteps, Selected, Generated
  <2> QED
    BY <1>i, <1>c, <2>1, <2>4, <2>5, HandKeeps
<1> QED
  BY <1>1, <1>2, <1>3

(* Who creates, deletes or renumbers a folder overtakes the goroutine that *)
(* has it in hand, and no other has looked at it.                          *)
LEMMA OutsideIdentity ==
    ASSUME TypeOK, WorkInv, NEW s \in Store, NEW f \in Folder,
           ClientCreates(s, f) \/ ClientDeletes(s, f) \/ ServerRenumbers(s, f)
    PROVE  WorkInv'
<1>1. /\ UNCHANGED <<meta, pass, first>>
      /\ overtaken' = overtaken \cup {w \in Worker : w[2] = f /\ pass[w].pc # "idle"}
  BY DEF ClientCreates, ClientDeletes, ServerRenumbers, ClientStep
<1>2. \E x : tag' = [tag EXCEPT ![s][f] = x] /\ (s \in ImapStores /\ f \in there'[s] => x \in Identity)
  <2>1. fresh[s][f] \in Identity
    BY DEF TypeOK
  <2>2. CASE ClientCreates(s, f)
    BY <2>1, <2>2 DEF ClientCreates
  <2>3. CASE ClientDeletes(s, f)
    <3>1. f \notin there'[s]
      BY <2>3 DEF ClientDeletes, TypeOK
    <3> QED
      BY <2>3, <3>1 DEF ClientDeletes
  <2>4. CASE ServerRenumbers(s, f)
    BY <2>1, <2>4 DEF ServerRenumbers
  <2> QED
    BY <2>2, <2>3, <2>4
<1>3. PICK x : /\ tag' = [tag EXCEPT ![s][f] = x]
               /\ s \in ImapStores /\ f \in there'[s] => x \in Identity
  BY <1>2
<1>4. \A r \in Store, e \in Folder : r # s \/ e # f => (e \in there'[r] <=> e \in there[r])
  BY DEF ClientCreates, ClientDeletes, ServerRenumbers, TypeOK
<1> SUFFICES ASSUME NEW w \in Worker, NEW i \in {1, 2} PROVE IdentityInv(w, i)'
  BY DEF WorkInv
<1>5. /\ StoreOf(w, i) \in Store /\ w[2] \in Folder /\ StoreOf(w, i)' = StoreOf(w, i)
      /\ IdentityInv(w, i)
  BY WorkerType DEF WorkInv, TypeOK, StoreOf
<1>6. Saved(w, i)' = Saved(w, i) /\ First(w, i)' = First(w, i)
  BY <1>1 DEF Saved, First, StoreOf
<1>7. w \in overtaken => w \in overtaken'
  BY <1>1
<1>8. CASE StoreOf(w, i) = s /\ w[2] = f
  <2>1. pass[w].pc = "idle" \/ w \in overtaken'
    BY <1>1, <1>8
  <2>2. Told(w, i)' = x
    BY <1>3, <1>5, <1>8 DEF Told, StoreOf, TypeOK
  <2>3. StoreOf(w, i) \in ImapStores /\ Here(w, i)' => Told(w, i)' \in Identity
    BY <1>3, <1>5, <1>8, <2>2 DEF Here
  <2>4. Took(w, i)' <=> Took(w, i)
    BY <1>1 DEF Took
  <2>5. pass[w].pc = "idle" => ~Took(w, i)
    BY <1>5 DEF Took, IdentityInv
  <2>6. Takes(w, i)' => HandInv(w, i)'
    BY <1>1, <1>5, <1>6, <2>1
        DEF Takes, IdentityInv, HandInv, ImapSteps, MaildirCreation, Selected, Generated
  <2> QED
    BY <1>1, <1>5, <1>6, <1>7, <2>1, <2>3, <2>4, <2>5, <2>6 DEF IdentityInv
<1>9. CASE ~(StoreOf(w, i) = s /\ w[2] = f)
  <2>1. Told(w, i)' = Told(w, i)
    BY <1>3, <1>5, <1>9 DEF Told, StoreOf, TypeOK
  <2>2. Here(w, i)' <=> Here(w, i)
    BY <1>4, <1>5, <1>9 DEF Here
  <2> QED
    BY <1>1, <1>5, <1>6, <1>7, <2>1, <2>2 DEF IdentityInv, Took, Takes, HandInv
<1> QED
  BY <1>8, <1>9

(* Without a word from the files, the history and the goroutines.          *)
LEMMA WorkStays ==
    ASSUME WorkInv, UNCHANGED <<there, tag, meta, first, overtaken, pass>>
    PROVE  WorkInv'
<1> SUFFICES ASSUME NEW w \in Worker, NEW i \in {1, 2} PROVE IdentityInv(w, i)'
  BY DEF WorkInv
<1>1. IdentityInv(w, i)
  BY DEF WorkInv
<1>2. /\ Saved(w, i)' = Saved(w, i) /\ Told(w, i)' = Told(w, i)
      /\ First(w, i)' = First(w, i) /\ (Here(w, i)' <=> Here(w, i))
      /\ StoreOf(w, i)' = StoreOf(w, i)
  BY DEF Saved, Told, First, Here, StoreOf
<1>3. (Took(w, i)' <=> Took(w, i)) /\ (Takes(w, i)' <=> Takes(w, i))
  BY DEF Took, Takes
<1>4. HandInv(w, i) => HandInv(w, i)'
  BY <1>2 DEF HandInv
<1> QED
  BY <1>1, <1>2, <1>3, <1>4 DEF IdentityInv

LEMMA WorkInvariant ==
    ASSUME NotShared, TypeOK, WorkInv, [Next]_vars
    PROVE  WorkInv'
<1>1. ASSUME NEW g \in Group, NewStore1(g) \/ NewStore2(g) \/ NewStoreFails(g)
      PROVE  WorkInv'
  <2>1. UNCHANGED <<there, tag, meta, first, overtaken, pass>>
    BY <1>1 DEF NewStore1, NewStore2, NewStoreFails, disk, history
  <2> QED
    BY <2>1, WorkStays
<1>2. ASSUME NEW w \in Worker,
             Step(w) \/ Fail(w) \/ MkdirFails(w) \/ WriteMaildirFileFails(w)
      PROVE  WorkInv'
  BY <1>2, StepIdentity, FailureIdentity
<1>3. CASE Restart
  <2>1. UNCHANGED <<there, tag, meta, first>> /\ pass' = NoWork
    BY <1>3 DEF Restart, disk
  <2> SUFFICES ASSUME NEW w \in Worker, NEW i \in {1, 2} PROVE IdentityInv(w, i)'
    BY DEF WorkInv
  <2>2. IdentityInv(w, i) /\ StoreOf(w, i)' = StoreOf(w, i)
    BY DEF WorkInv, StoreOf
  <2>3. pass'[w].pc = "idle" /\ pass'[w].at = 1
    BY <2>1 DEF NoWork, Idle
  <2>4. /\ Saved(w, i)' = Saved(w, i)
        /\ Told(w, i)' = Told(w, i)
        /\ First(w, i)' = First(w, i)
        /\ Here(w, i)' <=> Here(w, i)
    BY <2>1 DEF Saved, Told, First, Here, StoreOf
  <2>5. ~Took(w, i)' /\ HandInv(w, i)'
    BY <2>3 DEF Took, HandInv, ImapSteps, MaildirCreation, Selected, Generated
  <2> QED
    BY <2>2, <2>3, <2>4, <2>5 DEF IdentityInv
<1>4. ASSUME NEW s \in Store, NEW f \in Folder,
             ClientCreates(s, f) \/ ClientDeletes(s, f) \/ ServerRenumbers(s, f)
      PROVE  WorkInv'
  BY <1>4, OutsideIdentity
<1>5. CASE UNCHANGED vars
  BY <1>5, WorkStays DEF vars, disk, history
<1> QED
  BY <1>1, <1>2, <1>3, <1>4, <1>5 DEF Next

LEMMA InitWork == Init => WorkInv
<1> SUFFICES ASSUME Init, NEW w \in Worker, NEW i \in {1, 2} PROVE IdentityInv(w, i)
  BY DEF WorkInv
<1>1. w[1] \in Group /\ w[2] \in Folder /\ StoreOf(w, i) \in Store
  BY WorkerAssumption, StoresOfAssumption DEF StoreOf
<1>2. pass[w].pc = "idle" /\ pass[w].at = 1
  BY DEF Init, NoWork, Idle
<1>3. First(w, i) = NoFile
  BY <1>1 DEF Init, First
<1>4. StoreOf(w, i) \in ImapStores /\ Here(w, i) => Told(w, i) \in Identity
  BY <1>1 DEF Init, Here, Told, Identity, Empty
<1>5. ~Took(w, i) /\ HandInv(w, i)
  BY <1>2 DEF Took, HandInv, ImapSteps, MaildirCreation, Selected, Generated
<1> QED
  BY <1>2, <1>3, <1>4, <1>5 DEF IdentityInv

(* If no two syncgroups share a store, a folder is synchronised under one  *)
(* identity for ever: restarts, failures in the middle of its creation,    *)
(* renumberings and deletions never bring rows of one life of the folder   *)
(* together with uids of another.                                          *)
THEOREM OneIdentity == NotShared => (Spec => []IdentityKept)
<1>1. WorkInv => IdentityKept
  <2> SUFFICES ASSUME WorkInv, NEW w \in Worker, pass[w].pc = "work", w \notin overtaken,
                      NEW i \in {1, 2}
               PROVE  /\ pass[w].id[i] = first[StoreOf(w, i)][w[2]]
                      /\ pass[w].id[i] = tag[StoreOf(w, i)][w[2]]
    BY DEF IdentityKept
  <2> QED
    BY DEF WorkInv, IdentityInv, Took, First, Told
<1>2. NotShared /\ TypeOK /\ WorkInv /\ [Next]_vars => WorkInv'
  BY WorkInvariant
<1>3. ASSUME NotShared PROVE Spec => []IdentityKept
  <2>1. TypeOK /\ WorkInv /\ [Next]_vars => WorkInv'
    BY <1>2, <1>3
  <2> QED
    BY <1>1, <2>1, InitType, InitWork, NextType, PTL DEF Spec
<1> QED
  BY <1>3
=============================================================================
