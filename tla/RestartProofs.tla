---------------------------- MODULE RestartProofs ----------------------------
(***************************************************************************)
(* What a syncgroup that is started again finds: the folders it chooses,   *)
(* and the files of the folders it or its predecessor created.             *)
(***************************************************************************)
EXTENDS SyncgroupProofs

(* The folders g would choose if it were started now.                      *)
Choice(g) ==
    {f \in Folder :
        /\ \E i \in {1, 2} : f \in there[StoresOf[g][i]]
        /\ \A i \in {1, 2} :
              f \in there[StoresOf[g][i]] => Accepted(StoresOf[g][i], f)}

(* What newStore has read of the first store is still true.                *)
FirstListed(g) ==
    /\ folders[g][1] = there[StoresOf[g][1]]
    /\ excluded[g][1] = {f \in there[StoresOf[g][1]] : ~Accepted(StoresOf[g][1], f)}

(* As long as nobody else acts, the folders that were not chosen stay so,  *)
(* and those that were chosen stay where they are.                         *)
StillChosen(g, last) ==
    /\ Choice(g) \subseteq last
    /\ \A f \in last : \E i \in {1, 2} : f \in there[StoresOf[g][i]]

RestartInv ==
    \A g \in Group :
        /\ state[g] # "waiting" => g \in selected
        /\ state[g] = "running" => chosen[g] = {tosync[g]}
        /\ g \in selected /\ Alone(g) /\ ops = 0 =>
              /\ state[g] = "store1" => FirstListed(g)
              /\ \A last \in chosen[g] : StillChosen(g, last)
-----------------------------------------------------------------------------
(* Only goroutines and clients create folders, and only clients delete one.*)
LEMMA StepThere ==
    ASSUME NEW w \in Worker,
           Step(w) \/ Fail(w) \/ MkdirFails(w) \/ WriteMaildirFileFails(w)
    PROVE  /\ UNCHANGED <<chosen, selected, ops, state, tosync, excluded>>
           /\ \/ UNCHANGED there
              \/ /\ pass[w].pc # "idle"
                 /\ there' = [there EXCEPT ![StoreAt(w)] = @ \cup {w[2]}]
<1>1. UNCHANGED <<state, tosync, excluded>>
  BY StepKeepsChoice, FailureKeepsChoice
<1>2. CASE OpenStep(w)
  <2>1. CASE ImapLock(w) \/ ImapStoreStep(w)
    BY <1>1, <1>2, <2>1 DEF OpenStep, history, ImapStoreStep, ImapLock, ImapCreateFolder,
        ImapSelect, ImapSavedUIDValidity, ImapCreateUIDValidity, ImapWriteUIDValidity,
        NewImapFolder, disk
  <2>2. CASE MaildirStoreStep(w)
    BY <1>1, <1>2, <2>2 DEF OpenStep, history, MaildirStoreStep, MaildirHasFolder,
        ReadFolderUID, GetFolderUID, CreateMetadataFile, WriteMetadataFile,
        CreateMaildirFile, WriteMaildirFile, ReadFolders, AppendFolder, disk
  <2> QED
    BY <1>2, <2>1, <2>2 DEF OpenStep
<1>3. CASE SyncFolder(w) \/ UpdateMessageLists(w) \/ EndPass(w)
  BY <1>1, <1>3 DEF SyncFolder, UpdateMessageLists, EndPass, disk, history
<1>4. CASE Fail(w) \/ MkdirFails(w) \/ WriteMaildirFileFails(w)
  BY <1>1, <1>4 DEF Fail, MkdirFails, WriteMaildirFileFails, disk
<1> QED
  BY <1>2, <1>3, <1>4 DEF Step

LEMMA InitRestart == Init => RestartInv
BY DEF Init, RestartInv, NotSelected

(* The folders that both stores list and neither excludes.                 *)
LEMMA ChosenNow ==
    ASSUME TypeOK, NEW g \in Group, FirstListed(g), UpdateFolderList(g, 2)
    PROVE  MergeFolders(folders'[g], excluded'[g]) = Choice(g)
<1>1. \A i \in {1, 2} : there[StoresOf[g][i]] \subseteq Folder
  BY StoresOfAssumption DEF TypeOK
<1>2. \A i \in {1, 2} :
          /\ folders'[g][i] = there[StoresOf[g][i]]
          /\ excluded'[g][i] = {f \in there[StoresOf[g][i]] : ~Accepted(StoresOf[g][i], f)}
  BY DEF FirstListed, UpdateFolderList, TypeOK
<1> QED
  BY <1>1, <1>2 DEF MergeFolders, Choice

LEMMA RestartStores ==
    ASSUME TypeOK, ChoiceInv, RestartInv, TypeOK', NEW g \in Group,
           NewStore1(g) \/ NewStore2(g) \/ NewStoreFails(g)
    PROVE  RestartInv'
<1>0. UNCHANGED <<there, selected, ops>> /\ g \in selected
  BY DEF NewStore1, NewStore2, NewStoreFails, Turn, disk
<1>a. \A h \in Group : /\ Alone(h)' <=> Alone(h)
                       /\ Choice(h)' = Choice(h)
                       /\ \A last : StillChosen(h, last)' <=> StillChosen(h, last)
  BY <1>0 DEF Alone, Choice, StillChosen
<1>1. CASE NewStore1(g)
  <2>1. /\ state' = [state EXCEPT ![g] = "store1"] /\ UNCHANGED <<chosen, tosync>>
        /\ UpdateFolderList(g, 1)
    BY <1>1 DEF NewStore1, NewStore, NewImapStore, NewMaildirStore, history
  <2>2. FirstListed(g)'
    BY <1>0, <2>1 DEF UpdateFolderList, FirstListed, TypeOK
  <2>3. \A h \in Group \ {g} : state'[h] = state[h] /\ (FirstListed(h)' <=> FirstListed(h))
    BY <1>0, <2>1 DEF UpdateFolderList, FirstListed, TypeOK
  <2>4. state'[g] = "store1"
    BY <2>1 DEF TypeOK
  <2> QED
    BY <1>0, <1>a, <2>1, <2>2, <2>3, <2>4 DEF RestartInv
<1>2. CASE NewStore2(g)
  <2>1. /\ state[g] = "store1" /\ state' = [state EXCEPT ![g] = "running"]
        /\ tosync' = [tosync EXCEPT ![g] = MergeFolders(folders'[g], excluded'[g])]
        /\ chosen' = [chosen EXCEPT ![g] = {tosync'[g]}]
        /\ UpdateFolderList(g, 2)
    BY <1>2 DEF NewStore2, NewStore, NewImapStore, NewMaildirStore
  <2>2. \A h \in Group \ {g} :
            /\ state'[h] = state[h] /\ tosync'[h] = tosync[h] /\ chosen'[h] = chosen[h]
            /\ FirstListed(h)' <=> FirstListed(h)
    BY <1>0, <2>1 DEF UpdateFolderList, FirstListed, TypeOK
  <2>3. /\ state'[g] = "running" /\ chosen'[g] = {tosync'[g]}
        /\ tosync'[g] = MergeFolders(folders'[g], excluded'[g])
    BY <2>1 DEF TypeOK
  <2>4. ASSUME Alone(g), ops = 0 PROVE StillChosen(g, tosync'[g])
    <3>1. FirstListed(g)
      BY <1>0, <2>1, <2>4 DEF RestartInv
    <3>2. tosync'[g] = Choice(g)
      BY <2>1, <2>3, <3>1, ChosenNow
    <3> QED
      BY <3>2 DEF StillChosen, Choice
  <2> QED
    BY <1>0, <1>a, <2>2, <2>3, <2>4 DEF RestartInv
<1>3. CASE NewStoreFails(g)
  <2>1. /\ state' = [state EXCEPT ![g] = "failed"]
        /\ UNCHANGED <<chosen, tosync, folders, excluded>>
    BY <1>3 DEF NewStoreFails, history
  <2>2. \A h \in Group : FirstListed(h)' <=> FirstListed(h)
    BY <1>0, <2>1 DEF FirstListed
  <2>3. /\ state'[g] = "failed"
        /\ \A h \in Group \ {g} : state'[h] = state[h]
    BY <2>1 DEF TypeOK
  <2> QED
    BY <1>0, <1>a, <2>1, <2>2, <2>3 DEF RestartInv
<1> QED
  BY <1>1, <1>2, <1>3

(* A goroutine creates a folder that its own syncgroup chose, on a store   *)
(* that a syncgroup that is alone does not have.                           *)
LEMMA RestartSteps ==
    ASSUME TypeOK, ChoiceInv, RestartInv, TypeOK', NEW w \in Worker,
           Step(w) \/ Fail(w) \/ MkdirFails(w) \/ WriteMaildirFileFails(w)
    PROVE  RestartInv'
<1>0. /\ w[1] \in Group /\ w[2] \in Folder /\ StoreAt(w) \in Store
      /\ pass[w].at \in {1, 2} /\ StoreAt(w) = StoresOf[w[1]][pass[w].at]
  BY WorkerType DEF TypeOK, Pass, StoreAt, StoreOf
<1>1. UNCHANGED <<chosen, selected, ops, state, tosync, excluded>>
  BY StepThere
<1>a. \A g \in Group : Alone(g)' <=> Alone(g)
  BY <1>1 DEF Alone
<1>2. ASSUME NEW g \in Group, g \in selected, Alone(g), ops = 0
      PROVE  /\ state[g] = "store1" => FirstListed(g)'
             /\ \A last \in chosen[g] : StillChosen(g, last)'
  <2>1. CASE UNCHANGED there
    BY <1>2, <2>1, <1>1, StepFirst DEF RestartInv, FirstListed, StillChosen, Choice
  <2>2. CASE /\ pass[w].pc # "idle"
             /\ there' = [there EXCEPT ![StoreAt(w)] = @ \cup {w[2]}]
    <3>1. state[w[1]] = "running" /\ w[2] \in tosync[w[1]]
      BY <2>2 DEF ChoiceInv
    <3>2. w[1] \in selected /\ chosen[w[1]] = {tosync[w[1]]}
      BY <1>0, <3>1 DEF RestartInv
    <3>3. \A s \in Store : there'[s] = IF s = StoreAt(w) THEN there[s] \cup {w[2]} ELSE there[s]
      BY <1>0, <2>2 DEF TypeOK
    <3>4. \A i \in {1, 2} : StoresOf[g][i] \in Store
      BY StoresOfAssumption
    <3>5. CASE w[1] = g
      <4>1. state[g] # "store1" /\ \A last \in chosen[g] : w[2] \in last
        BY <3>1, <3>2, <3>5
      <4>2. \A last \in chosen[g] : StillChosen(g, last)
        BY <1>2 DEF RestartInv
      <4>3. Choice(g)' \subseteq Choice(g) \cup {w[2]}
        BY <3>3, <3>4 DEF Choice
      <4>4. \A i \in {1, 2} : there[StoresOf[g][i]] \subseteq there'[StoresOf[g][i]]
        BY <3>3, <3>4
      <4> QED
        BY <4>1, <4>2, <4>3, <4>4 DEF StillChosen
    <3>6. CASE w[1] # g
      <4>1. \A i \in {1, 2} : StoresOf[g][i] # StoreAt(w)
        BY <1>0, <1>2, <3>2, <3>6 DEF Alone
      <4>2. \A i \in {1, 2} : there'[StoresOf[g][i]] = there[StoresOf[g][i]]
        BY <3>3, <3>4, <4>1
      <4> QED
        BY <1>1, <1>2, <4>2, StepFirst DEF RestartInv, FirstListed, StillChosen, Choice
    <3> QED
      BY <3>5, <3>6
  <2> QED
    BY <2>1, <2>2, StepThere
<1> QED
  BY <1>1, <1>a, <1>2 DEF RestartInv

LEMMA RestartInvariant ==
    TypeOK /\ ChoiceInv /\ RestartInv /\ [Next]_vars => RestartInv'
<1> SUFFICES ASSUME TypeOK, ChoiceInv, RestartInv, [Next]_vars PROVE RestartInv'
  OBVIOUS
<1>0. TypeOK'
  BY NextType
<1>1. CASE UNCHANGED vars
  BY <1>1 DEF vars, disk, memory, history, RestartInv, Alone, FirstListed, StillChosen, Choice
<1>2. CASE \E g \in Group : NewStore1(g) \/ NewStore2(g) \/ NewStoreFails(g)
  BY <1>0, <1>2, RestartStores
<1>3. CASE \E w \in Worker : Step(w) \/ Fail(w) \/ MkdirFails(w) \/ WriteMaildirFileFails(w)
  BY <1>0, <1>3, RestartSteps
<1>4. CASE Restart
  <2>1. state' = NotSelected /\ UNCHANGED <<there, selected, chosen, ops>>
    BY <1>4 DEF Restart, disk
  <2> QED
    BY <2>1 DEF NotSelected, RestartInv, Alone, StillChosen, Choice
<1>5. CASE \E s \in Store, f \in Folder :
              ClientCreates(s, f) \/ ClientDeletes(s, f) \/ ServerRenumbers(s, f)
  <2>1. ops' = ops + 1 /\ UNCHANGED <<selected, state, tosync, chosen>>
    BY <1>5 DEF ClientCreates, ClientDeletes, ServerRenumbers, ClientStep
  <2>2. ops' # 0
    BY <2>1, BoundsAssumption DEF TypeOK
  <2> QED
    BY <2>1, <2>2 DEF RestartInv
<1> QED
  BY <1>1, <1>2, <1>3, <1>4, <1>5 DEF Next

(* A restart chooses the same folders again, whatever the process before it*)
(* had created or was creating when it was killed, and drops only what it  *)
(* created on a store whose patterns refuse it; unless another syncgroup   *)
(* shares a store or a mail client acts.                                   *)
THEOREM SameChoiceAfterRestart == Spec => RestartsChooseAlike
<1> DEFINE Kept(g, last) ==
        state'[g] = "running" /\ state[g] # "running" /\ Alone(g) /\ ops = 0 =>
              /\ tosync'[g] \subseteq last
              /\ \A f \in last \ tosync'[g] :
                    \E i \in {1, 2} : ~Accepted(StoresOf[g][i], f)
<1>1. ASSUME TypeOK, ChoiceInv, RestartInv, Next, NEW g \in Group, NEW last \in chosen[g]
      PROVE  Kept(g, last)
  <2> SUFFICES ASSUME state'[g] = "running", state[g] # "running", Alone(g), ops = 0
               PROVE  /\ tosync'[g] \subseteq last
                      /\ \A f \in last \ tosync'[g] :
                            \E i \in {1, 2} : ~Accepted(StoresOf[g][i], f)
    OBVIOUS
  <2>1. NewStore2(g)
    <3>1. ASSUME NEW h \in Group, NewStore1(h) \/ NewStoreFails(h) PROVE FALSE
      BY <1>1, <3>1 DEF NewStore1, NewStoreFails, TypeOK
    <3>2. ASSUME NEW h \in Group, NewStore2(h) PROVE h = g
      BY <1>1, <3>2 DEF NewStore2, TypeOK
    <3>3. ASSUME NEW w \in Worker,
                 Step(w) \/ Fail(w) \/ MkdirFails(w) \/ WriteMaildirFileFails(w)
          PROVE  FALSE
      BY <1>1, <3>3, StepThere
    <3>4. ~Restart
      BY <1>1 DEF Restart, NotSelected
    <3>5. ASSUME NEW s \in Store, NEW f \in Folder,
                 ClientCreates(s, f) \/ ClientDeletes(s, f) \/ ServerRenumbers(s, f)
          PROVE  FALSE
      BY <1>1, <3>5, OutsideKeepsMemory
    <3> QED
      BY <1>1, <3>1, <3>2, <3>3, <3>4, <3>5 DEF Next
  <2>2. /\ state[g] = "store1" /\ g \in selected
        /\ tosync' = [tosync EXCEPT ![g] = MergeFolders(folders'[g], excluded'[g])]
        /\ UpdateFolderList(g, 2)
    BY <2>1 DEF NewStore2, NewStore, NewImapStore, NewMaildirStore, Turn
  <2>3. FirstListed(g) /\ StillChosen(g, last)
    BY <1>1, <2>2 DEF RestartInv
  <2>4. tosync'[g] = Choice(g)
    BY <1>1, <2>2, <2>3, ChosenNow DEF TypeOK
  <2>5. \A i \in {1, 2} : there[StoresOf[g][i]] \subseteq Folder
    BY <1>1, StoresOfAssumption DEF TypeOK
  <2> QED
    BY <2>3, <2>4, <2>5 DEF StillChosen, Choice
<1>2. TypeOK /\ ChoiceInv /\ RestartInv /\ [Next]_vars =>
        [\A g \in Group : \A last \in chosen[g] : Kept(g, last)]_vars
  BY <1>1
<1>3. Init => ChoiceInv
  BY WorkerAssumption DEF Init, ChoiceInv, NotSelected, NoWork, Idle
<1> QED
  BY <1>2, <1>3, InitType, InitRestart, NextType, ChoiceInvariant, RestartInvariant, PTL
     DEF Spec, RestartsChooseAlike
-----------------------------------------------------------------------------
(* The identity files of a folder that nobody disturbed.                   *)

(* A Maildir belongs to one syncgroup, once; servers may be shared.        *)
OwnMaildirs ==
    \A g, h \in Group, i, j \in {1, 2} :
        StoresOf[g][i] = StoresOf[h][j] /\ StoresOf[g][i] \notin ImapStores
            => g = h /\ i = j

Hurt(s, f) == <<s, f>> \in hurt
Is(w, s, f) == w[2] = f /\ StoreAt(w) = s

(* A mailbox has a UIDVALIDITY; if nobody disturbed it, it is what was     *)
(* saved, unless nothing was yet or a goroutine is about to.               *)
MailboxInv(s, f) ==
    /\ f \in there[s] => tag[s][f] \in Identity
    /\ ~Hurt(s, f) /\ f \notin there[s] => meta[s][f] = NoFile
    /\ ~Hurt(s, f) /\ f \in there[s] =>
          /\ meta[s][f] \in {NoFile, Empty, tag[s][f]}
          /\ meta[s][f] = Empty =>
                \E w \in Worker : Is(w, s, f) /\ pass[w].pc = "fillSaved"

(* The two files of a Maildir folder hold the same identity, or a goroutine*)
(* is creating the folder.                                                 *)
MaildirInv(s, f) ==
    ~Hurt(s, f) =>
        /\ f \notin there[s] => meta[s][f] = NoFile /\ tag[s][f] = NoFile
        /\ f \in there[s] =>
              \/ meta[s][f] \in Identity /\ tag[s][f] = meta[s][f]
              \/ \E w \in Worker : Is(w, s, f) /\ InCreation(w)

FileInv ==
    \A s \in Store, f \in Folder :
        IF s \in ImapStores THEN MailboxInv(s, f) ELSE MaildirInv(s, f)

(* What a goroutine knows of the files while it opens the folder.          *)
ImapHand(w) ==
    pass[w].pc \in Selected =>
        /\ pass[w].uid \in Identity
        /\ ~Hurt(StoreAt(w), w[2]) =>
              /\ w[2] \in there[StoreAt(w)]
              /\ pass[w].uid = tag[StoreAt(w)][w[2]]

MaildirHand(w) ==
    LET s == StoreAt(w)
        pc == pass[w].pc
        uid == pass[w].uid
        saved == meta[s][w[2]]
        told == tag[s][w[2]]
    IN  ~Hurt(s, w[2]) =>
        /\ pass[w].new /\ pc \in {"read", "compare"} =>
              w[2] \in there[s] /\ saved = told /\ saved # Empty
        /\ pc = "compare" => uid = saved
        /\ pc \in MaildirCreation => w[2] \in there[s]
        /\ pc \in Generated => uid \in Identity
        /\ pc = "createMd" => saved = NoFile /\ told = NoFile
        /\ pc = "fillMd" => saved = Empty /\ told = NoFile
        /\ pc = "createDir" => saved = uid /\ told = NoFile
        /\ pc = "fillDir" => saved = uid /\ told = Empty
        /\ pc \in {"slice", "append"} => saved = told /\ saved \in Identity

(* The folders a store object lists are there, or were disturbed.          *)
Known(s, F) == \A f \in F : f \in there[s] \/ Hurt(s, f)

GoroutineInv(w) ==
    /\ pass[w].pc \in ImapSteps => StoreAt(w) \in ImapStores
    /\ pass[w].pc \in MaildirCreation \cup {"read", "compare"} =>
          StoreAt(w) \notin ImapStores
    /\ ImapHand(w)
    /\ MaildirHand(w)
    /\ pass[w].pc = "append" => Known(StoreAt(w), pass[w].slice)
    /\ \A i \in {1, 2} :
          Took(w, i) => pass[w].id[i] # NoFile \/ Hurt(StoreOf(w, i), w[2])

ListedInv ==
    \A g \in Group, i \in {1, 2} : Known(StoresOf[g][i], folders[g][i])

RefusalInv ==
    /\ FileInv
    /\ \A w \in Worker : GoroutineInv(w)
    /\ ListedInv
-----------------------------------------------------------------------------
LEMMA OneGoroutine ==
    ASSUME OwnMaildirs, TypeOK, NEW v \in Worker, NEW w \in Worker,
           v[2] = w[2], StoreAt(v) = StoreAt(w), StoreAt(w) \notin ImapStores
    PROVE  v = w
<1>1. /\ v[1] \in Group /\ w[1] \in Group
      /\ v = <<v[1], v[2]>> /\ w = <<w[1], w[2]>>
  BY WorkerAssumption
<1>2. pass[v].at \in {1, 2} /\ pass[w].at \in {1, 2}
  BY DEF TypeOK, Pass
<1> QED
  BY <1>1, <1>2 DEF OwnMaildirs, StoreAt, StoreOf

(* A step of w that touches the files of its own folder only.              *)
Elsewhere(w) ==
    /\ Moves(w)
    /\ hurt \subseteq hurt'
    /\ \A s \in Store : there[s] \subseteq there'[s]
    /\ \A s \in Store, f \in Folder : ~Is(w, s, f) =>
          /\ f \in there'[s] <=> f \in there[s]
          /\ meta'[s][f] = meta[s][f]
          /\ tag'[s][f] = tag[s][f]
    /\ StoreAt(w) \in ImapStores /\ w[2] \in there[StoreAt(w)] =>
          tag'[StoreAt(w)][w[2]] = tag[StoreAt(w)][w[2]]

LEMMA OtherFolders ==
    ASSUME TypeOK, RefusalInv, NEW w \in Worker, Elsewhere(w),
           NEW s \in Store, NEW f \in Folder, ~Is(w, s, f)
    PROVE  IF s \in ImapStores THEN MailboxInv(s, f)' ELSE MaildirInv(s, f)'
<1>1. /\ f \in there'[s] <=> f \in there[s]
      /\ meta'[s][f] = meta[s][f] /\ tag'[s][f] = tag[s][f]
      /\ Hurt(s, f) => Hurt(s, f)'
  BY DEF Elsewhere, Hurt
<1>2. ASSUME NEW v \in Worker, Is(v, s, f)
      PROVE  pass'[v] = pass[v] /\ Is(v, s, f)' /\ (InCreation(v)' <=> InCreation(v))
  <2>1. v # w
    BY <1>2
  <2> QED
    BY <1>2, <2>1 DEF Elsewhere, Moves, Is, StoreAt, StoreOf, InCreation
<1>3. CASE s \in ImapStores
  <2>1. MailboxInv(s, f)
    BY <1>3 DEF RefusalInv, FileInv
  <2> QED
    BY <1>1, <1>2, <1>3, <2>1 DEF MailboxInv
<1>4. CASE s \notin ImapStores
  <2>1. MaildirInv(s, f)
    BY <1>4 DEF RefusalInv, FileInv
  <2> QED
    BY <1>1, <1>2, <1>4, <2>1 DEF MaildirInv
<1> QED
  BY <1>3, <1>4

LEMMA OtherGoroutines ==
    ASSUME OwnMaildirs, TypeOK, RefusalInv, NEW w \in Worker, Elsewhere(w),
           NEW v \in Worker, v # w
    PROVE  GoroutineInv(v)'
<1>1. /\ v[2] \in Folder /\ StoreAt(v) \in Store /\ pass[v] \in Pass
      /\ \A i \in {1, 2} : StoreOf(v, i) \in Store
  BY WorkerType DEF TypeOK
<1>2. /\ pass'[v] = pass[v] /\ StoreAt(v)' = StoreAt(v)
      /\ \A i \in {1, 2} : StoreOf(v, i)' = StoreOf(v, i)
  BY DEF Elsewhere, Moves, StoreAt, StoreOf
<1>3. \A s, f : Hurt(s, f) => Hurt(s, f)'
  BY DEF Elsewhere, Hurt
<1>4. GoroutineInv(v)
  BY DEF RefusalInv
<1>5. ImapHand(v)'
  <2>1. CASE Is(w, StoreAt(v), v[2])
    <3>1. pass[v].pc \in Selected => StoreAt(v) \in ImapStores
      BY <1>4 DEF GoroutineInv, Selected, ImapSteps
    <3> QED
      BY <1>1, <1>2, <1>3, <1>4, <2>1, <3>1 DEF GoroutineInv, ImapHand, Elsewhere, Is
  <2>2. CASE ~Is(w, StoreAt(v), v[2])
    BY <1>1, <1>2, <1>3, <1>4, <2>2 DEF GoroutineInv, ImapHand, Elsewhere
  <2> QED
    BY <2>1, <2>2
<1>6. MaildirHand(v)'
  <2>1. CASE StoreAt(v) \in ImapStores
    <3>1. pass[v].pc \notin MaildirCreation \cup {"read", "compare"}
      BY <1>4, <2>1 DEF GoroutineInv
    <3> QED
      BY <1>2, <3>1 DEF MaildirHand, MaildirCreation, Generated
  <2>2. CASE StoreAt(v) \notin ImapStores
    <3>1. ~Is(w, StoreAt(v), v[2])
      BY <2>2, OneGoroutine DEF Is
    <3> QED
      BY <1>1, <1>2, <1>3, <1>4, <3>1 DEF GoroutineInv, MaildirHand, Elsewhere
  <2> QED
    BY <2>1, <2>2
<1>7. pass[v].pc = "append" => Known(StoreAt(v), pass[v].slice)'
  BY <1>1, <1>2, <1>3, <1>4 DEF GoroutineInv, Known, Elsewhere
<1> QED
  BY <1>2, <1>3, <1>4, <1>5, <1>6, <1>7 DEF GoroutineInv, Took

LEMMA OwnFolder ==
    ASSUME OwnMaildirs, TypeOK, RefusalInv, NEW w \in Worker, Elsewhere(w),
           NEW s \in Store, s = StoreAt(w),
           s \in ImapStores => MailboxInv(s, w[2])',
           s \notin ImapStores => MaildirInv(s, w[2])',
           GoroutineInv(w)', ListedInv'
    PROVE  RefusalInv'
<1>1. ASSUME NEW t \in Store, NEW f \in Folder
      PROVE  IF t \in ImapStores THEN MailboxInv(t, f)' ELSE MaildirInv(t, f)'
  <2>1. CASE Is(w, t, f)
    BY <2>1 DEF Is
  <2>2. CASE ~Is(w, t, f)
    BY <2>2, OtherFolders
  <2> QED
    BY <2>1, <2>2
<1>2. FileInv'
  BY <1>1 DEF FileInv
<1> QED
  BY <1>2, OtherGoroutines DEF RefusalInv

(* The files stay as they are: w may only stop to create its folder when it*)
(* is complete, or disturbed by that.                                      *)
LEMMA SameFiles ==
    ASSUME OwnMaildirs, TypeOK, RefusalInv, NEW w \in Worker, Moves(w),
           NEW s \in Store, s = StoreAt(w), GoroutineInv(w)', ListedInv',
           UNCHANGED <<there, tag, meta>>, hurt \subseteq hurt',
           \/ ~InCreation(w)
           \/ Hurt(s, w[2])'
           \/ s \notin ImapStores /\ InCreation(w)' /\ StoreAt(w)' = s
           \/ s \notin ImapStores /\ meta[s][w[2]] \in Identity
              /\ meta[s][w[2]] = tag[s][w[2]]
    PROVE  RefusalInv'
<1>1. Elsewhere(w)
  BY DEF Elsewhere
<1>2. w[2] \in Folder
  BY WorkerType DEF TypeOK
<1>3. \A t, f : Hurt(t, f) => Hurt(t, f)'
  BY DEF Hurt
<1>4. ASSUME NEW v \in Worker, v # w
      PROVE  /\ pass'[v] = pass[v] /\ (InCreation(v)' <=> InCreation(v))
             /\ Is(v, s, w[2])' <=> Is(v, s, w[2])
  BY <1>4 DEF Moves, Is, StoreAt, StoreOf, InCreation
<1>5. s \in ImapStores => MailboxInv(s, w[2])'
  <2> SUFFICES ASSUME s \in ImapStores PROVE MailboxInv(s, w[2])'
    OBVIOUS
  <2>1. MailboxInv(s, w[2])
    BY <1>2 DEF RefusalInv, FileInv
  <2>2. pass[w].pc = "fillSaved" => InCreation(w)
    BY DEF InCreation
  <2> QED
    BY <1>3, <1>4, <2>1, <2>2 DEF MailboxInv
<1>6. s \notin ImapStores => MaildirInv(s, w[2])'
  <2> SUFFICES ASSUME s \notin ImapStores PROVE MaildirInv(s, w[2])'
    OBVIOUS
  <2>1. MaildirInv(s, w[2])
    BY <1>2 DEF RefusalInv, FileInv
  <2> QED
    BY <1>3, <1>4, <2>1 DEF MaildirInv, Is
<1> QED
  BY <1>1, <1>5, <1>6, OwnFolder

(* A goroutine that is idle, or about to open the next store.              *)
LEMMA NothingInHand ==
    ASSUME NEW w \in Worker, pass'[w].pc \in {"idle", "open", "list", "work"},
           \A i \in {1, 2} :
              Took(w, i)' => pass'[w].id[i] # NoFile \/ Hurt(StoreOf(w, i), w[2])'
    PROVE  GoroutineInv(w)' /\ ~InCreation(w)'
BY DEF GoroutineInv, ImapHand, MaildirHand, InCreation, ImapSteps, MaildirCreation,
       Selected, Generated

LEMMA ReturnRefusal ==
    ASSUME OwnMaildirs, TypeOK, RefusalInv, NEW w \in Worker, Return(w),
           UNCHANGED <<there, tag, meta, folders>>, hurt \subseteq hurt',
           InCreation(w) => <<StoreAt(w), w[2]>> \in hurt'
    PROVE  RefusalInv'
<1>1. Moves(w) /\ pass'[w].pc = "idle" /\ pass'[w].at = 1
  BY ReturnMoves DEF TypeOK
<1>2. GoroutineInv(w)'
  BY <1>1, NothingInHand DEF Took
<1>3. ListedInv'
  BY DEF RefusalInv, ListedInv, Known, Hurt
<1>4. StoreAt(w) \in Store
  BY WorkerType DEF TypeOK
<1> QED
  BY <1>1, <1>2, <1>3, <1>4, SameFiles DEF Hurt

(* A folder that is opened has an identity, or was disturbed.              *)
LEMMA OpenedRefusal ==
    ASSUME OwnMaildirs, TypeOK, RefusalInv, NEW w \in Worker, ~InCreation(w),
           NEW uid \in Tag, NEW expunges \in BOOLEAN, Opened(w, uid, expunges),
           pass[w].pc \notin {"list", "work"},
           uid # NoFile \/ Hurt(StoreAt(w), w[2]),
           UNCHANGED <<there, tag, meta, folders, hurt>>
    PROVE  RefusalInv'
<1>1. /\ Moves(w)
      /\ pass'[w].pc = IF pass[w].at = 1 THEN "open" ELSE "list"
      /\ pass'[w].at = 2
      /\ pass'[w].id = [pass[w].id EXCEPT ![pass[w].at] = uid]
  BY OpenedMoves, ZenonT(30) DEF TypeOK
<1>2. /\ pass[w].at \in {1, 2} /\ pass[w].id \in [{1, 2} -> Tag]
      /\ StoreAt(w) \in Store /\ StoreAt(w) = StoreOf(w, pass[w].at)
  BY WorkerType DEF TypeOK, Pass, StoreAt
<1>3. \A i \in {1, 2} : pass[w].at > i => pass[w].id[i] # NoFile \/ Hurt(StoreOf(w, i), w[2])
  BY DEF RefusalInv, GoroutineInv, Took
<1>4. \A i \in {1, 2} :
          Took(w, i)' => pass'[w].id[i] # NoFile \/ Hurt(StoreOf(w, i), w[2])'
  BY <1>1, <1>2, <1>3 DEF Took, Hurt, StoreOf
<1>5. GoroutineInv(w)'
  BY <1>1, <1>4, NothingInHand
<1>6. ListedInv'
  BY DEF RefusalInv, ListedInv, Known, Hurt
<1> QED
  BY <1>1, <1>2, <1>5, <1>6, SameFiles

(* What w knows of the files while it opens a folder, step by step.        *)
LEMMA StillTook ==
    ASSUME NEW w \in Worker, GoroutineInv(w), hurt \subseteq hurt',
           pass'[w].at = pass[w].at, pass'[w].id = pass[w].id,
           pass'[w].pc \notin {"list", "work"}
    PROVE  \A i \in {1, 2} :
              Took(w, i)' => pass'[w].id[i] # NoFile \/ Hurt(StoreOf(w, i), w[2])'
BY DEF GoroutineInv, Took, Hurt, StoreOf

LEMMA ImapHolds ==
    ASSUME NEW w \in Worker, GoroutineInv(w), hurt \subseteq hurt',
           StoreAt(w) \in ImapStores, pass'[w].pc \in ImapSteps,
           pass'[w].at = pass[w].at, pass'[w].id = pass[w].id, ImapHand(w)'
    PROVE  GoroutineInv(w)'
<1>1. StoreAt(w)' = StoreAt(w)
  BY DEF StoreAt, StoreOf
<1>2. pass'[w].pc \notin MaildirCreation \cup {"read", "compare", "list", "work"}
  BY DEF ImapSteps, MaildirCreation
<1>3. MaildirHand(w)'
  BY <1>2 DEF MaildirHand, MaildirCreation, Generated
<1> QED
  BY <1>1, <1>2, <1>3, StillTook DEF GoroutineInv, MaildirCreation

LEMMA MaildirHolds ==
    ASSUME NEW w \in Worker, GoroutineInv(w), hurt \subseteq hurt',
           NEW s \in Store, s = StoreAt(w), s \notin ImapStores,
           pass'[w].pc \in MaildirCreation \cup {"read", "compare"},
           pass'[w].at = pass[w].at, pass'[w].id = pass[w].id, MaildirHand(w)',
           pass'[w].pc = "append" => Known(s, pass[w].slice)'
    PROVE  GoroutineInv(w)'
<1>1. StoreAt(w)' = s
  BY DEF StoreAt, StoreOf
<1>2. pass'[w].pc \notin ImapSteps \cup {"list", "work"}
  BY DEF ImapSteps, MaildirCreation
<1>3. ImapHand(w)'
  BY <1>2 DEF ImapHand, ImapSteps, Selected
<1> QED
  BY <1>1, <1>2, <1>3, StillTook DEF GoroutineInv

LEMMA ImapRefusal ==
    ASSUME OwnMaildirs, TypeOK, RefusalInv, NEW w \in Worker,
           ImapLock(w) \/ ImapStoreStep(w), UNCHANGED hurt
    PROVE  RefusalInv'
<1>1. PICK s \in Store : s = StoreAt(w)
  BY WorkerType DEF TypeOK
<1>2. /\ w[1] \in Group /\ w[2] \in Folder /\ pass[w] \in Pass /\ pass \in [Worker -> Pass]
      /\ pass[w].at \in {1, 2} /\ pass[w].uid \in Tag
      /\ s = StoresOf[w[1]][pass[w].at]
  BY <1>1, WorkerType DEF TypeOK, Pass, StoreAt, StoreOf
<1>3. GoroutineInv(w) /\ ListedInv /\ hurt \subseteq hurt'
  BY DEF RefusalInv
<1>4. s \in ImapStores
  BY <1>1, <1>3 DEF GoroutineInv, ImapLock, ImapStoreStep, ImapCreateFolder, ImapSelect,
      ImapSavedUIDValidity, ImapCreateUIDValidity, ImapWriteUIDValidity, NewImapFolder,
      ImapSteps
<1>5. MailboxInv(s, w[2])
  BY <1>2, <1>4 DEF RefusalInv, FileInv
<1>6. ASSUME UNCHANGED folders, \A t \in Store : there[t] \subseteq there'[t]
      PROVE  ListedInv'
  BY <1>3, <1>6, StoresOfAssumption DEF ListedInv, Known, Hurt
<1>a. ASSUME NEW x, pass'[w].pc = x, x \in ImapSteps \ Selected,
             pass'[w].at = pass[w].at, pass'[w].id = pass[w].id
      PROVE  GoroutineInv(w)'
  BY <1>1, <1>3, <1>4, <1>a, ImapHolds DEF ImapHand
<1>7. CASE ImapLock(w)
  <2>1. PICK pc \in {"select", "create"} : Goto(w, pc) /\ pass[w].pc = "open"
    BY <1>7 DEF ImapLock
  <2>2. /\ Moves(w) /\ pass'[w].pc = pc
        /\ pass'[w].at = pass[w].at /\ pass'[w].id = pass[w].id
    BY <1>2, <2>1, GotoMoves DEF Steps, ImapSteps
  <2>3. UNCHANGED <<there, tag, meta, folders>> /\ ~InCreation(w)
    BY <1>7, <2>1 DEF ImapLock, disk, memory, InCreation
  <2> QED
    BY <1>1, <1>3, <1>6, <1>a, <2>1, <2>2, <2>3, SameFiles DEF ImapSteps, Selected
<1>8. CASE ImapCreateFolder(w)
  <2>1. CASE w[2] \in there[s]
    BY <1>1, <1>8, <2>1, ReturnRefusal DEF ImapCreateFolder, disk, InCreation
  <2>2. CASE w[2] \notin there[s]
    <3>1. /\ pass[w].pc = "create" /\ Goto(w, "select") /\ UNCHANGED meta
          /\ there' = [there EXCEPT ![s] = @ \cup {w[2]}]
          /\ tag' = [tag EXCEPT ![s][w[2]] = fresh[s][w[2]]]
          /\ folders' = [folders EXCEPT ![w[1]][pass[w].at] = @ \cup {w[2]}]
      BY <1>1, <1>8, <2>2 DEF ImapCreateFolder
    <3>2. /\ Moves(w) /\ pass'[w].pc = "select"
          /\ pass'[w].at = pass[w].at /\ pass'[w].id = pass[w].id
      BY <1>2, <3>1, GotoMoves DEF Steps, ImapSteps
    <3>3. /\ \A t \in Store : there[t] \subseteq there'[t]
          /\ w[2] \in there'[s] /\ tag'[s][w[2]] \in Identity
          /\ \A t \in Store, f \in Folder : (t # s \/ f # w[2]) =>
                (f \in there'[t] <=> f \in there[t]) /\ tag'[t][f] = tag[t][f]
      BY <1>2, <3>1 DEF TypeOK
    <3>4. Elsewhere(w)
      BY <1>1, <2>2, <3>1, <3>2, <3>3, <1>3 DEF Elsewhere, Is
    <3>5. MailboxInv(s, w[2])'
      BY <1>5, <2>2, <3>1, <3>3, <1>3 DEF MailboxInv, Hurt, NoFile, Empty
    <3>6. ListedInv'
      <4> SUFFICES ASSUME NEW g \in Group, NEW i \in {1, 2}
                   PROVE  Known(StoresOf[g][i], folders[g][i])'
        BY DEF ListedInv
      <4>1. Known(StoresOf[g][i], folders[g][i]) /\ StoresOf[g][i] \in Store
        BY <1>3, StoresOfAssumption DEF ListedInv
      <4>2. CASE g = w[1] /\ i = pass[w].at
        <5>1. folders'[g][i] = folders[g][i] \cup {w[2]}
          BY <1>2, <3>1, <4>2 DEF TypeOK
        <5> QED
          BY <1>2, <1>3, <3>3, <4>1, <4>2, <5>1 DEF Known, Hurt
      <4>3. CASE g # w[1] \/ i # pass[w].at
        <5>1. folders'[g][i] = folders[g][i]
          BY <1>2, <3>1, <4>3 DEF TypeOK
        <5> QED
          BY <1>3, <3>3, <4>1, <5>1 DEF Known, Hurt
      <4> QED
        BY <4>2, <4>3
    <3> QED
      BY <1>1, <1>4, <1>a, <3>2, <3>4, <3>5, <3>6, OwnFolder DEF ImapSteps, Selected
  <2> QED
    BY <2>1, <2>2
<1>9. CASE ImapSelect(w)
  <2>0. pass[w].pc = "select" /\ UNCHANGED <<there, tag, meta, folders>> /\ ~InCreation(w)
    BY <1>9 DEF ImapSelect, disk, memory, InCreation
  <2>1. CASE Return(w)
    BY <2>0, <2>1, <1>3, ReturnRefusal
  <2>2. CASE ~Return(w)
    <3>1. /\ w[2] \in there[s]
          /\ pass' = [pass EXCEPT ![w].uid = tag[s][w[2]], ![w].pc = "saved"]
      BY <1>1, <1>9, <2>2 DEF ImapSelect
    <3>2. Moves(w)
      BY <1>9, ImapType DEF ImapStoreStep, TypeOK, StoreType
    <3>3. /\ pass'[w].pc = "saved" /\ pass'[w].uid = tag[s][w[2]]
          /\ pass'[w].at = pass[w].at /\ pass'[w].id = pass[w].id
      BY <1>2, <3>1 DEF Pass
    <3>4. StoreAt(w)' = s
      BY <1>1, <3>3 DEF StoreAt, StoreOf
    <3>5. ImapHand(w)'
      BY <1>5, <2>0, <3>1, <3>3, <3>4 DEF ImapHand, MailboxInv
    <3>6. GoroutineInv(w)'
      BY <1>1, <1>3, <1>4, <3>3, <3>5, ImapHolds DEF ImapSteps
    <3> QED
      BY <1>1, <1>3, <1>6, <2>0, <3>2, <3>6, SameFiles
  <2> QED
    BY <2>1, <2>2
<1>10. CASE ImapSavedUIDValidity(w)
  <2>0. pass[w].pc = "saved" /\ UNCHANGED <<there, tag, meta, folders>> /\ ~InCreation(w)
    BY <1>10 DEF ImapSavedUIDValidity, disk, memory, InCreation
  <2>1. CASE Return(w)
    BY <2>0, <2>1, <1>3, ReturnRefusal
  <2>2. CASE ~Return(w)
    <3>1. PICK pc \in {"createSaved", "connect"} : Goto(w, pc)
      BY <1>10, <2>2 DEF ImapSavedUIDValidity
    <3>2. /\ Moves(w) /\ pass'[w].pc = pc /\ pass'[w].uid = pass[w].uid
          /\ pass'[w].at = pass[w].at /\ pass'[w].id = pass[w].id
      BY <1>2, <3>1, GotoMoves DEF Steps, ImapSteps
    <3>3. StoreAt(w)' = s
      BY <1>1, <3>2 DEF StoreAt, StoreOf
    <3>4. ImapHand(w)'
      BY <1>1, <1>3, <2>0, <3>2, <3>3 DEF ImapHand, GoroutineInv, Selected, Hurt
    <3>5. GoroutineInv(w)'
      BY <1>1, <1>3, <1>4, <3>1, <3>2, <3>4, ImapHolds DEF ImapSteps
    <3> QED
      BY <1>1, <1>3, <1>6, <2>0, <3>2, <3>5, SameFiles
  <2> QED
    BY <2>1, <2>2
<1>11. CASE ImapCreateUIDValidity(w) \/ ImapWriteUIDValidity(w)
  <2>1. /\ UNCHANGED <<there, tag, folders>> /\ pass[w].pc \in {"createSaved", "fillSaved"}
        /\ \/ Goto(w, "fillSaved") /\ meta' = [meta EXCEPT ![s][w[2]] = Empty]
           \/ Goto(w, "connect") /\ meta' = [meta EXCEPT ![s][w[2]] = pass[w].uid]
    BY <1>1, <1>11 DEF ImapCreateUIDValidity, ImapWriteUIDValidity, memory
  <2>2. /\ Moves(w) /\ pass'[w].uid = pass[w].uid
        /\ pass'[w].at = pass[w].at /\ pass'[w].id = pass[w].id
        /\ \/ pass'[w].pc = "fillSaved" /\ meta' = [meta EXCEPT ![s][w[2]] = Empty]
           \/ pass'[w].pc = "connect" /\ meta' = [meta EXCEPT ![s][w[2]] = pass[w].uid]
    BY <1>2, <2>1, GotoMoves DEF Steps, ImapSteps
  <2>a. /\ pass'[w].pc = "fillSaved" => meta'[s][w[2]] = Empty
        /\ pass'[w].pc = "connect" => meta'[s][w[2]] = pass[w].uid
        /\ \A t \in Store, f \in Folder : t # s \/ f # w[2] => meta'[t][f] = meta[t][f]
    <3>1. \A x : meta' = [meta EXCEPT ![s][w[2]] = x] =>
             /\ meta'[s][w[2]] = x
             /\ \A t \in Store, f \in Folder : t # s \/ f # w[2] => meta'[t][f] = meta[t][f]
      BY <1>2 DEF TypeOK
    <3>2. CASE pass'[w].pc = "fillSaved" /\ meta' = [meta EXCEPT ![s][w[2]] = Empty]
      BY <3>1, <3>2
    <3>3. CASE pass'[w].pc = "connect" /\ meta' = [meta EXCEPT ![s][w[2]] = pass[w].uid]
      BY <3>1, <3>3
    <3> QED
      BY <2>2, <3>2, <3>3
  <2>3. StoreAt(w)' = s
    BY <1>1, <2>2 DEF StoreAt, StoreOf
  <2>4. ImapHand(w)' /\ ImapHand(w)
    BY <1>1, <1>3, <2>1, <2>2, <2>3 DEF ImapHand, GoroutineInv, Selected, Hurt
  <2>5. GoroutineInv(w)'
    BY <1>1, <1>3, <1>4, <2>2, <2>4, ImapHolds DEF ImapSteps
  <2>6. Elsewhere(w)
    BY <1>1, <1>3, <2>1, <2>2, <2>a DEF Elsewhere, Is
  <2>7. MailboxInv(s, w[2])'
    BY <1>1, <1>5, <2>1, <2>2, <2>a, <2>3, <2>4, <1>3
       DEF MailboxInv, ImapHand, Selected, Is, Hurt, Identity
  <2> QED
    BY <1>1, <1>4, <1>6, <2>1, <2>5, <2>6, <2>7, OwnFolder
<1>12. CASE NewImapFolder(w)
  <2>0. pass[w].pc = "connect" /\ UNCHANGED <<there, tag, meta, folders>> /\ ~InCreation(w)
    BY <1>12 DEF NewImapFolder, disk, memory, InCreation
  <2>1. CASE Return(w)
    BY <2>0, <2>1, <1>3, ReturnRefusal
  <2>2. CASE ~Return(w)
    <3>1. Opened(w, pass[w].uid, expunge[s]) /\ expunge[s] \in BOOLEAN
      BY <1>1, <1>12, <2>2 DEF NewImapFolder, TypeOK
    <3>2. pass[w].uid # NoFile
      BY <1>3, <2>0 DEF GoroutineInv, ImapHand, Selected, Identity, NoFile
    <3> QED
      BY <1>2, <2>0, <3>1, <3>2, OpenedRefusal
  <2> QED
    BY <2>1, <2>2
<1> QED
  BY <1>7, <1>8, <1>9, <1>10, <1>11, <1>12 DEF ImapStoreStep

(* A Maildir folder that nobody creates just now has its identity.         *)
LEMMA Complete ==
    ASSUME OwnMaildirs, TypeOK, RefusalInv, NEW w \in Worker, ~InCreation(w),
           NEW s \in Store, s = StoreAt(w), s \notin ImapStores,
           ~Hurt(s, w[2]), w[2] \in there[s]
    PROVE  meta[s][w[2]] \in Identity /\ tag[s][w[2]] = meta[s][w[2]]
<1>1. w[2] \in Folder
  BY WorkerType DEF TypeOK
<1>2. MaildirInv(s, w[2])
  BY <1>1 DEF RefusalInv, FileInv
<1>3. ASSUME NEW v \in Worker, Is(v, s, w[2]) PROVE v = w
  BY <1>3, OneGoroutine DEF Is
<1> QED
  BY <1>2, <1>3 DEF MaildirInv

(* A step of CreateFolder, up to the append.                               *)
LEMMA CreationRefusal ==
    ASSUME OwnMaildirs, TypeOK, RefusalInv, NEW w \in Worker,
           NEW s \in Store, s = StoreAt(w), s \notin ImapStores, Elsewhere(w),
           pass'[w].pc \in {"read", "compare"} \cup (MaildirCreation \ {"append"}),
           pass'[w].at = pass[w].at, pass'[w].id = pass[w].id,
           \/ InCreation(w)'
           \/ Hurt(s, w[2])
           \/ w[2] \in there'[s] /\ pass'[w].pc = "slice",
           MaildirHand(w)', UNCHANGED <<folders, hurt>>
    PROVE  RefusalInv'
<1>1. GoroutineInv(w) /\ ListedInv /\ \A t \in Store : there[t] \subseteq there'[t]
  BY DEF RefusalInv, Elsewhere
<1>2. GoroutineInv(w)'
  BY <1>1, MaildirHolds DEF MaildirCreation
<1>3. StoreAt(w)' = s
  BY DEF StoreAt, StoreOf
<1>4. MaildirInv(s, w[2])'
  <2> SUFFICES ASSUME ~Hurt(s, w[2])
               PROVE  MaildirInv(s, w[2])'
    BY DEF MaildirInv, Hurt
  <2>1. CASE InCreation(w)' /\ w[2] \in there'[s]
    BY <1>3, <2>1 DEF MaildirInv, Is
  <2>2. CASE w[2] \in there'[s] /\ pass'[w].pc = "slice"
    BY <1>3, <2>2 DEF MaildirInv, MaildirHand, Hurt
  <2>3. InCreation(w)' => w[2] \in there'[s]
    BY <1>3 DEF MaildirHand, InCreation, MaildirCreation, Hurt
  <2> QED
    BY <2>1, <2>2, <2>3
<1>5. ListedInv'
  BY <1>1, StoresOfAssumption DEF ListedInv, Known, Hurt
<1> QED
  BY <1>2, <1>4, <1>5, OwnFolder

LEMMA MaildirRefusal ==
    ASSUME OwnMaildirs, TypeOK, RefusalInv, NEW w \in Worker,
           MaildirStoreStep(w), UNCHANGED hurt
    PROVE  RefusalInv'
<1>1. PICK s \in Store : s = StoreAt(w)
  BY WorkerType DEF TypeOK
<1>2. /\ w[1] \in Group /\ w[2] \in Folder /\ pass[w] \in Pass /\ pass \in [Worker -> Pass]
      /\ pass[w].at \in {1, 2} /\ pass[w].uid \in Tag /\ Moves(w)
      /\ s = StoresOf[w[1]][pass[w].at]
  BY <1>1, WorkerType, MaildirType DEF TypeOK, StoreType, Pass, StoreAt, StoreOf
<1>3. GoroutineInv(w) /\ ListedInv /\ hurt \subseteq hurt'
  BY DEF RefusalInv
<1>4. s \notin ImapStores
  BY <1>1, <1>3 DEF GoroutineInv, MaildirStoreStep, MaildirHasFolder, ReadFolderUID,
      GetFolderUID, CreateMetadataFile, WriteMetadataFile, CreateMaildirFile,
      WriteMaildirFile, ReadFolders, AppendFolder, MaildirCreation
<1>5. MaildirInv(s, w[2]) /\ MaildirHand(w)
  BY <1>2, <1>3, <1>4 DEF RefusalInv, FileInv, GoroutineInv
<1>6. UNCHANGED <<there, folders>> => ListedInv'
  BY <1>3 DEF ListedInv, Known, Hurt
<1>7. pass'[w].at = pass[w].at => StoreAt(w)' = s
  BY <1>1 DEF StoreAt, StoreOf
<1>8. ASSUME NEW x, UNCHANGED <<there, tag>>, meta' = [meta EXCEPT ![s][w[2]] = x]
      PROVE  Elsewhere(w) /\ meta'[s][w[2]] = x
  <2>1. /\ meta'[s][w[2]] = x
        /\ \A t \in Store, f \in Folder : (t # s \/ f # w[2]) => meta'[t][f] = meta[t][f]
    BY <1>2, <1>8 DEF TypeOK
  <2> QED
    BY <1>1, <1>2, <1>3, <1>4, <1>8, <2>1 DEF Elsewhere, Is
<1>16. ASSUME NEW x, UNCHANGED <<there, meta>>, tag' = [tag EXCEPT ![s][w[2]] = x]
       PROVE  Elsewhere(w) /\ tag'[s][w[2]] = x
  <2>1. /\ tag'[s][w[2]] = x
        /\ \A t \in Store, f \in Folder : (t # s \/ f # w[2]) => tag'[t][f] = tag[t][f]
    BY <1>2, <1>16 DEF TypeOK
  <2> QED
    BY <1>1, <1>2, <1>3, <1>4, <1>16, <2>1 DEF Elsewhere, Is
<1>9. CASE MaildirHasFolder(w)
  <2>1. /\ pass[w].pc = "open" /\ UNCHANGED <<tag, meta, folders>> /\ ~InCreation(w)
    BY <1>9 DEF MaildirHasFolder, memory, InCreation
  <2>2. PICK create \in BOOLEAN :
            /\ pass' = [pass EXCEPT ![w].new = create, ![w].pc = "read"]
            /\ there' = IF create THEN [there EXCEPT ![s] = @ \cup {w[2]}] ELSE there
    BY <1>1, <1>9 DEF MaildirHasFolder
  <2>3. /\ pass'[w].new = create /\ pass'[w].pc = "read"
        /\ pass'[w].at = pass[w].at /\ pass'[w].id = pass[w].id
    BY <1>2, <2>2 DEF Pass
  <2>4. CASE create
    <3>1. /\ w[2] \in there'[s] /\ \A t \in Store : there[t] \subseteq there'[t]
          /\ \A t \in Store, f \in Folder :
                (t # s \/ f # w[2]) => (f \in there'[t] <=> f \in there[t])
      BY <1>2, <2>2, <2>4 DEF TypeOK
    <3>2. Elsewhere(w)
      BY <1>1, <1>2, <1>3, <2>1, <3>1 DEF Elsewhere, Is
    <3>3. ~Hurt(s, w[2]) => meta[s][w[2]] = tag[s][w[2]] /\ meta[s][w[2]] # Empty
      <4>1. CASE w[2] \in there[s]
        BY <1>1, <1>4, <2>1, <4>1, Complete DEF Identity
      <4>2. CASE w[2] \notin there[s]
        BY <1>5, <4>2 DEF MaildirInv, NoFile, Empty
      <4> QED
        BY <4>1, <4>2
    <3>4. MaildirHand(w)'
      BY <1>7, <2>1, <2>3, <3>1, <3>3
         DEF MaildirHand, MaildirCreation, Generated, Hurt
    <3>5. InCreation(w)'
      BY <2>3, <2>4 DEF InCreation
    <3> QED
      BY <1>1, <1>4, <2>1, <2>3, <3>2, <3>4, <3>5, CreationRefusal
  <2>5. CASE ~create
    <3>1. MaildirHand(w)'
      BY <2>3, <2>5 DEF MaildirHand, MaildirCreation, Generated
    <3>2. GoroutineInv(w)'
      BY <1>1, <1>3, <1>4, <2>3, <3>1, MaildirHolds
    <3> QED
      BY <1>1, <1>2, <1>3, <1>6, <2>1, <2>2, <2>5, <3>2, SameFiles
  <2> QED
    BY <2>4, <2>5
<1>10. CASE ReadFolderUID(w)
  <2>1. pass[w].pc = "read" /\ UNCHANGED <<there, tag, meta, folders>>
    BY <1>10 DEF ReadFolderUID, disk, memory
  <2>2. CASE meta[s][w[2]] = Empty
    <3>1. Return(w)
      BY <1>1, <1>10, <2>2 DEF ReadFolderUID
    <3>2. InCreation(w) => Hurt(s, w[2])
      BY <1>1, <1>5, <2>1, <2>2 DEF InCreation, MaildirHand
    <3> QED
      BY <1>1, <1>3, <2>1, <3>1, <3>2, ReturnRefusal DEF Hurt
  <2>3. CASE meta[s][w[2]] # Empty
    <3>1. pass' = [pass EXCEPT ![w].uid = meta[s][w[2]], ![w].pc = "compare"]
      BY <1>1, <1>10, <2>3 DEF ReadFolderUID
    <3>2. /\ pass'[w].uid = meta[s][w[2]] /\ pass'[w].pc = "compare"
          /\ pass'[w].new = pass[w].new
          /\ pass'[w].at = pass[w].at /\ pass'[w].id = pass[w].id
      BY <1>2, <3>1 DEF Pass
    <3>3. MaildirHand(w)'
      BY <1>1, <1>5, <1>7, <2>1, <3>2 DEF MaildirHand, MaildirCreation, Generated, Hurt
    <3>4. GoroutineInv(w)'
      BY <1>1, <1>3, <1>4, <3>2, <3>3, MaildirHolds
    <3>5. InCreation(w) => InCreation(w)'
      BY <2>1, <3>2 DEF InCreation
    <3> QED
      BY <1>1, <1>2, <1>3, <1>4, <1>6, <1>7, <2>1, <3>2, <3>4, <3>5, SameFiles
  <2> QED
    BY <2>2, <2>3
<1>11. CASE GetFolderUID(w)
  <2>1. pass[w].pc = "compare" /\ UNCHANGED <<there, tag, meta, folders>>
    BY <1>11 DEF GetFolderUID, memory
  <2>2. CASE Return(w)
    <3>1. ASSUME InCreation(w), ~Hurt(s, w[2]) PROVE FALSE
      <4>1. /\ pass[w].new
            /\ tag[s][w[2]] = pass[w].uid
        BY <1>1, <1>5, <2>1, <3>1 DEF MaildirHand, InCreation
      <4>2. CreateFolder(w)
        BY <1>1, <1>11, <4>1 DEF GetFolderUID
      <4>3. pass'[w].pc # "idle"
        BY <1>2, <4>2, GotoMoves DEF CreateFolder, Steps, MaildirCreation, Pass
      <4> QED
        BY <1>2, <2>2, <4>3, ReturnMoves
    <3> QED
      BY <1>1, <1>3, <2>1, <2>2, <3>1, ReturnRefusal DEF Hurt
  <2>3. CASE pass[w].new /\ CreateFolder(w)
    <3>0. Elsewhere(w)
      BY <1>2, <1>3, <2>1 DEF Elsewhere
    <3>1. CASE pass[w].uid = NoFile
      <4>0. fresh[s][w[2]] \in Identity
        BY <1>2 DEF TypeOK
      <4>1. pass' = [pass EXCEPT ![w].uid = fresh[s][w[2]], ![w].pc = "createMd"]
        BY <1>1, <2>3, <3>1 DEF CreateFolder
      <4>2. /\ pass'[w].uid \in Identity /\ pass'[w].pc = "createMd"
            /\ pass'[w].at = pass[w].at /\ pass'[w].id = pass[w].id
        BY <1>2, <4>0, <4>1 DEF Pass
      <4>3. MaildirHand(w)'
        BY <1>1, <1>5, <1>7, <2>1, <2>3, <3>1, <4>2
           DEF MaildirHand, MaildirCreation, Generated, Hurt
      <4> QED
        BY <1>1, <1>4, <2>1, <3>0, <4>2, <4>3, CreationRefusal
           DEF InCreation, MaildirCreation
    <3>2. CASE pass[w].uid # NoFile
      <4>1. Goto(w, "slice")
        BY <2>3, <3>2 DEF CreateFolder
      <4>2. /\ pass'[w].pc = "slice" /\ pass'[w].at = pass[w].at /\ pass'[w].id = pass[w].id
        BY <1>2, <4>1, GotoMoves DEF Steps, MaildirCreation
      <4>3. ~Hurt(s, w[2]) =>
                /\ w[2] \in there[s] /\ meta[s][w[2]] = tag[s][w[2]]
                /\ meta[s][w[2]] \in Identity
        BY <1>1, <1>2, <1>5, <2>1, <2>3, <3>2 DEF MaildirHand, Tag
      <4>4. MaildirHand(w)'
        BY <1>7, <2>1, <4>2, <4>3 DEF MaildirHand, Generated, Hurt
      <4> QED
        BY <1>1, <1>4, <2>1, <3>0, <4>2, <4>3, <4>4, CreationRefusal
           DEF MaildirCreation
    <3> QED
      BY <3>1, <3>2
  <2>4. CASE ~pass[w].new /\ ~Return(w)
    <3>1. w[2] \in Listed(w) /\ Opened(w, pass[w].uid, FALSE)
      BY <1>11, <2>4 DEF GetFolderUID, TakeFolder
    <3>2. ~InCreation(w)
      BY <2>1, <2>4 DEF InCreation
    <3>3. w[2] \in there[s] \/ Hurt(s, w[2])
      BY <1>2, <1>3, <3>1 DEF ListedInv, Known, Listed
    <3>4. pass[w].uid # NoFile \/ Hurt(s, w[2])
      BY <1>1, <1>4, <1>5, <2>1, <3>2, <3>3, Complete
         DEF MaildirHand, Identity, NoFile
    <3> QED
      BY <1>1, <1>2, <2>1, <3>1, <3>2, <3>4, OpenedRefusal
  <2> QED
    BY <1>11, <2>2, <2>3, <2>4 DEF GetFolderUID
<1>12. CASE CreateMetadataFile(w) \/ WriteMetadataFile(w)
  <2>1. PICK pc \in {"fillMd", "createDir"}, x \in Tag :
            /\ Goto(w, pc) /\ UNCHANGED <<there, tag, folders>>
            /\ meta' = [meta EXCEPT ![s][w[2]] = x]
            /\ pc = "fillMd" => pass[w].pc = "createMd" /\ x = Empty
            /\ pc = "createDir" => pass[w].pc = "fillMd" /\ x = pass[w].uid
    BY <1>1, <1>2, <1>12 DEF CreateMetadataFile, WriteMetadataFile, memory, Tag
  <2>2. /\ pass'[w].pc = pc /\ pass'[w].uid = pass[w].uid
        /\ pass'[w].at = pass[w].at /\ pass'[w].id = pass[w].id
    BY <1>2, <2>1, GotoMoves DEF Steps, MaildirCreation
  <2>3. Elsewhere(w) /\ meta'[s][w[2]] = x
    BY <1>8, <2>1
  <2>4. MaildirHand(w)'
    BY <1>1, <1>5, <1>7, <2>1, <2>2, <2>3 DEF MaildirHand, MaildirCreation, Generated, Hurt
  <2> QED
    BY <1>1, <1>4, <2>1, <2>2, <2>3, <2>4, CreationRefusal DEF InCreation, MaildirCreation
<1>13. CASE CreateMaildirFile(w) \/ WriteMaildirFile(w)
  <2>1. /\ UNCHANGED <<there, meta, folders>> /\ pass[w].pc \in {"createDir", "fillDir"}
        /\ \/ /\ w[2] \notin there[s] /\ Goto(w, "slice") /\ UNCHANGED tag
           \/ /\ w[2] \in there[s] /\ pass[w].pc = "createDir" /\ Goto(w, "fillDir")
              /\ tag' = [tag EXCEPT ![s][w[2]] = Empty]
           \/ /\ w[2] \in there[s] /\ pass[w].pc = "fillDir" /\ Goto(w, "slice")
              /\ tag' = [tag EXCEPT ![s][w[2]] = pass[w].uid]
    BY <1>1, <1>13 DEF CreateMaildirFile, WriteMaildirFile, memory
  <2>2. /\ pass'[w].pc \in {"fillDir", "slice"} /\ pass'[w].uid = pass[w].uid
        /\ pass'[w].at = pass[w].at /\ pass'[w].id = pass[w].id
        /\ Goto(w, "slice") => pass'[w].pc = "slice"
        /\ Goto(w, "fillDir") => pass'[w].pc = "fillDir"
    BY <1>2, <2>1, GotoMoves DEF Steps, MaildirCreation
  <2>3. w[2] \notin there[s] => Hurt(s, w[2])
    BY <1>1, <1>5, <2>1 DEF MaildirHand, MaildirCreation
  <2>4. Empty \in Tag
    BY DEF Tag
  <2>5. Elsewhere(w)
    BY <1>2, <1>3, <1>16, <2>1, <2>4 DEF Elsewhere
  <2>6. MaildirHand(w)'
    BY <1>1, <1>2, <1>5, <1>7, <1>16, <2>1, <2>2, <2>3, <2>4, ZenonT(30)
       DEF MaildirHand, MaildirCreation, Generated, Hurt
  <2> QED
    BY <1>1, <1>4, <2>1, <2>2, <2>3, <2>5, <2>6, CreationRefusal
       DEF InCreation, MaildirCreation
<1>14. CASE ReadFolders(w)
  <2>1. /\ pass[w].pc = "slice" /\ UNCHANGED <<there, tag, meta, folders>>
        /\ pass' = [pass EXCEPT ![w].slice = Listed(w), ![w].pc = "append"]
    BY <1>14 DEF ReadFolders, disk, memory
  <2>2. /\ pass'[w].slice = Listed(w) /\ pass'[w].pc = "append"
        /\ pass'[w].at = pass[w].at /\ pass'[w].id = pass[w].id
    BY <1>2, <2>1 DEF Pass
  <2>3. MaildirHand(w)'
    BY <1>1, <1>5, <1>7, <2>1, <2>2 DEF MaildirHand, MaildirCreation, Generated, Hurt
  <2>4. Known(s, Listed(w))
    BY <1>2, <1>3 DEF ListedInv, Listed
  <2>5. pass'[w].pc = "append" => Known(s, pass[w].slice)'
    BY <2>1, <2>2, <2>4 DEF Known, Hurt
  <2>6. GoroutineInv(w)'
    BY <1>1, <1>3, <1>4, <2>2, <2>3, <2>5, MaildirHolds DEF MaildirCreation
  <2> QED
    BY <1>1, <1>2, <1>3, <1>6, <2>1, <2>6, SameFiles DEF InCreation
<1>15. CASE AppendFolder(w)
  <2>1. /\ pass[w].pc = "append" /\ UNCHANGED <<there, tag, meta>>
        /\ folders' = [folders EXCEPT ![w[1]][pass[w].at] = pass[w].slice \cup {w[2]}]
        /\ pass' = [pass EXCEPT ![w].new = FALSE, ![w].slice = {}, ![w].pc = "read"]
    BY <1>15 DEF AppendFolder, disk
  <2>2. /\ pass'[w].new = FALSE /\ pass'[w].pc = "read"
        /\ pass'[w].at = pass[w].at /\ pass'[w].id = pass[w].id
    BY <1>2, <2>1 DEF Pass
  <2>3. MaildirHand(w)'
    BY <2>2 DEF MaildirHand, MaildirCreation, Generated
  <2>4. GoroutineInv(w)'
    BY <1>1, <1>3, <1>4, <2>2, <2>3, MaildirHolds DEF MaildirCreation
  <2>5. Known(s, pass[w].slice \cup {w[2]})
    BY <1>1, <1>3, <1>5, <2>1 DEF GoroutineInv, Known, MaildirHand, MaildirCreation
  <2>6. ListedInv'
    <3> SUFFICES ASSUME NEW g \in Group, NEW i \in {1, 2}
                 PROVE  Known(StoresOf[g][i], folders[g][i])'
      BY DEF ListedInv
    <3>1. CASE g = w[1] /\ i = pass[w].at
      <4>1. folders'[g][i] = pass[w].slice \cup {w[2]}
        BY <1>2, <2>1, <3>1 DEF TypeOK
      <4> QED
        BY <1>2, <2>1, <2>5, <3>1, <4>1 DEF Known, Hurt
    <3>2. CASE g # w[1] \/ i # pass[w].at
      <4>1. folders'[g][i] = folders[g][i]
        BY <1>2, <2>1, <3>2 DEF TypeOK
      <4> QED
        BY <1>3, <2>1, <4>1 DEF ListedInv, Known, Hurt
    <3> QED
      BY <3>1, <3>2
  <2> QED
    BY <1>1, <1>2, <1>3, <2>1, <2>4, <2>6, SameFiles DEF InCreation
<1> QED
  BY <1>9, <1>10, <1>11, <1>12, <1>13, <1>14, <1>15 DEF MaildirStoreStep

LEMMA StepRefusal ==
    ASSUME OwnMaildirs, TypeOK, RefusalInv, NEW w \in Worker, Step(w)
    PROVE  RefusalInv'
<1>1. PICK s \in Store : s = StoreAt(w)
  BY WorkerType DEF TypeOK
<1>2. pass \in [Worker -> Pass] /\ GoroutineInv(w) /\ ListedInv
  BY DEF TypeOK, RefusalInv
<1>3. CASE SyncFolder(w)
  <2>1. /\ pass[w].pc = "idle" /\ Goto(w, "open")
        /\ UNCHANGED <<there, tag, meta, folders, hurt>>
    BY <1>3 DEF SyncFolder, disk, memory
  <2>2. /\ Moves(w) /\ pass'[w].pc = "open"
        /\ pass'[w].at = pass[w].at /\ pass'[w].id = pass[w].id
    BY <1>2, <2>1, GotoMoves DEF Steps
  <2>3. GoroutineInv(w)'
    BY <1>2, <2>1, <2>2, StillTook, NothingInHand
  <2>4. ListedInv' /\ ~InCreation(w)
    BY <1>2, <2>1 DEF ListedInv, Known, Hurt, InCreation
  <2> QED
    BY <1>1, <2>1, <2>2, <2>3, <2>4, SameFiles
<1>4. CASE OpenStep(w)
  BY <1>4, ImapRefusal, MaildirRefusal DEF OpenStep, history
<1>5. CASE UpdateMessageLists(w) \/ EndPass(w)
  <2>1. /\ pass[w].pc \in {"list", "work"}
        /\ \/ Return(w)
           \/ pass[w].pc = "list" /\ Goto(w, "work")
        /\ UNCHANGED <<there, tag, meta, folders, hurt>>
    BY <1>5 DEF UpdateMessageLists, EndPass, disk, memory, history
  <2>2. ~InCreation(w)
    BY <2>1 DEF InCreation
  <2>3. CASE Return(w)
    BY <2>1, <2>2, <2>3, ReturnRefusal
  <2>4. CASE pass[w].pc = "list" /\ Goto(w, "work")
    <3>1. /\ Moves(w) /\ pass'[w].pc = "work" /\ pass'[w].id = pass[w].id
      BY <1>2, <2>4, GotoMoves DEF Steps
    <3>2. \A i \in {1, 2} : pass[w].id[i] # NoFile \/ Hurt(StoreOf(w, i), w[2])
      BY <1>2, <2>4 DEF GoroutineInv, Took
    <3>3. \A i \in {1, 2} : pass'[w].id[i] # NoFile \/ Hurt(StoreOf(w, i), w[2])'
      BY <2>1, <3>1, <3>2 DEF Hurt, StoreOf
    <3>4. GoroutineInv(w)'
      BY <3>1, <3>3, NothingInHand
    <3>5. ListedInv'
      BY <1>2, <2>1 DEF ListedInv, Known, Hurt
    <3> QED
      BY <1>1, <2>1, <2>2, <3>1, <3>4, <3>5, SameFiles
  <2> QED
    BY <2>1, <2>3, <2>4
<1> QED
  BY <1>3, <1>4, <1>5 DEF Step

LEMMA FailureRefusal ==
    ASSUME OwnMaildirs, TypeOK, RefusalInv, NEW w \in Worker,
           Fail(w) \/ MkdirFails(w) \/ WriteMaildirFileFails(w)
    PROVE  RefusalInv'
<1>1. PICK s \in Store : s = StoreAt(w)
  BY WorkerType DEF TypeOK
<1>2. /\ pass \in [Worker -> Pass] /\ pass[w] \in Pass /\ GoroutineInv(w) /\ ListedInv
      /\ Moves(w)
  BY FailureType DEF TypeOK, RefusalInv
<1>3. CASE Fail(w)
  <2>1. /\ Return(w) /\ UNCHANGED <<there, tag, meta, folders>>
        /\ hurt' = hurt \cup Disturbed({w})
    BY <1>3 DEF Fail, disk, memory
  <2>2. InCreation(w) => <<StoreAt(w), w[2]>> \in hurt'
    BY <2>1 DEF Disturbed
  <2> QED
    BY <2>1, <2>2, ReturnRefusal
<1>4. CASE MkdirFails(w) \/ WriteMaildirFileFails(w)
  <2>1. PICK pc \in {"read", "slice"} :
            /\ UNCHANGED <<there, tag, meta, folders>>
            /\ hurt' = hurt \cup {<<s, w[2]>>}
            /\ \/ /\ s \notin ImapStores /\ pc = "read"
                  /\ pass' = [pass EXCEPT ![w].new = TRUE, ![w].pc = pc]
               \/ pass[w].pc \in MaildirCreation /\ Goto(w, pc)
    BY <1>1, <1>4 DEF MkdirFails, WriteMaildirFileFails, disk, memory, MaildirCreation
  <2>2. /\ pass'[w].pc = pc /\ pass'[w].at = pass[w].at /\ pass'[w].id = pass[w].id
    <3>1. CASE pass' = [pass EXCEPT ![w].new = TRUE, ![w].pc = pc]
      BY <1>2, <3>1 DEF Pass
    <3>2. CASE Goto(w, pc)
      BY <1>2, <3>2, GotoMoves DEF Steps, MaildirCreation
    <3> QED
      BY <2>1, <3>1, <3>2
  <2>3. Hurt(s, w[2])' /\ StoreAt(w)' = s
    BY <1>1, <2>1, <2>2 DEF Hurt, StoreAt, StoreOf
  <2>4. s \notin ImapStores
    BY <1>1, <1>2, <2>1 DEF GoroutineInv
  <2>5. MaildirHand(w)'
    BY <2>3 DEF MaildirHand
  <2>6. GoroutineInv(w)'
    BY <1>1, <1>2, <2>1, <2>2, <2>4, <2>5, MaildirHolds DEF MaildirCreation
  <2>7. ListedInv'
    BY <1>2, <2>1 DEF ListedInv, Known, Hurt
  <2> QED
    BY <1>1, <1>2, <2>1, <2>3, <2>6, <2>7, SameFiles
<1> QED
  BY <1>3, <1>4

LEMMA RestartRefusal ==
    ASSUME TypeOK, RefusalInv, Restart
    PROVE  RefusalInv'
<1>1. /\ UNCHANGED <<there, tag, meta>> /\ pass' = NoWork /\ folders' = NoFolders
      /\ hurt' = hurt \cup Disturbed(Worker)
  BY DEF Restart, disk
<1>2. ASSUME NEW w \in Worker PROVE GoroutineInv(w)'
  <2>1. pass'[w].pc = "idle" /\ pass'[w].at = 1
    BY <1>1 DEF NoWork, Idle
  <2> QED
    BY <2>1, NothingInHand DEF Took
<1>3. ListedInv'
  BY <1>1 DEF ListedInv, Known, NoFolders
<1>4. \A s, f : Hurt(s, f) => Hurt(s, f)'
  BY <1>1 DEF Hurt
<1>5. ASSUME NEW s \in Store, NEW f \in Folder, NEW w \in Worker, Is(w, s, f), InCreation(w)
      PROVE  Hurt(s, f)'
  BY <1>1, <1>5 DEF Hurt, Disturbed, Is
<1>6. ASSUME NEW s \in Store, NEW f \in Folder
      PROVE  IF s \in ImapStores THEN MailboxInv(s, f)' ELSE MaildirInv(s, f)'
  <2>1. CASE s \in ImapStores
    <3>1. MailboxInv(s, f)
      BY <2>1 DEF RefusalInv, FileInv
    <3> QED
      BY <1>1, <1>4, <1>5, <2>1, <3>1 DEF MailboxInv, InCreation
  <2>2. CASE s \notin ImapStores
    <3>1. MaildirInv(s, f)
      BY <2>2 DEF RefusalInv, FileInv
    <3> QED
      BY <1>1, <1>4, <1>5, <2>2, <3>1 DEF MaildirInv
  <2> QED
    BY <2>1, <2>2
<1> QED
  BY <1>2, <1>3, <1>6 DEF RefusalInv, FileInv

LEMMA SameView ==
    ASSUME RefusalInv, UNCHANGED <<there, tag, meta, pass, hurt>>
    PROVE  FileInv' /\ \A w \in Worker : GoroutineInv(w)'
<1>1. FileInv'
  <2> SUFFICES ASSUME NEW s \in Store, NEW f \in Folder
               PROVE  IF s \in ImapStores THEN MailboxInv(s, f)' ELSE MaildirInv(s, f)'
    BY DEF FileInv
  <2>1. IF s \in ImapStores THEN MailboxInv(s, f) ELSE MaildirInv(s, f)
    BY DEF RefusalInv, FileInv
  <2> QED
    BY <2>1 DEF MailboxInv, MaildirInv, Hurt, Is, StoreAt, StoreOf, InCreation
<1>2. ASSUME NEW w \in Worker PROVE GoroutineInv(w)'
  <2>1. GoroutineInv(w)
    BY DEF RefusalInv
  <2> QED
    BY <2>1, ZenonT(30) DEF GoroutineInv, ImapHand, MaildirHand, Known, Hurt, Took, StoreAt, StoreOf
<1> QED
  BY <1>1, <1>2

(* A new store object lists what is there.                                 *)
LEMMA StoresRefusal ==
    ASSUME TypeOK, RefusalInv, NEW g \in Group,
           NewStore1(g) \/ NewStore2(g) \/ NewStoreFails(g)
    PROVE  RefusalInv'
<1>1. /\ UNCHANGED <<there, tag, meta, pass, hurt>>
      /\ \/ UNCHANGED folders
         \/ \E i \in {1, 2} :
                folders' = [folders EXCEPT ![g][i] = there[StoresOf[g][i]]]
  BY DEF NewStore1, NewStore2, NewStoreFails, NewStore, NewImapStore, NewMaildirStore,
         UpdateFolderList, disk, history
<1>2. FileInv' /\ \A w \in Worker : GoroutineInv(w)'
  BY <1>1, SameView
<1>4. ListedInv'
  <2> SUFFICES ASSUME NEW h \in Group, NEW j \in {1, 2}
               PROVE  Known(StoresOf[h][j], folders[h][j])'
    BY DEF ListedInv
  <2>1. Known(StoresOf[h][j], folders[h][j])
    BY DEF RefusalInv, ListedInv
  <2>2. folders'[h][j] = folders[h][j] \/ folders'[h][j] = there[StoresOf[h][j]]
    <3>1. CASE UNCHANGED folders
      BY <3>1
    <3>2. ASSUME NEW i \in {1, 2},
                 folders' = [folders EXCEPT ![g][i] = there[StoresOf[g][i]]]
          PROVE  folders'[h][j] = folders[h][j] \/ folders'[h][j] = there[StoresOf[h][j]]
      BY <3>2 DEF TypeOK
    <3> QED
      BY <1>1, <3>1, <3>2
  <2> QED
    BY <1>1, <2>1, <2>2 DEF Known, Hurt
<1> QED
  BY <1>2, <1>4 DEF RefusalInv

(* Who creates, deletes or renumbers a folder disturbs it and no other.    *)
LEMMA OutsideRefusal ==
    ASSUME TypeOK, RefusalInv, NEW s \in Store, NEW f \in Folder,
           ClientCreates(s, f) \/ ClientDeletes(s, f) \/ ServerRenumbers(s, f)
    PROVE  RefusalInv'
<1>1. UNCHANGED <<meta, pass, folders>> /\ hurt' = hurt \cup {<<s, f>>}
  BY DEF ClientCreates, ClientDeletes, ServerRenumbers, ClientStep, memory
<1>2. \A r \in Store, e \in Folder : r # s \/ e # f =>
          tag'[r][e] = tag[r][e] /\ (e \in there'[r] <=> e \in there[r])
  <2>1. CASE ClientCreates(s, f)
    BY <2>1 DEF ClientCreates, TypeOK
  <2>2. CASE ClientDeletes(s, f)
    BY <2>2 DEF ClientDeletes, TypeOK
  <2>3. CASE ServerRenumbers(s, f)
    BY <2>3 DEF ServerRenumbers, TypeOK
  <2> QED
    BY <2>1, <2>2, <2>3
<1>3. s \in ImapStores /\ f \in there'[s] => tag'[s][f] \in Identity
  <2>1. fresh[s][f] \in Identity
    BY DEF TypeOK
  <2>2. CASE ClientCreates(s, f)
    BY <2>1, <2>2 DEF ClientCreates, TypeOK
  <2>3. CASE ClientDeletes(s, f)
    BY <2>3 DEF ClientDeletes, TypeOK
  <2>4. CASE ServerRenumbers(s, f)
    BY <2>1, <2>4 DEF ServerRenumbers, TypeOK
  <2> QED
    BY <2>2, <2>3, <2>4
<1>4. Hurt(s, f)' /\ \A r, e : Hurt(r, e) => Hurt(r, e)'
  BY <1>1 DEF Hurt
<1>5. \A w \in Worker : StoreAt(w)' = StoreAt(w) /\ (InCreation(w)' <=> InCreation(w))
  BY <1>1 DEF StoreAt, StoreOf, InCreation
<1>6. FileInv'
  <2> SUFFICES ASSUME NEW r \in Store, NEW e \in Folder
               PROVE  IF r \in ImapStores THEN MailboxInv(r, e)' ELSE MaildirInv(r, e)'
    BY DEF FileInv
  <2>1. IF r \in ImapStores THEN MailboxInv(r, e) ELSE MaildirInv(r, e)
    BY DEF RefusalInv, FileInv
  <2>2. CASE r = s /\ e = f
    BY <1>3, <1>4, <2>2 DEF MailboxInv, MaildirInv
  <2>3. CASE r # s \/ e # f
    BY <1>1, <1>2, <1>4, <1>5, <2>1, <2>3 DEF MailboxInv, MaildirInv, Is
  <2> QED
    BY <2>2, <2>3
<1>7. ASSUME NEW w \in Worker PROVE GoroutineInv(w)'
  <2>1. GoroutineInv(w) /\ StoreAt(w) \in Store /\ w[2] \in Folder /\ pass[w] \in Pass
    BY WorkerType DEF RefusalInv, TypeOK
  <2>2. \A r \in Store, F \in SUBSET Folder : Known(r, F) => Known(r, F)'
    BY <1>2, <1>4 DEF Known
  <2>3. ImapHand(w)'
    BY <1>1, <1>2, <1>4, <1>5, <2>1 DEF GoroutineInv, ImapHand
  <2>4. MaildirHand(w)'
    BY <1>1, <1>2, <1>4, <1>5, <2>1 DEF GoroutineInv, MaildirHand
  <2>5. pass[w].pc = "append" => Known(StoreAt(w), pass[w].slice)'
    BY <1>2, <1>4, <1>5, <1>1, <2>1 DEF GoroutineInv, Known, Pass
  <2> QED
    BY <1>1, <1>4, <1>5, <2>1, <2>3, <2>4, <2>5 DEF GoroutineInv, Took, StoreOf
<1>8. ListedInv'
  <2> SUFFICES ASSUME NEW h \in Group, NEW j \in {1, 2}
               PROVE  Known(StoresOf[h][j], folders[h][j])'
    BY DEF ListedInv
  <2>1. /\ Known(StoresOf[h][j], folders[h][j]) /\ StoresOf[h][j] \in Store
        /\ folders[h][j] \subseteq Folder
    BY StoresOfAssumption DEF RefusalInv, ListedInv, TypeOK
  <2> QED
    BY <1>1, <1>2, <1>4, <2>1 DEF Known
<1> QED
  BY <1>6, <1>7, <1>8 DEF RefusalInv

LEMMA InitRefusal == Init => RefusalInv
<1> SUFFICES ASSUME Init PROVE RefusalInv
  OBVIOUS
<1>1. \A w \in Worker : pass[w].pc = "idle" /\ pass[w].at = 1
  BY DEF Init, NoWork, Idle
<1>2. ASSUME NEW w \in Worker PROVE GoroutineInv(w)
  BY <1>1 DEF GoroutineInv, ImapHand, MaildirHand, Took, ImapSteps, MaildirCreation,
              Selected, Generated
<1>3. ListedInv
  BY DEF Init, NoFolders, ListedInv, Known
<1>4. FileInv
  BY DEF Init, FileInv, MailboxInv, MaildirInv, Hurt, Identity, NoFile, Empty
<1> QED
  BY <1>2, <1>3, <1>4 DEF RefusalInv

LEMMA RefusalInvariant ==
    ASSUME OwnMaildirs, TypeOK, RefusalInv, [Next]_vars
    PROVE  RefusalInv'
<1>1. CASE UNCHANGED vars
  <2>1. UNCHANGED <<there, tag, meta, pass, folders, hurt>>
    BY <1>1 DEF vars, disk, memory, history
  <2>2. FileInv' /\ \A w \in Worker : GoroutineInv(w)'
    BY <2>1, SameView
  <2>4. ListedInv'
    BY <2>1 DEF RefusalInv, ListedInv, Known, Hurt
  <2> QED
    BY <2>2, <2>4 DEF RefusalInv
<1>2. CASE Next
  BY <1>2, StoresRefusal, StepRefusal, FailureRefusal, RestartRefusal, OutsideRefusal
     DEF Next
<1> QED
  BY <1>1, <1>2

(* If no Maildir belongs to two syncgroups, neither races of goroutines nor*)
(* lost appends nor repeated creation leave a folder that the program will *)
(* refuse, or one without an identity: that takes a failure, a kill or     *)
(* somebody else at this very folder.  IMAP servers may be shared.         *)
THEOREM RefusalTakesDisturbance ==
    OwnMaildirs => (Spec => []OnlyHurtFoldersAreRefused)
<1>1. ASSUME RefusalInv PROVE OnlyHurtFoldersAreRefused
  <2>1. ASSUME NEW s \in Store, NEW f \in Folder, Torn(s, f), ~Hurt(s, f)
        PROVE  \E w \in Worker : w[2] = f /\ StoreAt(w) = s /\ InCreation(w)
    <3>1. IF s \in ImapStores THEN MailboxInv(s, f) ELSE MaildirInv(s, f)
      BY <1>1 DEF RefusalInv, FileInv
    <3> QED
      BY <2>1, <3>1 DEF Torn, MailboxInv, MaildirInv, Is, InCreation, Identity
  <2>2. ASSUME NEW w \in Worker, NEW i \in {1, 2}, pass[w].pc = "work",
               pass[w].id[i] = NoFile
        PROVE  <<StoreOf(w, i), w[2]>> \in hurt
    BY <1>1, <2>2 DEF RefusalInv, GoroutineInv, Took, Hurt
  <2> QED
    BY <2>1, <2>2 DEF OnlyHurtFoldersAreRefused, Hurt
<1>2. OwnMaildirs /\ TypeOK /\ RefusalInv /\ [Next]_vars => RefusalInv'
  BY RefusalInvariant
<1>3. ASSUME OwnMaildirs PROVE Spec => []OnlyHurtFoldersAreRefused
  <2>1. TypeOK /\ RefusalInv /\ [Next]_vars => RefusalInv'
    BY <1>2, <1>3
  <2> QED
    BY <1>1, <2>1, InitType, InitRefusal, NextType, PTL DEF Spec
<1> QED
  BY <1>3
=============================================================================
