-------------------------- MODULE TwoWaySyncProofs --------------------------
(***************************************************************************)
(* Between two IMAP servers, and between a Maildir and the server it       *)
(* mirrors, the passes of SyncFolder implement TwoWaySync, for every set of*)
(* messages, every setting and every number of failures.                   *)
(***************************************************************************)
EXTENDS MaildirProofs

USE BlankAssumption, AbsentAssumption

Holding(s, m) == \E h \in UID : box[s][h] # Absent /\ box[s][h].msg = m

LEMMA HeldFacts ==
    ASSUME NEW s \in Stores
    PROVE  /\ Held[s] = {m \in Msg : Holding(s, m)}
           /\ Held'[s] = {m \in Msg : Holding(s, m)'}
BY DEF Held, CopiesOf, Handles, Holding

(* Every copy of store s remains and says the same.                        *)
SameCopies(s) ==
    \A h \in UID : /\ box'[s][h] = Absent <=> box[s][h] = Absent
                   /\ box[s][h] # Absent => box'[s][h].msg = box[s][h].msg

LEMMA HeldSame ==
    ASSUME NEW s \in Stores, SameCopies(s)
    PROVE  Held'[s] = Held[s]
<1>1. \A m : Holding(s, m)' <=> Holding(s, m)
  BY DEF SameCopies, Holding
<1> QED
  BY <1>1, HeldFacts

LEMMA AllHeldSame ==
    ASSUME \A s \in Stores : SameCopies(s)
    PROVE  Held' = Held
BY HeldSame DEF Held

LEMMA HeldType == Held \in [Stores -> SUBSET Msg]
BY DEF Held
-----------------------------------------------------------------------------
(* What the mail clients do.                                               *)
LEMMA OutsideHand ==
    ASSUME User PROVE InHand' = InHand
BY DEF User, Deliver, Remove, Toggle, UserStep, syncVars, InHand

LEMMA DeliverMirrored ==
    ASSUME AllImap, IInv, User, NEW s \in Stores, NEW m \in Msg, Deliver(s, m)
    PROVE  Mirror!Deliver(s, m)
<1>1. PICK u \in UID, fl \in SUBSET Letter : ServerAppend(s, m, fl, u)
  BY Dispatch DEF Deliver, ImapDeliver
<1>2. /\ box'[s][u].msg = m
      /\ box'[s][u] # Absent
      /\ BoxSameBut(s, u)
      /\ u = uidnext[s]
  <2>1. FolderTypeOK /\ m \in Msg \cup {Blank}
    BY DEF IInv, TypeOK
  <2>2. box'[s][u] = [msg |-> m, uid |-> u, flags |-> fl]
    BY <1>1, <2>1, AppendEffect
  <2> QED
    BY <1>1, <2>1, <2>2, AppendEffect
<1>3. box[s][u] = Absent
  BY <1>2 DEF IInv, BoxInv, UID, TypeOK, FolderTypeOK
<1>4. \A n : Holding(s, n)' <=> Holding(s, n) \/ n = m
  BY <1>2, <1>3 DEF Holding, BoxSameBut
<1>5. Held'[s] = Held[s] \cup {m}
  BY <1>4, HeldFacts
<1>6. \A t \in Stores : t # s => Held'[t] = Held[t]
  BY <1>2, HeldSame DEF SameCopies, BoxSameBut
<1>7. Held' = [Held EXCEPT ![s] = @ \cup {m}]
  BY <1>5, <1>6 DEF Held
<1>8. m \notin born /\ born' = born \cup {m} /\ GivenUp' = GivenUp
  BY DEF Deliver, GivenUp
<1> QED
  BY <1>7, <1>8, OutsideHand DEF Mirror!Deliver

LEMMA RemoveMirrored ==
    ASSUME TypeOK, User, NEW s \in Stores, NEW h \in Handles(s), Remove(s, h)
    PROVE  Mirror!Next \/ UNCHANGED <<Held, born, GivenUp, InHand>>
<1>0. PICK m : m = box[s][h].msg
  OBVIOUS
<1>1. /\ h \in UID /\ box[s][h] # Absent /\ m \in Msg \cup {Blank}
      /\ box' = [box EXCEPT ![s][h] = Absent]
      /\ gone' = gone \cup {m} /\ born' = born
  BY <1>0 DEF Remove, UserDelete, Handles, TypeOK, FolderTypeOK, Copy
<1>2. box'[s][h] = Absent /\ BoxSameBut(s, h)
  BY <1>1 DEF TypeOK, FolderTypeOK, BoxSameBut
<1>3. \A t \in Stores : t # s => Held'[t] = Held[t]
  BY <1>2, HeldSame DEF SameCopies, BoxSameBut
<1>4. \A n : n # m => (Holding(s, n)' <=> Holding(s, n))
  BY <1>0, <1>2 DEF Holding, BoxSameBut
<1>5. Held'[s] \in {Held[s], Held[s] \ {m}}
  <2>1. Held'[s] = IF Holding(s, m)' THEN Held[s] ELSE Held[s] \ {m}
    <3>1. Holding(s, m)
      BY <1>0, <1>1 DEF Holding
    <3> QED
      BY <1>4, <3>1, HeldFacts
  <2> QED
    BY <2>1
<1>6. CASE m = Blank
  <2>1. Held'[s] = Held[s]
    BY <1>5, <1>6, HeldType
  <2>2. Held' = Held
    BY <1>3, <2>1 DEF Held
  <2> QED
    BY <1>1, <1>6, <2>2, OutsideHand DEF GivenUp
<1>7. CASE m \in Msg
  <2>1. m \in Held[s]
    BY <1>0, <1>1, <1>7, HeldFacts DEF Holding
  <2>2. Held' \in {Held, [Held EXCEPT ![s] = @ \ {m}]}
    BY <1>3, <1>5 DEF Held
  <2>3. GivenUp' = GivenUp \cup {m}
    BY <1>1, <1>7 DEF GivenUp
  <2>4. Mirror!GiveUp(s, m)
    BY <1>1, <2>1, <2>2, <2>3, OutsideHand DEF Mirror!GiveUp
  <2> QED
    BY <1>7, <2>4 DEF Mirror!Next, Stores
<1> QED
  BY <1>1, <1>6, <1>7

LEMMA ToggleMirrored ==
    ASSUME TypeOK, User, NEW s \in Stores, NEW h \in Handles(s), NEW f \in UserFlag,
           Toggle(s, h, f)
    PROVE  Mirror!Next \/ UNCHANGED <<Held, born, GivenUp, InHand>>
<1>0. PICK m : m = box[s][h].msg
  OBVIOUS
<1>1. /\ h \in UID /\ box[s][h] # Absent /\ box[s][h] \in Copy
      /\ m \in Msg \cup {Blank}
  BY <1>0 DEF Handles, TypeOK, FolderTypeOK, Copy
<1>2. PICK fl \in SUBSET Letter : box' = [box EXCEPT ![s][h].flags = fl]
  <2>1. box[s][h].flags \in SUBSET Letter
    BY <1>1 DEF Copy
  <2>2. /\ box[s][h].flags \ {f} \in SUBSET Letter
        /\ box[s][h].flags \cup {f} \in SUBSET Letter
    BY <2>1 DEF Letter
  <2> QED
    BY <2>2 DEF Toggle, UserFlags
<1>3. \A t \in Stores : SameCopies(t)
  <2> DEFINE c == [box[s][h] EXCEPT !.flags = fl]
  <2>1. c \in Copy /\ c.msg = box[s][h].msg
    BY <1>1, <1>2 DEF Copy
  <2>2. c # Absent
    BY <2>1
  <2>3. box' = [box EXCEPT ![s][h] = c]
    BY <1>1, <1>2 DEF TypeOK, FolderTypeOK
  <2> HIDE DEF c
  <2> QED
    BY <1>1, <2>1, <2>2, <2>3 DEF SameCopies, TypeOK, FolderTypeOK
<1>4. Held' = Held
  BY <1>3, AllHeldSame
<1>5. born' = born /\ gone' \in {gone, gone \cup {m}}
  BY <1>0 DEF Toggle
<1>6. CASE gone' = gone \/ m = Blank
  BY <1>4, <1>5, <1>6, OutsideHand DEF GivenUp
<1>7. CASE gone' = gone \cup {m} /\ m \in Msg
  <2>1. m \in Held[s]
    BY <1>0, <1>1, <1>7, HeldFacts DEF Holding
  <2>2. GivenUp' = GivenUp \cup {m}
    BY <1>7 DEF GivenUp
  <2>3. Mirror!GiveUp(s, m)
    BY <1>4, <1>5, <2>1, <2>2, OutsideHand DEF Mirror!GiveUp
  <2> QED
    BY <1>7, <2>3 DEF Mirror!Next, Stores
<1> QED
  BY <1>1, <1>5, <1>6, <1>7
-----------------------------------------------------------------------------
(* What a pass does.                                                       *)
LEMMA AddMirrored ==
    ASSUME AllImap, IInv, AddNew
    PROVE  Mirror!Next \/ UNCHANGED <<Held, born, GivenUp, InHand>>
<1>0. /\ FolderTypeOK /\ src \in Stores /\ dst \in Stores
      /\ cur.msg \in Msg \cup {Blank} /\ cur.flags \cap Mapped \in SUBSET Letter
  BY OtherStore DEF IInv, TypeOK, dst, Letter
<1>m. PICK m \in Msg \cup {Blank} : m = cur.msg
  BY <1>0
<1>d. PICK s \in Stores : s = dst
  BY <1>0
<1>1. PICK u \in UID, fl \in SUBSET Letter : ServerAppend(s, m, fl, u)
  BY <1>0, <1>m, <1>d, Dispatch DEF AddNew, AddMessage, ImapAddMessage
<1>2. /\ box'[s][u].msg = m
      /\ box'[s][u] # Absent
      /\ BoxSameBut(s, u)
      /\ u = uidnext[s]
  <2>1. box'[s][u] = [msg |-> m, uid |-> u, flags |-> fl]
    BY <1>0, <1>1, AppendEffect
  <2> QED
    BY <1>0, <1>1, <2>1, AppendEffect
<1>3. box[s][u] = Absent
  BY <1>0, <1>2 DEF IInv, BoxInv, UID, FolderTypeOK
<1>4. \A n : Holding(s, n)' <=> Holding(s, n) \/ n = m
  BY <1>2, <1>3 DEF Holding, BoxSameBut
<1>5. Held'[s] = {n \in Msg : Holding(s, n) \/ n = m}
  BY <1>4, HeldFacts
<1>6. \A t \in Stores : t # s => Held'[t] = Held[t]
  BY <1>2, HeldSame DEF SameCopies, BoxSameBut
<1>7. pc = "add" /\ pc' = "update" /\ UNCHANGED <<born, GivenUp>> /\ InHand' = {}
  BY DEF AddNew, auxVars, InHand, GivenUp
<1>8. CASE m = Blank
  <2>1. Held'[s] = Held[s]
    BY <1>5, <1>8, HeldFacts
  <2>2. Held' = Held
    BY <1>6, <2>1 DEF Held
  <2>3. InHand = {}
    BY <1>m, <1>8 DEF InHand
  <2> QED
    BY <1>7, <2>2, <2>3
<1>9. CASE m \in Msg
  <2>1. Held'[s] = Held[s] \cup {m}
    BY <1>5, <1>9, HeldFacts
  <2>2. Held' = [Held EXCEPT ![s] = @ \cup {m}]
    BY <1>6, <2>1 DEF Held
  <2>3. InHand = {<<src, m>>}
    BY <1>m, <1>7, <1>9 DEF InHand
  <2>4. s = 3 - src
    BY <1>d DEF dst, Other
  <2>5. Mirror!Add(src, m)
    BY <1>7, <2>2, <2>3, <2>4 DEF Mirror!Add
  <2> QED
    BY <1>0, <1>9, <2>5 DEF Mirror!Next, Stores
<1> QED
  BY <1>0, <1>m, <1>8, <1>9

LEMMA StoreMirrored ==
    ASSUME AllImap, IInv, DeleteMessages \/ ChangeMessages
    PROVE  UNCHANGED <<Held, born, GivenUp, InHand>>
<1>1. dst \in Stores /\ src \in Stores /\ FolderTypeOK
  BY OtherStore DEF IInv, TypeOK, dst
<1>2. \/ UNCHANGED box
      \/ \E v \in UID, fl \in SUBSET Letter : ServerStore(dst, v, fl)
  <2>0. /\ {"T"} \in SUBSET Letter
        /\ \A t \in Stores, u \in UID : list[t][u] # Absent =>
              /\ list[t][u].flags \in SUBSET Letter
              /\ list[t][u].flags \cup Newflags \in SUBSET Letter
    BY <1>1 DEF FolderTypeOK, Entry, Letter, Mapped
  <2>1. CASE DeleteMessages
    BY <1>1, <2>0, <2>1, Dispatch
       DEF DeleteMessages, DeleteRow, DeleteDst, DeleteMessage, SetFlags,
           ImapDeleteMessage, ImapSetFlags, HasUID, folderVars
  <2>2. CASE ChangeMessages
    <3>1. \A r \in todo.chg : r.uid[src] \in UID
      BY <1>1 DEF IInv, TypeOK, Row
    <3>2. pc = "work" => \A r \in todo.chg : list[src][r.uid[src]] # Absent
      BY DEF IInv, TodoInv, Syncing
    <3> QED
      BY <1>1, <2>0, <2>2, <3>1, <3>2, Dispatch
         DEF ChangeMessages, ChangeRow, SetFlags, ImapSetFlags, folderVars
  <2> QED
    BY <2>1, <2>2
<1>3. \A t \in Stores : SameCopies(t)
  <2>1. CASE UNCHANGED box
    BY <2>1 DEF SameCopies
  <2>2. ASSUME NEW v \in UID, NEW fl \in SUBSET Letter, ServerStore(dst, v, fl)
        PROVE  \A t \in Stores : SameCopies(t)
    BY <1>1, <2>2, StoreEffect DEF SameCopies, BoxSameBut
  <2> QED
    BY <1>2, <2>1, <2>2
<1>4. pc = "work" /\ pc' # "add" /\ UNCHANGED <<born, gone>>
  BY DEF DeleteMessages, DeleteRow, ChangeMessages, ChangeRow, Abort, auxVars
<1> QED
  BY <1>3, <1>4, AllHeldSame DEF InHand, GivenUp

LEMMA CloseMirrored ==
    ASSUME AllImap, IInv, Close1 \/ Close2
    PROVE  Mirror!Next
<1>1. PICK s \in Stores, expunge \in BOOLEAN : ImapClose(s, expunge)
  BY Dispatch DEF Close2, Close1, CloseFolder, Stores
<1>2. \A u \in UID :
          \/ box'[s][u] = box[s][u]
          \/ box'[s][u] = Absent /\ "T" \in box[s][u].flags
  BY <1>1, CloseEffect DEF IInv, TypeOK
<1>3. \A t \in Stores : t # s => box'[t] = box[t]
  BY <1>1 DEF ImapClose, IInv, TypeOK, FolderTypeOK
<1>4. \A t \in Stores : t # s => Held'[t] = Held[t]
  BY <1>3, HeldSame DEF SameCopies
<1>5. \A m : Holding(s, m)' => Holding(s, m)
  BY <1>2 DEF Holding
<1>6. \A m \in Msg : Holding(s, m) /\ ~Holding(s, m)' => m \in GivenUp
  <2> SUFFICES ASSUME NEW m \in Msg, Holding(s, m), ~Holding(s, m)'
               PROVE  m \in gone
    BY DEF GivenUp
  <2>1. PICK h \in UID : box[s][h] # Absent /\ box[s][h].msg = m
    BY DEF Holding
  <2>2. "T" \in box[s][h].flags
    BY <1>2, <2>1 DEF Holding
  <2> QED
    BY <2>1, <2>2 DEF IInv, BoxInv, Released
<1> DEFINE lost == {m \in Msg : Holding(s, m) /\ ~Holding(s, m)'}
<1>7. Held'[s] = Held[s] \ lost
  BY <1>5, HeldFacts
<1>8. Held' = [Held EXCEPT ![s] = @ \ lost]
  BY <1>4, <1>7 DEF Held
<1>9. pc # "add" /\ pc' # "add" /\ UNCHANGED <<born, gone>>
  BY DEF Close1, Close2, EndPass, auxVars
<1>10. Mirror!Drop(s, lost)
  BY <1>8, <1>9 DEF Mirror!Drop, InHand, GivenUp
<1>11. lost \in SUBSET GivenUp
  BY <1>6
<1> QED
  BY <1>10, <1>11 DEF Mirror!Next, Stores

LEMMA ReadMirrored ==
    ASSUME AllImap, IInv, ReadMessage
    PROVE  Mirror!Next \/ UNCHANGED <<Held, born, GivenUp, InHand>>
<1>1. PICK u \in UID : ReadNew(u)
  BY DEF ReadMessage
<1>2. UNCHANGED <<Held, born, GivenUp>> /\ InHand = {}
  BY <1>1, AllHeldSame DEF ReadNew, folderVars, SameCopies, auxVars, Abort, GivenUp, InHand
<1>3. src \in Stores
  BY DEF IInv, TypeOK
<1>4. CASE InHand' = {}
  BY <1>2, <1>4
<1>5. CASE InHand' # {}
  <2>1. /\ cur'.msg = Body(src, u) /\ src' = src /\ cur'.msg # Blank
        /\ InHand' = {<<src, cur'.msg>>}
    BY <1>1, <1>5 DEF ReadNew, Abort, InHand
  <2>2. PICK m : m = cur'.msg
    OBVIOUS
  <2>3. box[src][u] # Absent /\ box[src][u].msg = m
    BY <1>3, <2>1, <2>2, Dispatch DEF Body, ImapBody
  <2>4. m \in Msg
    BY <1>3, <2>1, <2>2, <2>3 DEF IInv, TypeOK, FolderTypeOK, Copy
  <2>5. m \in Held[src]
    BY <1>3, <2>3, <2>4, HeldFacts DEF Holding
  <2>6. Mirror!Read(src, m)
    BY <1>2, <2>1, <2>2, <2>5 DEF Mirror!Read
  <2> QED
    BY <1>3, <2>4, <2>6 DEF Mirror!Next, Stores
<1> QED
  BY <1>4, <1>5

LEMMA OtherMirrored ==
    ASSUME AllImap, IInv,
           \/ StartSync \/ OpenFails \/ Fail \/ CloseFails \/ Crash \/ ListFolder1 \/ ListFolder2
           \/ Diff \/ UpdateSource \/ CommitNew \/ CommitDelete \/ CommitChange
           \/ NextDirection \/ UNCHANGED vars
    PROVE  Mirror!Next \/ UNCHANGED <<Held, born, GivenUp, InHand>>
<1>1. src \in Stores
  BY DEF IInv, TypeOK
<1>2. UNCHANGED <<box, born, gone>>
  BY <1>1, Dispatch
     DEF StartSync, OpenFails, Fail, CloseFails, Crash, ListFolder1, ListFolder2, ListFolder,
         UpdateMessageList, ImapUpdateMessageList, Diff, UpdateSource, UpdateMessage,
         Abort, CommitNew, CommitDelete, CommitChange, Committed, NextDirection,
         vars, folderVars, auxVars, Stores
<1>3. UNCHANGED <<Held, born, GivenUp>>
  BY <1>2, AllHeldSame DEF SameCopies, GivenUp
<1>4. InHand' = InHand \/ InHand' = {}
  <2>1. pc' # "add" \/ UNCHANGED <<pc, cur, src>>
    BY DEF StartSync, OpenFails, Fail, CloseFails, Crash, EndPass, ListFolder1, ListFolder2,
        ListFolder, Diff, UpdateSource, Abort, CommitNew, CommitDelete, CommitChange,
        Committed, NextDirection, vars
  <2> QED
    BY <2>1 DEF InHand
<1>5. CASE InHand # {} /\ InHand' = {}
  BY <1>3, <1>5 DEF Mirror!Next, Mirror!Lose
<1> QED
  BY <1>3, <1>4, <1>5

LEMMA InitMirrored == Init => Mirror!Init
<1> SUFFICES ASSUME Init PROVE Mirror!Init
  OBVIOUS
<1>1. \A s \in Stores, h \in UID : box[s][h] = Absent
  BY DEF Init, FolderInit, NoMessages
<1>2. \A s \in Stores : Held[s] = {}
  BY <1>1, HeldFacts DEF Holding
<1>3. Held = [s \in Stores |-> {}]
  BY <1>2 DEF Held
<1> QED
  BY <1>3 DEF Mirror!Init, Init, GivenUp, InHand, Stores

(* Between two IMAP servers SyncFolder is a two-way synchronisation: a     *)
(* message gets to a store only from the other one, once for every time it *)
(* was read there, and leaves it only after a mail client gave it up.      *)
THEOREM ImplementsTwoWaySync ==
    ASSUME AllImap PROVE Spec => IsTwoWaySync
<1>1. IInv /\ [Next]_vars => [Mirror!Next]_<<Held, born, GivenUp, InHand>>
  <2> SUFFICES ASSUME IInv, [Next]_vars
               PROVE  Mirror!Next \/ UNCHANGED <<Held, born, GivenUp, InHand>>
    OBVIOUS
  <2>1. CASE User
    <3>1. ASSUME NEW s \in Stores, NEW m \in Msg, Deliver(s, m) PROVE Mirror!Next
      BY <2>1, <3>1, DeliverMirrored DEF Mirror!Next, Stores
    <3> QED
      BY <2>1, <3>1, RemoveMirrored, ToggleMirrored DEF User, IInv
  <2>2. CASE AddNew
    BY <2>2, AddMirrored
  <2>3. CASE DeleteMessages \/ ChangeMessages
    BY <2>3, StoreMirrored
  <2>4. CASE Close1 \/ Close2
    BY <2>4, CloseMirrored
  <2>5. CASE ReadMessage
    BY <2>5, ReadMirrored
  <2>6. CASE \/ StartSync \/ OpenFails \/ Fail \/ CloseFails \/ Crash \/ ListFolder1 \/ ListFolder2
             \/ Diff \/ UpdateSource \/ CommitNew \/ CommitDelete \/ CommitChange
             \/ NextDirection \/ UNCHANGED vars
    BY <2>6, OtherMirrored
  <2> QED
    BY <2>1, <2>2, <2>3, <2>4, <2>5, <2>6 DEF Next, SyncStep
<1> QED
  BY <1>1, InitMirrored, Invariance, PTL DEF Spec, IsTwoWaySync, Mirror!Spec, Mirror!vars
-----------------------------------------------------------------------------
(* A Maildir that mirrors a server.                                        *)

(* A step of a pass that does not add: one store may lose copies, and none *)
(* says anything else afterwards.                                          *)
Loses(s) ==
    /\ \A t \in Stores, h \in UID : t # s => box'[t][h] = box[t][h]
    /\ \A h \in UID : box'[s][h] # Absent =>
          box[s][h] # Absent /\ box'[s][h].msg = box[s][h].msg

LEMMA LosesMirrored ==
    ASSUME NEW s \in Stores, Loses(s), Kept, UNCHANGED <<gone, born, InHand>>
    PROVE  Mirror!Next
<1> DEFINE lost == {m \in Msg : Holding(s, m) /\ ~Holding(s, m)'}
<1>1. \A t \in Stores : t # s => Held'[t] = Held[t]
  BY HeldSame DEF Loses, SameCopies
<1>2. \A m : Holding(s, m)' => Holding(s, m)
  BY DEF Loses, Holding
<1>3. Held'[s] = Held[s] \ lost
  BY <1>2, HeldFacts
<1>4. Held' = [Held EXCEPT ![s] = @ \ lost]
  BY <1>1, <1>3 DEF Held
<1>5. ASSUME NEW m \in lost PROVE m \in GivenUp
  <2>1. PICK h \in UID : box[s][h] # Absent /\ box[s][h].msg = m
    BY <1>5 DEF Holding
  <2>2. ~(box'[s][h] # Absent /\ box'[s][h].msg = m)
    BY <1>5 DEF Holding
  <2> QED
    BY <1>5, <2>1, <2>2 DEF Kept, GivenUp
<1>6. Mirror!Drop(s, lost)
  BY <1>4 DEF Mirror!Drop, GivenUp
<1> QED
  BY <1>5, <1>6 DEF Mirror!Next, Stores

(* An added copy, whichever folder it was added to.                        *)
LEMMA AppearsMirrored ==
    ASSUME NEW s \in Stores, NEW f, NEW u, Appears(s, f, u),
           NEW m, m = box'[s][f].msg
    PROVE  /\ \A t \in Stores : t # s => Held'[t] = Held[t]
           /\ m \in Msg => Held' = [Held EXCEPT ![s] = @ \cup {m}]
           /\ m \notin Msg => Held' = Held
<1>1. \A t \in Stores : t # s => Held'[t] = Held[t]
  BY HeldSame DEF Appears, BoxSameBut, SameCopies
<1>2. \A n : Holding(s, n)' <=> Holding(s, n) \/ n = m
  BY DEF Appears, BoxSameBut, Holding
<1>3. Held'[s] = {n \in Msg : Holding(s, n) \/ n = m}
  BY <1>2, HeldFacts
<1>4. CASE m \in Msg
  <2>1. Held'[s] = Held[s] \cup {m}
    BY <1>3, <1>4, HeldFacts
  <2> QED
    BY <1>1, <1>4, <2>1 DEF Held
<1>5. CASE m \notin Msg
  <2>1. Held'[s] = Held[s]
    BY <1>3, <1>5, HeldFacts
  <2> QED
    BY <1>1, <1>5, <2>1 DEF Held
<1> QED
  BY <1>1, <1>4, <1>5

LEMMA MirrorDeliverMirrored ==
    ASSUME IsMirror, MInv, User, NEW s \in Stores, NEW m \in Msg, Deliver(s, m)
    PROVE  Mirror!Deliver(s, m)
<1>1. <<"deliver", s>> \in UserOps /\ gone' = gone /\ m \notin born
      /\ born' = born \cup {m}
  BY DEF Deliver, UserStep
<1>2. s = 2 /\ IsImap(2) /\ FolderTypeOK
  BY <1>1, TheStores DEF IsMirror, MInv, TypeOK
<1>3. PICK u \in UID, fl \in SUBSET Letter : ServerAppend(2, m, fl, u)
  BY <1>2 DEF Deliver, ImapDeliver
<1>4. /\ box'[2][u].msg = m /\ box'[2][u] # Absent
      /\ BoxSameBut(2, u) /\ u = uidnext[2]
  <2>1. m \in Msg \cup {Blank}
    OBVIOUS
  <2>2. box'[2][u] = [msg |-> m, uid |-> u, flags |-> fl]
    BY <1>2, <1>3, <2>1, AppendEffect
  <2> QED
    BY <1>2, <1>3, <2>1, <2>2, AppendEffect
<1>5. box[2][u] = Absent
  BY <1>4 DEF MInv, CopyInv, Handles, UID
<1>6. \A n : Holding(2, n)' <=> Holding(2, n) \/ n = m
  BY <1>2, <1>4, <1>5 DEF Holding, BoxSameBut
<1>7. Held'[2] = Held[2] \cup {m}
  BY <1>2, <1>6, HeldFacts
<1>8. \A t \in Stores : t # 2 => Held'[t] = Held[t]
  BY <1>4, HeldSame DEF SameCopies, BoxSameBut
<1>9. Held' = [Held EXCEPT ![s] = @ \cup {m}]
  BY <1>2, <1>7, <1>8 DEF Held
<1> QED
  BY <1>1, <1>9, OutsideHand DEF Mirror!Deliver, GivenUp

LEMMA MirrorAddMirrored ==
    ASSUME IsMirror, MInv, AddNew
    PROVE  Mirror!Next \/ UNCHANGED <<Held, born, GivenUp, InHand>>
<1>1. /\ pc = "add" /\ pc' = "update" /\ UNCHANGED <<db, gone, born, GivenUp>>
      /\ InHand' = {}
  BY DEF AddNew, auxVars, InHand, GivenUp
<1>2. src \in Stores /\ dst \in Stores /\ dst = 3 - src /\ cur.msg \in Msg \cup {Blank}
  BY TheStores DEF MInv, TypeOK, dst, Other
<1>3. PICK u \in UID, f \in UID : Appears(dst, f, u) /\ box'[dst][f].msg = cur.msg
  BY <1>1, MirrorAddEffect DEF AddNew
<1>4. CASE cur.msg = Blank
  <2>1. Held' = Held
    BY <1>2, <1>3, <1>4, AppearsMirrored
  <2>2. InHand = {}
    BY <1>4 DEF InHand
  <2> QED
    BY <1>1, <2>1, <2>2
<1>5. CASE cur.msg \in Msg
  <2>1. Held' = [Held EXCEPT ![dst] = @ \cup {cur.msg}]
    BY <1>2, <1>3, <1>5, AppearsMirrored
  <2>2. InHand = {<<src, cur.msg>>}
    BY <1>1, <1>5 DEF InHand
  <2>3. Mirror!Add(src, cur.msg)
    BY <1>1, <1>2, <2>1, <2>2 DEF Mirror!Add
  <2> QED
    BY <1>2, <1>5, <2>3 DEF Mirror!Next, Stores
<1> QED
  BY <1>2, <1>4, <1>5

LEMMA MirrorReadMirrored ==
    ASSUME IsMirror, MInv, ReadMessage
    PROVE  Mirror!Next \/ UNCHANGED <<Held, born, GivenUp, InHand>>
<1>1. PICK u \in UID : ReadNew(u)
  BY DEF ReadMessage
<1>2. UNCHANGED <<Held, born, GivenUp>> /\ InHand = {}
  BY <1>1, AllHeldSame DEF ReadNew, folderVars, SameCopies, auxVars, Abort, GivenUp, InHand
<1>3. src \in Stores /\ FolderTypeOK
  BY DEF MInv, TypeOK
<1>4. CASE InHand' = {}
  BY <1>2, <1>4
<1>5. CASE InHand' # {}
  <2>1. /\ cur'.msg = Body(src, u) /\ src' = src /\ cur'.msg # Blank
        /\ CanRead(src, u)
        /\ InHand' = {<<src, cur'.msg>>}
    BY <1>1, <1>5 DEF ReadNew, Abort, InHand
  <2>2. PICK m : m = cur'.msg
    OBVIOUS
  <2>3. \E h \in UID : box[src][h] # Absent /\ box[src][h].msg = m
    <3>1. CASE IsImap(src)
      BY <2>1, <2>2, <3>1 DEF Body, ImapBody
    <3>2. CASE ~IsImap(src)
      <4>1. HasFile(src, u) /\ m = box[src][list[src][u].file].msg
        BY <2>1, <2>2, <3>2 DEF Body, MaildirBody, CanRead
      <4> QED
        BY <1>3, <4>1, FileOf
    <3> QED
      BY <3>1, <3>2
  <2>4. m \in Msg
    BY <1>3, <2>1, <2>2, <2>3 DEF FolderTypeOK, Copy
  <2>5. m \in Held[src]
    BY <1>3, <2>3, <2>4, HeldFacts DEF Holding
  <2>6. Mirror!Read(src, m)
    BY <1>2, <2>1, <2>2, <2>5 DEF Mirror!Read
  <2> QED
    BY <1>3, <2>4, <2>6 DEF Mirror!Next, Stores
<1> QED
  BY <1>4, <1>5

(* The operations of a pass that change copies and add none, whatever the  *)
(* kind of the folder.                                                     *)
LEMMA FlagsLose ==
    ASSUME FolderTypeOK, NEW s \in Stores, NEW v \in UID, NEW fl \in SUBSET Letter,
           SetFlags(s, v, fl)
    PROVE  Loses(s)
<1>1. CASE IsImap(s)
  <2>1. ServerStore(s, v, fl)
    BY <1>1 DEF SetFlags, ImapSetFlags
  <2> QED
    BY <2>1, StoreEffect DEF Loses, BoxSameBut
<1>2. CASE ~IsImap(s)
  <2> DEFINE f == list[s][v].file
  <2>1. MaildirSetFlags(s, v, fl) /\ HasFile(s, v)
    BY <1>2 DEF SetFlags, MaildirSetFlags
  <2>2. f \in UID /\ box[s][f] # Absent
    BY <2>1, FileOf
  <2>3. BoxSameBut(s, f) /\ box'[s][f].msg = box[s][f].msg
    BY <2>1, MaildirSetFlagsEffect
  <2> HIDE DEF f
  <2> QED
    BY <2>2, <2>3 DEF Loses, BoxSameBut
<1> QED
  BY <1>1, <1>2

LEMMA DeletionLoses ==
    ASSUME FolderTypeOK, NEW s \in Stores, NEW v \in UID, DeleteMessage(s, v)
    PROVE  Loses(s)
<1>1. CASE IsImap(s)
  <2>1. ServerStore(s, v, {"T"}) /\ {"T"} \in SUBSET Letter
    BY <1>1 DEF DeleteMessage, ImapDeleteMessage, Letter, Mapped
  <2> QED
    BY <2>1, StoreEffect DEF Loses, BoxSameBut
<1>2. CASE ~IsImap(s)
  <2> DEFINE f == list[s][v].file
  <2>1. MaildirDeleteMessage(s, v)
    BY <1>2 DEF DeleteMessage
  <2>2. box' = box \/ (box'[s][f] = Absent /\ BoxSameBut(s, f))
    BY <2>1, MaildirDeleteEffect
  <2> HIDE DEF f
  <2> QED
    BY <2>2 DEF Loses, BoxSameBut
<1> QED
  BY <1>1, <1>2

LEMMA UpdateLoses ==
    ASSUME FolderTypeOK, NEW s \in Stores, NEW v \in UID, NEW out \in UID,
           UpdateMessage(s, v, out)
    PROVE  Loses(s)
<1>1. CASE IsImap(s)
  BY <1>1 DEF UpdateMessage, folderVars, Loses
<1>2. CASE ~IsImap(s)
  <2> DEFINE f == list[s][v].file
  <2>1. MaildirUpdate(s, v, out) /\ HasFile(s, v)
    BY <1>2 DEF UpdateMessage, MaildirUpdate
  <2>2. f \in UID /\ box[s][f] # Absent
    BY <2>1, FileOf
  <2>3. BoxSameBut(s, f) /\ box'[s][f].msg = box[s][f].msg
    BY <2>1, MaildirUpdateEffect
  <2> HIDE DEF f
  <2> QED
    BY <2>2, <2>3 DEF Loses, BoxSameBut
<1> QED
  BY <1>1, <1>2

LEMMA CloseLoses ==
    ASSUME FolderTypeOK, NEW s \in Stores, CloseFolder(s)
    PROVE  Loses(s)
<1>1. (Expunge[s] /\ config.deletemode # "flag") \in BOOLEAN
  OBVIOUS
<1>2. CASE IsImap(s)
  <2>1. ImapClose(s, Expunge[s] /\ config.deletemode # "flag")
    BY <1>2 DEF CloseFolder
  <2>2. \A u \in UID : box'[s][u] = box[s][u] \/ box'[s][u] = Absent
    BY <1>1, <2>1, CloseEffect
  <2>3. \A t \in Stores : t # s => box'[t] = box[t]
    BY <2>1 DEF ImapClose, FolderTypeOK
  <2> QED
    BY <2>2, <2>3 DEF Loses
<1>3. CASE ~IsImap(s)
  BY <1>3 DEF CloseFolder, Loses
<1> QED
  BY <1>2, <1>3

LEMMA PassLoses ==
    ASSUME MInv, DeleteMessages \/ ChangeMessages \/ UpdateSource \/ Close1 \/ Close2
    PROVE  /\ \E s \in Stores : Loses(s)
           /\ UNCHANGED <<gone, born, InHand>>
<1> SUFFICES \E s \in Stores : Loses(s)
  <2>1. pc # "add" /\ pc' # "add" /\ UNCHANGED <<gone, born>>
    BY DEF DeleteMessages, DeleteRow, ChangeMessages, ChangeRow, UpdateSource, Abort,
           Close1, Close2, EndPass, auxVars
  <2> QED
    BY <2>1 DEF InHand
<1>0. FolderTypeOK /\ src \in Stores /\ dst \in Stores /\ 1 \in Stores /\ 2 \in Stores
      /\ cur.src \in UID
  BY StoresOf DEF MInv, TypeOK, Stores
<1>1. UNCHANGED box => Loses(1)
  BY DEF Loses
<1>2. CASE DeleteMessages
  <2> PICK r \in todo.del, v \in UID : DeleteRow(r, v)
    BY <1>2 DEF DeleteMessages
  <2>1. CASE UNCHANGED folderVars
    BY <1>0, <1>1, <2>1 DEF folderVars
  <2>2. CASE DeleteMessage(dst, v)
    BY <1>0, <2>2, DeletionLoses
  <2>3. CASE HasUID(dst, v) /\ SetFlags(dst, v, list[dst][v].flags \cup Newflags)
    <3>1. list[dst][v] \in Entry
      BY <1>0, <2>3 DEF HasUID, FolderTypeOK
    <3>2. list[dst][v].flags \cup Newflags \in SUBSET Letter
      BY <3>1 DEF Entry, Letter
    <3> QED
      BY <1>0, <2>3, <3>2, FlagsLose
  <2> QED
    BY <2>1, <2>2, <2>3 DEF DeleteRow, DeleteDst
<1>3. CASE ChangeMessages
  <2> PICK r \in todo.chg, v \in UID : ChangeRow(r, v)
    BY <1>3 DEF ChangeMessages
  <2>1. CASE UNCHANGED folderVars
    BY <1>0, <1>1, <2>1 DEF folderVars
  <2>2. CASE SetFlags(dst, v, list[src][r.uid[src]].flags)
    <3>1. r.uid[src] \in Listed(src)
      BY DEF MInv, WorkInv, ChangeRow, Syncing
    <3>2. list[src][r.uid[src]] \in Entry
      BY <1>0, <3>1 DEF Listed, FolderTypeOK
    <3>3. list[src][r.uid[src]].flags \in SUBSET Letter
      BY <3>2 DEF Entry
    <3> QED
      BY <1>0, <2>2, <3>3, FlagsLose
  <2> QED
    BY <2>1, <2>2 DEF ChangeRow
<1>4. CASE UpdateSource
  BY <1>0, <1>1, <1>4, UpdateLoses DEF UpdateSource, folderVars
<1>5. CASE Close1 \/ Close2
  BY <1>0, <1>5, CloseLoses DEF Close1, Close2
<1> QED
  BY <1>2, <1>3, <1>4, <1>5

LEMMA MirrorOtherMirrored ==
    ASSUME MInv,
           \/ StartSync \/ OpenFails \/ Fail \/ CloseFails \/ Crash \/ ListFolder1 \/ ListFolder2
           \/ Diff \/ CommitNew \/ CommitDelete \/ CommitChange
           \/ NextDirection \/ UNCHANGED vars
    PROVE  Mirror!Next \/ UNCHANGED <<Held, born, GivenUp, InHand>>
<1>1. UNCHANGED <<box, born, gone>>
  <2>1. CASE ListFolder1 \/ ListFolder2
    <3>1. UNCHANGED box
      BY <2>1, MirrorTypes, ListFolderTypes
    <3> QED
      BY <2>1, <3>1 DEF ListFolder1, ListFolder2, ListFolder, auxVars
  <2>2. CASE ~(ListFolder1 \/ ListFolder2)
    BY <2>2 DEF StartSync, OpenFails, Fail, CloseFails, Crash, Diff, CommitNew, CommitDelete,
                CommitChange, Committed, NextDirection, vars, folderVars, auxVars
  <2> QED
    BY <2>1, <2>2
<1>2. UNCHANGED <<Held, born, GivenUp>>
  BY <1>1, AllHeldSame DEF SameCopies, GivenUp
<1>3. InHand' = InHand \/ InHand' = {}
  <2>1. pc' # "add" \/ UNCHANGED <<pc, cur, src>>
    BY DEF StartSync, OpenFails, Fail, CloseFails, Crash, EndPass, ListFolder1, ListFolder2,
        ListFolder, Diff, CommitNew, CommitDelete, CommitChange, Committed,
        NextDirection, vars
  <2> QED
    BY <2>1 DEF InHand
<1>4. CASE InHand # {} /\ InHand' = {}
  BY <1>2, <1>4 DEF Mirror!Next, Mirror!Lose
<1> QED
  BY <1>2, <1>3, <1>4

(* The same promise for a Maildir that mirrors a server: no uid the Maildir*)
(* gives again and no file a client renames makes a message reach a store  *)
(* otherwise than from the other one, or leave it before it is given up.   *)
THEOREM MirrorIsTwoWaySync ==
    ASSUME IsMirror PROVE Spec => IsTwoWaySync
<1>1. MInv /\ [Next]_vars => [Mirror!Next]_<<Held, born, GivenUp, InHand>>
  <2> SUFFICES ASSUME MInv, [Next]_vars
               PROVE  Mirror!Next \/ UNCHANGED <<Held, born, GivenUp, InHand>>
    OBVIOUS
  <2>1. CASE User
    <3>1. ASSUME NEW s \in Stores, NEW m \in Msg, Deliver(s, m) PROVE Mirror!Next
      BY <2>1, <3>1, MirrorDeliverMirrored DEF Mirror!Next, Stores
    <3> QED
      BY <2>1, <3>1, RemoveMirrored, ToggleMirrored DEF User, MInv
  <2>2. CASE AddNew
    BY <2>2, MirrorAddMirrored
  <2>3. CASE DeleteMessages \/ ChangeMessages \/ UpdateSource \/ Close1 \/ Close2
    BY <2>3, PassLoses, LosesMirrored, MirrorNext
  <2>4. CASE ReadMessage
    BY <2>4, MirrorReadMirrored
  <2>5. CASE \/ StartSync \/ OpenFails \/ Fail \/ CloseFails \/ Crash \/ ListFolder1 \/ ListFolder2
             \/ Diff \/ CommitNew \/ CommitDelete \/ CommitChange
             \/ NextDirection \/ UNCHANGED vars
    BY <2>5, MirrorOtherMirrored
  <2> QED
    BY <2>1, <2>2, <2>3, <2>4, <2>5 DEF Next, SyncStep
<1> QED
  BY <1>1, InitMirrored, MirrorInvariance, PTL DEF Spec, IsTwoWaySync, Mirror!Spec, Mirror!vars
=============================================================================
