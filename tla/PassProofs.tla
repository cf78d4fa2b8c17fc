----------------------------- MODULE PassProofs -----------------------------
(***************************************************************************)
(* How a pass between two IMAP servers ends, when nothing disturbs it: the *)
(* stores agree, or a row has lost its message on both.                    *)
(***************************************************************************)
EXTENDS SyncFolderProofs, FiniteSetTheorems

(* What is planned for a row is planned for a row that is still there.     *)
PlanInv ==
    pc \in Syncing \ {"diff"} =>
        /\ todo.del \subseteq db
        /\ todo.chg \subseteq db
        /\ pc \in {"commitDel", "commitChg"} =>
              /\ \A r \in todo.del \cup todo.chg : r.uid[src] # cur.src
              /\ \A q \in db : q.uid[src] = cur.src => q.uid[dst] = cur.dst
        /\ pc = "commitDel" => list[src][cur.src] = Absent

(* A row whose message neither store holds any more.                       *)
Orphaned(r) == \A s \in Stores : box[s][r.uid[s]] = Absent

AbortedInv ==
    ~disturbed /\ outcome = "error" /\ config.deletemode # "flag" =>
        /\ pc \in ClosePCs \cup {"idle"}
        /\ \E r \in db : Orphaned(r)

(* The server keeps mapped flags only.                                     *)
MappedInv ==
    \A s \in Stores, u \in UID : box[s][u] # Absent => box[s][u].flags \subseteq Mapped

(* The first direction reads store 1, the second one store 2.              *)
DirectionInv ==
    /\ ~config.dryrun => src = iter
    /\ pc \in {"idle", "list1", "list2"} => iter = 1

(* The list of a store as nobody else changes the store: it shows what the *)
(* store holds, but for what the pass itself flagged Deleted.              *)
Faithful(s) ==
    \A u \in UID :
        /\ list[s][u] # Absent =>
              /\ box[s][u] # Absent
              /\ ~list[s][u].ignore
              /\ list[s][u].flags = box[s][u].flags
        /\ list[s][u] = Absent /\ box[s][u] # Absent => "T" \in box[s][u].flags

(* The row r joins two copies that both folders list.                      *)
Joined(r) == \A s \in Stores : list[s][r.uid[s]] # Absent

(* What is left to do in this direction is in todo or in hand.             *)
LeftInv ==
    /\ \A u \in UID : list[src][u] # Absent =>
          \/ u \in todo.new
          \/ RowsOf(src, u) # {}
          \/ pc \in Adding /\ u = cur.src
    /\ \A r \in db : list[src][r.uid[src]] = Absent =>
          \/ r \in todo.del
          \/ pc = "commitDel" /\ r.uid[src] = cur.src
    /\ \A r \in db : Joined(r) =>
          \/ r.flags = list[src][r.uid[src]].flags
          \/ r \in todo.chg
          \/ pc = "commitChg" /\ r.uid[src] = cur.src

(* The second direction keeps what the first one reached on its source.    *)
ReachedInv ==
    /\ \A u \in UID : list[dst][u] # Absent =>
          \/ RowsOf(dst, u) # {}
          \/ pc \in {"update", "commit"} /\ u = cur.dst
    /\ \A r \in db :
          \/ list[dst][r.uid[dst]] # Absent
          \/ pc = "commitDel" /\ r.uid[src] = cur.src
    /\ \A r \in db : Joined(r) =>
          \/ r.flags = list[dst][r.uid[dst]].flags
          \/ pc = "commitChg" /\ r.uid[src] = cur.src

(* The flags in hand are those of the source, and given to the other copy; *)
(* a copy to delete is flagged and off the list before its row goes.       *)
HandInv ==
    /\ pc \in Adding \cup {"commitChg"} =>
          list[src][cur.src] # Absent /\ cur.flags = list[src][cur.src].flags
    /\ pc \in {"update", "commit", "commitChg"} =>
          list[dst][cur.dst] # Absent /\ cur.flags = list[dst][cur.dst].flags
    /\ pc = "commitDel" => list[dst][cur.dst] = Absent

(* Every copy that is not Deleted has its row and its other copy, and all  *)
(* three have the same flags.                                              *)
Settled ==
    \A s \in Stores, u \in UID :
        box[s][u] # Absent /\ "T" \notin box[s][u].flags =>
            \E r \in db :
                /\ r.uid[s] = u
                /\ r.flags = box[s][u].flags
                /\ box[Other(s)][r.uid[Other(s)]] # Absent
                /\ box[Other(s)][r.uid[Other(s)]].flags = box[s][u].flags

CleanInv ==
    ~disturbed /\ config = FullSync =>
        /\ pc \in {"list2"} \cup Syncing => Faithful(1)
        /\ pc \in Syncing => Faithful(2)
        /\ pc \in Syncing \ {"diff"} => LeftInv /\ HandInv
        /\ pc \in Syncing /\ iter = 2 => ReachedInv
        /\ pc \in {"idle"} \cup ClosePCs /\ outcome = "ok" => Settled

PassInv ==
    /\ PlanInv
    /\ AbortedInv
    /\ MappedInv
    /\ DirectionInv
    /\ CleanInv
-----------------------------------------------------------------------------
USE KindAssumption, ExpungeAssumption, BlankAssumption, AbsentAssumption,
    MaxUIDAssumption, ConfigsAssumption, BoundsAssumption

LEMMA InitPass == Init => PassInv
BY DEF Init, FolderInit, NoMessages, PassInv, PlanInv, AbortedInv, MappedInv,
       DirectionInv, CleanInv, Syncing

(* A pass that goes on has not been given up.                              *)
LEMMA GoesOn ==
    ASSUME AbortedInv, pc \notin {"idle"} \cup ClosePCs,
           UNCHANGED <<disturbed, config>>, outcome' \in {outcome, "ok"}
    PROVE  AbortedInv'
BY DEF AbortedInv

LEMMA OneStore ==
    ASSUME IInv
    PROVE  /\ src \in Stores /\ dst \in Stores /\ src # dst /\ Stores = {src, dst}
           /\ Other(src) = dst /\ Other(dst) = src
           /\ src = 1 => dst = 2
           /\ src = 2 => dst = 1
           /\ \A r \in db, s \in Stores : r.uid[s] \in UID
BY OtherStore DEF IInv, TypeOK, Row, dst, Stores, Other
-----------------------------------------------------------------------------
(* What an operation of an IMAP folder does to the flags.                  *)
LEMMA StoredFlags ==
    ASSUME FolderTypeOK, NEW s \in Stores, NEW u \in UID,
           NEW fl \in SUBSET Letter, ServerStore(s, u, fl), box[s][u] # Absent
    PROVE  box'[s][u].flags = fl \cap Mapped
<1> DEFINE c == [box[s][u] EXCEPT !.flags = fl \cap Mapped]
<1>1. c.flags = fl \cap Mapped
  BY DEF FolderTypeOK, Copy
<1>2. box' = [box EXCEPT ![s][u] = c]
  BY DEF ServerStore, FolderTypeOK
<1> HIDE DEF c
<1> QED
  BY <1>1, <1>2 DEF FolderTypeOK

LEMMA StoreMapped ==
    ASSUME FolderTypeOK, MappedInv, NEW s \in Stores, NEW u \in UID,
           NEW fl \in SUBSET Letter, ServerStore(s, u, fl)
    PROVE  MappedInv'
<1>1. /\ BoxSameBut(s, u)
      /\ box[s][u] = Absent => box'[s][u] = Absent
  BY StoreEffect
<1>2. box[s][u] # Absent => box'[s][u].flags = fl \cap Mapped
  BY StoredFlags
<1> QED
  BY <1>1, <1>2 DEF MappedInv, BoxSameBut

(* SetFlags of a listed uid leaves its entry as it was, but for the flags. *)
LEMMA SetEntry ==
    ASSUME FolderTypeOK, NEW s \in Stores, NEW u \in UID,
           NEW fl \in SUBSET Letter, ImapSetFlags(s, u, fl)
    PROVE  list'[s][u].ignore = list[s][u].ignore
<1> DEFINE e == [list[s][u] EXCEPT !.flags = fl]
<1>1. list[s][u] \in Entry
  BY DEF FolderTypeOK, ImapSetFlags, HasUID
<1>2. e.ignore = list[s][u].ignore
  BY <1>1 DEF Entry
<1>3. list' = [list EXCEPT ![s][u] = e]
  BY DEF ImapSetFlags, FolderTypeOK
<1> HIDE DEF e
<1> QED
  BY <1>2, <1>3 DEF FolderTypeOK

(* A list made from mapped flags only shows the store as it is.            *)
LEMMA ListShowsBox ==
    ASSUME FolderTypeOK, MappedInv, NEW s \in Stores, ImapUpdateMessageList(s)
    PROVE  Faithful(s)'
<1> DEFINE e(u) == [file |-> u, flags |-> box[s][u].flags \cap Mapped,
                    ignore |-> FALSE, temporary |-> FALSE]
           l == [u \in UID |-> IF box[s][u] = Absent THEN Absent ELSE e(u)]
<1>1. list' = [list EXCEPT ![s] = l]
  BY DEF ImapUpdateMessageList
<1>2. list'[s] = l
  BY <1>1 DEF FolderTypeOK
<1>3. ASSUME NEW u \in UID, box[s][u] # Absent
      PROVE  /\ e(u) # Absent /\ ~e(u).ignore
             /\ e(u).flags = box[s][u].flags
  <2>1. box[s][u].flags \cap Mapped = box[s][u].flags
    BY <1>3 DEF MappedInv
  <2>2. box[s][u].flags \cap Mapped \in SUBSET Letter
    BY DEF Letter
  <2>3. e(u) \in Entry
    BY <2>2 DEF Entry
  <2> QED
    BY <2>1, <2>3
<1>4. \A u \in UID : list'[s][u] = IF box[s][u] = Absent THEN Absent ELSE e(u)
  BY <1>2
<1>5. box' = box
  BY DEF ImapUpdateMessageList
<1> HIDE DEF e, l
<1> QED
  BY <1>3, <1>4, <1>5 DEF Faithful
-----------------------------------------------------------------------------
(* What is not a step of the pass disturbs it, or starts it anew.          *)
LEMMA StartPass ==
    ASSUME IInv, PassInv, StartSync \/ OpenFails \/ Fail \/ CloseFails \/ Crash
    PROVE  PassInv'
<1>1. /\ UNCHANGED box
      /\ pc' \in {"idle", "list1"} \cup ClosePCs
      /\ \/ disturbed' = TRUE
         \/ outcome' = "running" /\ pc' = "list1"
      /\ config' = config
      /\ \/ src' = src /\ iter' = iter
            /\ (pc = "idle" \/ pc' \in ClosePCs)
         \/ src' = 1 /\ iter' = 1
  BY DEF StartSync, OpenFails, Fail, CloseFails, Crash, EndPass, folderVars, ClosePCs
<1>2. PlanInv' /\ AbortedInv' /\ CleanInv'
  BY <1>1 DEF PlanInv, AbortedInv, CleanInv, Syncing, ClosePCs
<1>3. MappedInv' /\ DirectionInv'
  BY <1>1 DEF PassInv, MappedInv, DirectionInv, ClosePCs
<1> QED
  BY <1>2, <1>3 DEF PassInv

LEMMA UserPass ==
    ASSUME AllImap, IInv, PassInv, User
    PROVE  PassInv'
<1>1. /\ UNCHANGED <<list, db, config, pc, iter, src, todo, cur>>
      /\ disturbed' = TRUE
  BY Dispatch DEF User, Deliver, Remove, Toggle, UserStep, UserDelete, UserFlags,
                  ImapDeliver, syncVars
<1>2. PlanInv' /\ AbortedInv' /\ DirectionInv' /\ CleanInv'
  BY <1>1 DEF PassInv, PlanInv, AbortedInv, DirectionInv, CleanInv, dst
<1>3. MappedInv'
  <2> USE DEF IInv, TypeOK
  <2>1. CASE \E s \in Stores, m \in Msg : Deliver(s, m)
    <3>1. PICK s \in Stores, m \in Msg, u \in UID : ServerAppend(s, m, {}, u)
      BY <2>1, Dispatch DEF Deliver, ImapDeliver
    <3> DEFINE c == [msg |-> m, uid |-> u, flags |-> {}]
    <3>2. box' = [box EXCEPT ![s][u] = c] /\ c.flags \subseteq Mapped
      BY <3>1 DEF ServerAppend
    <3> HIDE DEF c
    <3> QED
      BY <3>2 DEF PassInv, MappedInv, FolderTypeOK
  <2>2. CASE \E s \in Stores : \E h \in Handles(s) : Remove(s, h)
    BY <2>2 DEF Remove, UserDelete, PassInv, MappedInv, FolderTypeOK
  <2>3. CASE \E s \in Stores : \E h \in Handles(s), f \in UserFlag : Toggle(s, h, f)
    <3>1. PICK s \in Stores, h \in UID, f \in UserFlag :
             box[s][h] # Absent /\ Toggle(s, h, f)
      BY <2>3 DEF Handles
    <3>2. box[s][h] \in Copy /\ box[s][h].flags \subseteq Mapped /\ f \in Mapped
      BY <3>1, Dispatch DEF PassInv, MappedInv, FolderTypeOK, Toggle
    <3>3. PICK fl : fl \subseteq Mapped /\ box' = [box EXCEPT ![s][h].flags = fl]
      BY <3>1, <3>2, SMTT(30) DEF Toggle, UserFlags
    <3> DEFINE c == [box[s][h] EXCEPT !.flags = fl]
    <3>4. c.flags = fl
      BY <3>2 DEF Copy
    <3>5. box' = [box EXCEPT ![s][h] = c]
      BY <3>3 DEF FolderTypeOK
    <3> HIDE DEF c
    <3> QED
      BY <3>3, <3>4, <3>5 DEF PassInv, MappedInv, FolderTypeOK
  <2> QED
    BY <2>1, <2>2, <2>3 DEF User
<1> QED
  BY <1>2, <1>3 DEF PassInv
-----------------------------------------------------------------------------
(* The steps of a pass that read: the lists and the three queries.         *)
LEMMA ListPass ==
    ASSUME AllImap, IInv, PassInv, ListFolder1 \/ ListFolder2
    PROVE  PassInv'
<1>1. /\ UNCHANGED <<box, uidnext, db, config, iter, src, todo, cur, outcome, disturbed>>
      /\ \/ pc = "list1" /\ pc' = "list2" /\ ImapUpdateMessageList(1)
         \/ pc = "list2" /\ pc' = "diff" /\ ImapUpdateMessageList(2)
  BY Dispatch DEF ListFolder1, ListFolder2, ListFolder, UpdateMessageList,
                  ImapUpdateMessageList, Stores, auxVars
<1>2. /\ pc = "list1" => Faithful(1)'
      /\ pc = "list2" => Faithful(2)'
  BY <1>1, ListShowsBox DEF PassInv, IInv, TypeOK, Stores
<1>3. pc = "list2" => list'[1] = list[1]
  BY <1>1 DEF ImapUpdateMessageList, IInv, TypeOK, FolderTypeOK, Stores
<1>4. PlanInv' /\ DirectionInv' /\ MappedInv'
  BY <1>1 DEF PassInv, PlanInv, DirectionInv, MappedInv, Syncing
<1>5. AbortedInv'
  BY <1>1, GoesOn DEF PassInv, ClosePCs
<1>6. CleanInv'
  <2>1. CASE pc = "list1"
    BY <1>1, <1>2, <2>1 DEF CleanInv, Syncing, ClosePCs
  <2>2. CASE pc = "list2"
    <3>1. ASSUME ~disturbed, config = FullSync PROVE Faithful(1)'
      BY <1>1, <1>3, <2>2, <3>1 DEF PassInv, CleanInv, Faithful
    <3>2. iter' = 1
      BY <1>1, <2>2 DEF PassInv, DirectionInv
    <3> QED
      BY <1>1, <1>2, <2>2, <3>1, <3>2 DEF CleanInv, Syncing, ClosePCs
  <2> QED
    BY <1>1, <2>1, <2>2
<1> QED
  BY <1>4, <1>5, <1>6 DEF PassInv

LEMMA DiffPass ==
    ASSUME IInv, PassInv, Diff
    PROVE  PassInv'
<1>1. /\ UNCHANGED <<box, list, uidnext, db, config, src, cur, disturbed>>
      /\ pc = "diff" /\ pc' \in {"diff", "work", "close2"}
      /\ outcome' \in {outcome, "ok"}
      /\ ~config.dryrun => pc' = "work" /\ iter' = iter
  BY DEF Diff, folderVars, auxVars
<1>2. /\ todo'.del \subseteq db
      /\ todo'.chg \subseteq db
  BY DEF Diff, NothingToDo, DeletedMessages, ChangedMessages
<1>3. PlanInv' /\ MappedInv' /\ DirectionInv'
  BY <1>1, <1>2 DEF PassInv, PlanInv, MappedInv, DirectionInv, Syncing
<1>4. AbortedInv'
  BY <1>1, GoesOn DEF PassInv, ClosePCs
<1>5. ASSUME ~disturbed, config = FullSync
      PROVE  /\ Faithful(1)' /\ Faithful(2)' /\ LeftInv' /\ HandInv'
             /\ pc' = "work" /\ (iter' = 2 => ReachedInv')
  <2>1. Faithful(1) /\ Faithful(2) /\ (iter = 2 => ReachedInv)
    BY <1>1, <1>5 DEF PassInv, CleanInv, Syncing
  <2>2. /\ ~config.dryrun /\ config.deletemode = "expunge"
        /\ pc' = "work" /\ iter' = iter
    BY <1>1, <1>5 DEF FullSync
  <2>3. \A u \in UID : list[src][u] # Absent => ~list[src][u].ignore
    BY <2>1, OneStore DEF Faithful, Stores
  <2>4. /\ todo'.new = NewMessages(src)
        /\ todo'.del = DeletedMessages(src)
        /\ todo'.chg = ChangedMessages(src)
    BY <2>2 DEF Diff
  <2>5. LeftInv'
    <3>1. \A u \in UID : list[src][u] # Absent => u \in todo'.new \/ RowsOf(src, u) # {}
      BY <2>3, <2>4 DEF NewMessages, Listed, IsIgnored, HasUID
    <3>2. \A r \in db : list[src][r.uid[src]] = Absent => r \in todo'.del
      BY <2>4 DEF DeletedMessages, HasUID
    <3>3. \A r \in db : Joined(r) =>
             r.flags = list[src][r.uid[src]].flags \/ r \in todo'.chg
      BY <2>3, <2>4, OneStore DEF ChangedMessages, HasUID, IsIgnored, Joined
    <3> QED
      BY <1>1, <3>1, <3>2, <3>3 DEF LeftInv, RowsOf, Joined
  <2>6. Faithful(1)' /\ Faithful(2)'
    BY <1>1, <2>1 DEF Faithful
  <2>7. iter' = 2 => ReachedInv'
    BY <1>1, <2>1, <2>2 DEF ReachedInv, RowsOf, Joined, dst
  <2> QED
    BY <2>2, <2>5, <2>6, <2>7 DEF HandInv, Adding
<1>6. CleanInv'
  BY <1>1, <1>5 DEF CleanInv, ClosePCs
<1> QED
  BY <1>3, <1>4, <1>6 DEF PassInv

(* The end of the loop: what is left of the two directions is nothing.     *)
LEMMA LoopSettles ==
    ASSUME IInv, pc = "work", todo = NothingToDo, Faithful(1), Faithful(2),
           LeftInv, ReachedInv
    PROVE  Settled
<1>1. \A s \in Stores : Faithful(s)
  BY DEF Stores
<1>2. /\ \A u \in UID : list[src][u] # Absent => RowsOf(src, u) # {}
      /\ \A r \in db : list[src][r.uid[src]] # Absent
      /\ \A r \in db : Joined(r) => r.flags = list[src][r.uid[src]].flags
  BY DEF LeftInv, NothingToDo, Adding
<1>3. /\ \A u \in UID : list[dst][u] # Absent => RowsOf(dst, u) # {}
      /\ \A r \in db : list[dst][r.uid[dst]] # Absent
      /\ \A r \in db : Joined(r) => r.flags = list[dst][r.uid[dst]].flags
  BY DEF ReachedInv
<1> SUFFICES ASSUME NEW s \in Stores, NEW u \in UID,
                    box[s][u] # Absent, "T" \notin box[s][u].flags
             PROVE  \E r \in db :
                       /\ r.uid[s] = u
                       /\ r.flags = box[s][u].flags
                       /\ box[Other(s)][r.uid[Other(s)]] # Absent
                       /\ box[Other(s)][r.uid[Other(s)]].flags = box[s][u].flags
  BY DEF Settled
<1>4. list[s][u] # Absent /\ list[s][u].flags = box[s][u].flags
  BY <1>1 DEF Faithful
<1>5. PICK r \in db : r.uid[s] = u
  BY <1>2, <1>3, <1>4, OneStore DEF RowsOf
<1>6. \A t \in Stores : list[t][r.uid[t]] # Absent /\ r.uid[t] \in UID
  BY <1>2, <1>3, OneStore
<1>7. \A t \in Stores : r.flags = list[t][r.uid[t]].flags
  BY <1>2, <1>3, <1>6, OneStore DEF Joined
<1>8. \A t \in Stores : box[t][r.uid[t]] # Absent /\ box[t][r.uid[t]].flags = r.flags
  BY <1>1, <1>6, <1>7 DEF Faithful
<1> QED
  BY <1>5, <1>8, OtherStore

LEMMA NextDirectionPass ==
    ASSUME IInv, PassInv, NextDirection
    PROVE  PassInv'
<1>1. /\ UNCHANGED <<box, list, uidnext, db, config, todo, cur, disturbed>>
      /\ pc = "work" /\ todo = NothingToDo
      /\ \/ iter = 1 /\ pc' = "diff" /\ iter' = 2 /\ src' = 2 /\ outcome' = outcome
         \/ iter # 1 /\ pc' = "close2" /\ outcome' = "ok" /\ UNCHANGED <<iter, src>>
  BY DEF NextDirection, folderVars, auxVars
<1>2. PlanInv' /\ MappedInv' /\ DirectionInv'
  BY <1>1 DEF PassInv, PlanInv, MappedInv, DirectionInv, Syncing
<1>3. AbortedInv'
  BY <1>1, GoesOn DEF PassInv, ClosePCs
<1>4. ASSUME ~disturbed, config = FullSync
      PROVE  /\ Faithful(1)' /\ Faithful(2)'
             /\ pc' = "diff" => ReachedInv'
             /\ pc' = "close2" => Settled'
  <2>1. Faithful(1) /\ Faithful(2) /\ LeftInv /\ (iter = 2 => ReachedInv)
    BY <1>1, <1>4 DEF PassInv, CleanInv, Syncing
  <2>2. src = iter
    BY <1>4 DEF PassInv, DirectionInv, FullSync
  <2>3. Faithful(1)' /\ Faithful(2)'
    BY <1>1, <2>1 DEF Faithful
  <2>4. CASE pc' = "diff"
    <3>1. dst' = src /\ src' = dst
      BY <1>1, <2>2, <2>4, OneStore DEF dst, Other
    <3>2. /\ \A u \in UID : list[src][u] # Absent => RowsOf(src, u) # {}
          /\ \A r \in db : list[src][r.uid[src]] # Absent
          /\ \A r \in db : Joined(r) => r.flags = list[src][r.uid[src]].flags
      BY <1>1, <2>1 DEF LeftInv, NothingToDo, Adding
    <3>3. ReachedInv'
      BY <1>1, <3>1, <3>2 DEF ReachedInv, RowsOf, Joined
    <3> QED
      BY <2>3, <2>4, <3>3
  <2>5. CASE pc' = "close2"
    <3>1. iter = 2
      BY <1>1, <2>5 DEF IInv, TypeOK
    <3>2. Settled
      BY <1>1, <2>1, <3>1, LoopSettles
    <3> QED
      BY <1>1, <2>3, <2>5, <3>2 DEF Settled
  <2> QED
    BY <1>1, <2>3, <2>4, <2>5
<1>5. CleanInv'
  BY <1>1, <1>4 DEF CleanInv, ClosePCs, Syncing
<1> QED
  BY <1>2, <1>3, <1>5 DEF PassInv
-----------------------------------------------------------------------------
(* A new message: read, appended, renamed, and its row committed.          *)
LEMMA ReadPass ==
    ASSUME AllImap, IInv, PassInv, ReadMessage
    PROVE  PassInv'
<1> PICK u \in UID : ReadNew(u)
  BY DEF ReadMessage
<1>1. /\ pc = "work" /\ pc' = "add" /\ u \in todo.new
      /\ cur' = [src |-> u, dst |-> 0, msg |-> Body(src, u),
                 flags |-> list[src][u].flags]
      /\ todo' = [todo EXCEPT !.new = @ \ {u}]
      /\ UNCHANGED <<box, list, uidnext, db, config, iter, src, outcome, disturbed>>
  BY Dispatch, OneStore DEF ReadNew, folderVars, auxVars
<1>2. /\ todo'.new = todo.new \ {u} /\ todo'.del = todo.del
      /\ todo'.chg = todo.chg
      /\ cur'.src = u /\ cur'.flags = list[src][u].flags
  BY <1>1 DEF IInv, TypeOK
<1>3. list[src][u] # Absent
  BY <1>1 DEF IInv, TodoInv, Syncing
<1>4. PlanInv' /\ MappedInv' /\ DirectionInv'
  BY <1>1, <1>2 DEF PassInv, PlanInv, MappedInv, DirectionInv, Syncing
<1>5. AbortedInv'
  BY <1>1, GoesOn DEF PassInv, ClosePCs
<1>6. ASSUME ~disturbed, config = FullSync
      PROVE  /\ Faithful(1)' /\ Faithful(2)' /\ LeftInv' /\ HandInv'
             /\ iter' = 2 => ReachedInv'
  <2>1. Faithful(1) /\ Faithful(2) /\ LeftInv /\ (iter = 2 => ReachedInv)
    BY <1>1, <1>6 DEF PassInv, CleanInv, Syncing
  <2>2. Faithful(1)' /\ Faithful(2)'
    BY <1>1, <2>1 DEF Faithful
  <2>3. LeftInv'
    BY <1>1, <1>2, <2>1 DEF LeftInv, RowsOf, Joined, Adding
  <2>4. HandInv'
    BY <1>1, <1>2, <1>3 DEF HandInv, Adding
  <2>5. iter' = 2 => ReachedInv'
    BY <1>1, <2>1 DEF ReachedInv, RowsOf, Joined, dst
  <2> QED
    BY <2>2, <2>3, <2>4, <2>5
<1>7. CleanInv'
  BY <1>1, <1>6 DEF CleanInv, ClosePCs
<1> QED
  BY <1>4, <1>5, <1>7 DEF PassInv

LEMMA AddPass ==
    ASSUME AllImap, IInv, PassInv, AddNew
    PROVE  PassInv'
<1>1. PICK v \in UID : /\ ImapAddMessage(dst, cur.msg, cur.flags, v)
                       /\ cur' = [cur EXCEPT !.dst = v]
  BY Dispatch, OneStore DEF AddNew, AddMessage
<1>2. /\ pc = "add" /\ pc' = "update"
      /\ UNCHANGED <<db, config, iter, src, todo, outcome, disturbed>>
  BY DEF AddNew, auxVars
<1>3. /\ FolderTypeOK
      /\ cur.msg \in Msg \cup {Blank} /\ cur.flags \in SUBSET Letter
      /\ cur.flags \cap Mapped \in SUBSET Letter
  BY DEF IInv, TypeOK
<1>4. /\ v = uidnext[dst] /\ box'[dst][v] # Absent
      /\ box'[dst][v] = [msg |-> cur.msg, uid |-> v, flags |-> cur.flags \cap Mapped]
      /\ BoxSameBut(dst, v)
  <2> DEFINE g == cur.flags \cap Mapped
  <2>1. ServerAppend(dst, cur.msg, g, v) /\ g \in SUBSET Letter
    BY <1>1, <1>3 DEF ImapAddMessage
  <2> HIDE DEF g
  <2>2. /\ v = uidnext[dst] /\ box'[dst][v] # Absent
        /\ box'[dst][v] = [msg |-> cur.msg, uid |-> v, flags |-> g]
        /\ BoxSameBut(dst, v)
    BY <1>3, <2>1, OneStore, AppendEffect
  <2> QED
    BY <2>2 DEF g
<1>5. box'[dst][v].flags = cur.flags \cap Mapped
  BY <1>4
<1>6. /\ list'[dst][v] # Absent /\ list'[dst][v].flags = cur.flags
      /\ ListSameBut(dst, v)
  BY <1>1, <1>3, OneStore, AddEffect
<1>7. ~list'[dst][v].ignore
  <2> DEFINE e == [file |-> v, flags |-> cur.flags, ignore |-> FALSE,
                   temporary |-> FALSE]
  <2>1. list' = [list EXCEPT ![dst][v] = e] /\ ~e.ignore
    BY <1>1 DEF ImapAddMessage
  <2> HIDE DEF e
  <2> QED
    BY <1>3, <2>1, OneStore DEF FolderTypeOK
<1>8. cur'.src = cur.src /\ cur'.dst = v /\ cur'.flags = cur.flags
  BY <1>1 DEF IInv, TypeOK
(* No row speaks of the new uid, and the rest of both lists is as before.  *)
<1>9. /\ \A u \in UID : list'[src][u] = list[src][u]
      /\ \A r \in db, s \in Stores : list'[s][r.uid[s]] = list[s][r.uid[s]]
  <2>1. \A r \in db : r.uid[dst] # v
    <3>1. uidnext[dst] \in Nat
      BY <1>3, OneStore DEF FolderTypeOK
    <3> QED
      BY <1>4, <3>1, OneStore DEF IInv, RowInv, UID
  <2> QED
    BY <1>6, <2>1, OneStore DEF ListSameBut
<1>10. PlanInv' /\ DirectionInv'
  BY <1>2 DEF PassInv, PlanInv, DirectionInv, Syncing
<1>11. MappedInv'
  BY <1>4, <1>5 DEF PassInv, MappedInv, BoxSameBut
<1>12. AbortedInv'
  BY <1>2, GoesOn DEF PassInv, ClosePCs
<1>13. ASSUME ~disturbed, config = FullSync
       PROVE  /\ Faithful(1)' /\ Faithful(2)' /\ LeftInv' /\ HandInv'
              /\ iter' = 2 => ReachedInv'
  <2>1. /\ Faithful(1) /\ Faithful(2) /\ LeftInv /\ HandInv
        /\ iter = 2 => ReachedInv
    BY <1>2, <1>13 DEF PassInv, CleanInv, Syncing
  <2>2. list[src][cur.src] # Absent /\ cur.flags = list[src][cur.src].flags
    BY <1>2, <2>1 DEF HandInv, Adding
  <2>3. cur.flags \subseteq Mapped
    <3>1. Faithful(src) /\ cur.src \in UID
      BY <2>1, OneStore DEF Stores, IInv, TypeOK
    <3> QED
      BY <2>2, <3>1, OneStore DEF Faithful, PassInv, MappedInv
  <2>4. box'[dst][v].flags = list'[dst][v].flags
    BY <1>5, <1>6, <2>3
  <2>5. \A s \in Stores : Faithful(s)'
    <3> SUFFICES ASSUME NEW s \in Stores, NEW u \in UID
                 PROVE  /\ list'[s][u] # Absent =>
                              /\ box'[s][u] # Absent
                              /\ ~list'[s][u].ignore
                              /\ list'[s][u].flags = box'[s][u].flags
                        /\ list'[s][u] = Absent /\ box'[s][u] # Absent
                              => "T" \in box'[s][u].flags
      BY DEF Faithful
    <3>1. CASE s = dst /\ u = v
      BY <1>4, <1>6, <1>7, <2>4, <3>1
    <3>2. CASE s # dst \/ u # v
      <4>1. Faithful(s) /\ list'[s][u] = list[s][u] /\ box'[s][u] = box[s][u]
        BY <1>4, <1>6, <2>1, <3>2 DEF BoxSameBut, ListSameBut, Stores
      <4> QED
        BY <4>1 DEF Faithful
    <3> QED
      BY <3>1, <3>2
  <2>6. \A r \in db : Joined(r)' <=> Joined(r)
    BY <1>9 DEF Joined
  <2>7. LeftInv'
    BY <1>2, <1>8, <1>9, <2>1, <2>6, OneStore DEF LeftInv, RowsOf, Adding
  <2>8. HandInv'
    <3>1. cur.src \in UID
      BY DEF IInv, TypeOK
    <3>2. dst' = dst
      BY <1>2 DEF dst
    <3> QED
      BY <1>2, <1>6, <1>8, <1>9, <2>2, <3>1, <3>2 DEF HandInv, Adding
  <2>9. iter' = 2 => ReachedInv'
    <3>1. ASSUME iter' = 2, NEW u \in UID, list'[dst][u] # Absent, u # v
          PROVE  RowsOf(dst, u) # {}
      BY <1>2, <1>6, <2>1, <3>1, OneStore DEF ReachedInv, ListSameBut
    <3>2. ASSUME iter' = 2, NEW r \in db
          PROVE  /\ list'[dst][r.uid[dst]] # Absent
                 /\ Joined(r)' => r.flags = list'[dst][r.uid[dst]].flags
      BY <1>2, <1>9, <2>1, <2>6, <3>2, OneStore DEF ReachedInv
    <3>3. dst' = dst
      BY <1>2 DEF dst
    <3> QED
      BY <1>2, <1>8, <3>1, <3>2, <3>3 DEF ReachedInv, RowsOf
  <2> QED
    BY <2>5, <2>7, <2>8, <2>9 DEF Stores
<1>14. CleanInv'
  BY <1>2, <1>13 DEF CleanInv, ClosePCs
<1> QED
  BY <1>10, <1>11, <1>12, <1>14 DEF PassInv

LEMMA UpdatePass ==
    ASSUME AllImap, IInv, PassInv, UpdateSource
    PROVE  PassInv'
<1>1. /\ pc = "update" /\ pc' = "commit" /\ cur' = cur
      /\ UNCHANGED <<box, list, uidnext, db, config, iter, src, todo, outcome, disturbed>>
  BY Dispatch, OneStore DEF UpdateSource, UpdateMessage, IInv, TypeOK, folderVars, auxVars
<1>2. PlanInv' /\ MappedInv' /\ DirectionInv'
  BY <1>1 DEF PassInv, PlanInv, MappedInv, DirectionInv, Syncing
<1>3. AbortedInv'
  BY <1>1, GoesOn DEF PassInv, ClosePCs
<1>4. CleanInv'
  BY <1>1 DEF PassInv, CleanInv, Faithful, LeftInv, HandInv, ReachedInv, RowsOf, Joined,
              dst, Syncing, Adding, ClosePCs
<1> QED
  BY <1>2, <1>3, <1>4 DEF PassInv

LEMMA CommitNewPass ==
    ASSUME AllImap, IInv, PassInv, CommitNew
    PROVE  PassInv'
<1> DEFINE n == [uid |-> Pair(src, cur.src, cur.dst), flags |-> cur.flags]
<1>1. /\ pc = "commit" /\ pc' = "work"
      /\ UNCHANGED <<box, list, uidnext, config, iter, src, todo, outcome, disturbed>>
      /\ db' = {r \in db : r.uid # n.uid} \cup {n}
  BY CommittedFacts DEF CommitNew, RowUpdated, IInv
<1>2. n.uid[src] = cur.src /\ n.uid[dst] = cur.dst /\ n.flags = cur.flags
  BY PairFacts, OneStore DEF IInv, TypeOK
<1>3. RowsOf(src, cur.src) = {}
  BY <1>1 DEF IInv, CurInv, Adding, Holds
<1> HIDE DEF n
<1>4. db' = db \cup {n}
  BY <1>1, <1>2, <1>3 DEF RowsOf
<1>5. PlanInv' /\ MappedInv' /\ DirectionInv'
  BY <1>1, <1>4 DEF PassInv, PlanInv, MappedInv, DirectionInv, Syncing
<1>6. AbortedInv'
  BY <1>1, GoesOn DEF PassInv, ClosePCs
<1>7. ASSUME ~disturbed, config = FullSync
      PROVE  /\ Faithful(1)' /\ Faithful(2)' /\ LeftInv' /\ HandInv'
             /\ iter' = 2 => ReachedInv'
  <2>1. /\ Faithful(1) /\ Faithful(2) /\ LeftInv /\ HandInv
        /\ iter = 2 => ReachedInv
    BY <1>1, <1>7 DEF PassInv, CleanInv, Syncing
  <2>2. /\ list[src][cur.src] # Absent /\ cur.flags = list[src][cur.src].flags
        /\ list[dst][cur.dst] # Absent /\ cur.flags = list[dst][cur.dst].flags
    BY <1>1, <2>1 DEF HandInv, Adding
  <2>3. Faithful(1)' /\ Faithful(2)' /\ HandInv'
    BY <1>1, <2>1 DEF Faithful, HandInv, Adding
  <2>4. LeftInv'
    BY <1>1, <1>2, <1>4, <2>1, <2>2 DEF LeftInv, RowsOf, Joined, Adding
  <2>5. iter' = 2 => ReachedInv'
    BY <1>1, <1>2, <1>4, <2>1, <2>2 DEF ReachedInv, RowsOf, Joined, dst
  <2> QED
    BY <2>3, <2>4, <2>5
<1>8. CleanInv'
  BY <1>1, <1>7 DEF CleanInv, ClosePCs
<1> QED
  BY <1>5, <1>6, <1>8 DEF PassInv
-----------------------------------------------------------------------------
(* A pass is given up for an orphaned row, or because of deletemode flag.  *)
LEMMA AbortPass ==
    ASSUME PassInv, Abort, UNCHANGED folderVars,
           config.deletemode = "flag" \/ \E r \in db : Orphaned(r)
    PROVE  PassInv'
<1>1. /\ UNCHANGED <<box, list, db, config, iter, src, disturbed>>
      /\ pc' = "close2" /\ outcome' = "error"
  BY DEF Abort, folderVars, auxVars
<1>2. AbortedInv'
  BY <1>1 DEF AbortedInv, ClosePCs, Orphaned
<1> QED
  BY <1>1, <1>2 DEF PassInv, PlanInv, MappedInv, DirectionInv, CleanInv, Syncing

(* The row a deletion or a change was planned for is the only one with its *)
(* source uid, so GetDststoreUID answers the uid the row has.              *)
LEMMA PlannedRow ==
    ASSUME IInv, PassInv, pc = "work", NEW r \in todo.del \cup todo.chg,
           NEW v \in DststoreUID(src, r.uid[src])
    PROVE  /\ r \in db /\ v = r.uid[dst]
           /\ \A q \in db, s \in Stores : q.uid[s] = r.uid[s] => q = r
<1>1. r \in db
  BY DEF PassInv, PlanInv, Syncing
<1>2. \A q \in db, s \in Stores : q.uid[s] = r.uid[s] => q = r
  BY <1>1 DEF IInv, RowInv, RowsOneToOne
<1>3. RowsOf(src, r.uid[src]) = {r}
  BY <1>1, <1>2, OneStore DEF RowsOf
<1> QED
  BY <1>1, <1>2, <1>3, OneStore DEF DststoreUID

LEMMA DeletePass ==
    ASSUME AllImap, IInv, PassInv, DeleteMessages
    PROVE  PassInv'
<1> PICK r \in todo.del, v \in UID : DeleteRow(r, v)
  BY DEF DeleteMessages
<1> DEFINE u == r.uid[src]
<1>1. pc = "work" /\ v \in DststoreUID(src, u)
  BY DEF DeleteRow
<1>2. /\ r \in db /\ v = r.uid[dst]
      /\ \A q \in db, s \in Stores : q.uid[s] = r.uid[s] => q = r
  BY <1>1, PlannedRow
<1>3. /\ list[src][u] = Absent /\ u \in UID
      /\ \A q \in todo.chg : list[src][q.uid[src]] # Absent
  BY <1>1, <1>2, OneStore DEF IInv, TodoInv, Syncing
<1>4. CASE Abort /\ UNCHANGED folderVars /\ (~HasUID(dst, v) \/ config.deletemode = "flag")
  <2>1. ~HasUID(dst, v) => Orphaned(r)
    BY <1>1, <1>2, <1>3, OneStore DEF HasUID, IInv, CoverInv, Syncing, Orphaned, Stores
  <2> QED
    BY <1>2, <1>4, <2>1, AbortPass
<1>5. CASE ~(Abort /\ UNCHANGED folderVars)
  <2>1. /\ DeleteDst(r, v) /\ pc' = "commitDel"
        /\ cur' = [NoCur EXCEPT !.src = u, !.dst = v]
        /\ todo' = [todo EXCEPT !.del = @ \ {r}]
        /\ UNCHANGED <<config, iter, src, outcome, db, disturbed>>
    BY <1>5 DEF DeleteRow, auxVars
  <2>2. /\ cur'.src = u /\ cur'.dst = v
        /\ todo'.new = todo.new /\ todo'.chg = todo.chg
        /\ todo'.del = todo.del \ {r}
    BY <2>1 DEF NoCur, IInv, TypeOK
  <2>3. list[dst][v] # Absent
    BY <2>1 DEF DeleteDst, HasUID
  <2>4. \/ ImapDeleteMessage(dst, v)
        \/ /\ config.deletemode = "trash"
           /\ \/ ImapSetFlags(dst, v, list[dst][v].flags \cup Newflags)
              \/ UNCHANGED folderVars
    BY <2>1, <2>3, Dispatch, OneStore DEF DeleteDst, DeleteMessage, SetFlags
  <2>5. FolderTypeOK
    BY DEF IInv, TypeOK
  <2>6. ListSameBut(dst, v) /\ MappedInv'
    <3>1. CASE ImapDeleteMessage(dst, v)
      <4>1. {"T"} \in SUBSET Letter
        BY DEF Letter, Mapped
      <4>2. ListSameBut(dst, v)
        BY <2>5, <3>1, OneStore, DeleteEffect
      <4>3. MappedInv'
        BY <2>5, <3>1, <4>1, OneStore, StoreMapped DEF ImapDeleteMessage, PassInv
      <4> QED
        BY <4>2, <4>3
    <3>2. CASE ImapSetFlags(dst, v, list[dst][v].flags \cup Newflags)
      <4> DEFINE g == list[dst][v].flags \cup Newflags
      <4>1. g \in SUBSET Letter
        BY <2>3, <2>5, OneStore DEF FolderTypeOK, Entry, Letter
      <4>2. ImapSetFlags(dst, v, g)
        BY <3>2
      <4> HIDE DEF g
      <4>3. ListSameBut(dst, v)
        BY <2>5, <4>1, <4>2, OneStore, SetFlagsEffect
      <4>4. MappedInv'
        BY <2>5, <4>1, <4>2, OneStore, StoreMapped DEF ImapSetFlags, PassInv
      <4> QED
        BY <4>3, <4>4
    <3>3. CASE UNCHANGED folderVars
      BY <3>3 DEF folderVars, ListSameBut, MappedInv, PassInv
    <3> QED
      BY <2>4, <3>1, <3>2, <3>3
  <2>7. \A h \in UID : list'[src][h] = list[src][h]
    BY <2>6, OneStore DEF ListSameBut
  <2>8. PlanInv'
    <3>1. todo.del \subseteq db /\ todo.chg \subseteq db
      BY <1>1 DEF PassInv, PlanInv, Syncing
    <3>2. \A q \in todo'.del \cup todo'.chg : q.uid[src] # u
      BY <1>2, <1>3, <2>2, <3>1, OneStore
    <3>3. \A q \in db : q.uid[src] = u => q.uid[dst] = v
      BY <1>2, OneStore
    <3>4. dst' = dst
      BY <2>1 DEF dst
    <3> QED
      BY <1>3, <2>1, <2>2, <2>7, <3>1, <3>2, <3>3, <3>4 DEF PlanInv
  <2>9. DirectionInv' /\ AbortedInv'
    BY <1>1, <2>1, GoesOn DEF PassInv, DirectionInv, ClosePCs
  <2>10. ASSUME ~disturbed, config = FullSync
         PROVE  /\ Faithful(1)' /\ Faithful(2)' /\ LeftInv' /\ HandInv'
                /\ iter' = 2 => ReachedInv'
    <3>1. /\ Faithful(1) /\ Faithful(2) /\ LeftInv
          /\ iter = 2 => ReachedInv
      BY <1>1, <2>10 DEF PassInv, CleanInv, Syncing
    <3>2. ImapDeleteMessage(dst, v)
      BY <2>4, <2>10 DEF FullSync
    <3>3. list'[dst][v] = Absent
      BY <2>5, <3>2, OneStore, DeleteEffect
    <3>4. /\ BoxSameBut(dst, v)
          /\ box'[dst][v] # Absent => "T" \in box'[dst][v].flags
      <4>1. {"T"} \in SUBSET Letter /\ "T" \in Mapped /\ ServerStore(dst, v, {"T"})
        BY <3>2 DEF Letter, Mapped, ImapDeleteMessage
      <4> QED
        BY <2>5, <4>1, OneStore, StoreEffect, StoredFlags, SMTT(30)
    <3>5. \A s \in Stores : Faithful(s)'
      <4> SUFFICES ASSUME NEW s \in Stores, NEW h \in UID
                   PROVE  /\ list'[s][h] # Absent =>
                                /\ box'[s][h] # Absent
                                /\ ~list'[s][h].ignore
                                /\ list'[s][h].flags = box'[s][h].flags
                          /\ list'[s][h] = Absent /\ box'[s][h] # Absent
                                => "T" \in box'[s][h].flags
        BY DEF Faithful
      <4>1. CASE s = dst /\ h = v
        BY <3>3, <3>4, <4>1
      <4>2. CASE s # dst \/ h # v
        <5>1. Faithful(s) /\ list'[s][h] = list[s][h] /\ box'[s][h] = box[s][h]
          BY <2>6, <3>1, <3>4, <4>2 DEF BoxSameBut, ListSameBut, Stores
        <5> QED
          BY <5>1 DEF Faithful
      <4> QED
        BY <4>1, <4>2
    <3>6. ASSUME NEW q \in db, Joined(q)'
          PROVE  Joined(q) /\ \A s \in Stores : list'[s][q.uid[s]] = list[s][q.uid[s]]
      <4> SUFFICES ASSUME NEW s \in Stores PROVE list'[s][q.uid[s]] = list[s][q.uid[s]]
        BY <3>6 DEF Joined
      <4> QED
        BY <2>6, <3>3, <3>6, OneStore DEF ListSameBut, Joined
    <3>7. LeftInv'
      <4>1. \A h \in UID : list'[src][h] # Absent => h \in todo'.new \/ RowsOf(src, h) # {}
        BY <1>1, <2>2, <2>7, <3>1 DEF LeftInv, Adding
      <4>2. \A q \in db : list'[src][q.uid[src]] = Absent =>
                 q \in todo'.del \/ q.uid[src] = cur'.src
        BY <1>1, <2>2, <2>7, <3>1, OneStore DEF LeftInv
      <4>3. \A q \in db : Joined(q)' =>
                 q.flags = list'[src][q.uid[src]].flags \/ q \in todo'.chg
        BY <1>1, <2>2, <3>1, <3>6, OneStore DEF LeftInv
      <4> QED
        BY <2>1, <4>1, <4>2, <4>3 DEF LeftInv, RowsOf
    <3>8. iter' = 2 => ReachedInv'
      <4> SUFFICES ASSUME iter' = 2 PROVE ReachedInv'
        OBVIOUS
      <4>1. ReachedInv
        BY <2>1, <3>1
      <4>2. \A h \in UID : list'[dst][h] # Absent => RowsOf(dst, h) # {}
        BY <1>1, <2>6, <3>3, <4>1, OneStore DEF ReachedInv, ListSameBut
      <4>3. \A q \in db : list'[dst][q.uid[dst]] # Absent \/ q.uid[src] = cur'.src
        BY <1>1, <1>2, <2>2, <2>6, <4>1, OneStore DEF ReachedInv, ListSameBut
      <4>4. \A q \in db : Joined(q)' => q.flags = list'[dst][q.uid[dst]].flags
        BY <1>1, <3>6, <4>1, OneStore DEF ReachedInv
      <4>5. dst' = dst
        BY <2>1 DEF dst
      <4> QED
        BY <2>1, <4>2, <4>3, <4>4, <4>5 DEF ReachedInv, RowsOf
    <3>9. HandInv'
      BY <2>1, <2>2, <3>3 DEF HandInv, Adding, dst
    <3> QED
      BY <3>5, <3>7, <3>8, <3>9 DEF Stores
  <2>11. CleanInv'
    BY <2>1, <2>10 DEF CleanInv, ClosePCs
  <2> QED
    BY <2>6, <2>8, <2>9, <2>11 DEF PassInv
<1>6. Abort /\ UNCHANGED folderVars => ~HasUID(dst, v) \/ config.deletemode = "flag"
  BY DEF DeleteRow, Abort
<1> QED
  BY <1>4, <1>5, <1>6

LEMMA CommitDeletePass ==
    ASSUME IInv, PassInv, CommitDelete
    PROVE  PassInv'
<1>1. /\ pc = "commitDel" /\ pc' = "work"
      /\ UNCHANGED <<box, list, uidnext, config, iter, src, todo, outcome, disturbed>>
      /\ db' = {r \in db : r.uid[src] # cur.src}
  BY CommittedFacts DEF CommitDelete, RowDeleted, RowsOf, IInv
<1>2. /\ todo.del \subseteq db /\ todo.chg \subseteq db
      /\ \A r \in todo.del \cup todo.chg : r.uid[src] # cur.src
      /\ list[src][cur.src] = Absent
      /\ \A q \in db : q.uid[src] = cur.src => q.uid[dst] = cur.dst
  BY <1>1 DEF PassInv, PlanInv, Syncing
<1>3. PlanInv' /\ MappedInv' /\ DirectionInv'
  BY <1>1, <1>2 DEF PassInv, PlanInv, MappedInv, DirectionInv, Syncing
<1>4. AbortedInv'
  BY <1>1, GoesOn DEF PassInv, ClosePCs
<1>5. ASSUME ~disturbed, config = FullSync
      PROVE  /\ Faithful(1)' /\ Faithful(2)' /\ LeftInv' /\ HandInv'
             /\ iter' = 2 => ReachedInv'
  <2>1. /\ Faithful(1) /\ Faithful(2) /\ LeftInv /\ HandInv
        /\ iter = 2 => ReachedInv
    BY <1>1, <1>5 DEF PassInv, CleanInv, Syncing
  <2>2. Faithful(1)' /\ Faithful(2)' /\ HandInv'
    BY <1>1, <2>1 DEF Faithful, HandInv, Adding
  <2>3. LeftInv'
    BY <1>1, <1>2, <2>1 DEF LeftInv, RowsOf, Joined, Adding
  <2>4. list[dst][cur.dst] = Absent
    BY <1>1, <2>1 DEF HandInv
  <2>5. iter' = 2 => ReachedInv'
    BY <1>1, <1>2, <2>1, <2>4 DEF ReachedInv, RowsOf, Joined, dst
  <2> QED
    BY <2>2, <2>3, <2>5
<1>6. CleanInv'
  BY <1>1, <1>5 DEF CleanInv, ClosePCs
<1> QED
  BY <1>3, <1>4, <1>6 DEF PassInv

LEMMA ChangePass ==
    ASSUME AllImap, IInv, PassInv, ChangeMessages
    PROVE  PassInv'
<1> PICK r \in todo.chg, v \in UID : ChangeRow(r, v)
  BY DEF ChangeMessages
<1> DEFINE u == r.uid[src]
           fl == list[src][u].flags
<1>1. pc = "work" /\ v \in DststoreUID(src, u) /\ todo.new = {} /\ todo.del = {}
  BY DEF ChangeRow
<1>2. /\ r \in db /\ v = r.uid[dst] /\ u \in UID
      /\ \A q \in db, s \in Stores : q.uid[s] = r.uid[s] => q = r
  BY <1>1, PlannedRow, OneStore
<1>3. list[src][u] # Absent
  BY <1>1 DEF IInv, TodoInv, Syncing
<1>4. todo.del \subseteq db /\ todo.chg \subseteq db
  BY <1>1 DEF PassInv, PlanInv, Syncing
<1>5. CASE /\ ~HasUID(dst, v)
           /\ todo' = [todo EXCEPT !.chg = @ \ {r}]
           /\ UNCHANGED <<folderVars, config, pc, iter, src, cur, outcome, db, auxVars>>
  <2>1. /\ UNCHANGED <<box, list, db, config, pc, iter, src, cur, outcome, disturbed>>
        /\ todo'.new = todo.new /\ todo'.del = todo.del
        /\ todo'.chg = todo.chg \ {r}
        /\ list[dst][v] = Absent
    BY <1>5 DEF folderVars, auxVars, HasUID, IInv, TypeOK
  <2>2. /\ PlanInv' /\ MappedInv' /\ DirectionInv'
        /\ AbortedInv'
    BY <1>1, <1>4, <2>1, GoesOn DEF PassInv, PlanInv, MappedInv, DirectionInv, ClosePCs
  <2>3. ~Joined(r)
    BY <1>2, <2>1, OneStore DEF Joined
  <2>4. ASSUME ~disturbed, config = FullSync
        PROVE  /\ Faithful(1)' /\ Faithful(2)' /\ LeftInv' /\ HandInv'
               /\ iter' = 2 => ReachedInv'
    <3>1. /\ Faithful(1) /\ Faithful(2) /\ LeftInv
          /\ iter = 2 => ReachedInv
      BY <1>1, <2>4 DEF PassInv, CleanInv, Syncing
    <3>2. Faithful(1)' /\ Faithful(2)' /\ HandInv'
      BY <1>1, <2>1, <3>1 DEF Faithful, HandInv, Adding
    <3>3. LeftInv'
      BY <2>1, <2>3, <3>1 DEF LeftInv, RowsOf, Joined
    <3>4. iter' = 2 => ReachedInv'
      BY <2>1, <3>1 DEF ReachedInv, RowsOf, Joined, dst
    <3> QED
      BY <3>2, <3>3, <3>4
  <2>5. CleanInv'
    BY <1>1, <2>1, <2>4 DEF CleanInv, ClosePCs
  <2> QED
    BY <2>2, <2>5 DEF PassInv
<1>6. CASE /\ CanSetFlags(dst, v)
           /\ SetFlags(dst, v, fl)
           /\ cur' = [src |-> u, dst |-> v, msg |-> Blank, flags |-> fl]
           /\ todo' = [todo EXCEPT !.chg = @ \ {r}]
           /\ pc' = "commitChg"
           /\ UNCHANGED <<config, iter, src, outcome, db, auxVars>>
  <2>1. /\ UNCHANGED <<config, iter, src, outcome, db, disturbed>>
        /\ pc' = "commitChg"
        /\ cur'.src = u /\ cur'.dst = v /\ cur'.flags = fl
        /\ todo'.new = todo.new /\ todo'.del = todo.del
        /\ todo'.chg = todo.chg \ {r}
        /\ dst' = dst
    BY <1>6 DEF auxVars, IInv, TypeOK, dst
  <2>2. FolderTypeOK /\ list[dst][v] # Absent
    BY <1>6, Dispatch, OneStore DEF IInv, TypeOK
  <2>3. fl \in SUBSET Letter
    BY <1>2, <1>3, <2>2, OneStore DEF FolderTypeOK, Entry
  <2>4. ImapSetFlags(dst, v, fl)
    BY <1>6, Dispatch, OneStore DEF SetFlags
  <2> HIDE DEF fl
  <2>5. ServerStore(dst, v, fl)
    BY <2>4 DEF ImapSetFlags
  <2>6. /\ ListSameBut(dst, v) /\ list'[dst][v] # Absent
        /\ list'[dst][v].flags = fl
        /\ list'[dst][v].ignore = list[dst][v].ignore
    BY <2>2, <2>3, <2>4, OneStore, SetFlagsEffect, SetEntry
  <2>7. /\ BoxSameBut(dst, v)
        /\ box[dst][v] # Absent => box'[dst][v] # Absent
                                   /\ box'[dst][v].flags = fl \cap Mapped
    BY <2>2, <2>3, <2>5, OneStore, StoreEffect, StoredFlags
  <2>8. MappedInv'
    BY <2>2, <2>3, <2>5, OneStore, StoreMapped DEF PassInv
  <2>9. \A h \in UID : list'[src][h] = list[src][h]
    BY <2>6, OneStore DEF ListSameBut
  <2>10. PlanInv'
    <3>1. \A q \in todo'.del \cup todo'.chg : q.uid[src] # u
      BY <1>1, <1>2, <1>4, <2>1, OneStore
    <3>2. \A q \in db : q.uid[src] = u => q.uid[dst] = v
      BY <1>2, OneStore
    <3> QED
      BY <1>4, <2>1, <3>1, <3>2 DEF PlanInv
  <2>11. DirectionInv' /\ AbortedInv'
    BY <1>1, <2>1, GoesOn DEF PassInv, DirectionInv, ClosePCs
  <2>12. ASSUME ~disturbed, config = FullSync
         PROVE  /\ Faithful(1)' /\ Faithful(2)' /\ LeftInv' /\ HandInv'
                /\ iter' = 2 => ReachedInv'
    <3>1. /\ Faithful(1) /\ Faithful(2) /\ LeftInv
          /\ iter = 2 => ReachedInv
      BY <1>1, <2>12 DEF PassInv, CleanInv, Syncing
    <3>2. \A s \in Stores : Faithful(s)
      BY <3>1 DEF Stores
    <3>3. fl \subseteq Mapped
      BY <1>2, <1>3, <3>2, OneStore DEF Faithful, fl, PassInv, MappedInv
    <3>4. /\ box'[dst][v] # Absent /\ ~list'[dst][v].ignore
          /\ box'[dst][v].flags = fl
      BY <2>2, <2>6, <2>7, <3>2, <3>3, OneStore DEF Faithful
    <3>5. \A s \in Stores : Faithful(s)'
      <4> SUFFICES ASSUME NEW s \in Stores, NEW h \in UID
                   PROVE  /\ list'[s][h] # Absent =>
                                /\ box'[s][h] # Absent
                                /\ ~list'[s][h].ignore
                                /\ list'[s][h].flags = box'[s][h].flags
                          /\ list'[s][h] = Absent /\ box'[s][h] # Absent
                                => "T" \in box'[s][h].flags
        BY DEF Faithful
      <4>1. CASE s = dst /\ h = v
        BY <2>6, <3>4, <4>1
      <4>2. CASE s # dst \/ h # v
        <5>1. Faithful(s) /\ list'[s][h] = list[s][h] /\ box'[s][h] = box[s][h]
          BY <2>6, <2>7, <3>2, <4>2 DEF BoxSameBut, ListSameBut
        <5> QED
          BY <5>1 DEF Faithful
      <4> QED
        BY <4>1, <4>2
    <3>6. \A q \in db : Joined(q)' => Joined(q)
      <4> SUFFICES ASSUME NEW q \in db, Joined(q)', NEW s \in Stores
                   PROVE  list[s][q.uid[s]] # Absent
        BY DEF Joined
      <4> QED
        BY <2>2, <2>6, OneStore DEF ListSameBut, Joined
    <3>7. LeftInv'
      <4>1. \A h \in UID : list'[src][h] # Absent => h \in todo'.new \/ RowsOf(src, h) # {}
        BY <1>1, <2>1, <2>9, <3>1 DEF LeftInv, Adding
      <4>2. \A q \in db : list'[src][q.uid[src]] = Absent => q \in todo'.del
        BY <1>1, <2>1, <2>9, <3>1, OneStore DEF LeftInv
      <4>3. \A q \in db : Joined(q)' =>
               \/ q.flags = list'[src][q.uid[src]].flags
               \/ q \in todo'.chg
               \/ q.uid[src] = cur'.src
        BY <1>1, <2>1, <2>9, <3>1, <3>6, OneStore DEF LeftInv
      <4> QED
        BY <2>1, <4>1, <4>2, <4>3 DEF LeftInv, RowsOf
    <3>8. iter' = 2 => ReachedInv'
      <4> SUFFICES ASSUME iter' = 2 PROVE ReachedInv'
        OBVIOUS
      <4>1. ReachedInv
        BY <2>1, <3>1
      <4>2. \A h \in UID : list'[dst][h] # Absent => RowsOf(dst, h) # {}
        BY <1>1, <2>2, <2>6, <4>1, OneStore DEF ReachedInv, ListSameBut
      <4>3. \A q \in db : list'[dst][q.uid[dst]] # Absent
        BY <1>1, <2>6, <4>1, OneStore DEF ReachedInv, ListSameBut
      <4>4. ASSUME NEW q \in db, Joined(q)', q.uid[src] # u
            PROVE  q.flags = list'[dst][q.uid[dst]].flags
        <5>1. q.uid[dst] # v
          BY <1>2, <4>4, OneStore
        <5> QED
          BY <1>1, <2>6, <3>6, <4>1, <4>4, <5>1, OneStore DEF ReachedInv, ListSameBut
      <4> QED
        BY <2>1, <4>2, <4>3, <4>4 DEF ReachedInv, RowsOf
    <3>9. HandInv'
      BY <1>2, <1>3, <2>1, <2>6, <2>9 DEF HandInv, Adding, fl
    <3> QED
      BY <3>5, <3>7, <3>8, <3>9 DEF Stores
  <2>13. CleanInv'
    BY <2>1, <2>12 DEF CleanInv, ClosePCs
  <2> QED
    BY <2>8, <2>10, <2>11, <2>13 DEF PassInv
<1>7. ~(HasUID(dst, v) /\ ~CanSetFlags(dst, v))
  BY <1>2, Dispatch, OneStore DEF HasUID
<1> QED
  BY <1>5, <1>6, <1>7 DEF ChangeRow

LEMMA CommitChangePass ==
    ASSUME AllImap, IInv, PassInv, CommitChange
    PROVE  PassInv'
<1> DEFINE n == [uid |-> Pair(src, cur.src, cur.dst), flags |-> cur.flags]
<1>1. /\ pc = "commitChg" /\ pc' = "work"
      /\ UNCHANGED <<box, list, uidnext, config, iter, src, todo, outcome, disturbed>>
      /\ db' = {r \in db : r.uid # n.uid} \cup {n}
      /\ dst' = dst
  BY CommittedFacts DEF CommitChange, RowUpdated, IInv, dst
<1>2. n.uid[src] = cur.src /\ n.uid[dst] = cur.dst /\ n.flags = cur.flags
  BY PairFacts, OneStore DEF IInv, TypeOK
<1>3. /\ todo.del \subseteq db /\ todo.chg \subseteq db
      /\ \A r \in todo.del \cup todo.chg : r.uid[src] # cur.src
      /\ \A q \in db : q.uid[src] = cur.src => q.uid[dst] = cur.dst
  BY <1>1 DEF PassInv, PlanInv, Syncing
<1>4. \A r \in db : r.uid # n.uid => r.uid[src] # cur.src
  <2> SUFFICES ASSUME NEW r \in db, r.uid[src] = cur.src PROVE r.uid = n.uid
    OBVIOUS
  <2>1. r.uid[dst] = cur.dst /\ r.uid \in [Stores -> UID]
    BY <1>3 DEF IInv, TypeOK, Row
  <2> QED
    BY <2>1, OneStore DEF Pair
<1> HIDE DEF n
<1>5. PlanInv'
  BY <1>1, <1>2, <1>3 DEF PlanInv, Syncing
<1>6. MappedInv' /\ DirectionInv'
  BY <1>1 DEF PassInv, MappedInv, DirectionInv
<1>7. AbortedInv'
  BY <1>1, GoesOn DEF PassInv, ClosePCs
(* Every row is one of before, with the same uids.                         *)
<1>8. /\ \A r \in db' : r = n \/ (r \in db /\ r.uid[src] # cur.src)
      /\ \A r \in db : \E q \in db' : q.uid = r.uid
  BY <1>1, <1>4
<1>9. ASSUME NEW s \in Stores, NEW u \in UID, RowsOf(s, u) # {}
      PROVE  {r \in db' : r.uid[s] = u} # {}
  BY <1>8, <1>9 DEF RowsOf
<1>10. ASSUME ~disturbed, config = FullSync
       PROVE  /\ Faithful(1)' /\ Faithful(2)' /\ LeftInv' /\ HandInv'
              /\ iter' = 2 => ReachedInv'
  <2>1. /\ Faithful(1) /\ Faithful(2) /\ LeftInv /\ HandInv
        /\ iter = 2 => ReachedInv
    BY <1>1, <1>10 DEF PassInv, CleanInv, Syncing
  <2>2. /\ list[src][cur.src] # Absent /\ cur.flags = list[src][cur.src].flags
        /\ list[dst][cur.dst] # Absent /\ cur.flags = list[dst][cur.dst].flags
    BY <1>1, <2>1 DEF HandInv
  <2>3. Faithful(1)' /\ Faithful(2)' /\ HandInv'
    BY <1>1, <2>1 DEF Faithful, HandInv, Adding
  <2>4. LeftInv'
    <3>1. \A u \in UID : list[src][u] # Absent =>
             u \in todo.new \/ {r \in db' : r.uid[src] = u} # {}
      BY <1>1, <1>9, <2>1, OneStore DEF LeftInv, Adding
    <3>2. \A r \in db' : list[src][r.uid[src]] = Absent => r \in todo.del
      BY <1>1, <1>2, <1>8, <2>1, <2>2 DEF LeftInv
    <3>3. \A r \in db' : Joined(r) =>
             r.flags = list[src][r.uid[src]].flags \/ r \in todo.chg
      BY <1>1, <1>2, <1>8, <2>1, <2>2 DEF LeftInv
    <3> QED
      BY <1>1, <3>1, <3>2, <3>3 DEF LeftInv, RowsOf, Joined
  <2>5. iter' = 2 => ReachedInv'
    <3> SUFFICES ASSUME iter' = 2 PROVE ReachedInv'
      OBVIOUS
    <3>1. ReachedInv
      BY <1>1, <2>1
    <3>2. \A u \in UID : list[dst][u] # Absent => {r \in db' : r.uid[dst] = u} # {}
      BY <1>1, <1>9, <3>1, OneStore DEF ReachedInv
    <3>3. \A r \in db' : list[dst][r.uid[dst]] # Absent
      BY <1>1, <1>2, <1>8, <2>2, <3>1 DEF ReachedInv
    <3>4. \A r \in db' : Joined(r) => r.flags = list[dst][r.uid[dst]].flags
      BY <1>1, <1>2, <1>8, <2>2, <3>1 DEF ReachedInv
    <3> QED
      BY <1>1, <3>2, <3>3, <3>4 DEF ReachedInv, RowsOf, Joined
  <2> QED
    BY <2>3, <2>4, <2>5
<1>11. CleanInv'
  BY <1>1, <1>10 DEF CleanInv, ClosePCs
<1> QED
  BY <1>5, <1>6, <1>7, <1>11 DEF PassInv
-----------------------------------------------------------------------------
(* Close takes nothing away but what is flagged Deleted on both stores.    *)
LEMMA ClosePass ==
    ASSUME AllImap, IInv, PassInv, Close2 \/ Close1
    PROVE  PassInv'
<1>1. PICK s \in Stores, expunge \in BOOLEAN : ImapClose(s, expunge)
  BY Dispatch DEF Close2, Close1, CloseFolder, Stores
<1>2. \A t \in Stores, u \in UID :
         \/ box'[t][u] = box[t][u]
         \/ box'[t][u] = Absent /\ "T" \in box[t][u].flags
  BY <1>1, CloseEffect DEF IInv, TypeOK
<1>3. /\ UNCHANGED <<db, config, outcome, disturbed>>
      /\ pc \in ClosePCs
      /\ \/ pc' = "close1" /\ UNCHANGED <<iter, src>>
         \/ pc' = "idle" /\ iter' = 1 /\ src' = 1
  BY DEF Close2, Close1, EndPass, ClosePCs, auxVars
<1>4. PlanInv' /\ DirectionInv'
  BY <1>3 DEF PassInv, PlanInv, DirectionInv, Syncing
<1>5. MappedInv'
  BY <1>2 DEF PassInv, MappedInv
<1>6. AbortedInv'
  <2>1. \A r \in db : Orphaned(r) => Orphaned(r)'
    BY <1>2, OneStore DEF Orphaned
  <2> QED
    BY <1>3, <2>1 DEF PassInv, AbortedInv, ClosePCs
<1>7. ASSUME Settled PROVE Settled'
  <2> SUFFICES ASSUME NEW t \in Stores, NEW u \in UID,
                      box'[t][u] # Absent, "T" \notin box'[t][u].flags
               PROVE  \E r \in db' :
                         /\ r.uid[t] = u
                         /\ r.flags = box'[t][u].flags
                         /\ box'[Other(t)][r.uid[Other(t)]] # Absent
                         /\ box'[Other(t)][r.uid[Other(t)]].flags = box'[t][u].flags
    BY DEF Settled
  <2>1. box'[t][u] = box[t][u]
    BY <1>2
  <2>2. PICK r \in db :
           /\ r.uid[t] = u
           /\ r.flags = box[t][u].flags
           /\ box[Other(t)][r.uid[Other(t)]] # Absent
           /\ box[Other(t)][r.uid[Other(t)]].flags = box[t][u].flags
    BY <1>7, <2>1 DEF Settled
  <2>3. box'[Other(t)][r.uid[Other(t)]] = box[Other(t)][r.uid[Other(t)]]
    BY <1>2, <2>1, <2>2, OtherStore, OneStore
  <2> QED
    BY <1>3, <2>1, <2>2, <2>3
<1>8. CleanInv'
  BY <1>3, <1>7 DEF PassInv, CleanInv, ClosePCs, Syncing
<1> QED
  BY <1>4, <1>5, <1>6, <1>8 DEF PassInv

LEMMA NextPass ==
    ASSUME AllImap, IInv, PassInv, [Next]_vars
    PROVE  PassInv'
<1>1. CASE UNCHANGED vars
  BY <1>1 DEF vars, PassInv, PlanInv, AbortedInv, Orphaned, MappedInv, DirectionInv,
              CleanInv, Faithful, LeftInv, ReachedInv, HandInv, Settled, Joined,
              RowsOf, dst
<1>2. CASE StartSync \/ OpenFails \/ Fail \/ CloseFails \/ Crash
  BY <1>2, StartPass
<1>3. CASE User
  BY <1>3, UserPass
<1>4. CASE SyncStep
  BY <1>4, ListPass, DiffPass, ReadPass, AddPass, UpdatePass, CommitNewPass,
     DeletePass, CommitDeletePass, ChangePass, CommitChangePass,
     NextDirectionPass, ClosePass DEF SyncStep
<1> QED
  BY <1>1, <1>2, <1>3, <1>4 DEF Next
-----------------------------------------------------------------------------
(* Two finite sets are of one size when P pairs their elements.            *)
LEMMA PairedSets ==
    ASSUME NEW A, NEW B, NEW P, IsFiniteSet(A),
           \A a \in A : \E b \in B : <<a, b>> \in P,
           \A b \in B : \E a \in A : <<a, b>> \in P,
           \A a, c \in A, b, d \in B :
              <<a, b>> \in P /\ <<c, d>> \in P => (a = c <=> b = d)
    PROVE  Cardinality(A) = Cardinality(B)
<1> DEFINE f == [a \in A |-> CHOOSE b \in B : <<a, b>> \in P]
<1>1. \A a \in A : f[a] \in B /\ <<a, f[a]>> \in P
  OBVIOUS
<1>2. f \in [A -> B]
  BY <1>1
<1> HIDE DEF f
<1>3. f \in Injection(A, B)
  <2>1. ASSUME NEW a \in A, NEW c \in A, f[a] = f[c] PROVE a = c
    <3>1. /\ f[a] \in B /\ <<a, f[a]>> \in P
          /\ f[c] \in B /\ <<c, f[c]>> \in P
      BY <1>1
    <3> QED
      BY <2>1, <3>1, ZenonT(30)
  <2>2. IsInjective(f)
    BY <1>2, <2>1 DEF IsInjective
  <2> QED
    BY <1>2, <2>2 DEF Injection
<1>4. f \in Surjection(A, B)
  <2> SUFFICES ASSUME NEW b \in B PROVE \E a \in A : f[a] = b
    BY <1>2 DEF Surjection
  <2>1. PICK a \in A : <<a, b>> \in P
    OBVIOUS
  <2> QED
    BY <1>1, <2>1
<1>5. ExistsBijection(A, B)
  BY <1>3, <1>4 DEF Bijection, ExistsBijection
<1> QED
  BY <1>5, FS_Bijection

(* The rows pair the copies of a message with their counterparts.          *)
LEMMA SettledAgree ==
    ASSUME AllImap, IInv, Settled
    PROVE  StoresAgree
<1> SUFFICES ASSUME NEW c
             PROVE  Cardinality(Alike(1, c)) = Cardinality(Alike(2, c))
  BY DEF StoresAgree
<1> DEFINE A(s) == Alike(s, c)
           P == {<<r.uid[1], r.uid[2]>> : r \in db}
<1>1. IsFiniteSet(A(1))
  <2>1. A(1) \in SUBSET (0 .. MaxUID)
    BY DEF Alike, Live, Handles, UID
  <2>2. IsFiniteSet(0 .. MaxUID)
    BY FS_Interval
  <2> QED
    BY <2>1, <2>2, FS_Subset
<1>2. ASSUME NEW s \in Stores, NEW h \in A(s)
      PROVE  \E r \in db : r.uid[s] = h /\ r.uid[Other(s)] \in A(Other(s))
  <2>1. /\ h \in UID /\ box[s][h] # Absent /\ "T" \notin box[s][h].flags
        /\ box[s][h].msg = c.msg /\ box[s][h].flags = c.flags
    BY DEF Alike, Live, Handles
  <2>2. PICK r \in db :
           /\ r.uid[s] = h
           /\ box[Other(s)][r.uid[Other(s)]] # Absent
           /\ box[Other(s)][r.uid[Other(s)]].flags = box[s][h].flags
    BY <2>1 DEF Settled
  <2>3. box[Other(s)][r.uid[Other(s)]].msg = box[s][h].msg
    BY <2>1, <2>2 DEF IInv, PairInv, Paired
  <2>4. r.uid[Other(s)] \in UID
    BY <2>2, OtherStore, OneStore
  <2> QED
    BY <2>1, <2>2, <2>3, <2>4 DEF Alike, Live, Handles
<1>3. \A a \in A(1) : \E b \in A(2) : <<a, b>> \in P
  BY <1>2 DEF Stores, Other
<1>4. \A b \in A(2) : \E a \in A(1) : <<a, b>> \in P
  <2> SUFFICES ASSUME NEW b \in A(2) PROVE \E a \in A(1) : <<a, b>> \in P
    OBVIOUS
  <2>1. 2 \in Stores /\ Other(2) = 1
    BY DEF Stores, Other
  <2>2. PICK r \in db : r.uid[2] = b /\ r.uid[1] \in A(1)
    BY <1>2, <2>1
  <2> QED
    BY <2>2
<1>5. \A r, q \in db : r.uid[1] = q.uid[1] <=> r.uid[2] = q.uid[2]
  BY DEF IInv, RowInv, RowsOneToOne, Stores
<1>6. \A a, b, d, e : <<a, b>> \in P /\ <<d, e>> \in P => (a = d <=> b = e)
  BY <1>5
<1> HIDE DEF A, P
<1>7. Cardinality(A(1)) = Cardinality(A(2))
  BY <1>1, <1>3, <1>4, <1>6, PairedSets
<1> QED
  BY <1>7 DEF A

LEMMA SettledInSync ==
    ASSUME AllImap, IInv, Settled
    PROVE  InSync
<1>1. AllPaired
  <2> SUFFICES ASSUME NEW s \in Stores, NEW h \in Live(s)
               PROVE  \E r \in db : /\ r.uid[s] = box[s][h].uid
                                    /\ r.flags = box[s][h].flags
                                    /\ Under(Other(s), r.uid[Other(s)]) # {}
    BY DEF AllPaired
  <2>1. /\ h \in UID /\ box[s][h] # Absent /\ "T" \notin box[s][h].flags
        /\ box[s][h].uid = h
    BY DEF Live, Handles, IInv, BoxInv
  <2>2. PICK r \in db :
           /\ r.uid[s] = h
           /\ r.flags = box[s][h].flags
           /\ box[Other(s)][r.uid[Other(s)]] # Absent
    BY <2>1 DEF Settled
  <2>3. r.uid[Other(s)] \in Under(Other(s), r.uid[Other(s)])
    BY <2>2, OtherStore, OneStore DEF Under, Handles, IInv, BoxInv
  <2> QED
    BY <2>1, <2>2, <2>3
<1> QED
  BY <1>1, SettledAgree DEF InSync

THEOREM PassInvariance ==
    ASSUME AllImap PROVE Spec => []PassInv
<1>1. Init => PassInv
  BY InitPass
<1>2. IInv /\ PassInv /\ [Next]_vars => PassInv'
  BY NextPass
<1> QED
  BY <1>1, <1>2, Invariance, PTL DEF Spec

(* With deletemode expunge, a pass of SyncFolder that returns no error and *)
(* that nothing disturbed leaves the two servers with the same messages,   *)
(* equally often and with the same flags, and the table with a row for each*)
(* of them that has those flags: whatever failed in the passes before it.  *)
THEOREM PassesConverge ==
    ASSUME AllImap PROVE Spec => []CleanPassConverges
<1>1. IInv /\ PassInv => CleanPassConverges
  BY SettledInSync DEF CleanPassConverges, CleanPass, PassInv, CleanInv
<1> QED
  BY <1>1, Invariance, PassInvariance, PTL

(* The only error a pass of SyncFolder returns by itself, but for the one  *)
(* deletemode flag causes, is that of a row neither server has a copy for: *)
(* a folder is stuck for this reason or not at all.                        *)
THEOREM OnlyOrphansAbort ==
    ASSUME AllImap PROVE Spec => []CleanAbortMeansOrphan
<1>1. IInv /\ PassInv => CleanAbortMeansOrphan
  <2> SUFFICES ASSUME IInv, PassInv, CleanPass, outcome = "error",
                      config.deletemode # "flag"
               PROVE  HasOrphan
    BY DEF CleanAbortMeansOrphan
  <2>1. PICK r \in db : Orphaned(r)
    BY DEF CleanPass, PassInv, AbortedInv
  <2>2. \A s \in Stores : Under(s, r.uid[s]) = {}
    BY <2>1, OneStore DEF Orphaned, Under, Handles, IInv, BoxInv
  <2> QED
    BY <2>2 DEF HasOrphan, Orphaned
<1> QED
  BY <1>1, Invariance, PassInvariance, PTL
=============================================================================
