-------------------------- MODULE SyncFolderProofs --------------------------
(***************************************************************************)
(* What SyncFolder guarantees between two IMAP servers, for every set of   *)
(* messages, every setting and every number of operations and failures.    *)
(***************************************************************************)
EXTENDS SyncFolder, TLAPS

AllImap == \A s \in Stores : Kind[s] = "IMAP"

(* A message nobody asked to keep, or no message at all.                   *)
Released(m) == m \in gone \cup {Blank}

(* The uids in use were handed out by the server, never 0, and a copy is   *)
(* found under its own uid; a Deleted flag is a mail client's wish.        *)
BoxInv ==
    \A s \in Stores, u \in UID : box[s][u] # Absent =>
        /\ 0 < u /\ u < uidnext[s]
        /\ box[s][u].uid = u
        /\ "T" \in box[s][u].flags => Released(box[s][u].msg)

ListInv ==
    \A s \in Stores, u \in UID : list[s][u] # Absent =>
        /\ 0 < u /\ u < uidnext[s]
        /\ box[s][u] # Absent /\ "T" \in list[s][u].flags
               => Released(box[s][u].msg)

RowInv ==
    /\ \A r \in db, s \in Stores : 0 < r.uid[s] /\ r.uid[s] < uidnext[s]
    /\ RowsOneToOne

(* Two copies that u of s and v of the other store may be paired for.      *)
Paired(s, u, v) ==
    /\ box[s][u] # Absent /\ box[Other(s)][v] # Absent
           => box[s][u].msg = box[Other(s)][v].msg
    /\ box[s][u] # Absent /\ box[Other(s)][v] = Absent
           => Released(box[s][u].msg)

PairInv == \A r \in db, s \in Stores : Paired(s, r.uid[s], r.uid[Other(s)])

Syncing == {"diff", "work", "add", "update", "commit", "commitDel", "commitChg"}
Adding == {"add", "update", "commit"}

(* While a direction is worked on, a row's message that is not listed is   *)
(* really gone: all was listed, and only a deletion unlists a message.     *)
CoverInv ==
    /\ \A r \in db : pc = "list2" \/ pc \in Syncing =>
           \/ list[1][r.uid[1]] # Absent
           \/ box[1][r.uid[1]] = Absent
           \/ pc = "commitDel" /\ r.uid[src] = cur.src
    /\ \A r \in db : pc \in Syncing =>
           \/ list[2][r.uid[2]] # Absent
           \/ box[2][r.uid[2]] = Absent
           \/ pc = "commitDel" /\ r.uid[src] = cur.src

TodoInv ==
    pc \in Syncing \ {"diff"} =>
        /\ \A u \in todo.new : list[src][u] # Absent /\ RowsOf(src, u) = {}
        /\ \A r \in todo.del : list[src][r.uid[src]] = Absent
        /\ \A r \in todo.chg : list[src][r.uid[src]] # Absent

(* The uid u of store s is that of the message in hand, and of no row yet. *)
Holds(s, u) ==
    /\ list[s][u] # Absent
    /\ RowsOf(s, u) = {}
    /\ IF box[s][u] = Absent THEN Released(cur.msg) ELSE box[s][u].msg = cur.msg

CurInv ==
    /\ pc \in Adding =>
          /\ Holds(src, cur.src)
          /\ cur.src \notin todo.new
          /\ "T" \in cur.flags => Released(cur.msg)
    /\ pc \in {"update", "commit"} => Holds(dst, cur.dst)
    /\ pc = "commitChg" =>
          \E r \in db : r.uid = Pair(src, cur.src, cur.dst)

IInv ==
    /\ TypeOK
    /\ BoxInv
    /\ ListInv
    /\ RowInv
    /\ PairInv
    /\ CoverInv
    /\ TodoInv
    /\ CurInv
-----------------------------------------------------------------------------
USE KindAssumption, ExpungeAssumption, BlankAssumption, AbsentAssumption,
    MaxUIDAssumption, ConfigsAssumption, BoundsAssumption

LEMMA OtherStore ==
    \A s \in Stores : /\ Other(s) \in Stores
                      /\ Other(s) # s
                      /\ Other(Other(s)) = s
BY DEF Stores, Other

(* Rows whose copies stay what they are still pair them rightly.           *)
LEMMA PairsStay ==
    ASSUME PairInv, UNCHANGED <<db, gone>>,
           \A r \in db, t \in Stores : box'[t][r.uid[t]] = box[t][r.uid[t]]
    PROVE  PairInv'
<1> SUFFICES ASSUME NEW r \in db, NEW s \in Stores
             PROVE  Paired(s, r.uid[s], r.uid[Other(s)])'
  BY DEF PairInv
<1>1. Paired(s, r.uid[s], r.uid[Other(s)])
  BY DEF PairInv
<1>2. /\ box'[s][r.uid[s]] = box[s][r.uid[s]]
      /\ box'[Other(s)][r.uid[Other(s)]] = box[Other(s)][r.uid[Other(s)]]
  BY OtherStore
<1> QED
  BY <1>1, <1>2 DEF Paired, Released

LEMMA InitInv == Init => IInv
<1> SUFFICES ASSUME Init PROVE IInv
  OBVIOUS
<1> USE DEF Init, FolderInit
<1>1. TypeOK
  <2>1. FolderTypeOK
    BY DEF FolderTypeOK, NoMessages
  <2>2. config \in [deletemode : Deletemodes, dryrun : BOOLEAN]
    OBVIOUS
  <2>3. todo \in [new : SUBSET UID, del : SUBSET Row, chg : SUBSET Row]
    BY DEF NothingToDo
  <2>4. cur \in [src : UID, dst : UID, msg : Msg \cup {Blank},
                flags : SUBSET Letter]
    BY DEF NoCur, UID
  <2> QED
    BY <2>1, <2>2, <2>3, <2>4 DEF TypeOK, PCs, Stores
<1>2. \A s \in Stores, u \in UID : box[s][u] = Absent /\ list[s][u] = Absent
  BY DEF NoMessages
<1>3. BoxInv /\ ListInv
  BY <1>2 DEF BoxInv, ListInv
<1>4. RowInv /\ PairInv /\ CoverInv
  BY DEF RowInv, RowsOneToOne, PairInv, CoverInv
<1>5. TodoInv /\ CurInv
  BY DEF TodoInv, CurInv, Syncing, Adding
<1> QED
  BY <1>1, <1>3, <1>4, <1>5 DEF IInv

(* Nothing in the invariant speaks of a pass that is not at work.          *)
LEMMA PassOver ==
    ASSUME IInv, TypeOK', UNCHANGED <<box, uidnext, db, gone>>,
           list' \in {list, [s \in Stores |-> NoMessages]},
           pc' \in {"idle", "list1"} \cup ClosePCs
    PROVE  IInv'
<1> USE DEF IInv, TypeOK, FolderTypeOK
<1>1. \A s \in Stores, u \in UID : list'[s][u] \in {list[s][u], Absent}
  BY DEF NoMessages
<1>2. BoxInv' /\ RowInv' /\ PairInv'
  BY DEF BoxInv, RowInv, RowsOneToOne, PairInv, Paired, Released
<1>3. ListInv'
  BY <1>1 DEF ListInv, Released
<1>4. CoverInv' /\ TodoInv' /\ CurInv'
  BY DEF CoverInv, TodoInv, CurInv, Syncing, Adding, ClosePCs
<1> QED
  BY <1>2, <1>3, <1>4
-----------------------------------------------------------------------------
(* The operations of an IMAP folder, point by point.                       *)
BoxSameBut(s, u) ==
    \A t \in Stores, h \in UID : t # s \/ h # u => box'[t][h] = box[t][h]
ListSameBut(s, u) ==
    \A t \in Stores, h \in UID : t # s \/ h # u => list'[t][h] = list[t][h]

LEMMA AppendEffect ==
    ASSUME FolderTypeOK, NEW s \in Stores, NEW u \in UID,
           NEW m \in Msg \cup {Blank}, NEW fl \in SUBSET Letter,
           ServerAppend(s, m, fl, u)
    PROVE  /\ box' \in [Stores -> [UID -> Copy \cup {Absent}]]
           /\ uidnext' \in [Stores -> Nat \ {0}]
           /\ u = uidnext[s] /\ 0 < u
           /\ box'[s][u] = [msg |-> m, uid |-> u, flags |-> fl]
           /\ box'[s][u] # Absent
           /\ BoxSameBut(s, u)
           /\ uidnext'[s] = u + 1
           /\ \A t \in Stores : t # s => uidnext'[t] = uidnext[t]
<1> DEFINE c == [msg |-> m, uid |-> u, flags |-> fl]
<1>1. c \in Copy /\ c # Absent
  BY DEF Copy
<1>2. box' = [box EXCEPT ![s][u] = c] /\ uidnext' = [uidnext EXCEPT ![s] = u + 1]
  BY DEF ServerAppend
<1>3. u \in Nat /\ u = uidnext[s]
  BY DEF ServerAppend, UID
<1> HIDE DEF c
<1>4. box' \in [Stores -> [UID -> Copy \cup {Absent}]]
  BY <1>1, <1>2 DEF FolderTypeOK
<1>5. box'[s][u] = c /\ BoxSameBut(s, u)
  BY <1>2 DEF FolderTypeOK, BoxSameBut
<1> QED
  BY <1>1, <1>2, <1>3, <1>4, <1>5 DEF FolderTypeOK, c

LEMMA AddEffect ==
    ASSUME FolderTypeOK, NEW s \in Stores, NEW u \in UID,
           NEW m \in Msg \cup {Blank}, NEW fl \in SUBSET Letter,
           ImapAddMessage(s, m, fl, u)
    PROVE  /\ list' \in [Stores -> [UID -> Entry \cup {Absent}]]
           /\ list'[s][u] # Absent
           /\ list'[s][u].flags = fl
           /\ ListSameBut(s, u)
<1> DEFINE e == [file |-> u, flags |-> fl, ignore |-> FALSE, temporary |-> FALSE]
<1>1. e \in Entry
  BY DEF Entry
<1>a. e # Absent /\ e.flags = fl
  BY <1>1
<1>2. list' = [list EXCEPT ![s][u] = e]
  BY DEF ImapAddMessage
<1> HIDE DEF e
<1> QED
  BY <1>1, <1>a, <1>2 DEF FolderTypeOK, ListSameBut

LEMMA StoreEffect ==
    ASSUME FolderTypeOK, NEW s \in Stores, NEW u \in UID,
           NEW fl \in SUBSET Letter, ServerStore(s, u, fl)
    PROVE  /\ box' \in [Stores -> [UID -> Copy \cup {Absent}]]
           /\ BoxSameBut(s, u)
           /\ box[s][u] = Absent => box'[s][u] = Absent
           /\ box[s][u] # Absent =>
                 /\ box'[s][u] # Absent
                 /\ box'[s][u].msg = box[s][u].msg
                 /\ box'[s][u].uid = box[s][u].uid
                 /\ box'[s][u].flags \subseteq fl
<1>1. CASE box[s][u] = Absent
  BY <1>1 DEF ServerStore, FolderTypeOK, BoxSameBut
<1>2. CASE box[s][u] # Absent
  <2> DEFINE c == [box[s][u] EXCEPT !.flags = fl \cap Mapped]
  <2>1. box[s][u] \in Copy
    BY <1>2 DEF FolderTypeOK
  <2>2. /\ c \in Copy /\ c # Absent /\ c.msg = box[s][u].msg
        /\ c.uid = box[s][u].uid /\ c.flags = fl \cap Mapped
    BY <2>1 DEF Copy
  <2>3. box' = [box EXCEPT ![s][u] = c]
    BY <1>2 DEF ServerStore, FolderTypeOK
  <2> HIDE DEF c
  <2> QED
    BY <1>2, <2>2, <2>3 DEF FolderTypeOK, BoxSameBut
<1> QED
  BY <1>1, <1>2

LEMMA SetFlagsEffect ==
    ASSUME FolderTypeOK, NEW s \in Stores, NEW u \in UID,
           NEW fl \in SUBSET Letter, ImapSetFlags(s, u, fl)
    PROVE  /\ list' \in [Stores -> [UID -> Entry \cup {Absent}]]
           /\ ListSameBut(s, u)
           /\ list[s][u] # Absent /\ list'[s][u] # Absent
           /\ list'[s][u].flags = fl
<1> DEFINE e == [list[s][u] EXCEPT !.flags = fl]
<1>1. list[s][u] \in Entry /\ list[s][u] # Absent
  BY DEF FolderTypeOK, ImapSetFlags, HasUID
<1>2. e \in Entry /\ e # Absent /\ e.flags = fl
  <2> DEFINE d == [file |-> list[s][u].file, flags |-> fl,
                   ignore |-> list[s][u].ignore,
                   temporary |-> list[s][u].temporary]
  <2>1. e = d
    BY <1>1 DEF Entry
  <2>2. d \in Entry
    BY <1>1 DEF Entry
  <2>3. d # Absent /\ d.flags = fl
    BY <2>2
  <2> HIDE DEF d, e
  <2> QED
    BY <2>1, <2>2, <2>3
<1>3. list' = [list EXCEPT ![s][u] = e]
  BY DEF ImapSetFlags, FolderTypeOK
<1> HIDE DEF e
<1> QED
  BY <1>1, <1>2, <1>3 DEF FolderTypeOK, ListSameBut

LEMMA DeleteEffect ==
    ASSUME FolderTypeOK, NEW s \in Stores, NEW u \in UID,
           ImapDeleteMessage(s, u)
    PROVE  /\ list' \in [Stores -> [UID -> Entry \cup {Absent}]]
           /\ ListSameBut(s, u)
           /\ list'[s][u] = Absent
BY DEF FolderTypeOK, ListSameBut, ImapDeleteMessage

LEMMA ListEffect ==
    ASSUME FolderTypeOK, NEW s \in Stores, ImapUpdateMessageList(s)
    PROVE  /\ list' \in [Stores -> [UID -> Entry \cup {Absent}]]
           /\ \A t \in Stores, u \in UID : t # s => list'[t][u] = list[t][u]
           /\ \A u \in UID :
                 /\ list'[s][u] = Absent <=> box[s][u] = Absent
                 /\ box[s][u] # Absent =>
                       list'[s][u].flags \subseteq box[s][u].flags
<1> DEFINE e(u) == [file |-> u, flags |-> box[s][u].flags \cap Mapped,
                    ignore |-> FALSE, temporary |-> FALSE]
           l == [u \in UID |-> IF box[s][u] = Absent THEN Absent ELSE e(u)]
<1>1. ASSUME NEW u \in UID, box[s][u] # Absent
      PROVE  e(u) \in Entry /\ e(u) # Absent
  <2>1. box[s][u].flags \cap Mapped \in SUBSET Letter
    BY DEF Letter
  <2>2. e(u) \in Entry
    BY <2>1 DEF Entry
  <2> QED
    BY <2>2
<1>2. l \in [UID -> Entry \cup {Absent}]
  BY <1>1
<1>3. list' = [list EXCEPT ![s] = l]
  BY DEF ImapUpdateMessageList
<1>4. list'[s] = l /\ \A t \in Stores : t # s => list'[t] = list[t]
  BY <1>3 DEF FolderTypeOK
<1>5. \A u \in UID : box[s][u] # Absent => e(u).flags \subseteq box[s][u].flags
  OBVIOUS
<1>6. list' \in [Stores -> [UID -> Entry \cup {Absent}]]
  BY <1>2, <1>3 DEF FolderTypeOK
<1>7. \A u \in UID : list'[s][u] = IF box[s][u] = Absent THEN Absent ELSE e(u)
  BY <1>4
<1> HIDE DEF e, l
<1> QED
  BY <1>1, <1>4, <1>5, <1>6, <1>7

LEMMA CloseEffect ==
    ASSUME FolderTypeOK, NEW s \in Stores, NEW expunge \in BOOLEAN,
           ImapClose(s, expunge)
    PROVE  /\ box' \in [Stores -> [UID -> Copy \cup {Absent}]]
           /\ \A t \in Stores, u \in UID :
                 \/ box'[t][u] = box[t][u]
                 \/ /\ box'[t][u] = Absent
                    /\ "T" \in box[t][u].flags
BY DEF FolderTypeOK, ImapClose
-----------------------------------------------------------------------------
(* The steps of a pass, in the order of SyncFolder.                        *)
LEMMA Dispatch ==
    ASSUME AllImap, NEW s \in Stores
    PROVE  /\ IsImap(s)
           /\ \A u \in UID : CanRead(s, u) /\ CanUpdate(s, u)
           /\ \A u \in UID : CanSetFlags(s, u) <=> list[s][u] # Absent
BY DEF AllImap, IsImap, CanRead, CanUpdate, CanSetFlags, HasUID

LEMMA Quiet ==
    ASSUME BoxInv, ListInv, RowInv, PairInv,
           UNCHANGED <<box, list, uidnext, db, gone>>
    PROVE  BoxInv' /\ ListInv' /\ RowInv' /\ PairInv'
BY DEF BoxInv, ListInv, RowInv, RowsOneToOne, PairInv, Paired, Released

LEMMA AbortInv ==
    ASSUME IInv, Abort, UNCHANGED folderVars
    PROVE  IInv'
<1>1. TypeOK'
  BY DEF IInv, Abort, TypeOK, FolderTypeOK, folderVars, auxVars, PCs,
         NothingToDo, NoCur, UID
<1> QED
  BY <1>1, PassOver DEF Abort, folderVars, auxVars, ClosePCs

LEMMA StartInv ==
    ASSUME IInv, StartSync \/ OpenFails \/ Fail \/ CloseFails \/ Crash
    PROVE  IInv'
<1>1. CASE StartSync
  <2>1. TypeOK'
    BY <1>1 DEF IInv, StartSync, TypeOK, FolderTypeOK, folderVars, PCs
  <2> QED
    BY <1>1, <2>1, PassOver DEF StartSync, folderVars
<1>5. CASE OpenFails
  <2>1. TypeOK'
    BY <1>5 DEF IInv, OpenFails, TypeOK, FolderTypeOK, folderVars, PCs
  <2> QED
    BY <1>5, <2>1, PassOver DEF OpenFails, folderVars, ClosePCs
<1>2. CASE Fail
  <2>1. TypeOK'
    BY <1>2 DEF IInv, Fail, TypeOK, FolderTypeOK, folderVars, PCs,
                NothingToDo, NoCur, UID
  <2> QED
    BY <1>2, <2>1, PassOver DEF Fail, folderVars, ClosePCs
<1>3. CASE Crash
  <2>1. list' \in [Stores -> [UID -> Entry \cup {Absent}]]
    BY <1>3 DEF Crash, EndPass, NoMessages
  <2>2. TypeOK'
    BY <1>3, <2>1 DEF IInv, Crash, EndPass, TypeOK, FolderTypeOK, PCs, Stores,
                      NothingToDo, NoCur, UID
  <2> QED
    BY <1>3, <2>2, PassOver DEF Crash, EndPass
<1>4. CASE CloseFails
  <2>1. list' \in [Stores -> [UID -> Entry \cup {Absent}]]
    BY <1>4 DEF IInv, TypeOK, FolderTypeOK, CloseFails, EndPass, NoMessages
  <2>2. TypeOK'
    BY <1>4, <2>1 DEF IInv, CloseFails, EndPass, TypeOK, FolderTypeOK, PCs, Stores
  <2> QED
    BY <1>4, <2>2, PassOver DEF CloseFails, EndPass, ClosePCs
<1> QED
  BY <1>1, <1>2, <1>3, <1>4, <1>5

LEMMA ListFolderInv ==
    ASSUME AllImap, IInv, ListFolder1 \/ ListFolder2
    PROVE  IInv'
<1> DEFINE s == IF pc = "list1" THEN 1 ELSE 2
<1> USE DEF IInv
<1>1. /\ s \in Stores
      /\ ImapUpdateMessageList(s)
      /\ UNCHANGED <<box, uidnext, db, config, iter, src, todo, cur, outcome, auxVars>>
      /\ \/ pc = "list1" /\ s = 1 /\ pc' = "list2"
         \/ pc = "list2" /\ s = 2 /\ pc' = "diff"
  BY Dispatch DEF ListFolder1, ListFolder2, ListFolder, UpdateMessageList,
                  Stores, ImapUpdateMessageList
<1> HIDE DEF s
<1>2. /\ list' \in [Stores -> [UID -> Entry \cup {Absent}]]
      /\ \A t \in Stores, u \in UID : t # s => list'[t][u] = list[t][u]
      /\ \A u \in UID :
            /\ list'[s][u] = Absent <=> box[s][u] = Absent
            /\ box[s][u] # Absent =>
                  list'[s][u].flags \subseteq box[s][u].flags
  BY <1>1, ListEffect DEF TypeOK
<1>3. TypeOK'
  BY <1>1, <1>2 DEF TypeOK, FolderTypeOK, PCs, auxVars
<1>4. BoxInv' /\ RowInv' /\ PairInv'
  BY <1>1 DEF BoxInv, RowInv, RowsOneToOne, PairInv, Paired, Released, auxVars
<1>5. ListInv'
  <2> SUFFICES ASSUME NEW t \in Stores, NEW u \in UID, list'[t][u] # Absent
               PROVE  /\ 0 < u /\ u < uidnext'[t]
                      /\ box'[t][u] # Absent /\ "T" \in list'[t][u].flags
                             => box'[t][u].msg \in gone' \cup {Blank}
    BY DEF ListInv, Released
  <2>1. CASE t = s
    BY <1>1, <1>2, <2>1 DEF BoxInv, Released, auxVars
  <2>2. CASE t # s
    BY <1>1, <1>2, <2>2 DEF ListInv, Released, auxVars
  <2> QED
    BY <2>1, <2>2
<1>6. CoverInv'
  <2>1. \A r \in db : r.uid[1] \in UID /\ r.uid[2] \in UID
    BY DEF TypeOK, Row, Stores
  <2>2. \A r \in db : list'[s][r.uid[s]] # Absent \/ box[s][r.uid[s]] = Absent
    BY <1>1, <1>2, <2>1 DEF Stores
  <2>3. CASE s = 1
    BY <1>1, <2>2, <2>3 DEF CoverInv, Syncing
  <2>4. CASE s = 2
    <3>1. \A r \in db : list'[1][r.uid[1]] = list[1][r.uid[1]]
      BY <1>2, <2>1, <2>4 DEF Stores
    <3> QED
      BY <1>1, <2>2, <2>4, <3>1 DEF CoverInv, Syncing
  <2> QED
    BY <1>1, <2>3, <2>4
<1>7. TodoInv' /\ CurInv'
  BY <1>1 DEF TodoInv, CurInv, Syncing, Adding
<1> QED
  BY <1>3, <1>4, <1>5, <1>6, <1>7

LEMMA DiffInv ==
    ASSUME IInv, Diff
    PROVE  IInv'
<1> USE DEF IInv
<1>1. /\ UNCHANGED <<box, list, uidnext, db, src, cur, gone>>
      /\ pc = "diff" /\ pc' \in {"diff", "work", "close2"}
  BY DEF Diff, folderVars, auxVars
<1>2. /\ todo'.new \subseteq NewMessages(src)
      /\ todo'.del \subseteq DeletedMessages(src)
      /\ todo'.chg \subseteq ChangedMessages(src)
      /\ todo' \in [new : SUBSET UID, del : SUBSET Row, chg : SUBSET Row]
  BY DEF Diff, NothingToDo, NewMessages, DeletedMessages, ChangedMessages,
         Listed, TypeOK
<1>3. TypeOK'
  BY <1>1, <1>2 DEF TypeOK, FolderTypeOK, Diff, PCs, folderVars, auxVars
<1>4. BoxInv' /\ ListInv' /\ RowInv' /\ PairInv'
  BY <1>1, Quiet
<1>5. CoverInv'
  BY <1>1 DEF CoverInv, Syncing
<1>6. TodoInv'
  BY <1>1, <1>2 DEF TodoInv, NewMessages, DeletedMessages, ChangedMessages,
                    Listed, HasUID, RowsOf
<1>7. CurInv'
  BY <1>1 DEF CurInv, Adding
<1> QED
  BY <1>3, <1>4, <1>5, <1>6, <1>7

LEMMA NextDirectionInv ==
    ASSUME IInv, NextDirection
    PROVE  IInv'
<1> USE DEF IInv
<1>1. /\ UNCHANGED <<box, list, uidnext, db, cur, gone, todo>>
      /\ pc = "work" /\ pc' \in {"diff", "close2"}
  BY DEF NextDirection, folderVars, auxVars
<1>2. TypeOK'
  BY <1>1 DEF TypeOK, FolderTypeOK, NextDirection, PCs, Stores, folderVars, auxVars
<1>3. BoxInv' /\ ListInv' /\ RowInv' /\ PairInv'
  BY <1>1, Quiet
<1>4. CoverInv' /\ TodoInv' /\ CurInv'
  BY <1>1 DEF CoverInv, TodoInv, CurInv, Syncing, Adding
<1> QED
  BY <1>2, <1>3, <1>4

LEMMA ReadInv ==
    ASSUME AllImap, IInv, ReadMessage
    PROVE  IInv'
<1> PICK u \in UID : ReadNew(u)
  BY DEF ReadMessage
<1> USE DEF IInv
<1>1. /\ pc = "work" /\ pc' = "add" /\ u \in todo.new
      /\ cur' = [src |-> u, dst |-> 0, msg |-> ImapBody(src, u),
                 flags |-> list[src][u].flags]
      /\ todo' = [todo EXCEPT !.new = @ \ {u}]
      /\ UNCHANGED <<box, list, uidnext, db, config, iter, src, outcome, auxVars>>
  BY Dispatch DEF ReadNew, Body, TypeOK, folderVars
<1>2. /\ todo'.new = todo.new \ {u} /\ todo'.del = todo.del
      /\ todo'.chg = todo.chg
      /\ todo' \in [new : SUBSET UID, del : SUBSET Row, chg : SUBSET Row]
  BY <1>1 DEF TypeOK
<1>3. /\ list[src][u] # Absent /\ list[src][u] \in Entry
      /\ RowsOf(src, u) = {} /\ src \in Stores
  BY <1>1 DEF TodoInv, Syncing, TypeOK, FolderTypeOK
<1>4. cur' \in [src : UID, dst : UID, msg : Msg \cup {Blank},
                flags : SUBSET Letter]
  <2>1. ImapBody(src, u) \in Msg \cup {Blank}
    BY <1>3 DEF ImapBody, TypeOK, FolderTypeOK, Copy
  <2>2. list[src][u].flags \in SUBSET Letter /\ 0 \in UID
    BY <1>3 DEF Entry, UID
  <2> QED
    BY <1>1, <2>1, <2>2
<1>5. TypeOK'
  BY <1>1, <1>2, <1>4 DEF TypeOK, FolderTypeOK, PCs, auxVars
<1>6. BoxInv' /\ ListInv' /\ RowInv' /\ PairInv'
  BY <1>1, Quiet DEF auxVars
<1>7. CoverInv'
  BY <1>1 DEF CoverInv, Syncing
<1>8. TodoInv'
  BY <1>1, <1>2 DEF TodoInv, Syncing, RowsOf
<1>9. CurInv'
  <2>1. cur'.src = u /\ cur'.msg = ImapBody(src, u)
        /\ cur'.flags = list[src][u].flags
    BY <1>1
  <2>2. Holds(src, cur.src)'
    BY <1>1, <1>3, <2>1 DEF Holds, RowsOf, ImapBody, Released
  <2>3. "T" \in cur'.flags => Released(cur.msg)'
    BY <1>1, <1>3, <2>1 DEF ListInv, ImapBody, Released, auxVars
  <2> QED
    BY <1>1, <1>2, <2>1, <2>2, <2>3 DEF CurInv, Adding
<1> QED
  BY <1>5, <1>6, <1>7, <1>8, <1>9

(* The appended message gets a uid that no row and no list entry has.      *)
LEMMA AddInv ==
    ASSUME AllImap, IInv, AddNew
    PROVE  IInv'
<1> USE DEF IInv
<1>1. PICK v \in UID : /\ ImapAddMessage(dst, cur.msg, cur.flags, v)
                       /\ cur' = [cur EXCEPT !.dst = v]
  BY Dispatch, OtherStore DEF AddNew, AddMessage, TypeOK, dst
<1>2. /\ pc = "add" /\ pc' = "update"
      /\ UNCHANGED <<db, config, iter, src, todo, outcome, auxVars>>
  BY DEF AddNew
<1>3. /\ src \in Stores /\ dst \in Stores /\ dst # src
      /\ cur.msg \in Msg \cup {Blank} /\ cur.flags \in SUBSET Letter
  BY OtherStore DEF TypeOK, dst
<1>4. /\ box' \in [Stores -> [UID -> Copy \cup {Absent}]]
      /\ uidnext' \in [Stores -> Nat \ {0}]
      /\ v = uidnext[dst] /\ 0 < v
      /\ box'[dst][v] = [msg |-> cur.msg, uid |-> v, flags |-> cur.flags \cap Mapped]
      /\ box'[dst][v] # Absent
      /\ BoxSameBut(dst, v)
      /\ uidnext'[dst] = v + 1
      /\ \A t \in Stores : t # dst => uidnext'[t] = uidnext[t]
  <2>1. ServerAppend(dst, cur.msg, cur.flags \cap Mapped, v)
    BY <1>1 DEF ImapAddMessage
  <2>2. cur.flags \cap Mapped \in SUBSET Letter
    BY <1>3
  <2> QED
    BY <1>3, <2>1, <2>2, AppendEffect, ZenonT(30) DEF TypeOK
<1>5. /\ list' \in [Stores -> [UID -> Entry \cup {Absent}]]
      /\ list'[dst][v] # Absent /\ list'[dst][v].flags = cur.flags
      /\ ListSameBut(dst, v)
  BY <1>1, <1>3, AddEffect DEF TypeOK
<1>6. /\ cur'.src = cur.src /\ cur'.dst = v /\ cur'.msg = cur.msg
      /\ cur'.flags = cur.flags
      /\ cur' \in [src : UID, dst : UID, msg : Msg \cup {Blank},
                   flags : SUBSET Letter]
  BY <1>1 DEF TypeOK
<1>7. TypeOK'
  BY <1>2, <1>4, <1>5, <1>6 DEF TypeOK, FolderTypeOK, PCs, auxVars
<1>8. /\ Holds(src, cur.src) /\ cur.src \notin todo.new
      /\ "T" \in cur.flags => Released(cur.msg)
  BY <1>2 DEF CurInv, Adding
<1>10. v \in Nat /\ uidnext \in [Stores -> Nat \ {0}]
  BY DEF UID, TypeOK, FolderTypeOK
<1>9. \A t \in Stores : uidnext[t] <= uidnext'[t]
  <2> SUFFICES ASSUME NEW t \in Stores PROVE uidnext[t] <= uidnext'[t]
    OBVIOUS
  <2>1. uidnext[t] \in Nat
    BY <1>10
  <2>2. CASE t = dst
    BY <1>4, <1>10, <2>1, <2>2
  <2>3. CASE t # dst
    BY <1>4, <2>1, <2>3
  <2> QED
    BY <2>2, <2>3
<1>11. BoxInv'
  <2> SUFFICES ASSUME NEW t \in Stores, NEW h \in UID, box'[t][h] # Absent
               PROVE  /\ 0 < h /\ h < uidnext'[t]
                      /\ box'[t][h].uid = h
                      /\ "T" \in box'[t][h].flags
                            => box'[t][h].msg \in gone' \cup {Blank}
    BY DEF BoxInv, Released
  <2>1. CASE t = dst /\ h = v
    BY <1>2, <1>4, <1>8, <1>10, <2>1 DEF Released, auxVars
  <2>2. CASE t # dst \/ h # v
    <3>1. h \in Nat /\ uidnext'[t] \in Nat
      BY <1>4 DEF UID
    <3> QED
      BY <1>2, <1>4, <1>9, <1>10, <2>2, <3>1 DEF BoxInv, BoxSameBut, Released, auxVars
  <2> QED
    BY <2>1, <2>2
<1>12. ListInv'
  <2> SUFFICES ASSUME NEW t \in Stores, NEW h \in UID, list'[t][h] # Absent
               PROVE  /\ 0 < h /\ h < uidnext'[t]
                      /\ box'[t][h] # Absent /\ "T" \in list'[t][h].flags
                            => box'[t][h].msg \in gone' \cup {Blank}
    BY DEF ListInv, Released
  <2>1. CASE t = dst /\ h = v
    BY <1>2, <1>4, <1>5, <1>8, <1>10, <2>1 DEF Released, auxVars
  <2>2. CASE t # dst \/ h # v
    <3>1. h \in Nat /\ uidnext'[t] \in Nat
      BY <1>4 DEF UID
    <3> QED
      BY <1>2, <1>4, <1>5, <1>9, <1>10, <2>2, <3>1
         DEF ListInv, BoxSameBut, ListSameBut, Released, auxVars
  <2> QED
    BY <2>1, <2>2
<1>13. \A r \in db, t \in Stores : /\ r.uid[t] \in UID
                                   /\ t # dst \/ r.uid[t] # v
                                   /\ box'[t][r.uid[t]] = box[t][r.uid[t]]
                                   /\ list'[t][r.uid[t]] = list[t][r.uid[t]]
  <2> SUFFICES ASSUME NEW r \in db, NEW t \in Stores
               PROVE  /\ r.uid[t] \in UID
                      /\ t # dst \/ r.uid[t] # v
    BY <1>4, <1>5 DEF BoxSameBut, ListSameBut
  <2>1. r.uid[t] \in UID /\ r.uid[t] < uidnext[t]
    BY DEF TypeOK, Row, RowInv
  <2> QED
    BY <1>4, <1>10, <2>1 DEF UID
<1>14. RowInv'
  <2> SUFFICES ASSUME NEW r \in db, NEW t \in Stores
               PROVE  0 < r.uid[t] /\ r.uid[t] < uidnext'[t]
    BY <1>2 DEF RowInv, RowsOneToOne
  <2> QED
    BY <1>4, <1>9, <1>10, <1>13 DEF RowInv, UID
<1>15. PairInv'
  BY <1>2, <1>13, PairsStay DEF auxVars
<1>16. CoverInv'
  BY <1>2, <1>6, <1>13 DEF CoverInv, Syncing, Stores
<1>17. TodoInv'
  <2>1. \A u \in UID : list'[src][u] = list[src][u]
    BY <1>3, <1>5 DEF ListSameBut
  <2>2. \A r \in Row : r.uid[src] \in UID
    BY <1>3 DEF Row
  <2> QED
    BY <1>2, <2>1, <2>2 DEF TodoInv, Syncing, RowsOf, TypeOK
<1>18. CurInv'
  <2>1. Holds(src, cur.src)'
    BY <1>2, <1>3, <1>4, <1>5, <1>6, <1>8
       DEF Holds, RowsOf, BoxSameBut, ListSameBut, Released, TypeOK, auxVars
  <2>2. RowsOf(dst, v) = {}
    BY <1>3, <1>13 DEF RowsOf
  <2>3. Holds(dst, cur.dst)'
    BY <1>2, <1>4, <1>5, <1>6, <2>2 DEF Holds, RowsOf, dst
  <2> QED
    BY <1>2, <1>6, <1>8, <2>1, <2>3 DEF CurInv, Adding, Released, auxVars
<1> QED
  BY <1>7, <1>11, <1>12, <1>14, <1>15, <1>16, <1>17, <1>18

LEMMA UpdateInv ==
    ASSUME AllImap, IInv, UpdateSource
    PROVE  IInv'
<1> USE DEF IInv
<1>1. /\ pc = "update" /\ pc' = "commit"
      /\ cur' = cur
      /\ UNCHANGED <<box, list, uidnext, db, config, iter, src, todo, outcome, auxVars>>
  BY Dispatch DEF UpdateSource, UpdateMessage, TypeOK, folderVars
<1>2. TypeOK'
  BY <1>1 DEF TypeOK, FolderTypeOK, PCs, auxVars
<1>3. BoxInv' /\ ListInv' /\ RowInv' /\ PairInv'
  BY <1>1, Quiet DEF auxVars
<1>4. CoverInv' /\ TodoInv'
  BY <1>1 DEF CoverInv, TodoInv, Syncing, RowsOf
<1>5. CurInv'
  BY <1>1 DEF CurInv, Adding, Holds, RowsOf, Released, dst, auxVars
<1> QED
  BY <1>2, <1>3, <1>4, <1>5
-----------------------------------------------------------------------------
(* Rows: a committed pair, a replaced row, a deleted one.                  *)
LEMMA PairFacts ==
    ASSUME NEW s \in Stores, NEW u \in UID, NEW v \in UID
    PROVE  /\ Pair(s, u, v) \in [Stores -> UID]
           /\ Pair(s, u, v)[s] = u
           /\ Pair(s, u, v)[Other(s)] = v
BY OtherStore DEF Pair

LEMMA CommittedFacts ==
    ASSUME Committed, TypeOK
    PROVE  /\ pc' = "work" /\ cur' = NoCur
           /\ cur' \in [src : UID, dst : UID, msg : Msg \cup {Blank},
                        flags : SUBSET Letter]
           /\ UNCHANGED <<box, list, uidnext, config, iter, src, todo, outcome,
                          born, gone, disturbed, userops, faults>>
BY DEF Committed, NoCur, UID, folderVars, auxVars

LEMMA CommitNewInv ==
    ASSUME AllImap, IInv, CommitNew
    PROVE  IInv'
<1> DEFINE n == [uid |-> Pair(src, cur.src, cur.dst), flags |-> cur.flags]
<1> USE DEF IInv
<1>1. /\ pc = "commit" /\ pc' = "work" /\ cur' = NoCur
      /\ cur' \in [src : UID, dst : UID, msg : Msg \cup {Blank},
                   flags : SUBSET Letter]
      /\ UNCHANGED <<box, list, uidnext, config, iter, src, todo, outcome,
                     born, gone, disturbed, userops, faults>>
      /\ db' = {r \in db : r.uid # n.uid} \cup {n}
  BY CommittedFacts DEF CommitNew, RowUpdated
<1>2. /\ src \in Stores /\ dst \in Stores /\ dst = Other(src) /\ Other(dst) = src
      /\ cur.src \in UID /\ cur.dst \in UID /\ cur.flags \in SUBSET Letter
  BY OtherStore DEF TypeOK, dst
<1>3. n \in Row /\ n.uid[src] = cur.src /\ n.uid[dst] = cur.dst
  BY <1>2, PairFacts DEF Row
<1>4. /\ Holds(src, cur.src) /\ Holds(dst, cur.dst)
      /\ cur.src \notin todo.new
  BY <1>1 DEF CurInv, Adding
<1>5. \A t \in Stores : t = src \/ t = dst
  BY <1>2 DEF Stores, Other
<1> HIDE DEF n
<1>6. \A r \in db' : r \in db \/ r = n
  BY <1>1
<1>7. TypeOK'
  BY <1>1, <1>3, <1>6 DEF TypeOK, FolderTypeOK, PCs
<1>8. BoxInv' /\ ListInv'
  BY <1>1 DEF BoxInv, ListInv, Released
<1>9. RowInv'
  <2>1. \A t \in Stores : 0 < n.uid[t] /\ n.uid[t] < uidnext[t]
    BY <1>2, <1>3, <1>4, <1>5 DEF Holds, ListInv
  <2>2. \A r \in db, t \in Stores : r.uid[t] # n.uid[t]
    BY <1>2, <1>3, <1>4, <1>5 DEF Holds, RowsOf
  <2> QED
    BY <1>1, <1>6, <2>1, <2>2 DEF RowInv, RowsOneToOne
<1>10. PairInv'
  <2>1. Paired(src, cur.src, cur.dst) /\ Paired(dst, cur.dst, cur.src)
    BY <1>2, <1>4 DEF Holds, Paired
  <2> QED
    BY <1>1, <1>2, <1>3, <1>5, <1>6, <2>1 DEF PairInv, Paired, Released
<1>11. CoverInv'
  <2>1. \A t \in Stores : list[t][n.uid[t]] # Absent
    BY <1>2, <1>3, <1>4, <1>5 DEF Holds
  <2> QED
    BY <1>1, <1>6, <2>1 DEF CoverInv, Syncing, Stores
<1>12. TodoInv'
  <2>1. \A u \in todo.new : RowsOf(src, u)' = {}
    BY <1>1, <1>3, <1>4, <1>6 DEF TodoInv, Syncing, RowsOf
  <2> QED
    BY <1>1, <2>1 DEF TodoInv, Syncing
<1>13. CurInv'
  BY <1>1 DEF CurInv, Adding
<1> QED
  BY <1>7, <1>8, <1>9, <1>10, <1>11, <1>12, <1>13

LEMMA CommitDeleteInv ==
    ASSUME IInv, CommitDelete
    PROVE  IInv'
<1> USE DEF IInv
<1>1. /\ pc = "commitDel" /\ pc' = "work" /\ cur' = NoCur
      /\ cur' \in [src : UID, dst : UID, msg : Msg \cup {Blank},
                   flags : SUBSET Letter]
      /\ UNCHANGED <<box, list, uidnext, config, iter, src, todo, outcome,
                     born, gone, disturbed, userops, faults>>
      /\ db' = {r \in db : r.uid[src] # cur.src}
  BY CommittedFacts DEF CommitDelete, RowDeleted, RowsOf
<1>2. TypeOK'
  BY <1>1 DEF TypeOK, FolderTypeOK, PCs
<1>3. BoxInv' /\ ListInv' /\ RowInv' /\ PairInv'
  BY <1>1 DEF BoxInv, ListInv, RowInv, RowsOneToOne, PairInv, Paired, Released
<1>4. CoverInv'
  BY <1>1 DEF CoverInv, Syncing
<1>5. TodoInv' /\ CurInv'
  BY <1>1 DEF TodoInv, CurInv, Syncing, Adding, RowsOf
<1> QED
  BY <1>2, <1>3, <1>4, <1>5

LEMMA CommitChangeInv ==
    ASSUME IInv, CommitChange
    PROVE  IInv'
<1> DEFINE n == [uid |-> Pair(src, cur.src, cur.dst), flags |-> cur.flags]
<1> USE DEF IInv
<1>1. /\ pc = "commitChg" /\ pc' = "work" /\ cur' = NoCur
      /\ cur' \in [src : UID, dst : UID, msg : Msg \cup {Blank},
                   flags : SUBSET Letter]
      /\ UNCHANGED <<box, list, uidnext, config, iter, src, todo, outcome,
                     born, gone, disturbed, userops, faults>>
      /\ db' = {r \in db : r.uid # n.uid} \cup {n}
  BY CommittedFacts DEF CommitChange, RowUpdated
<1>2. PICK q \in db : q.uid = n.uid
  BY <1>1 DEF CurInv
<1>3. n \in Row
  BY <1>2, PairFacts DEF TypeOK, Row
<1> HIDE DEF n
<1>4. \A r \in db' : \E p \in db : p.uid = r.uid
  BY <1>1, <1>2
<1>5. TypeOK'
  BY <1>1, <1>3 DEF TypeOK, FolderTypeOK, PCs
<1>6. BoxInv' /\ ListInv'
  BY <1>1 DEF BoxInv, ListInv, Released
<1>7. RowInv'
  <2>1. \A r \in db', t \in Stores : 0 < r.uid[t] /\ r.uid[t] < uidnext'[t]
    BY <1>1, <1>4 DEF RowInv
  <2>2. \A r \in db, t \in Stores : r.uid[t] = n.uid[t] => r.uid = n.uid
    BY <1>2 DEF RowInv, RowsOneToOne
  <2>3. RowsOneToOne'
    BY <1>1, <2>2 DEF RowInv, RowsOneToOne
  <2> QED
    BY <2>1, <2>3 DEF RowInv
<1>8. PairInv'
  BY <1>1, <1>4 DEF PairInv, Paired, Released
<1>9. CoverInv'
  BY <1>1, <1>4 DEF CoverInv, Syncing
<1>10. TodoInv'
  BY <1>1, <1>4 DEF TodoInv, Syncing, RowsOf
<1>11. CurInv'
  BY <1>1 DEF CurInv, Adding
<1> QED
  BY <1>5, <1>6, <1>7, <1>8, <1>9, <1>10, <1>11
-----------------------------------------------------------------------------
(* Deletions and flag changes: UID STORE on the destination.               *)
LEMMA StoreInv ==
    ASSUME IInv, NEW s \in Stores, NEW u \in UID, NEW fl \in SUBSET Letter,
           ServerStore(s, u, fl), UNCHANGED <<uidnext, db, gone>>,
           "T" \in fl /\ box[s][u] # Absent => Released(box[s][u].msg)
    PROVE  /\ box' \in [Stores -> [UID -> Copy \cup {Absent}]]
           /\ \A t \in Stores, h \in UID :
                 /\ box'[t][h] = Absent <=> box[t][h] = Absent
                 /\ box[t][h] # Absent => box'[t][h].msg = box[t][h].msg
           /\ BoxInv' /\ RowInv' /\ PairInv'
<1> USE DEF IInv
<1>1. /\ box' \in [Stores -> [UID -> Copy \cup {Absent}]]
      /\ BoxSameBut(s, u)
      /\ box[s][u] = Absent => box'[s][u] = Absent
      /\ box[s][u] # Absent =>
            /\ box'[s][u] # Absent
            /\ box'[s][u].msg = box[s][u].msg
            /\ box'[s][u].uid = box[s][u].uid
            /\ box'[s][u].flags \subseteq fl
  BY StoreEffect DEF TypeOK
<1>2. \A t \in Stores, h \in UID :
         /\ box'[t][h] = Absent <=> box[t][h] = Absent
         /\ box[t][h] # Absent => box'[t][h].msg = box[t][h].msg
  BY <1>1 DEF BoxSameBut
<1>3. BoxInv'
  <2> SUFFICES ASSUME NEW t \in Stores, NEW h \in UID, box'[t][h] # Absent
               PROVE  /\ 0 < h /\ h < uidnext'[t]
                      /\ box'[t][h].uid = h
                      /\ "T" \in box'[t][h].flags
                            => box'[t][h].msg \in gone' \cup {Blank}
    BY DEF BoxInv, Released
  <2>1. CASE t = s /\ h = u
    BY <1>1, <2>1 DEF BoxInv, Released
  <2>2. CASE t # s \/ h # u
    BY <1>1, <2>2 DEF BoxInv, Released, BoxSameBut
  <2> QED
    BY <2>1, <2>2
<1>4. \A r \in db, t \in Stores : r.uid[t] \in UID
  BY DEF TypeOK, Row
<1>5. RowInv'
  BY DEF RowInv, RowsOneToOne
<1>6. PairInv'
  <2> SUFFICES ASSUME NEW r \in db, NEW t \in Stores
               PROVE  Paired(t, r.uid[t], r.uid[Other(t)])'
    BY DEF PairInv
  <2>1. /\ r.uid[t] \in UID /\ r.uid[Other(t)] \in UID
        /\ Other(t) \in Stores
    BY <1>4, OtherStore
  <2>2. Paired(t, r.uid[t], r.uid[Other(t)])
    BY DEF PairInv
  <2> QED
    BY <1>2, <2>1, <2>2 DEF Paired, Released
<1> QED
  BY <1>1, <1>2, <1>3, <1>5, <1>6

(* The row of u says which copy is meant; without one there is no uid 0.   *)
LEMMA DststoreUIDFacts ==
    ASSUME IInv, NEW u \in UID, NEW v \in DststoreUID(src, u),
           list[dst][v] # Absent
    PROVE  v \in UID /\ \E r \in db : r.uid = Pair(src, u, v)
<1> USE DEF IInv
<1>1. src \in Stores /\ dst \in Stores /\ dst = Other(src) /\ src # dst
      /\ Stores = {src, dst}
  BY OtherStore DEF TypeOK, dst, Stores, Other
<1>2. RowsOf(src, u) # {}
  <2> SUFFICES ASSUME RowsOf(src, u) = {} PROVE FALSE
    OBVIOUS
  <2>1. v = 0 /\ v \in UID
    BY DEF DststoreUID, UID
  <2> QED
    BY <1>1, <2>1 DEF ListInv
<1>3. PICK r \in db : r.uid[src] = u /\ r.uid[dst] = v
  BY <1>1, <1>2 DEF DststoreUID, RowsOf
<1>4. r.uid \in [Stores -> UID]
  BY DEF TypeOK, Row
<1>5. r.uid = Pair(src, u, v)
  BY <1>1, <1>3, <1>4 DEF Pair
<1> QED
  BY <1>1, <1>3, <1>4, <1>5

(* The list after a deletion or a flag change of uid v of the destination. *)
LEMMA ListAfterStore ==
    ASSUME IInv, pc = "work", pc' \in {"commitDel", "commitChg"},
           NEW v \in UID, NEW fl \in SUBSET Letter,
           UNCHANGED <<uidnext, db, src, gone>>,
           \A t \in Stores, h \in UID :
              /\ box'[t][h] = Absent <=> box[t][h] = Absent
              /\ box[t][h] # Absent => box'[t][h].msg = box[t][h].msg,
           ListSameBut(dst, v),
           list'[dst][v] # Absent =>
              /\ list[dst][v] # Absent
              /\ list'[dst][v].flags = fl
              /\ "T" \in fl /\ box[dst][v] # Absent => Released(box[dst][v].msg),
           list'[dst][v] = Absent =>
              /\ pc' = "commitDel"
              /\ \A q \in db : q.uid[dst] = v => q.uid[src] = cur'.src,
           todo'.new = todo.new, todo'.del \subseteq todo.del,
           todo'.chg \subseteq todo.chg
    PROVE  ListInv' /\ CoverInv' /\ TodoInv'
<1> USE DEF IInv
<1>1. /\ src \in Stores /\ dst \in Stores /\ src # dst /\ src' = src
      /\ Stores = {src, dst} /\ Stores = {1, 2}
  BY OtherStore DEF TypeOK, dst, Stores, Other
<1>2. ListInv'
  <2> SUFFICES ASSUME NEW t \in Stores, NEW h \in UID, list'[t][h] # Absent
               PROVE  /\ 0 < h /\ h < uidnext'[t]
                      /\ box'[t][h] # Absent /\ "T" \in list'[t][h].flags
                            => box'[t][h].msg \in gone' \cup {Blank}
    BY DEF ListInv, Released
  <2>1. CASE t = dst /\ h = v
    BY <2>1 DEF ListInv, Released
  <2>2. CASE t # dst \/ h # v
    BY <2>2 DEF ListInv, Released, ListSameBut
  <2> QED
    BY <2>1, <2>2
<1>3. CoverInv'
  <2>1. ASSUME NEW q \in db, NEW t \in Stores
        PROVE  \/ list'[t][q.uid[t]] # Absent
               \/ box'[t][q.uid[t]] = Absent
               \/ pc' = "commitDel" /\ q.uid[src] = cur'.src
    <3>1. q.uid[t] \in UID
      BY DEF TypeOK, Row
    <3>2. list[t][q.uid[t]] # Absent \/ box[t][q.uid[t]] = Absent
      BY <1>1 DEF CoverInv, Syncing
    <3>3. CASE t = dst /\ q.uid[t] = v
      BY <3>1, <3>2, <3>3
    <3>4. CASE t # dst \/ q.uid[t] # v
      BY <3>1, <3>2, <3>4 DEF ListSameBut
    <3> QED
      BY <3>3, <3>4
  <2>2. ASSUME NEW q \in db
        PROVE  /\ \/ list'[1][q.uid[1]] # Absent
                  \/ box'[1][q.uid[1]] = Absent
                  \/ pc' = "commitDel" /\ q.uid[src'] = cur'.src
               /\ \/ list'[2][q.uid[2]] # Absent
                  \/ box'[2][q.uid[2]] = Absent
                  \/ pc' = "commitDel" /\ q.uid[src'] = cur'.src
    BY <1>1, <2>1
  <2> QED
    BY <2>2 DEF CoverInv
<1>4. TodoInv'
  <2>1. \A h \in UID : list'[src][h] = list[src][h]
    BY <1>1 DEF ListSameBut
  <2>2. \A r \in Row : r.uid[src] \in UID
    BY <1>1 DEF Row
  <2> QED
    BY <1>1, <2>1, <2>2 DEF TodoInv, Syncing, RowsOf, TypeOK
<1> QED
  BY <1>2, <1>3, <1>4

LEMMA DeleteInv ==
    ASSUME AllImap, IInv, DeleteMessages
    PROVE  IInv'
<1> PICK r \in todo.del, v \in UID : DeleteRow(r, v)
  BY DEF DeleteMessages
<1> DEFINE u == r.uid[src]
<1> USE DEF IInv
<1>0. CASE Abort /\ UNCHANGED folderVars
  BY <1>0, AbortInv
<1>2. CASE ~Abort /\ UNCHANGED folderVars
  <2>1. /\ pc = "work" /\ pc' = "commitDel"
        /\ cur' = [NoCur EXCEPT !.src = u, !.dst = v]
        /\ todo' = [todo EXCEPT !.del = @ \ {r}]
        /\ UNCHANGED <<config, iter, src, outcome, db, auxVars>>
    BY <1>2 DEF DeleteRow
  <2>2. r \in Row /\ u \in UID
    BY DEF TypeOK, Row
  <2>3. cur' \in [src : UID, dst : UID, msg : Msg \cup {Blank},
                  flags : SUBSET Letter]
    BY <2>1, <2>2 DEF NoCur, UID
  <2>4. /\ todo'.new = todo.new /\ todo'.del \subseteq todo.del
        /\ todo'.chg = todo.chg
        /\ todo' \in [new : SUBSET UID, del : SUBSET Row, chg : SUBSET Row]
    BY <2>1 DEF TypeOK
  <2>5. TypeOK'
    BY <1>2, <2>1, <2>3, <2>4 DEF TypeOK, FolderTypeOK, PCs, folderVars, auxVars
  <2>6. BoxInv' /\ ListInv' /\ RowInv' /\ PairInv'
    BY <1>2, <2>1, Quiet DEF folderVars, auxVars
  <2>7. CoverInv' /\ TodoInv'
    BY <1>2, <2>1, <2>4 DEF CoverInv, TodoInv, RowsOf, Syncing, folderVars
  <2>8. CurInv'
    BY <2>1 DEF CurInv, Adding
  <2> QED
    BY <2>5, <2>6, <2>7, <2>8
<1>1. CASE ~UNCHANGED folderVars
  <2>1. /\ pc = "work" /\ pc' = "commitDel" /\ v \in DststoreUID(src, u)
        /\ DeleteDst(r, v)
        /\ cur' = [NoCur EXCEPT !.src = u, !.dst = v]
        /\ todo' = [todo EXCEPT !.del = @ \ {r}]
        /\ UNCHANGED <<config, iter, src, outcome, db, auxVars>>
    BY <1>1 DEF DeleteRow
  <2>2. /\ src \in Stores /\ dst \in Stores /\ src # dst /\ dst = Other(src)
        /\ Other(dst) = src /\ Stores = {1, 2}
        /\ r \in Row /\ u \in UID
    BY OtherStore DEF TypeOK, dst, Stores, Row
  <2>3. list[src][u] = Absent /\ list[dst][v] # Absent
    BY <2>1 DEF TodoInv, Syncing, DeleteDst, HasUID
  <2>4. PICK q \in db : q.uid = Pair(src, u, v)
    BY <2>1, <2>2, <2>3, DststoreUIDFacts
  <2>5. q.uid[src] = u /\ q.uid[dst] = v
    BY <2>2, <2>4, PairFacts
  <2>6. box[src][u] = Absent
    BY <2>1, <2>2, <2>3, <2>5 DEF CoverInv, Syncing
  <2>7. box[dst][v] # Absent => Released(box[dst][v].msg)
    BY <2>2, <2>5, <2>6 DEF PairInv, Paired
  <2>8. PICK fl \in SUBSET Letter :
           /\ ServerStore(dst, v, fl) /\ uidnext' = uidnext
           /\ list' \in [Stores -> [UID -> Entry \cup {Absent}]]
           /\ ListSameBut(dst, v)
           /\ list'[dst][v] # Absent => list'[dst][v].flags = fl
    <3>1. CASE ImapDeleteMessage(dst, v)
      <4>1. {"T"} \in SUBSET Letter
        BY DEF Letter, Mapped
      <4> QED
        BY <2>2, <3>1, <4>1, DeleteEffect DEF ImapDeleteMessage, TypeOK
    <3>2. CASE ImapSetFlags(dst, v, list[dst][v].flags \cup Newflags)
      <4> DEFINE g == list[dst][v].flags \cup Newflags
      <4>1. g \in SUBSET Letter
        BY <2>2, <2>3 DEF TypeOK, FolderTypeOK, Entry, Letter
      <4>2. ImapSetFlags(dst, v, g)
        BY <3>2
      <4> HIDE DEF g
      <4>3. ServerStore(dst, v, g) /\ uidnext' = uidnext
        BY <4>2 DEF ImapSetFlags
      <4>4. /\ list' \in [Stores -> [UID -> Entry \cup {Absent}]]
            /\ ListSameBut(dst, v)
            /\ list'[dst][v].flags = g
        BY <2>2, <4>1, <4>2, SetFlagsEffect DEF TypeOK
      <4> QED
        BY <4>1, <4>3, <4>4
    <3> QED
      BY <1>1, <2>1, <2>2, <2>3, <3>1, <3>2, Dispatch
         DEF DeleteDst, DeleteMessage, SetFlags
  <2>9. /\ box' \in [Stores -> [UID -> Copy \cup {Absent}]]
        /\ \A t \in Stores, h \in UID :
              /\ box'[t][h] = Absent <=> box[t][h] = Absent
              /\ box[t][h] # Absent => box'[t][h].msg = box[t][h].msg
        /\ BoxInv' /\ RowInv' /\ PairInv'
    BY <2>1, <2>2, <2>7, <2>8, StoreInv DEF auxVars
  <2>10. /\ cur'.src = u
         /\ cur' \in [src : UID, dst : UID, msg : Msg \cup {Blank},
                      flags : SUBSET Letter]
    BY <2>1, <2>2 DEF NoCur, UID
  <2>11. /\ todo'.new = todo.new /\ todo'.del \subseteq todo.del
         /\ todo'.chg = todo.chg
         /\ todo' \in [new : SUBSET UID, del : SUBSET Row, chg : SUBSET Row]
    BY <2>1 DEF TypeOK
  <2>12. TypeOK'
    BY <2>1, <2>8, <2>9, <2>10, <2>11 DEF TypeOK, FolderTypeOK, PCs, auxVars
  <2>13. \A p \in db : p.uid[dst] = v => p.uid[src] = cur'.src
    BY <2>2, <2>5, <2>10 DEF RowInv, RowsOneToOne
  <2>14. ListInv' /\ CoverInv' /\ TodoInv'
    BY <2>1, <2>3, <2>7, <2>8, <2>9, <2>11, <2>13, ListAfterStore DEF auxVars
  <2>15. CurInv'
    BY <2>1 DEF CurInv, Adding
  <2> QED
    BY <2>9, <2>12, <2>14, <2>15
<1> QED
  BY <1>0, <1>1, <1>2

LEMMA ChangeInv ==
    ASSUME AllImap, IInv, ChangeMessages
    PROVE  IInv'
<1> PICK r \in todo.chg, v \in UID : ChangeRow(r, v)
  BY DEF ChangeMessages
<1> DEFINE u == r.uid[src]
           fl == list[src][u].flags
<1> USE DEF IInv
<1>0. CASE Abort /\ UNCHANGED folderVars
  BY <1>0, AbortInv
<1>1. CASE /\ todo' = [todo EXCEPT !.chg = @ \ {r}]
           /\ UNCHANGED <<folderVars, config, pc, iter, src, cur, outcome, db, auxVars>>
  <2>1. /\ todo'.new = todo.new /\ todo'.del = todo.del
        /\ todo'.chg \subseteq todo.chg
        /\ todo' \in [new : SUBSET UID, del : SUBSET Row, chg : SUBSET Row]
    BY <1>1 DEF TypeOK
  <2>2. TypeOK'
    BY <1>1, <2>1 DEF TypeOK, FolderTypeOK, folderVars, auxVars
  <2>3. BoxInv' /\ ListInv' /\ RowInv' /\ PairInv'
    BY <1>1, Quiet DEF folderVars, auxVars
  <2>4. CoverInv' /\ TodoInv'
    BY <1>1, <2>1 DEF CoverInv, TodoInv, RowsOf, folderVars
  <2>5. CurInv'
    BY <1>1, <2>1 DEF CurInv, Holds, RowsOf, Released, folderVars, auxVars, dst
  <2> QED
    BY <2>2, <2>3, <2>4, <2>5
<1>2. CASE /\ CanSetFlags(dst, v)
           /\ SetFlags(dst, v, fl)
           /\ cur' = [src |-> u, dst |-> v, msg |-> Blank, flags |-> fl]
           /\ todo' = [todo EXCEPT !.chg = @ \ {r}]
           /\ pc' = "commitChg"
           /\ UNCHANGED <<config, iter, src, outcome, db, auxVars>>
  <2>1. pc = "work" /\ v \in DststoreUID(src, u)
    BY DEF ChangeRow
  <2>2. /\ src \in Stores /\ dst \in Stores /\ src # dst /\ dst = Other(src)
        /\ Other(dst) = src
        /\ r \in Row /\ u \in UID
    BY OtherStore DEF TypeOK, dst, Row
  <2>3. list[src][u] # Absent /\ list[dst][v] # Absent
    BY <1>2, <2>1, <2>2, Dispatch DEF TodoInv, Syncing
  <2>4. fl \in SUBSET Letter
    BY <2>2, <2>3 DEF TypeOK, FolderTypeOK, Entry
  <2>5. PICK q \in db : q.uid = Pair(src, u, v)
    BY <2>1, <2>2, <2>3, DststoreUIDFacts
  <2>6. q.uid[src] = u /\ q.uid[dst] = v
    BY <2>2, <2>5, PairFacts
  <2>7. "T" \in fl /\ box[dst][v] # Absent => Released(box[dst][v].msg)
    <3>1. CASE box[src][u] = Absent
      BY <2>2, <2>6, <3>1 DEF PairInv, Paired
    <3>2. CASE box[src][u] # Absent
      BY <2>2, <2>3, <2>6, <3>2 DEF PairInv, Paired, ListInv
    <3> QED
      BY <3>1, <3>2
  <2> HIDE DEF fl
  <2>8. ImapSetFlags(dst, v, fl)
    BY <1>2, <2>2, Dispatch DEF SetFlags
  <2>9. ServerStore(dst, v, fl) /\ uidnext' = uidnext
    BY <2>8 DEF ImapSetFlags
  <2>10. /\ list' \in [Stores -> [UID -> Entry \cup {Absent}]]
         /\ ListSameBut(dst, v)
         /\ list'[dst][v] # Absent /\ list'[dst][v].flags = fl
    BY <2>2, <2>4, <2>8, SetFlagsEffect DEF TypeOK
  <2>11. /\ box' \in [Stores -> [UID -> Copy \cup {Absent}]]
         /\ \A t \in Stores, h \in UID :
               /\ box'[t][h] = Absent <=> box[t][h] = Absent
               /\ box[t][h] # Absent => box'[t][h].msg = box[t][h].msg
         /\ BoxInv' /\ RowInv' /\ PairInv'
    BY <1>2, <2>2, <2>4, <2>7, <2>9, StoreInv DEF auxVars
  <2>12. /\ cur'.src = u /\ cur'.dst = v
         /\ cur' \in [src : UID, dst : UID, msg : Msg \cup {Blank},
                      flags : SUBSET Letter]
    BY <1>2, <2>2, <2>4
  <2>13. /\ todo'.new = todo.new /\ todo'.del = todo.del
         /\ todo'.chg \subseteq todo.chg
         /\ todo' \in [new : SUBSET UID, del : SUBSET Row, chg : SUBSET Row]
    BY <1>2 DEF TypeOK
  <2>14. TypeOK'
    BY <1>2, <2>9, <2>10, <2>11, <2>12, <2>13
       DEF TypeOK, FolderTypeOK, PCs, auxVars
  <2>15. ListInv' /\ CoverInv' /\ TodoInv'
    BY <1>2, <2>1, <2>3, <2>4, <2>7, <2>9, <2>10, <2>11, <2>13, ListAfterStore
       DEF auxVars
  <2>16. CurInv'
    BY <1>2, <2>5, <2>12 DEF CurInv, Adding
  <2> QED
    BY <2>11, <2>14, <2>15, <2>16
<1> QED
  BY <1>0, <1>1, <1>2 DEF ChangeRow
-----------------------------------------------------------------------------
(* The deferred Close of both folders expunges what is flagged Deleted.    *)
LEMMA CloseInv ==
    ASSUME AllImap, IInv, Close2 \/ Close1
    PROVE  IInv'
<1> DEFINE s == IF pc = "close2" THEN 2 ELSE 1
           expunge == Expunge[s] /\ config.deletemode # "flag"
<1> USE DEF IInv
<1>1. s \in Stores /\ expunge \in BOOLEAN
  BY DEF Stores
<1>2. ImapClose(s, expunge)
  BY <1>1, Dispatch DEF Close2, Close1, CloseFolder, Stores
<1>3. /\ UNCHANGED <<uidnext, db, config, todo, cur, outcome, auxVars>>
      /\ pc' \in {"close1", "idle"}
      /\ list' \in {list, [t \in Stores |-> NoMessages]}
      /\ iter' \in {iter, 1} /\ src' \in {src, 1}
  BY DEF Close2, Close1, EndPass
<1>4. /\ box' \in [Stores -> [UID -> Copy \cup {Absent}]]
      /\ \A t \in Stores, u \in UID :
            \/ box'[t][u] = box[t][u]
            \/ /\ box'[t][u] = Absent
               /\ "T" \in box[t][u].flags
  <2> HIDE DEF s, expunge
  <2> QED
    BY <1>1, <1>2, CloseEffect DEF TypeOK
<1> HIDE DEF s, expunge
<1>5. \A t \in Stores, u \in UID : list'[t][u] \in {list[t][u], Absent}
  BY <1>3 DEF NoMessages
<1>6. \A t \in Stores, u \in UID :
         box'[t][u] # Absent => box'[t][u] = box[t][u]
  BY <1>4
<1>7. \A t \in Stores, u \in UID :
         box[t][u] # Absent /\ box'[t][u] = Absent => Released(box[t][u].msg)
  BY <1>4 DEF BoxInv
<1>8. TypeOK'
  <2>1. list' \in [Stores -> [UID -> Entry \cup {Absent}]]
    BY <1>3 DEF NoMessages, TypeOK, FolderTypeOK
  <2> QED
    BY <1>3, <1>4, <2>1 DEF TypeOK, FolderTypeOK, PCs, Stores, auxVars
<1>9. BoxInv'
  BY <1>3, <1>6 DEF BoxInv, Released, auxVars
<1>10. ListInv'
  BY <1>3, <1>5, <1>6 DEF ListInv, Released, auxVars
<1>11. RowInv'
  BY <1>3 DEF RowInv, RowsOneToOne
<1>12. PairInv'
  <2> SUFFICES ASSUME NEW r \in db, NEW t \in Stores
               PROVE  Paired(t, r.uid[t], r.uid[Other(t)])'
    BY <1>3 DEF PairInv
  <2>1. /\ Other(t) \in Stores
        /\ r.uid[t] \in UID /\ r.uid[Other(t)] \in UID
    BY OtherStore DEF TypeOK, Row
  <2>2. Paired(t, r.uid[t], r.uid[Other(t)])
    BY DEF PairInv
  <2>3. /\ box'[t][r.uid[t]] # Absent => box'[t][r.uid[t]] = box[t][r.uid[t]]
        /\ box'[Other(t)][r.uid[Other(t)]] # Absent
              => box'[Other(t)][r.uid[Other(t)]] = box[Other(t)][r.uid[Other(t)]]
        /\ box[Other(t)][r.uid[Other(t)]] # Absent
              /\ box'[Other(t)][r.uid[Other(t)]] = Absent
              => Released(box[Other(t)][r.uid[Other(t)]].msg)
    BY <1>6, <1>7, <2>1
  <2> QED
    BY <1>3, <2>2, <2>3 DEF Paired, Released, auxVars
<1>13. CoverInv' /\ TodoInv' /\ CurInv'
  BY <1>3 DEF CoverInv, TodoInv, CurInv, Syncing, Adding
<1> QED
  BY <1>8, <1>9, <1>10, <1>11, <1>12, <1>13
-----------------------------------------------------------------------------
(* The mail clients and delivery agents, in the middle of a pass or not.   *)
LEMMA DeliverInv ==
    ASSUME AllImap, IInv, NEW s \in Stores, NEW m \in Msg, Deliver(s, m)
    PROVE  IInv'
<1> USE DEF IInv
<1>1. PICK u \in UID : ServerAppend(s, m, {}, u)
  BY Dispatch DEF Deliver, ImapDeliver
<1>2. /\ UNCHANGED <<list, db, config, pc, iter, src, todo, cur, outcome, gone>>
      /\ born' = born \cup {m} /\ disturbed' = TRUE
      /\ userops' = userops + 1 /\ faults' = faults
  BY Dispatch DEF Deliver, ImapDeliver, UserStep, syncVars
<1>3. /\ box' \in [Stores -> [UID -> Copy \cup {Absent}]]
      /\ uidnext' \in [Stores -> Nat \ {0}]
      /\ u = uidnext[s] /\ 0 < u
      /\ box'[s][u] = [msg |-> m, uid |-> u, flags |-> {}]
      /\ BoxSameBut(s, u)
      /\ uidnext'[s] = u + 1
      /\ \A t \in Stores : t # s => uidnext'[t] = uidnext[t]
  <2> DEFINE fl == {}
  <2>1. m \in Msg \cup {Blank} /\ fl \in SUBSET Letter
    OBVIOUS
  <2>2. ServerAppend(s, m, fl, u) /\ FolderTypeOK
    BY <1>1 DEF TypeOK
  <2> HIDE DEF fl, IInv
  <2>3. /\ box' \in [Stores -> [UID -> Copy \cup {Absent}]]
        /\ uidnext' \in [Stores -> Nat \ {0}]
        /\ u = uidnext[s] /\ 0 < u
        /\ box'[s][u] = [msg |-> m, uid |-> u, flags |-> fl]
        /\ BoxSameBut(s, u)
        /\ uidnext'[s] = u + 1
        /\ \A t \in Stores : t # s => uidnext'[t] = uidnext[t]
    BY <2>1, <2>2, AppendEffect
  <2> QED
    BY <2>3 DEF fl
<1>4. TypeOK'
  BY <1>2, <1>3 DEF TypeOK, FolderTypeOK
<1>5. \A t \in Stores : uidnext[t] \in Nat /\ uidnext'[t] \in Nat
                        /\ uidnext[t] <= uidnext'[t]
  <2> SUFFICES ASSUME NEW t \in Stores
               PROVE  /\ uidnext[t] \in Nat /\ uidnext'[t] \in Nat
                      /\ uidnext[t] <= uidnext'[t]
    OBVIOUS
  <2>1. uidnext[t] \in Nat /\ uidnext'[t] \in Nat
    BY <1>3 DEF TypeOK, FolderTypeOK
  <2> HIDE DEF IInv
  <2> QED
    BY <1>3, <2>1
<1>6. BoxInv'
  <2> SUFFICES ASSUME NEW t \in Stores, NEW h \in UID, box'[t][h] # Absent
               PROVE  /\ 0 < h /\ h < uidnext'[t]
                      /\ box'[t][h].uid = h
                      /\ "T" \in box'[t][h].flags
                            => box'[t][h].msg \in gone' \cup {Blank}
    BY DEF BoxInv, Released
  <2>1. CASE t = s /\ h = u
    BY <1>3, <2>1 DEF UID
  <2>2. CASE t # s \/ h # u
    <3>1. box'[t][h] = box[t][h]
      BY <1>3, <2>2 DEF BoxSameBut
    <3> QED
      BY <1>2, <1>5, <3>1 DEF BoxInv, Released, UID
  <2> QED
    BY <2>1, <2>2
<1>7. \A t \in Stores, h \in UID :
         h < uidnext[t] => box'[t][h] = box[t][h]
  BY <1>3 DEF BoxSameBut, UID
<1>8. ListInv'
  BY <1>2, <1>5, <1>7 DEF ListInv, Released, UID
<1>9. \A r \in db, t \in Stores : /\ r.uid[t] \in UID
                                  /\ 0 < r.uid[t] /\ r.uid[t] < uidnext[t]
  BY DEF TypeOK, Row, RowInv
<1>10. RowInv'
  BY <1>2, <1>5, <1>9 DEF RowInv, RowsOneToOne, UID
<1>11. \A r \in db, t \in Stores : box'[t][r.uid[t]] = box[t][r.uid[t]]
  BY <1>7, <1>9
<1>12. PairInv'
  BY <1>2, <1>11, PairsStay
<1>13. CoverInv'
  BY <1>2, <1>11 DEF CoverInv, Stores
<1>14. TodoInv'
  BY <1>2 DEF TodoInv, RowsOf
<1>15. CurInv'
  <2>1. ASSUME NEW t \in Stores, NEW h \in UID, Holds(t, h)
        PROVE  /\ list'[t][h] # Absent
               /\ {r \in db' : r.uid[t] = h} = {}
               /\ IF box'[t][h] = Absent THEN cur'.msg \in gone' \cup {Blank}
                  ELSE box'[t][h].msg = cur'.msg
    <3>1. box'[t][h] = box[t][h]
      BY <1>7, <2>1 DEF Holds, ListInv
    <3> QED
      BY <1>2, <2>1, <3>1 DEF Holds, RowsOf, Released
  <2>2. /\ src \in Stores /\ dst \in Stores
        /\ cur.src \in UID /\ cur.dst \in UID
    BY OtherStore DEF TypeOK, dst
  <2> QED
    BY <1>2, <2>1, <2>2 DEF CurInv, Holds, RowsOf, Released, dst
<1> QED
  BY <1>4, <1>6, <1>8, <1>10, <1>12, <1>13, <1>14, <1>15

(* A deletion, or a flag set or cleared: one copy, its uid and message as  *)
(* before or gone, and released when it is gone or becomes Deleted.        *)
LEMMA ClientInv ==
    ASSUME IInv, TypeOK', NEW s \in Stores, NEW h \in UID, box[s][h] # Absent,
           UNCHANGED <<list, uidnext, db, pc, src, todo, cur>>,
           gone \subseteq gone', BoxSameBut(s, h),
           box'[s][h] = Absent => box[s][h].msg \in gone',
           box'[s][h] # Absent =>
              /\ box'[s][h].msg = box[s][h].msg
              /\ box'[s][h].uid = box[s][h].uid
              /\ "T" \in box'[s][h].flags =>
                    "T" \in box[s][h].flags \/ box[s][h].msg \in gone'
    PROVE  IInv'
<1> USE DEF IInv
<1>1. \A t \in Stores, u \in UID :
         /\ box'[t][u] # Absent =>
               /\ box[t][u] # Absent
               /\ box'[t][u].msg = box[t][u].msg
               /\ box'[t][u].uid = box[t][u].uid
               /\ "T" \in box'[t][u].flags =>
                     "T" \in box[t][u].flags \/ box[t][u].msg \in gone'
         /\ box[t][u] # Absent /\ box'[t][u] = Absent
               => box[t][u].msg \in gone'
  BY DEF BoxSameBut
<1>2. BoxInv'
  BY <1>1 DEF BoxInv, Released
<1>3. ListInv'
  BY <1>1 DEF ListInv, Released
<1>4. RowInv'
  BY DEF RowInv, RowsOneToOne
<1>5. PairInv'
  <2> SUFFICES ASSUME NEW r \in db, NEW t \in Stores
               PROVE  Paired(t, r.uid[t], r.uid[Other(t)])'
    BY DEF PairInv
  <2>1. /\ Other(t) \in Stores
        /\ r.uid[t] \in UID /\ r.uid[Other(t)] \in UID
    BY OtherStore DEF TypeOK, Row
  <2>2. Paired(t, r.uid[t], r.uid[Other(t)])
    BY DEF PairInv
  <2> QED
    BY <1>1, <2>1, <2>2 DEF Paired, Released
<1>6. CoverInv'
  <2>1. \A r \in db : r.uid[1] \in UID /\ r.uid[2] \in UID
    BY DEF TypeOK, Row, Stores
  <2> QED
    BY <1>1, <2>1 DEF CoverInv, Stores
<1>7. TodoInv'
  BY DEF TodoInv, RowsOf
<1>8. CurInv'
  <2>1. ASSUME NEW t \in Stores, NEW u \in UID, Holds(t, u)
        PROVE  /\ list'[t][u] # Absent
               /\ {r \in db' : r.uid[t] = u} = {}
               /\ IF box'[t][u] = Absent THEN cur'.msg \in gone' \cup {Blank}
                  ELSE box'[t][u].msg = cur'.msg
    BY <1>1, <2>1 DEF Holds, RowsOf, Released
  <2>2. /\ src \in Stores /\ dst \in Stores
        /\ cur.src \in UID /\ cur.dst \in UID
    BY OtherStore DEF TypeOK, dst
  <2> QED
    BY <2>1, <2>2 DEF CurInv, Holds, RowsOf, Released, dst
<1> QED
  BY <1>2, <1>3, <1>4, <1>5, <1>6, <1>7, <1>8

LEMMA RemoveInv ==
    ASSUME IInv, NEW s \in Stores, NEW h \in Handles(s), Remove(s, h)
    PROVE  IInv'
<1> USE DEF IInv
<1>1. /\ h \in UID /\ box[s][h] # Absent
      /\ box' = [box EXCEPT ![s][h] = Absent]
      /\ UNCHANGED <<list, uidnext, db, config, pc, iter, src, todo, cur,
                     outcome, born, faults>>
      /\ gone' = gone \cup {box[s][h].msg}
      /\ disturbed' = TRUE /\ userops' = userops + 1
  BY DEF Handles, Remove, UserDelete, UserStep, syncVars
<1>2. box[s][h].msg \in Msg \cup {Blank}
  BY <1>1 DEF TypeOK, FolderTypeOK, Copy
<1>3. box' \in [Stores -> [UID -> Copy \cup {Absent}]]
      /\ box'[s][h] = Absent /\ BoxSameBut(s, h)
  BY <1>1 DEF TypeOK, FolderTypeOK, BoxSameBut
<1>4. TypeOK'
  BY <1>1, <1>2, <1>3 DEF TypeOK, FolderTypeOK
<1> QED
  BY <1>1, <1>3, <1>4, ClientInv

LEMMA ToggleInv ==
    ASSUME AllImap, IInv, NEW s \in Stores, NEW h \in Handles(s),
           NEW f \in UserFlag, Toggle(s, h, f)
    PROVE  IInv'
<1> USE DEF IInv
<1>1. /\ h \in UID /\ box[s][h] # Absent
      /\ UNCHANGED <<list, uidnext, db, config, pc, iter, src, todo, cur,
                     outcome, born, faults>>
      /\ gone' = IF f = "T" THEN gone \cup {box[s][h].msg} ELSE gone
      /\ disturbed' = TRUE /\ userops' = userops + 1
  BY DEF Handles, Toggle, UserFlags, UserStep, syncVars
<1>2. box[s][h] \in Copy /\ box[s][h].flags \in SUBSET Letter
      /\ box[s][h].msg \in Msg \cup {Blank}
  BY <1>1 DEF TypeOK, FolderTypeOK, Copy
<1>3. PICK fl \in SUBSET Letter :
         /\ box' = [box EXCEPT ![s][h].flags = fl]
         /\ fl \subseteq box[s][h].flags \cup {f}
  BY <1>2, SMTT(30) DEF Toggle, UserFlags, Letter
<1> DEFINE c == [box[s][h] EXCEPT !.flags = fl]
<1>4. c \in Copy
  BY <1>2 DEF Copy
<1>5. c # Absent /\ c.msg = box[s][h].msg /\ c.uid = box[s][h].uid /\ c.flags = fl
  BY <1>2, <1>4 DEF Copy
<1>6. box' = [box EXCEPT ![s][h] = c]
  BY <1>1, <1>3 DEF TypeOK, FolderTypeOK
<1> HIDE DEF c
<1>7. box' \in [Stores -> [UID -> Copy \cup {Absent}]]
      /\ box'[s][h] = c /\ BoxSameBut(s, h)
  BY <1>1, <1>4, <1>6 DEF TypeOK, FolderTypeOK, BoxSameBut
<1>8. TypeOK'
  BY <1>1, <1>2, <1>7 DEF TypeOK, FolderTypeOK
<1>9. "T" \in fl => "T" \in box[s][h].flags \/ box[s][h].msg \in gone'
  BY <1>1, <1>3
<1> QED
  BY <1>1, <1>5, <1>7, <1>8, <1>9, ClientInv

LEMMA NextInv ==
    ASSUME AllImap, IInv, [Next]_vars
    PROVE  IInv'
<1>1. CASE UNCHANGED vars
  <2>1. TypeOK'
    BY <1>1 DEF IInv, vars, TypeOK, FolderTypeOK
  <2>2. BoxInv' /\ ListInv' /\ RowInv' /\ PairInv'
    BY <1>1, Quiet DEF IInv, vars
  <2>3. CoverInv' /\ TodoInv' /\ CurInv'
    BY <1>1 DEF IInv, vars, CoverInv, TodoInv, CurInv, Holds, RowsOf,
                Released, dst
  <2> QED
    BY <2>1, <2>2, <2>3 DEF IInv
<1>2. CASE StartSync \/ OpenFails \/ Fail \/ CloseFails \/ Crash
  BY <1>2, StartInv
<1>3. CASE User
  BY <1>3, DeliverInv, RemoveInv, ToggleInv DEF User
<1>4. CASE SyncStep
  BY <1>4, ListFolderInv, DiffInv, ReadInv, AddInv, UpdateInv, CommitNewInv,
     DeleteInv, CommitDeleteInv, ChangeInv, CommitChangeInv, NextDirectionInv,
     CloseInv DEF SyncStep
<1> QED
  BY <1>1, <1>2, <1>3, <1>4 DEF Next
-----------------------------------------------------------------------------
(* A step takes a copy of a message away only when the message is released,*)
(* and never puts another message under its uid.                           *)
Kept ==
    \A s \in Stores, h \in UID : box[s][h] # Absent =>
        \/ box'[s][h] # Absent /\ box'[s][h].msg = box[s][h].msg
        \/ box[s][h].msg \in gone' \cup {Blank}

LEMMA StoreKeeps ==
    ASSUME FolderTypeOK, NEW s \in Stores, NEW u \in UID, NEW fl,
           ServerStore(s, u, fl)
    PROVE  Kept
<1> SUFFICES ASSUME NEW t \in Stores, NEW h \in UID, box[t][h] # Absent
             PROVE  box'[t][h] # Absent /\ box'[t][h].msg = box[t][h].msg
  BY DEF Kept
<1>1. CASE box[s][u] = Absent
  BY <1>1 DEF ServerStore
<1>2. CASE box[s][u] # Absent
  <2> DEFINE g == fl \cap Mapped
             c == [box[s][u] EXCEPT !.flags = g]
  <2>1. box[s][u] \in Copy
    BY <1>2 DEF FolderTypeOK
  <2>2. g \in SUBSET Letter
    BY DEF Letter
  <2>3. box' = [box EXCEPT ![s][u] = c]
    BY <1>2 DEF ServerStore, FolderTypeOK
  <2> HIDE DEF g
  <2>4. c \in Copy /\ c.msg = box[s][u].msg
    BY <2>1, <2>2 DEF Copy
  <2>5. c # Absent
    BY <2>4
  <2> HIDE DEF c
  <2> QED
    BY <2>3, <2>4, <2>5 DEF FolderTypeOK
<1> QED
  BY <1>1, <1>2

LEMMA StepKeeps ==
    ASSUME AllImap, IInv, [Next]_vars
    PROVE  Kept
<1>1. CASE UNCHANGED box
  BY <1>1 DEF Kept
<1>2. CASE AddNew
  <2>1. PICK u \in UID : ImapAddMessage(dst, cur.msg, cur.flags, u)
    BY <1>2, Dispatch, OtherStore DEF AddNew, AddMessage, IInv, TypeOK, dst
  <2>2. /\ box' = [box EXCEPT ![dst][u] = [msg |-> cur.msg, uid |-> u,
                                          flags |-> cur.flags \cap Mapped]]
        /\ u = uidnext[dst]
    BY <2>1 DEF ImapAddMessage, ServerAppend
  <2>3. \A t \in Stores, h \in UID : t # dst \/ h # u => box'[t][h] = box[t][h]
    BY <2>2 DEF IInv, TypeOK, FolderTypeOK
  <2>4. dst \in Stores /\ uidnext[dst] \in Nat
    BY OtherStore DEF IInv, TypeOK, FolderTypeOK, dst
  <2>5. box[dst][u] = Absent
    BY <2>2, <2>4 DEF IInv, BoxInv, UID
  <2> QED
    BY <2>3, <2>5 DEF Kept
<1>3. CASE DeleteMessages \/ ChangeMessages
  <2>1. \/ UNCHANGED box
        \/ \E v \in UID, fl \in {{"T"}} \cup {list[t][u].flags : t \in Stores, u \in UID}
                \cup {list[t][u].flags \cup Newflags : t \in Stores, u \in UID} :
              ServerStore(dst, v, fl)
    <3>1. dst \in Stores /\ src \in Stores
      BY OtherStore DEF IInv, TypeOK, dst
    <3>2. CASE DeleteMessages
      BY <3>1, <3>2, Dispatch
         DEF DeleteMessages, DeleteRow, DeleteDst, DeleteMessage, SetFlags,
             ImapDeleteMessage, ImapSetFlags, folderVars
    <3>3. CASE ChangeMessages
      <4>1. \A r \in todo.chg : r.uid[src] \in UID
        BY <3>1 DEF IInv, TypeOK, Row
      <4> QED
        BY <3>1, <3>3, <4>1, Dispatch
           DEF ChangeMessages, ChangeRow, SetFlags, ImapSetFlags, folderVars
    <3> QED
      BY <1>3, <3>2, <3>3
  <2>2. dst \in Stores /\ FolderTypeOK
    BY OtherStore DEF IInv, TypeOK, dst
  <2> QED
    BY <1>1, <2>1, <2>2, StoreKeeps
<1>4. CASE Close2 \/ Close1
  <2>1. PICK s \in Stores, expunge \in BOOLEAN : ImapClose(s, expunge)
    BY <1>4, Dispatch DEF Close2, Close1, CloseFolder, Stores
  <2>2. \A t \in Stores, u \in UID :
           box'[t][u] = box[t][u] \/ "T" \in box[t][u].flags
    BY <2>1, CloseEffect DEF IInv, TypeOK
  <2>3. gone' = gone
    BY <1>4 DEF Close2, Close1, auxVars
  <2> QED
    BY <2>2, <2>3 DEF IInv, BoxInv, Released, Kept
<1>5. CASE User
  <2>1. CASE \E s \in Stores, m \in Msg : Deliver(s, m)
    <3>1. PICK s \in Stores, m \in Msg, u \in UID : ServerAppend(s, m, {}, u)
      BY <2>1, Dispatch DEF Deliver, ImapDeliver
    <3>2. uidnext[s] \in Nat /\ u = uidnext[s]
      BY <3>1 DEF IInv, TypeOK, FolderTypeOK, ServerAppend
    <3>3. box[s][u] = Absent
      BY <3>2 DEF IInv, BoxInv, UID
    <3>4. \A t \in Stores, h \in UID : t # s \/ h # u => box'[t][h] = box[t][h]
      BY <3>1 DEF ServerAppend, IInv, TypeOK, FolderTypeOK
    <3> QED
      BY <3>3, <3>4 DEF Kept
  <2>2. CASE \E s \in Stores : \E h \in Handles(s) : Remove(s, h)
    BY <2>2 DEF Remove, UserDelete, Handles, IInv, TypeOK, FolderTypeOK, Kept
  <2>3. CASE \E s \in Stores : \E h \in Handles(s), f \in UserFlag : Toggle(s, h, f)
    <3>1. PICK s \in Stores, h \in UID, fl \in SUBSET Letter :
             /\ box[s][h] # Absent
             /\ box' = [box EXCEPT ![s][h].flags = fl]
      <4>1. PICK s \in Stores, h \in UID, f \in UserFlag :
               box[s][h] # Absent /\ Toggle(s, h, f)
        BY <2>3 DEF Handles
      <4>2. box[s][h].flags \in SUBSET Letter
        BY <4>1 DEF IInv, TypeOK, FolderTypeOK, Copy
      <4>3. /\ box[s][h].flags \ {f} \in SUBSET Letter
            /\ box[s][h].flags \cup {f} \in SUBSET Letter
        BY <4>2 DEF Letter
      <4> QED
        BY <4>1, <4>3 DEF Toggle, UserFlags
    <3> DEFINE c == [box[s][h] EXCEPT !.flags = fl]
    <3>2. box[s][h] \in Copy
      BY <3>1 DEF IInv, TypeOK, FolderTypeOK
    <3>3. c \in Copy /\ c.msg = box[s][h].msg
      BY <3>2 DEF Copy
    <3>4. c # Absent
      BY <3>3
    <3>5. box' = [box EXCEPT ![s][h] = c]
      BY <3>1, <3>2 DEF IInv, TypeOK, FolderTypeOK
    <3> HIDE DEF c
    <3> QED
      BY <3>3, <3>4, <3>5 DEF IInv, TypeOK, FolderTypeOK, Kept
  <2> QED
    BY <1>5, <2>1, <2>2, <2>3 DEF User
<1>6. CASE \/ StartSync \/ OpenFails \/ Fail \/ CloseFails \/ Crash \/ ListFolder1 \/ ListFolder2 \/ Diff
           \/ ReadMessage \/ UpdateSource \/ CommitNew \/ CommitDelete
           \/ CommitChange \/ NextDirection \/ UNCHANGED vars
  <2>1. src \in Stores
    BY DEF IInv, TypeOK
  <2>2. UNCHANGED box
    BY <1>6, <2>1, Dispatch
       DEF StartSync, OpenFails, Fail, CloseFails, Crash, ListFolder1, ListFolder2, ListFolder,
           UpdateMessageList, ImapUpdateMessageList, Diff, ReadMessage,
           ReadNew, UpdateSource, UpdateMessage, CommitNew, CommitDelete,
           CommitChange, Committed, NextDirection, vars, folderVars, Stores
  <2> QED
    BY <1>1, <2>2
<1> QED
  BY <1>2, <1>3, <1>4, <1>5, <1>6 DEF Next, SyncStep
-----------------------------------------------------------------------------
(* The invariant holds in every state of every behaviour between two IMAP  *)
(* servers: rows pair equal messages, lists cover what a row needs, and    *)
(* the message in hand is the one that will be committed.                  *)
THEOREM Invariance ==
    ASSUME AllImap PROVE Spec => []IInv
<1>1. Init => IInv
  BY InitInv
<1>2. IInv /\ [Next]_vars => IInv'
  BY NextInv
<1> QED
  BY <1>1, <1>2, PTL DEF Spec

(* Every variable keeps its type: the fields of SyncFolder's message in    *)
(* hand, the uids of the table and the folder lists stay what they claim.  *)
THEOREM TypeCorrect ==
    ASSUME AllImap PROVE Spec => []TypeOK
<1>1. IInv => TypeOK
  BY DEF IInv
<1> QED
  BY <1>1, Invariance, PTL

(* No row committed by SyncFolder ever pairs two different messages, with  *)
(* a failure, a crash or a mail client's step between any two commands.    *)
THEOREM RowsPairEqualMessages ==
    ASSUME AllImap PROVE Spec => []PairingSound
<1>1. IInv => PairingSound
  <2> SUFFICES ASSUME IInv, NEW r \in db, NEW h1 \in Under(1, r.uid[1]),
                      NEW h2 \in Under(2, r.uid[2])
               PROVE  box[1][h1].msg = box[2][h2].msg
    BY DEF PairingSound
  <2>1. h1 = r.uid[1] /\ box[1][h1] # Absent /\ h2 = r.uid[2] /\ box[2][h2] # Absent
    BY DEF Under, Handles, IInv, BoxInv, Stores
  <2>2. Paired(1, r.uid[1], r.uid[2])
    BY DEF IInv, PairInv, Stores, Other
  <2> QED
    BY <2>1, <2>2 DEF Paired, Other
<1> QED
  BY <1>1, Invariance, PTL

(* GetDststoreUID and Delete find at most one row for a uid: a message is  *)
(* added to the table only while no row speaks of either of its uids.      *)
THEOREM OneRowPerUid ==
    ASSUME AllImap PROVE Spec => []RowsOneToOne
<1>1. IInv => RowsOneToOne
  BY DEF IInv, RowInv
<1> QED
  BY <1>1, Invariance, PTL

(* SyncFolder never takes the last copy of a message from a store unless a *)
(* mail client deleted it or flagged it Deleted somewhere.                 *)
THEOREM NoMessageLost ==
    ASSUME AllImap PROVE Spec => LastCopyKept
<1> DEFINE Lost(s, m) == CopiesOf(s, m) # {} /\ CopiesOf(s, m)' = {} => m \in gone'
           A == \A s \in Stores, m \in Msg : Lost(s, m)
<1>1. IInv /\ [Next]_vars => [A]_vars
  <2> SUFFICES ASSUME IInv, [Next]_vars, NEW s \in Stores, NEW m \in Msg,
                      CopiesOf(s, m) # {}, CopiesOf(s, m)' = {}
               PROVE  m \in gone'
    OBVIOUS
  <2>1. PICK h \in UID : box[s][h] # Absent /\ box[s][h].msg = m
    BY DEF CopiesOf, Handles
  <2>2. Kept
    BY StepKeeps
  <2>3. ~(box'[s][h] # Absent /\ box'[s][h].msg = m)
    BY DEF CopiesOf, Handles
  <2> QED
    BY <2>1, <2>2, <2>3 DEF Kept
<1> HIDE DEF A
<1>2. Spec => [][A]_vars
  BY <1>1, Invariance, PTL DEF Spec
<1> QED
  BY <1>2 DEF A, LastCopyKept
=============================================================================
