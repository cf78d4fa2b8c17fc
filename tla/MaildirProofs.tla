---------------------------- MODULE MaildirProofs ----------------------------
(***************************************************************************)
(* What SyncFolder guarantees between a Maildir and the IMAP server whose  *)
(* folder it mirrors: mail is delivered to the server, mail clients delete *)
(* and flag on both sides.  A copy in a Maildir is found by the uid in its *)
(* name, so the invariant speaks of the copies under a uid.                *)
(***************************************************************************)
EXTENDS SyncFolderProofs, FiniteSetTheorems, WellFoundedInduction

(* The Maildir is store 1 and nothing delivers to it: the uids that Update *)
(* gives to delivered files are not unique (NewUidIsNew fails).  A row     *)
(* that deletemode none leaves behind keeps a uid the Maildir gives again. *)
IsMirror ==
    /\ Kind[1] = "Maildir" /\ Kind[2] = "IMAP"
    /\ <<"deliver", 1>> \notin UserOps
    /\ \A c \in Configs : c.deletemode # "none" \/ c.dryrun

(* Every copy has a uid, and no two files of the Maildir have the same.    *)
CopyInv ==
    /\ \A s \in Stores : \A h \in Handles(s) :
          /\ box[s][h].uid \in UID
          /\ "T" \in box[s][h].flags => Released(box[s][h].msg)
    /\ \A g, h \in Handles(1) : box[1][g].uid = box[1][h].uid => g = h
    /\ \A h \in Handles(2) : /\ 0 < h /\ h < uidnext[2]
                             /\ box[2][h].uid = h

(* An entry of the Maildir's list names the file of its uid, if any.       *)
EntryInv ==
    /\ \A u \in Listed(1) :
          LET e == list[1][u]
          IN  /\ ~e.ignore /\ ~e.temporary /\ e.file \in UID
              /\ box[1][e.file] # Absent =>
                    /\ box[1][e.file].uid = u
                    /\ "T" \in e.flags => Released(box[1][e.file].msg)
    /\ \A u \in Listed(2) :
          /\ 0 < u /\ u < uidnext[2]
          /\ box[2][u] # Absent /\ "T" \in list[2][u].flags
                 => Released(box[2][u].msg)

(* While the pass works every file of the Maildir is listed, for only the  *)
(* pass itself adds one.                                                   *)
FilesListed ==
    pc \in {"list2"} \cup Syncing =>
        \A h \in Handles(1) : /\ box[1][h].uid \in Listed(1)
                              /\ list[1][box[1][h].uid].file = h

KeyInv ==
    /\ \A r \in db : 0 < r.uid[2] /\ r.uid[2] < uidnext[2]
    /\ RowsOneToOne

(* What a row may say of a copy h of store s: the copy it pairs it with is *)
(* one of the same message, and without one the message is released.       *)
Matched(r, s, h) ==
    /\ \A g \in Under(Other(s), r.uid[Other(s)]) :
          box[Other(s)][g].msg = box[s][h].msg
    /\ Under(Other(s), r.uid[Other(s)]) = {} => Released(box[s][h].msg)
MatchInv ==
    \A r \in db, s \in Stores : \A h \in Under(s, r.uid[s]) : Matched(r, s, h)

(* A row's message that the server does not list is gone from it.          *)
ServerInv ==
    pc \in Syncing => \A r \in db :
        \/ r.uid[2] \in Listed(2)
        \/ box[2][r.uid[2]] = Absent
        \/ pc = "commitDel" /\ r.uid[src] = cur.src

(* The Maildir is the first source, so before the server's new messages    *)
(* are added to it the pass has deleted every row whose uid it may give    *)
(* again.                                                                  *)
OrderInv ==
    /\ config \in Configs
    /\ pc \in {"idle", "list1", "list2"} => iter = 1 /\ src = 1
    /\ pc \in Syncing => IF config.dryrun THEN pc = "diff" ELSE src = iter
    /\ pc \in Syncing \ {"diff"} /\ src = 1 => \A r \in db :
          \/ r.uid[1] \in Listed(1)
          \/ r \in todo.del
          \/ pc = "commitDel" /\ r.uid[1] = cur.src
    /\ pc \in Syncing /\ src = 2 /\ (pc \in {"diff"} \cup Adding \/ todo.new # {}) =>
          \A r \in db : r.uid[1] \in Listed(1)

WorkInv ==
    pc \in Syncing \ {"diff"} =>
        /\ \A u \in todo.new : u \in Listed(src) /\ RowsOf(src, u) = {}
        /\ todo.del \subseteq db
        /\ \A r \in todo.del : /\ r.uid[src] \notin Listed(src)
                               /\ pc = "commitDel" => r.uid[src] # cur.src
        /\ \A r \in todo.chg : /\ r.uid[src] \in Listed(src)
                               /\ \E q \in db : q.uid = r.uid

(* Uid u of store s is that of the message in hand, and of no row yet.     *)
HeldAt(s, u) ==
    /\ u \in Listed(s)
    /\ RowsOf(s, u) = {}
    /\ \A h \in Under(s, u) : box[s][h].msg = cur.msg
    /\ Under(s, u) = {} => Released(cur.msg)

InHandInv ==
    /\ pc \in Adding => /\ HeldAt(src, cur.src)
                        /\ cur.src \notin todo.new
                        /\ "T" \in cur.flags => Released(cur.msg)
    /\ pc \in {"update", "commit"} => HeldAt(dst, cur.dst)
    /\ pc = "commitDel" => cur.src \notin Listed(src)
    /\ pc = "commitChg" => /\ cur.src \in Listed(src)
                           /\ \E r \in db : r.uid = Pair(src, cur.src, cur.dst)

MInv ==
    /\ TypeOK
    /\ CopyInv
    /\ EntryInv
    /\ FilesListed
    /\ KeyInv
    /\ MatchInv
    /\ ServerInv
    /\ OrderInv
    /\ WorkInv
    /\ InHandInv
-----------------------------------------------------------------------------
USE KindAssumption, ExpungeAssumption, BlankAssumption, AbsentAssumption,
    MaxUIDAssumption, ConfigsAssumption, BoundsAssumption

(* The operations of a Maildir, point by point, whatever it holds.         *)
LEMMA LowestFree ==
    ASSUME NEW T \in SUBSET UID, T # {}
    PROVE  Min(T) \in T
<1>1. T \subseteq Nat
  BY DEF UID
<1>2. PICK x \in T : \A y \in T : <<y, x>> \notin OpToRel(<, Nat)
  BY <1>1, NatLessThanWellFounded, WFMin
<1>3. ASSUME NEW y \in T PROVE x =< y
  <2>1. x \in Nat /\ y \in Nat
    BY <1>1, <1>2
  <2>2. <<y, x>> \in Nat \X Nat
    BY <2>1
  <2>3. ~(y < x)
    BY <1>2, <2>2 DEF OpToRel
  <2> QED
    BY <2>1, <2>3
<1> QED
  BY <1>3 DEF Min

LEMMA NewFileIsFree ==
    ASSUME NEW s, FreeFiles(s) # {}
    PROVE  /\ NewFile(s) \in UID /\ box[s][NewFile(s)] = Absent
           /\ \A u \in Listed(s) : list[s][u].file # NewFile(s)
BY DEF NewFile, FreeFiles, Handles

LEMMA NextFreeIsFree ==
    ASSUME NEW s, Listed(s) # UID
    PROVE  NextFreeUID(s) \in UID \ Listed(s)
<1>1. UID \ Listed(s) # {} /\ UID \ Listed(s) \in SUBSET UID
  BY DEF Listed
<1> QED
  BY <1>1, LowestFree DEF NextFreeUID

LEMMA MaildirAddEffect ==
    ASSUME FolderTypeOK, NEW s \in Stores, NEW u \in UID,
           NEW m \in Msg \cup {Blank}, NEW fl \in SUBSET Letter,
           MaildirAddMessage(s, m, fl, u)
    PROVE  /\ u \notin Listed(s) /\ uidnext' = uidnext
           /\ box' \in [Stores -> [UID -> Copy \cup {Absent}]]
           /\ list' \in [Stores -> [UID -> Entry \cup {Absent}]]
           /\ NewFile(s) \in UID /\ box[s][NewFile(s)] = Absent
           /\ \A v \in Listed(s) : list[s][v].file # NewFile(s)
           /\ box'[s][NewFile(s)] = [msg |-> m, uid |-> u, flags |-> fl]
           /\ box'[s][NewFile(s)] # Absent
           /\ BoxSameBut(s, NewFile(s))
           /\ list'[s][u] = [file |-> NewFile(s), flags |-> fl,
                             ignore |-> FALSE, temporary |-> FALSE]
           /\ list'[s][u] # Absent
           /\ ListSameBut(s, u)
<1> DEFINE f == NewFile(s)
           c == [msg |-> m, uid |-> u, flags |-> fl]
           e == [file |-> f, flags |-> fl, ignore |-> FALSE, temporary |-> FALSE]
<1>1. /\ FreeFiles(s) # {} /\ Listed(s) # UID /\ u = NextFreeUID(s)
      /\ box' = [box EXCEPT ![s][f] = c] /\ list' = [list EXCEPT ![s][u] = e]
      /\ uidnext' = uidnext
  BY DEF MaildirAddMessage
<1>2. f \in UID /\ box[s][f] = Absent /\ \A v \in Listed(s) : list[s][v].file # f
  BY <1>1, NewFileIsFree
<1>3. u \notin Listed(s)
  BY <1>1, NextFreeIsFree
<1>4. c \in Copy /\ c # Absent
  BY DEF Copy
<1>a. e \in Entry
  BY <1>2 DEF Entry
<1>5. e \in Entry /\ e # Absent
  BY <1>a
<1> HIDE DEF c, e, f
<1>6. /\ box' \in [Stores -> [UID -> Copy \cup {Absent}]]
      /\ box'[s][f] = c /\ BoxSameBut(s, f)
  BY <1>1, <1>2, <1>4 DEF FolderTypeOK, BoxSameBut
<1>7. /\ list' \in [Stores -> [UID -> Entry \cup {Absent}]]
      /\ list'[s][u] = e /\ ListSameBut(s, u)
  BY <1>1, <1>5 DEF FolderTypeOK, ListSameBut
<1> QED
  BY <1>1, <1>2, <1>3, <1>4, <1>5, <1>6, <1>7 DEF c, e, f

(* The file an entry names.                                                *)
LEMMA FileOf ==
    ASSUME FolderTypeOK, NEW s \in Stores, NEW u \in UID, HasFile(s, u)
    PROVE  /\ list[s][u] \in Entry /\ list[s][u] # Absent
           /\ list[s][u].file \in UID
           /\ box[s][list[s][u].file] \in Copy
           /\ box[s][list[s][u].file] # Absent
<1>1. list[s][u] \in Entry /\ list[s][u] # Absent
  BY DEF FolderTypeOK, HasFile, HasUID
<1>2. list[s][u].file \in UID
  BY <1>1 DEF HasFile, Entry
<1> QED
  BY <1>1, <1>2 DEF HasFile, FolderTypeOK

(* Renaming a file gives it a uid and flags.                               *)
Renamed(s, f, u, fl) ==
    box' = [box EXCEPT ![s][f].uid = u, ![s][f].flags = fl]

LEMMA PutCopy ==
    ASSUME FolderTypeOK, NEW s \in Stores, NEW f \in UID, NEW c \in Copy,
           box' = [box EXCEPT ![s][f] = c]
    PROVE  /\ box' \in [Stores -> [UID -> Copy \cup {Absent}]]
           /\ BoxSameBut(s, f)
           /\ box'[s][f] = c /\ c # Absent
BY DEF FolderTypeOK, BoxSameBut

LEMMA RenameEffect ==
    ASSUME FolderTypeOK, NEW s \in Stores, NEW f \in UID, box[s][f] # Absent,
           NEW u \in UID \cup {NoUID}, NEW fl \in SUBSET Letter,
           Renamed(s, f, u, fl)
    PROVE  /\ box' \in [Stores -> [UID -> Copy \cup {Absent}]]
           /\ BoxSameBut(s, f)
           /\ box'[s][f] # Absent
           /\ box'[s][f].msg = box[s][f].msg
           /\ box'[s][f].uid = u /\ box'[s][f].flags = fl
<1> DEFINE c == [msg |-> box[s][f].msg, uid |-> u, flags |-> fl]
           d == [box[s][f] EXCEPT !.uid = u]
           b == [box EXCEPT ![s][f].uid = u]
<1>1. box[s][f] \in Copy
  BY DEF FolderTypeOK
<1>2. c \in Copy
  BY <1>1 DEF Copy
<1>3. c # Absent /\ c.msg = box[s][f].msg /\ c.uid = u /\ c.flags = fl
  BY <1>2
<1>4. b = [box EXCEPT ![s][f] = d]
  BY DEF FolderTypeOK
<1>5. c = [d EXCEPT !.flags = fl]
  <2> DEFINE g == [msg |-> box[s][f].msg, uid |-> u, flags |-> box[s][f].flags]
  <2>1. d = g
    BY <1>1 DEF Copy
  <2>2. c = [g EXCEPT !.flags = fl]
    OBVIOUS
  <2> QED
    BY <2>1, <2>2, Zenon
<1>6. box' = [b EXCEPT ![s][f].flags = fl]
  BY DEF Renamed
<1> HIDE DEF b, c, d
<1>7. box' = [box EXCEPT ![s][f] = c]
  BY <1>4, <1>5, <1>6 DEF FolderTypeOK
<1> QED
  BY <1>2, <1>3, <1>7, PutCopy, ZenonT(30)

LEMMA PutEntry ==
    ASSUME FolderTypeOK, NEW s \in Stores, NEW u \in UID, NEW e \in Entry,
           list' = [list EXCEPT ![s][u] = e]
    PROVE  /\ list' \in [Stores -> [UID -> Entry \cup {Absent}]]
           /\ ListSameBut(s, u)
           /\ list'[s][u] = e /\ e # Absent
BY DEF FolderTypeOK, ListSameBut

(* A list whose entry for u was given other flags.                         *)
LEMMA EntryFlagged ==
    ASSUME FolderTypeOK, NEW s \in Stores, NEW u \in UID, list[s][u] # Absent,
           NEW fl \in SUBSET Letter,
           list' = [list EXCEPT ![s][u].flags = fl]
    PROVE  /\ list' \in [Stores -> [UID -> Entry \cup {Absent}]]
           /\ ListSameBut(s, u)
           /\ list'[s][u] # Absent
           /\ list'[s][u].flags = fl
           /\ list'[s][u].file = list[s][u].file
           /\ list'[s][u].ignore = list[s][u].ignore
           /\ list'[s][u].temporary = list[s][u].temporary
<1> DEFINE e == [file |-> list[s][u].file, flags |-> fl,
                 ignore |-> list[s][u].ignore, temporary |-> list[s][u].temporary]
           d == [list[s][u] EXCEPT !.flags = fl]
<1>1. list[s][u] \in Entry
  BY DEF FolderTypeOK
<1>2. d = e /\ e \in Entry
  BY <1>1 DEF Entry
<1>3. e # Absent /\ e.flags = fl /\ e.file = list[s][u].file
      /\ e.ignore = list[s][u].ignore /\ e.temporary = list[s][u].temporary
  BY <1>2
<1>4. list' = [list EXCEPT ![s][u] = d]
  BY DEF FolderTypeOK
<1> HIDE DEF d, e
<1>5. list' = [list EXCEPT ![s][u] = e]
  BY <1>2, <1>4
<1>6. /\ list' \in [Stores -> [UID -> Entry \cup {Absent}]]
      /\ list'[s][u] = e /\ ListSameBut(s, u)
  BY <1>2, <1>5, PutEntry
<1> QED
  BY <1>3, <1>6

LEMMA MaildirSetFlagsEffect ==
    ASSUME FolderTypeOK, NEW s \in Stores, NEW u \in UID,
           NEW fl \in SUBSET Letter, MaildirSetFlags(s, u, fl)
    PROVE  /\ uidnext' = uidnext
           /\ box' \in [Stores -> [UID -> Copy \cup {Absent}]]
           /\ BoxSameBut(s, list[s][u].file)
           /\ box'[s][list[s][u].file] # Absent
           /\ box'[s][list[s][u].file].msg = box[s][list[s][u].file].msg
           /\ box'[s][list[s][u].file].uid = box[s][list[s][u].file].uid
           /\ box'[s][list[s][u].file].flags = fl
           /\ list' \in [Stores -> [UID -> Entry \cup {Absent}]]
           /\ ListSameBut(s, u)
           /\ list'[s][u] # Absent
           /\ list'[s][u].flags = fl
           /\ list'[s][u].file = list[s][u].file
           /\ list'[s][u].ignore = list[s][u].ignore
           /\ list'[s][u].temporary = list[s][u].temporary
<1> DEFINE f == list[s][u].file
           c == [msg |-> box[s][f].msg, uid |-> box[s][f].uid, flags |-> fl]
           d == [box[s][f] EXCEPT !.flags = fl]
<1>1. /\ HasFile(s, u) /\ uidnext' = uidnext
      /\ box' = [box EXCEPT ![s][f].flags = fl]
      /\ list' = [list EXCEPT ![s][u].flags = fl]
  BY DEF MaildirSetFlags
<1>2. list[s][u] # Absent /\ f \in UID /\ box[s][f] \in Copy /\ box[s][f] # Absent
  BY <1>1, FileOf
<1> HIDE DEF f
<1>3. d = c /\ c \in Copy
  BY <1>2 DEF Copy
<1>4. c.msg = box[s][f].msg /\ c.uid = box[s][f].uid /\ c.flags = fl
  OBVIOUS
<1>5. box' = [box EXCEPT ![s][f] = d]
  BY <1>1, <1>2 DEF FolderTypeOK
<1> HIDE DEF c, d
<1>6. /\ box' \in [Stores -> [UID -> Copy \cup {Absent}]]
      /\ BoxSameBut(s, f) /\ box'[s][f] = c /\ c # Absent
  BY <1>2, <1>3, <1>5, PutCopy
<1>7. /\ list' \in [Stores -> [UID -> Entry \cup {Absent}]]
      /\ ListSameBut(s, u) /\ list'[s][u] # Absent
      /\ list'[s][u].flags = fl /\ list'[s][u].file = list[s][u].file
      /\ list'[s][u].ignore = list[s][u].ignore
      /\ list'[s][u].temporary = list[s][u].temporary
  BY <1>1, <1>2, EntryFlagged, ZenonT(30)
<1> QED
  BY <1>1, <1>4, <1>6, <1>7 DEF f

LEMMA EntrySettled ==
    ASSUME NEW e \in Entry, NEW b \in BOOLEAN
    PROVE  LET d == [e EXCEPT !.temporary = b]
           IN  /\ d \in Entry /\ d.temporary = b
               /\ d.file = e.file /\ d.flags = e.flags /\ d.ignore = e.ignore
<1> DEFINE d == [e EXCEPT !.temporary = b]
<1>1. /\ d.file = e.file /\ d.flags = e.flags /\ d.ignore = e.ignore
      /\ d.temporary = b
  BY DEF Entry
<1>2. d \in Entry
  BY DEF Entry
<1> QED
  BY <1>1, <1>2

LEMMA MaildirUpdateEffect ==
    ASSUME FolderTypeOK, NEW s \in Stores, NEW u \in UID, NEW out \in UID,
           MaildirUpdate(s, u, out)
    PROVE  /\ uidnext' = uidnext
           /\ ~list[s][u].temporary => out = u
           /\ box' \in [Stores -> [UID -> Copy \cup {Absent}]]
           /\ BoxSameBut(s, list[s][u].file)
           /\ box'[s][list[s][u].file] # Absent
           /\ box'[s][list[s][u].file].msg = box[s][list[s][u].file].msg
           /\ box'[s][list[s][u].file].uid = out
           /\ box'[s][list[s][u].file].flags = list[s][u].flags
           /\ list' \in [Stores -> [UID -> Entry \cup {Absent}]]
           /\ ListSameBut(s, u)
           /\ list'[s][u] # Absent
           /\ list'[s][u].file = list[s][u].file
           /\ list'[s][u].flags = list[s][u].flags
           /\ list'[s][u].ignore = list[s][u].ignore
           /\ ~list'[s][u].temporary
<1> DEFINE f == list[s][u].file
           d == [list[s][u] EXCEPT !.temporary = FALSE]
<1>1. /\ HasFile(s, u) /\ uidnext' = uidnext
      /\ ~list[s][u].temporary => out = u
      /\ Renamed(s, f, out, list[s][u].flags)
      /\ list' = [list EXCEPT ![s][u].temporary = FALSE]
  BY DEF MaildirUpdate, Renamed
<1>2. /\ list[s][u] \in Entry /\ list[s][u] # Absent
      /\ f \in UID /\ box[s][f] # Absent
  BY <1>1, FileOf
<1>3. list[s][u].flags \in SUBSET Letter
  BY <1>2 DEF Entry
<1>4. /\ box' \in [Stores -> [UID -> Copy \cup {Absent}]]
      /\ BoxSameBut(s, f) /\ box'[s][f] # Absent
      /\ box'[s][f].msg = box[s][f].msg
      /\ box'[s][f].uid = out /\ box'[s][f].flags = list[s][u].flags
  <2> HIDE DEF f
  <2> QED
    BY <1>1, <1>2, <1>3, RenameEffect
<1>5. /\ d \in Entry /\ d.file = f /\ d.flags = list[s][u].flags
      /\ d.ignore = list[s][u].ignore /\ ~d.temporary
  BY <1>2, EntrySettled
<1>6. d # Absent
  BY <1>5
<1>7. list' = [list EXCEPT ![s][u] = d]
  BY <1>1 DEF FolderTypeOK
<1> HIDE DEF d
<1>8. /\ list' \in [Stores -> [UID -> Entry \cup {Absent}]]
      /\ ListSameBut(s, u) /\ list'[s][u] = d /\ list'[s][u] # Absent
  BY <1>5, <1>7, PutEntry, ZenonT(30)
<1> QED
  BY <1>1, <1>4, <1>5, <1>8 DEF f

LEMMA MaildirDeleteEffect ==
    ASSUME FolderTypeOK, NEW s \in Stores, NEW u \in UID,
           MaildirDeleteMessage(s, u)
    PROVE  /\ uidnext' = uidnext
           /\ box' \in [Stores -> [UID -> Copy \cup {Absent}]]
           /\ \/ box' = box /\ ~HasFile(s, u)
              \/ /\ HasFile(s, u)
                 /\ box'[s][list[s][u].file] = Absent
                 /\ BoxSameBut(s, list[s][u].file)
           /\ list' \in [Stores -> [UID -> Entry \cup {Absent}]]
           /\ ListSameBut(s, u)
           /\ list'[s][u] = Absent
<1>1. /\ list' = [list EXCEPT ![s][u] = Absent] /\ uidnext' = uidnext
      /\ box' = IF HasFile(s, u)
                THEN [box EXCEPT ![s][list[s][u].file] = Absent] ELSE box
  BY DEF MaildirDeleteMessage
<1>2. CASE HasFile(s, u)
  BY <1>1, <1>2, FileOf DEF FolderTypeOK, BoxSameBut, ListSameBut
<1>3. CASE ~HasFile(s, u)
  BY <1>1, <1>3 DEF FolderTypeOK, ListSameBut
<1> QED
  BY <1>2, <1>3

LEMMA MaildirListTyped ==
    ASSUME FolderTypeOK, NEW s \in Stores, MaildirUpdateMessageList(s)
    PROVE  /\ UNCHANGED <<box, uidnext>>
           /\ list' \in [Stores -> [UID -> Entry \cup {Absent}]]
           /\ \A t \in Stores : t # s => list'[t] = list[t]
<1> DEFINE fresh == {h \in Handles(s) : box[s][h].uid = NoUID}
           named(u) == {h \in Handles(s) : box[s][h].uid = u}
           entry(h, temp) == [file |-> h, flags |-> box[s][h].flags,
                              ignore |-> FALSE, temporary |-> temp]
           ignored == [file |-> NoFile, flags |-> {},
                       ignore |-> TRUE, temporary |-> FALSE]
           l(tempuid) == [u \in UID |->
                IF \E h \in fresh : tempuid[h] = u
                THEN entry(CHOOSE h \in fresh : tempuid[h] = u, TRUE)
                ELSE IF named(u) = {} THEN Absent
                ELSE IF Cardinality(named(u)) > 1 THEN ignored
                ELSE entry(CHOOSE h \in named(u) : TRUE, FALSE)]
<1>1. PICK tempuid : list' = [list EXCEPT ![s] = l(tempuid)]
  BY DEF MaildirUpdateMessageList
<1>2. ASSUME NEW h \in Handles(s), NEW b \in BOOLEAN
      PROVE  entry(h, b) \in Entry
  <2>1. h \in UID /\ box[s][h] \in Copy
    BY DEF Handles, FolderTypeOK
  <2>2. box[s][h].flags \in SUBSET Letter
    BY <2>1 DEF Copy
  <2> QED
    BY <2>1, <2>2 DEF Entry
<1>3. ignored \in Entry
  BY DEF Entry
<1>4. l(tempuid) \in [UID -> Entry \cup {Absent}]
  <2> SUFFICES ASSUME NEW u \in UID PROVE l(tempuid)[u] \in Entry \cup {Absent}
    OBVIOUS
  <2>1. fresh \subseteq Handles(s) /\ named(u) \subseteq Handles(s)
    OBVIOUS
  <2> HIDE DEF entry, ignored, fresh, named
  <2>2. CASE \E h \in fresh : tempuid[h] = u
    <3>1. (CHOOSE h \in fresh : tempuid[h] = u) \in fresh
      BY <2>2
    <3> QED
      BY <1>2, <2>1, <2>2, <3>1
  <2>3. CASE ~(\E h \in fresh : tempuid[h] = u) /\ named(u) # {}
    <3>1. (CHOOSE h \in named(u) : TRUE) \in named(u)
      BY <2>3
    <3>2. entry(CHOOSE h \in named(u) : TRUE, FALSE) \in Entry
      BY <1>2, <2>1, <3>1
    <3> QED
      BY <1>3, <2>3, <3>2
  <2> QED
    BY <2>2, <2>3
<1> HIDE DEF l
<1>5. UNCHANGED <<box, uidnext>>
  BY DEF MaildirUpdateMessageList
<1> QED
  BY <1>1, <1>4, <1>5 DEF FolderTypeOK
-----------------------------------------------------------------------------
(* What has a type, whatever the kinds of the stores.  A source's flags    *)
(* are read from its list, so what is still to do must be listed.          *)
TypeInv ==
    /\ TypeOK
    /\ pc \in Syncing \ {"diff"} =>
          /\ todo.new \subseteq Listed(src)
          /\ \A r \in todo.chg : r.uid[src] \in Listed(src)

LEMMA StoresOf ==
    ASSUME TypeOK
    PROVE  /\ src \in Stores /\ dst \in Stores /\ dst # src /\ Stores = {src, dst}
           /\ dst = Other(src) /\ Other(dst) = src
           /\ \A s \in Stores : /\ ~IsImap(s) <=> Kind[s] = "Maildir"
BY OtherStore DEF TypeOK, dst, Stores, Other, IsImap

LEMMA KeepsTypes ==
    ASSUME TypeInv, UNCHANGED <<folderVars, db, config, auxVars>>,
           pc' \in PCs, iter' \in {1, 2}, src' \in Stores,
           outcome' \in {"none", "running", "ok", "error", "crashed"},
           todo' \in [new : SUBSET UID, del : SUBSET Row, chg : SUBSET Row],
           cur' \in [src : UID, dst : UID, msg : Msg \cup {Blank},
                     flags : SUBSET Letter],
           pc' \in Syncing \ {"diff"} =>
              /\ todo'.new \subseteq Listed(src')
              /\ \A r \in todo'.chg : r.uid[src'] \in Listed(src')
    PROVE  TypeInv'
BY DEF TypeInv, TypeOK, FolderTypeOK, folderVars, auxVars, Listed

LEMMA AbortTypes ==
    ASSUME TypeInv, Abort, UNCHANGED folderVars
    PROVE  TypeInv'
<1>1. NoCur \in [src : UID, dst : UID, msg : Msg \cup {Blank},
                 flags : SUBSET Letter]
  BY DEF NoCur, UID
<1>2. NothingToDo \in [new : SUBSET UID, del : SUBSET Row, chg : SUBSET Row]
  BY DEF NothingToDo
<1> QED
  BY <1>1, <1>2, KeepsTypes DEF TypeInv, TypeOK, Abort, PCs, Syncing

LEMMA IdleTypes ==
    ASSUME TypeInv, \/ StartSync \/ OpenFails \/ Fail \/ CloseFails \/ Crash
                    \/ Close1 \/ Close2
    PROVE  TypeInv'
<1> USE DEF TypeInv, TypeOK, FolderTypeOK
<1>1. NoCur \in [src : UID, dst : UID, msg : Msg \cup {Blank},
                 flags : SUBSET Letter]
  BY DEF NoCur, UID
<1>2. NothingToDo \in [new : SUBSET UID, del : SUBSET Row, chg : SUBSET Row]
  BY DEF NothingToDo
<1>3. [s \in Stores |-> NoMessages] \in [Stores -> [UID -> Entry \cup {Absent}]]
  BY DEF NoMessages
<1>4. 1 \in Stores
  BY DEF Stores
<1>5. CASE StartSync
  BY <1>5 DEF StartSync, folderVars, PCs, Syncing
<1>10. CASE OpenFails
  BY <1>10 DEF OpenFails, folderVars, PCs, Syncing
<1>6. CASE Fail
  BY <1>1, <1>2, <1>6 DEF Fail, folderVars, PCs, Syncing
<1>7. CASE Crash
  BY <1>1, <1>2, <1>3, <1>4, <1>7 DEF Crash, EndPass, PCs, Syncing
<1>8. CASE CloseFails
  BY <1>3, <1>4, <1>8 DEF CloseFails, EndPass, PCs, Syncing
<1>9. CASE Close1 \/ Close2
  <2>1. PICK s \in Stores : CloseFolder(s)
    BY <1>9 DEF Close1, Close2, Stores
  <2>2. box' \in [Stores -> [UID -> Copy \cup {Absent}]]
    <3>1. (Expunge[s] /\ config.deletemode # "flag") \in BOOLEAN
      OBVIOUS
    <3>2. CASE IsImap(s)
      BY <2>1, <3>1, <3>2, CloseEffect DEF CloseFolder
    <3>3. CASE ~IsImap(s)
      BY <2>1, <3>3 DEF CloseFolder
    <3> QED
      BY <3>2, <3>3
  <2>3. CASE Close1
    BY <1>3, <1>4, <2>2, <2>3 DEF Close1, EndPass, PCs, Syncing, auxVars
  <2>4. CASE Close2
    BY <2>2, <2>4 DEF Close2, PCs, Syncing, auxVars
  <2> QED
    BY <1>9, <2>3, <2>4
<1> QED
  BY <1>5, <1>6, <1>7, <1>8, <1>9, <1>10

(* The operations a pass performs on a folder of either kind.              *)
NoCopyLost == \A t \in Stores, h \in UID : box[t][h] # Absent => box'[t][h] # Absent

LEMMA SetFlagsTypes ==
    ASSUME FolderTypeOK, NEW s \in Stores, NEW u \in UID,
           NEW fl \in SUBSET Letter, SetFlags(s, u, fl)
    PROVE  FolderTypeOK' /\ ListSameBut(s, u) /\ NoCopyLost
<1>1. CASE IsImap(s)
  <2>1. ImapSetFlags(s, u, fl) /\ ServerStore(s, u, fl) /\ uidnext' = uidnext
    BY <1>1 DEF SetFlags, ImapSetFlags
  <2>2. /\ box' \in [Stores -> [UID -> Copy \cup {Absent}]]
        /\ BoxSameBut(s, u)
        /\ box[s][u] # Absent => box'[s][u] # Absent
    BY <2>1, StoreEffect
  <2>3. list' \in [Stores -> [UID -> Entry \cup {Absent}]] /\ ListSameBut(s, u)
    BY <2>1, SetFlagsEffect
  <2> QED
    BY <2>1, <2>2, <2>3 DEF FolderTypeOK, BoxSameBut, NoCopyLost
<1>2. CASE ~IsImap(s)
  <2>1. MaildirSetFlags(s, u, fl) /\ HasFile(s, u)
    BY <1>2 DEF SetFlags, MaildirSetFlags
  <2> DEFINE f == list[s][u].file
  <2>2. f \in UID
    BY <2>1, FileOf
  <2>3. /\ uidnext' = uidnext
        /\ box' \in [Stores -> [UID -> Copy \cup {Absent}]]
        /\ BoxSameBut(s, f) /\ box'[s][f] # Absent
        /\ list' \in [Stores -> [UID -> Entry \cup {Absent}]]
        /\ ListSameBut(s, u)
    BY <2>1, MaildirSetFlagsEffect
  <2> HIDE DEF f
  <2> QED
    BY <2>2, <2>3 DEF FolderTypeOK, BoxSameBut, NoCopyLost
<1> QED
  BY <1>1, <1>2

LEMMA DeleteTypes ==
    ASSUME FolderTypeOK, NEW s \in Stores, NEW u \in UID, DeleteMessage(s, u)
    PROVE  FolderTypeOK' /\ ListSameBut(s, u)
<1>1. CASE IsImap(s)
  <2>1. ImapDeleteMessage(s, u) /\ ServerStore(s, u, {"T"}) /\ uidnext' = uidnext
    BY <1>1 DEF DeleteMessage, ImapDeleteMessage
  <2>2. {"T"} \in SUBSET Letter
    BY DEF Letter, Mapped
  <2>3. box' \in [Stores -> [UID -> Copy \cup {Absent}]]
    BY <2>1, <2>2, StoreEffect
  <2>4. list' \in [Stores -> [UID -> Entry \cup {Absent}]] /\ ListSameBut(s, u)
    BY <2>1, DeleteEffect
  <2> QED
    BY <2>1, <2>3, <2>4 DEF FolderTypeOK
<1>2. CASE ~IsImap(s)
  BY <1>2, MaildirDeleteEffect DEF DeleteMessage, FolderTypeOK
<1> QED
  BY <1>1, <1>2

LEMMA AddTypes ==
    ASSUME FolderTypeOK, NEW s \in Stores, NEW u \in UID,
           NEW m \in Msg \cup {Blank}, NEW fl \in SUBSET Letter,
           AddMessage(s, m, fl, u)
    PROVE  FolderTypeOK' /\ ListSameBut(s, u) /\ NoCopyLost
<1>1. CASE IsImap(s)
  <2> DEFINE g == fl \cap Mapped
  <2>1. /\ ImapAddMessage(s, m, fl, u)
        /\ ServerAppend(s, m, g, u)
    BY <1>1 DEF AddMessage, ImapAddMessage
  <2>2. g \in SUBSET Letter
    OBVIOUS
  <2> HIDE DEF g
  <2>3. /\ box' \in [Stores -> [UID -> Copy \cup {Absent}]]
        /\ uidnext' \in [Stores -> Nat \ {0}]
        /\ box'[s][u] # Absent /\ BoxSameBut(s, u)
    BY <2>1, <2>2, AppendEffect
  <2>4. list' \in [Stores -> [UID -> Entry \cup {Absent}]] /\ ListSameBut(s, u)
    BY <2>1, AddEffect
  <2> QED
    BY <2>3, <2>4 DEF FolderTypeOK, BoxSameBut, NoCopyLost
<1>2. CASE ~IsImap(s)
  <2>1. MaildirAddMessage(s, m, fl, u)
    BY <1>2 DEF AddMessage
  <2>2. /\ uidnext' = uidnext
        /\ box' \in [Stores -> [UID -> Copy \cup {Absent}]]
        /\ list' \in [Stores -> [UID -> Entry \cup {Absent}]]
        /\ box'[s][NewFile(s)] # Absent /\ BoxSameBut(s, NewFile(s))
        /\ ListSameBut(s, u)
    BY <2>1, MaildirAddEffect
  <2> QED
    BY <2>2 DEF FolderTypeOK, BoxSameBut, NoCopyLost
<1> QED
  BY <1>1, <1>2

LEMMA UpdateTypes ==
    ASSUME FolderTypeOK, NEW s \in Stores, NEW u \in UID, NEW out \in UID,
           UpdateMessage(s, u, out)
    PROVE  FolderTypeOK' /\ Listed(s) \subseteq Listed(s)' /\ NoCopyLost
<1>1. CASE IsImap(s)
  BY <1>1 DEF UpdateMessage, folderVars, FolderTypeOK, Listed, NoCopyLost
<1>2. CASE ~IsImap(s)
  <2>1. MaildirUpdate(s, u, out) /\ HasFile(s, u)
    BY <1>2 DEF UpdateMessage, MaildirUpdate
  <2> DEFINE f == list[s][u].file
  <2>2. f \in UID
    BY <2>1, FileOf
  <2>3. /\ uidnext' = uidnext
        /\ box' \in [Stores -> [UID -> Copy \cup {Absent}]]
        /\ BoxSameBut(s, f) /\ box'[s][f] # Absent
        /\ list' \in [Stores -> [UID -> Entry \cup {Absent}]]
        /\ ListSameBut(s, u) /\ list'[s][u] # Absent
    BY <2>1, MaildirUpdateEffect
  <2> HIDE DEF f
  <2>4. Listed(s) \subseteq Listed(s)'
    BY <2>3 DEF Listed, ListSameBut
  <2> QED
    BY <2>2, <2>3, <2>4 DEF FolderTypeOK, BoxSameBut, NoCopyLost
<1> QED
  BY <1>1, <1>2

LEMMA ListFolderTypes ==
    ASSUME TypeInv, ListFolder1 \/ ListFolder2
    PROVE  TypeInv' /\ UNCHANGED box
<1> PICK s \in Stores, here \in {"list1", "list2"}, next \in {"list2", "diff"} :
        ListFolder(s, here, next)
  BY DEF ListFolder1, ListFolder2, Stores
<1>1. /\ UpdateMessageList(s) /\ pc' = next
      /\ UNCHANGED <<db, config, iter, src, todo, cur, outcome, auxVars>>
  BY DEF ListFolder
<1>2. /\ UNCHANGED <<box, uidnext>>
      /\ list' \in [Stores -> [UID -> Entry \cup {Absent}]]
  <2>1. CASE IsImap(s)
    BY <1>1, <2>1, ListEffect
       DEF UpdateMessageList, ImapUpdateMessageList, TypeInv, TypeOK
  <2>2. CASE ~IsImap(s)
    BY <1>1, <2>2, MaildirListTyped DEF UpdateMessageList, TypeInv, TypeOK
  <2> QED
    BY <2>1, <2>2
<1> QED
  BY <1>1, <1>2 DEF TypeInv, TypeOK, FolderTypeOK, PCs, Syncing, auxVars

LEMMA DiffTypes ==
    ASSUME TypeInv, Diff \/ NextDirection
    PROVE  TypeInv'
<1> USE DEF TypeInv, TypeOK
<1>1. CASE Diff
  <2>1. /\ todo'.new \subseteq NewMessages(src)
        /\ todo'.chg \subseteq ChangedMessages(src)
        /\ todo' \in [new : SUBSET UID, del : SUBSET Row, chg : SUBSET Row]
    BY <1>1 DEF Diff, NothingToDo, NewMessages, DeletedMessages, ChangedMessages,
                Listed
  <2>2. NewMessages(src) \subseteq Listed(src)
    BY DEF NewMessages
  <2>3. \A r \in ChangedMessages(src) : r.uid[src] \in Listed(src)
    BY DEF ChangedMessages, HasUID, Listed, Row
  <2>4. /\ UNCHANGED <<folderVars, db, config, auxVars, src, cur>>
        /\ pc' \in PCs /\ iter' \in {1, 2}
        /\ outcome' \in {"none", "running", "ok", "error", "crashed"}
    BY <1>1 DEF Diff, PCs
  <2> QED
    BY <2>1, <2>2, <2>3, <2>4, KeepsTypes
<1>2. CASE NextDirection
  BY <1>2, KeepsTypes DEF NextDirection, PCs, Stores, Syncing
<1> QED
  BY <1>1, <1>2

LEMMA ReadTypes ==
    ASSUME TypeInv, ReadMessage
    PROVE  TypeInv'
<1> PICK u \in UID : ReadNew(u)
  BY DEF ReadMessage
<1>1. CASE Abort /\ UNCHANGED folderVars
  BY <1>1, AbortTypes
<1>2. CASE ~(Abort /\ UNCHANGED folderVars)
  <2>1. /\ pc = "work" /\ pc' = "add" /\ u \in todo.new /\ CanRead(src, u)
        /\ cur' = [src |-> u, dst |-> 0, msg |-> Body(src, u),
                   flags |-> list[src][u].flags]
        /\ todo' = [todo EXCEPT !.new = @ \ {u}]
        /\ UNCHANGED <<folderVars, config, iter, src, outcome, db, auxVars>>
    BY <1>2 DEF ReadNew
  <2>2. src \in Stores /\ FolderTypeOK
    BY DEF TypeInv, TypeOK
  <2>3. u \in Listed(src)
    BY <2>1 DEF TypeInv, Syncing
  <2>4. list[src][u].flags \in SUBSET Letter
    BY <2>2, <2>3 DEF FolderTypeOK, Entry, Listed
  <2>5. Body(src, u) \in Msg \cup {Blank}
    <3>1. CASE IsImap(src)
      BY <2>2, <3>1 DEF Body, ImapBody, FolderTypeOK, Copy
    <3>2. CASE ~IsImap(src)
      <4>1. box[src][list[src][u].file] \in Copy
        BY <2>1, <2>2, <3>2, FileOf DEF CanRead
      <4> QED
        BY <3>2, <4>1 DEF Body, MaildirBody, Copy
    <3> QED
      BY <3>1, <3>2
  <2>6. cur' \in [src : UID, dst : UID, msg : Msg \cup {Blank},
                  flags : SUBSET Letter]
    <3>1. 0 \in UID
      BY DEF UID
    <3> QED
      BY <2>1, <2>4, <2>5, <3>1
  <2>7. /\ todo' \in [new : SUBSET UID, del : SUBSET Row, chg : SUBSET Row]
        /\ todo'.new \subseteq todo.new /\ todo'.chg = todo.chg
    BY <2>1 DEF TypeInv, TypeOK
  <2> QED
    BY <2>1, <2>2, <2>6, <2>7, KeepsTypes DEF TypeInv, TypeOK, PCs, Syncing
<1> QED
  BY <1>1, <1>2

LEMMA AddNewTypes ==
    ASSUME TypeInv, AddNew
    PROVE  TypeInv' /\ NoCopyLost
<1> PICK u \in UID : AddMessage(dst, cur.msg, cur.flags, u) /\ cur' = [cur EXCEPT !.dst = u]
  BY DEF AddNew
<1>1. /\ FolderTypeOK /\ src \in Stores /\ dst \in Stores /\ dst # src
      /\ cur.msg \in Msg \cup {Blank} /\ cur.flags \in SUBSET Letter
  BY StoresOf DEF TypeInv, TypeOK
<1>2. FolderTypeOK' /\ ListSameBut(dst, u) /\ NoCopyLost
  BY <1>1, AddTypes
<1>3. cur' \in [src : UID, dst : UID, msg : Msg \cup {Blank},
                flags : SUBSET Letter]
  BY DEF TypeInv, TypeOK
<1>4. /\ pc = "add" /\ pc' = "update"
      /\ UNCHANGED <<db, config, iter, src, todo, outcome, auxVars>>
  BY DEF AddNew
<1>5. Listed(src)' = Listed(src)
  BY <1>1, <1>2, <1>4 DEF Listed, ListSameBut
<1>6. TypeOK'
  BY <1>2, <1>3, <1>4 DEF TypeInv, TypeOK, PCs, auxVars
<1> QED
  BY <1>2, <1>4, <1>5, <1>6 DEF TypeInv, Syncing

LEMMA UpdateSourceTypes ==
    ASSUME TypeInv, UpdateSource
    PROVE  TypeInv' /\ NoCopyLost
<1>1. CASE Abort /\ UNCHANGED folderVars
  BY <1>1, AbortTypes DEF NoCopyLost, folderVars
<1>2. CASE ~(Abort /\ UNCHANGED folderVars)
  <2>1. /\ pc = "update" /\ pc' = "commit"
        /\ UNCHANGED <<config, iter, src, todo, outcome, db, auxVars>>
    BY <1>2 DEF UpdateSource
  <2>2. PICK u \in UID : /\ UpdateMessage(src, cur.src, u)
                         /\ cur' = [cur EXCEPT !.src = u]
    BY <1>2 DEF UpdateSource
  <2>3. FolderTypeOK /\ src \in Stores /\ cur.src \in UID
    BY DEF TypeInv, TypeOK
  <2>4. FolderTypeOK' /\ Listed(src) \subseteq Listed(src)' /\ NoCopyLost
    <3>1. FolderTypeOK' /\ NoCopyLost
      BY <2>2, <2>3, UpdateTypes
    <3>2. \A s : s = src => Listed(s) \subseteq Listed(s)'
      BY <2>2, <2>3, UpdateTypes
    <3> QED
      BY <2>1, <3>1, <3>2
  <2>5. cur' \in [src : UID, dst : UID, msg : Msg \cup {Blank},
                  flags : SUBSET Letter]
    BY <2>2 DEF TypeInv, TypeOK
  <2>6. TypeOK'
    BY <2>1, <2>4, <2>5 DEF TypeInv, TypeOK, PCs, auxVars
  <2> QED
    BY <2>1, <2>4, <2>6 DEF TypeInv, Syncing
<1> QED
  BY <1>1, <1>2

LEMMA CommitTypes ==
    ASSUME TypeInv, CommitNew \/ CommitDelete \/ CommitChange
    PROVE  TypeInv' /\ UNCHANGED box
<1>1. /\ Committed /\ pc \in Syncing \ {"diff"}
  BY DEF CommitNew, CommitDelete, CommitChange, Syncing
<1>2. /\ pc' = "work" /\ UNCHANGED <<folderVars, config, iter, src, todo, outcome, auxVars>>
      /\ cur' \in [src : UID, dst : UID, msg : Msg \cup {Blank},
                   flags : SUBSET Letter]
  BY <1>1, CommittedFacts DEF TypeInv, Committed
<1>3. db' \subseteq Row
  <2> DEFINE n == [uid |-> Pair(src, cur.src, cur.dst), flags |-> cur.flags]
  <2>1. n \in Row
    <3>1. /\ src \in Stores /\ cur.src \in UID /\ cur.dst \in UID
          /\ cur.flags \in SUBSET Letter
      BY DEF TypeInv, TypeOK
    <3>2. Pair(src, cur.src, cur.dst) \in [Stores -> UID]
      BY <3>1, PairFacts
    <3> QED
      BY <3>1, <3>2 DEF Row
  <2>2. db' \subseteq db \cup {n}
    BY DEF CommitNew, CommitDelete, CommitChange, RowUpdated, RowDeleted
  <2> QED
    BY <2>1, <2>2 DEF TypeInv, TypeOK
<1>4. TypeOK'
  BY <1>2, <1>3 DEF TypeInv, TypeOK, FolderTypeOK, folderVars, PCs, auxVars
<1> QED
  BY <1>1, <1>2, <1>4 DEF TypeInv, Syncing, Listed, folderVars

LEMMA DeleteRowTypes ==
    ASSUME TypeInv, DeleteMessages
    PROVE  TypeInv' /\ (config.deletemode # "expunge" => NoCopyLost)
<1> PICK r \in todo.del, v \in UID : DeleteRow(r, v)
  BY DEF DeleteMessages
<1>1. CASE Abort /\ UNCHANGED folderVars
  BY <1>1, AbortTypes DEF NoCopyLost, folderVars
<1>2. CASE ~(Abort /\ UNCHANGED folderVars)
  <2>1. /\ pc = "work" /\ pc' = "commitDel" /\ DeleteDst(r, v)
        /\ cur' = [NoCur EXCEPT !.src = r.uid[src], !.dst = v]
        /\ todo' = [todo EXCEPT !.del = @ \ {r}]
        /\ UNCHANGED <<config, iter, src, outcome, db, auxVars>>
    BY <1>2 DEF DeleteRow
  <2>2. /\ FolderTypeOK /\ src \in Stores /\ dst \in Stores /\ dst # src
        /\ r \in Row /\ r.uid[src] \in UID
    BY StoresOf DEF TypeInv, TypeOK, Row
  <2>3. /\ FolderTypeOK' /\ ListSameBut(dst, v)
        /\ config.deletemode # "expunge" => NoCopyLost
    <3>1. CASE DeleteMessage(dst, v) /\ config.deletemode = "expunge"
      BY <2>2, <3>1, DeleteTypes
    <3>2. CASE HasUID(dst, v) /\ SetFlags(dst, v, list[dst][v].flags \cup Newflags)
      <4> DEFINE g == list[dst][v].flags \cup Newflags
      <4>1. g \in SUBSET Letter
        BY <2>2, <3>2 DEF HasUID, FolderTypeOK, Entry, Letter
      <4>2. SetFlags(dst, v, g)
        BY <3>2
      <4> HIDE DEF g
      <4> QED
        BY <2>2, <4>1, <4>2, SetFlagsTypes
    <3>3. CASE UNCHANGED folderVars
      BY <2>2, <3>3 DEF folderVars, FolderTypeOK, ListSameBut, NoCopyLost
    <3> QED
      BY <2>1, <3>1, <3>2, <3>3 DEF DeleteDst
  <2>4. cur' \in [src : UID, dst : UID, msg : Msg \cup {Blank},
                  flags : SUBSET Letter]
    BY <2>1, <2>2 DEF NoCur, UID
  <2>5. /\ todo' \in [new : SUBSET UID, del : SUBSET Row, chg : SUBSET Row]
        /\ todo'.new = todo.new /\ todo'.chg = todo.chg
    BY <2>1 DEF TypeInv, TypeOK
  <2>6. Listed(src)' = Listed(src)
    BY <2>1, <2>2, <2>3 DEF Listed, ListSameBut
  <2>7. TypeOK'
    BY <2>1, <2>3, <2>4, <2>5 DEF TypeInv, TypeOK, PCs, auxVars
  <2> QED
    BY <2>1, <2>3, <2>5, <2>6, <2>7 DEF TypeInv, Syncing
<1> QED
  BY <1>1, <1>2

LEMMA ChangeRowTypes ==
    ASSUME TypeInv, ChangeMessages
    PROVE  TypeInv' /\ NoCopyLost
<1> PICK r \in todo.chg, v \in UID : ChangeRow(r, v)
  BY DEF ChangeMessages
<1>1. CASE Abort /\ UNCHANGED folderVars
  BY <1>1, AbortTypes DEF NoCopyLost, folderVars
<1>2. CASE ~(Abort /\ UNCHANGED folderVars)
  <2>1. /\ pc = "work" /\ todo' = [todo EXCEPT !.chg = @ \ {r}]
        /\ UNCHANGED <<config, iter, src, outcome, db, auxVars>>
        /\ \/ UNCHANGED <<folderVars, pc, cur>>
           \/ /\ SetFlags(dst, v, list[src][r.uid[src]].flags)
              /\ cur' = [src |-> r.uid[src], dst |-> v, msg |-> Blank,
                         flags |-> list[src][r.uid[src]].flags]
              /\ pc' = "commitChg"
    BY <1>2 DEF ChangeRow
  <2>2. /\ FolderTypeOK /\ src \in Stores /\ dst \in Stores /\ dst # src
        /\ r \in Row /\ r.uid[src] \in UID
    BY StoresOf DEF TypeInv, TypeOK, Row
  <2>3. r.uid[src] \in Listed(src)
    BY <2>1 DEF TypeInv, Syncing
  <2> DEFINE g == list[src][r.uid[src]].flags
  <2>4. g \in SUBSET Letter
    BY <2>2, <2>3 DEF FolderTypeOK, Entry, Listed
  <2> HIDE DEF g
  <2>5. FolderTypeOK' /\ ListSameBut(dst, v) /\ NoCopyLost
    <3>1. CASE SetFlags(dst, v, g)
      BY <2>2, <2>4, <3>1, SetFlagsTypes
    <3>2. CASE UNCHANGED folderVars
      BY <2>2, <3>2 DEF folderVars, FolderTypeOK, ListSameBut, NoCopyLost
    <3> QED
      BY <2>1, <3>1, <3>2 DEF g
  <2>6. cur' \in [src : UID, dst : UID, msg : Msg \cup {Blank},
                  flags : SUBSET Letter]
    BY <2>1, <2>2, <2>4 DEF TypeInv, TypeOK, g
  <2>7. /\ todo' \in [new : SUBSET UID, del : SUBSET Row, chg : SUBSET Row]
        /\ todo'.new = todo.new /\ todo'.chg \subseteq todo.chg
    BY <2>1 DEF TypeInv, TypeOK
  <2>8. Listed(src)' = Listed(src)
    BY <2>1, <2>2, <2>5 DEF Listed, ListSameBut
  <2>9. TypeOK'
    BY <2>1, <2>5, <2>6, <2>7 DEF TypeInv, TypeOK, PCs, auxVars
  <2> QED
    BY <2>1, <2>5, <2>7, <2>8, <2>9 DEF TypeInv, Syncing
<1> QED
  BY <1>1, <1>2

LEMMA UserTypes ==
    ASSUME TypeInv, User
    PROVE  TypeInv'
<1>1. FolderTypeOK
  BY DEF TypeInv, TypeOK
<1>2. /\ UNCHANGED <<syncVars, db, faults, list>> /\ userops' \in Nat
      /\ disturbed' \in BOOLEAN /\ born' \subseteq Msg
  <2>1. UNCHANGED list
    BY DEF User, Deliver, ImapDeliver, MaildirDeliver, Remove, UserDelete,
           Toggle, UserFlags
  <2>2. \E op, s : UserStep(op, s)
    BY DEF User, Deliver, Remove, Toggle
  <2>3. /\ UNCHANGED <<syncVars, db, faults>>
        /\ userops' = userops + 1 /\ disturbed' = TRUE
    BY <2>2 DEF UserStep
  <2>4. born' = born \/ \E m \in Msg : born' = born \cup {m}
    BY DEF User, Deliver, Remove, Toggle
  <2> QED
    BY <2>1, <2>3, <2>4 DEF TypeInv, TypeOK
<1>3. /\ box' \in [Stores -> [UID -> Copy \cup {Absent}]]
      /\ uidnext' \in [Stores -> Nat \ {0}]
      /\ gone' \subseteq Msg \cup {Blank}
  <2>1. CASE \E s \in Stores : \E m \in Msg : Deliver(s, m)
    <3> PICK s \in Stores, m \in Msg : Deliver(s, m)
      BY <2>1
    <3>1. {} \in SUBSET Letter /\ m \in Msg \cup {Blank} /\ gone' = gone
      BY DEF Deliver
    <3>2. CASE IsImap(s)
      <4>1. PICK u \in UID : ServerAppend(s, m, {}, u)
        BY <3>2 DEF Deliver, ImapDeliver
      <4>2. /\ box' \in [Stores -> [UID -> Copy \cup {Absent}]]
            /\ uidnext' \in [Stores -> Nat \ {0}]
        BY <1>1, <3>1, <4>1, AppendEffect
      <4> QED
        BY <3>1, <4>2 DEF TypeInv, TypeOK
    <3>3. CASE ~IsImap(s)
      <4> DEFINE c == [msg |-> m, uid |-> NoUID, flags |-> {}]
      <4>1. /\ FreeFiles(s) # {} /\ uidnext' = uidnext
            /\ box' = [box EXCEPT ![s][NewFile(s)] = c]
        BY <3>3 DEF Deliver, MaildirDeliver
      <4>2. c \in Copy
        BY DEF Copy
      <4>3. NewFile(s) \in UID
        BY <4>1, NewFileIsFree
      <4> HIDE DEF c
      <4>4. box' \in [Stores -> [UID -> Copy \cup {Absent}]]
        BY <1>1, <4>1, <4>2, <4>3, PutCopy
      <4> QED
        BY <1>1, <3>1, <4>1, <4>4 DEF TypeInv, TypeOK, FolderTypeOK
    <3> QED
      BY <3>2, <3>3
  <2>2. CASE \E s \in Stores : \E h \in Handles(s) : Remove(s, h)
    <3> PICK s \in Stores : \E h \in Handles(s) : Remove(s, h)
      BY <2>2
    <3> PICK h \in Handles(s) : Remove(s, h)
      OBVIOUS
    <3>1. h \in UID /\ box[s][h] \in Copy
      BY <1>1 DEF Handles, FolderTypeOK
    <3>2. /\ box' = [box EXCEPT ![s][h] = Absent] /\ uidnext' = uidnext
          /\ gone' = gone \cup {box[s][h].msg}
      BY DEF Remove, UserDelete
    <3> QED
      BY <1>1, <3>1, <3>2 DEF FolderTypeOK, Copy, TypeInv, TypeOK
  <2>3. CASE \E s \in Stores : \E h \in Handles(s), f \in UserFlag : Toggle(s, h, f)
    <3> PICK s \in Stores : \E h \in Handles(s), f \in UserFlag : Toggle(s, h, f)
      BY <2>3
    <3> PICK h \in Handles(s), f \in UserFlag : Toggle(s, h, f)
      OBVIOUS
    <3>1. h \in UID /\ box[s][h] \in Copy
      BY <1>1 DEF Handles, FolderTypeOK
    <3>2. PICK fl \in SUBSET Letter :
             /\ box' = [box EXCEPT ![s][h].flags = fl] /\ uidnext' = uidnext
      <4>1. box[s][h].flags \in SUBSET Letter
        BY <3>1 DEF Copy
      <4>2. /\ box[s][h].flags \ {f} \in SUBSET Letter
            /\ box[s][h].flags \cup {f} \in SUBSET Letter
        BY <4>1 DEF Letter
      <4> QED
        BY <4>2 DEF Toggle, UserFlags
    <3> DEFINE c == [box[s][h] EXCEPT !.flags = fl]
    <3>3. c \in Copy
      BY <3>1 DEF Copy
    <3>4. box' = [box EXCEPT ![s][h] = c]
      BY <1>1, <3>1, <3>2 DEF FolderTypeOK
    <3> HIDE DEF c
    <3>5. box' \in [Stores -> [UID -> Copy \cup {Absent}]]
      BY <1>1, <3>1, <3>3, <3>4, PutCopy
    <3>6. gone' \subseteq Msg \cup {Blank}
      BY <3>1 DEF Toggle, Copy, TypeInv, TypeOK
    <3> QED
      BY <1>1, <3>2, <3>5, <3>6 DEF FolderTypeOK
  <2> QED
    BY <2>1, <2>2, <2>3 DEF User
<1> QED
  BY <1>1, <1>2, <1>3
     DEF TypeInv, TypeOK, FolderTypeOK, syncVars, Listed

LEMMA NextTypes ==
    ASSUME TypeInv, [Next]_vars
    PROVE  TypeInv'
<1>1. CASE UNCHANGED vars
  BY <1>1 DEF vars, TypeInv, TypeOK, FolderTypeOK, Listed
<1>2. CASE SyncStep
  BY <1>2, ListFolderTypes, DiffTypes, ReadTypes, AddNewTypes, UpdateSourceTypes,
     CommitTypes, DeleteRowTypes, ChangeRowTypes, IdleTypes DEF SyncStep
<1>3. CASE StartSync \/ OpenFails \/ Fail \/ CloseFails \/ Crash
  BY <1>3, IdleTypes
<1>4. CASE User
  BY <1>4, UserTypes
<1> QED
  BY <1>1, <1>2, <1>3, <1>4 DEF Next

LEMMA TypeInvariance == Spec => []TypeInv
<1>1. Init => TypeInv
  BY InitInv DEF IInv, TypeInv, Init, Syncing
<1>2. TypeInv /\ [Next]_vars => TypeInv'
  BY NextTypes
<1> QED
  BY <1>1, <1>2, PTL DEF Spec

(* Every variable keeps its type whatever the kinds of the two stores: an  *)
(* IMAP folder and a Maildir answer to the same MailfolderManager, and     *)
(* SyncFolder reads flags only of messages that are listed.                *)
THEOREM AnyKindTypeCorrect == Spec => []TypeOK
<1>1. TypeInv => TypeOK
  BY DEF TypeInv
<1> QED
  BY <1>1, TypeInvariance, PTL

(* Whatever the kinds of the two stores, a pass takes a copy that nobody   *)
(* flagged Deleted away only in deletemode expunge: adding, renaming and   *)
(* flagging never overwrite a file, and CLOSE spares what is not flagged.  *)
THEOREM OnlyExpungeTakesCopies == Spec => OnlyExpungeRemoves
<1> DEFINE A == SyncStep /\ config.deletemode # "expunge" =>
                   \A s \in Stores : \A h \in Live(s) : box'[s][h] # Absent
<1>1. TypeInv /\ [Next]_vars => [A]_vars
  <2> SUFFICES ASSUME TypeInv, SyncStep, config.deletemode # "expunge",
                      NEW s \in Stores, NEW h \in Live(s)
               PROVE  box'[s][h] # Absent
    OBVIOUS
  <2>1. h \in UID /\ box[s][h] # Absent /\ "T" \notin box[s][h].flags
    BY DEF Live, Handles
  <2>2. CASE NoCopyLost
    BY <2>1, <2>2 DEF NoCopyLost
  <2>3. CASE UNCHANGED box
    BY <2>1, <2>3
  <2>4. CASE Close2 \/ Close1
    <3>1. PICK t \in Stores : CloseFolder(t)
      BY <2>4 DEF Close1, Close2, Stores
    <3>2. CASE IsImap(t)
      <4>1. (Expunge[t] /\ config.deletemode # "flag") \in BOOLEAN
        OBVIOUS
      <4>2. box'[s][h] = box[s][h] \/ "T" \in box[s][h].flags
        BY <2>1, <3>1, <3>2, <4>1, CloseEffect DEF CloseFolder, TypeInv, TypeOK
      <4> QED
        BY <2>1, <4>2
    <3> QED
      BY <2>3, <3>1, <3>2 DEF CloseFolder
  <2>5. CASE Diff \/ ReadMessage \/ NextDirection
    BY <2>3, <2>5 DEF Diff, ReadMessage, ReadNew, NextDirection, folderVars
  <2> QED
    BY <2>2, <2>3, <2>4, <2>5, ListFolderTypes, AddNewTypes, UpdateSourceTypes,
       CommitTypes, DeleteRowTypes, ChangeRowTypes DEF SyncStep
<1> HIDE DEF A
<1>2. Spec => [][A]_vars
  BY <1>1, TypeInvariance, PTL DEF Spec
<1> QED
  BY <1>2 DEF A, OnlyExpungeRemoves
-----------------------------------------------------------------------------
(* A Maildir, store 1, that mirrors an IMAP folder, store 2.               *)
LEMMA TheStores ==
    ASSUME IsMirror, TypeOK
    PROVE  /\ 1 \in Stores /\ 2 \in Stores /\ Stores = {1, 2}
           /\ Other(1) = 2 /\ Other(2) = 1
           /\ IsImap(2) /\ ~IsImap(1)
           /\ src \in Stores /\ dst \in Stores /\ dst # src /\ dst = Other(src)
           /\ \A r \in db, s \in Stores : r.uid[s] \in UID
           /\ \A r \in db : r \in Row /\ r.uid \in [Stores -> UID]
           /\ cur.src \in UID /\ cur.dst \in UID
BY StoresOf DEF IsMirror, IsImap, TypeOK, Row, Stores, Other

LEMMA MirrorTypes == MInv => TypeInv
BY DEF MInv, TypeInv, WorkInv

LEMMA MirrorInit == IsMirror /\ Init => MInv
<1> SUFFICES ASSUME IsMirror, Init PROVE MInv
  OBVIOUS
<1>1. TypeOK
  BY InitInv DEF IInv
<1>2. /\ \A s \in Stores : Handles(s) = {} /\ Listed(s) = {}
      /\ db = {} /\ pc = "idle" /\ iter = 1 /\ src = 1 /\ config \in Configs
  BY DEF Init, FolderInit, NoMessages, Handles, Listed
<1>3. 1 \in Stores /\ 2 \in Stores
  BY DEF Stores
<1>4. CopyInv /\ EntryInv
  BY <1>2, <1>3 DEF CopyInv, EntryInv
<1>5. FilesListed /\ KeyInv /\ MatchInv /\ ServerInv /\ OrderInv /\ WorkInv /\ InHandInv
  BY <1>2 DEF FilesListed, KeyInv, RowsOneToOne, MatchInv, ServerInv, OrderInv,
              WorkInv, InHandInv, Syncing, Adding
<1> QED
  BY <1>1, <1>4, <1>5 DEF MInv
-----------------------------------------------------------------------------
(* What happens to the copies: they lose flags or go, and then only when   *)
(* their message is released, or a new one appears.                        *)
ReleasedNow(m) == m \in gone' \cup {Blank}

Fades ==
    /\ gone \subseteq gone'
    /\ \A s \in Stores, h \in UID :
          \/ box'[s][h] = box[s][h]
          \/ /\ box[s][h] # Absent
             /\ box'[s][h] # Absent => /\ box'[s][h].msg = box[s][h].msg
                                       /\ box'[s][h].uid = box[s][h].uid
             /\ box'[s][h] = Absent \/ "T" \in box'[s][h].flags
                    => ReleasedNow(box[s][h].msg)

LEMMA FadesPoint ==
    ASSUME CopyInv, Fades, NEW s \in Stores, NEW h \in UID
    PROVE  /\ box'[s][h] # Absent =>
                 /\ box[s][h] # Absent
                 /\ box'[s][h].msg = box[s][h].msg
                 /\ box'[s][h].uid = box[s][h].uid
                 /\ "T" \in box'[s][h].flags => ReleasedNow(box[s][h].msg)
           /\ box[s][h] # Absent /\ box'[s][h] = Absent
                 => ReleasedNow(box[s][h].msg)
BY DEF CopyInv, Fades, Handles, Released, ReleasedNow

LEMMA FadesUnder ==
    ASSUME CopyInv, Fades, NEW s \in Stores, NEW u
    PROVE  /\ \A h \in UID : h \in Under(s, u)' =>
                 h \in Under(s, u) /\ box'[s][h].msg = box[s][h].msg
           /\ \A h \in Under(s, u) : \/ h \in Under(s, u)'
                                     \/ ReleasedNow(box[s][h].msg)
<1>1. ASSUME NEW h \in UID, h \in Under(s, u)'
      PROVE  h \in Under(s, u) /\ box'[s][h].msg = box[s][h].msg
  BY <1>1, FadesPoint DEF Under, Handles
<1>2. ASSUME NEW h \in Under(s, u), h \notin Under(s, u)'
      PROVE  ReleasedNow(box[s][h].msg)
  BY <1>2, FadesPoint DEF Under, Handles
<1> QED
  BY <1>1, <1>2

LEMMA FadesKeeps ==
    ASSUME IsMirror, MInv, Fades, UNCHANGED <<uidnext, db>>
    PROVE  CopyInv' /\ KeyInv' /\ MatchInv'
<1> USE DEF MInv
<1>1. CopyInv'
  <2>1. ASSUME NEW s \in Stores, NEW h \in Handles(s)'
        PROVE  /\ h \in Handles(s) /\ box'[s][h].uid = box[s][h].uid
               /\ box'[s][h].uid \in UID
               /\ "T" \in box'[s][h].flags => ReleasedNow(box'[s][h].msg)
    <3>1. h \in UID /\ box'[s][h] # Absent
      BY <2>1 DEF Handles
    <3>2. /\ box[s][h] # Absent /\ box'[s][h].msg = box[s][h].msg
          /\ box'[s][h].uid = box[s][h].uid
          /\ "T" \in box'[s][h].flags => ReleasedNow(box[s][h].msg)
      BY <3>1, FadesPoint
    <3>3. h \in Handles(s)
      BY <3>1, <3>2 DEF Handles
    <3>4. box[s][h].uid \in UID
      BY <3>3 DEF CopyInv
    <3> QED
      BY <3>2, <3>3, <3>4
  <2>2. 1 \in Stores /\ 2 \in Stores
    BY DEF Stores
  <2>3. \A g, h \in Handles(1)' : box'[1][g].uid = box'[1][h].uid => g = h
    BY <2>1, <2>2 DEF CopyInv
  <2>4. \A h \in Handles(2)' : 0 < h /\ h < uidnext'[2] /\ box'[2][h].uid = h
    BY <2>1, <2>2 DEF CopyInv
  <2> QED
    BY <2>1, <2>3, <2>4 DEF CopyInv, Released, ReleasedNow
<1>2. KeyInv'
  BY DEF KeyInv, RowsOneToOne
<1>3. MatchInv'
  <2> SUFFICES ASSUME NEW r \in db, NEW s \in Stores, NEW h \in Under(s, r.uid[s])'
               PROVE  Matched(r, s, h)'
    BY DEF MatchInv
  <2> DEFINE o == Other(s)
  <2>1. /\ h \in UID /\ h \in Under(s, r.uid[s])
        /\ box'[s][h].msg = box[s][h].msg
    BY FadesUnder DEF Under, Handles
  <2>2. Matched(r, s, h)
    BY <2>1 DEF MatchInv
  <2>3. o \in Stores
    BY OtherStore
  <2> HIDE DEF o
  <2>4. ASSUME NEW g \in Under(o, r.uid[o])'
        PROVE  box'[o][g].msg = box'[s][h].msg
    <3>1. g \in UID
      BY DEF Under, Handles
    <3>2. g \in Under(o, r.uid[o]) /\ box'[o][g].msg = box[o][g].msg
      BY <2>3, <3>1, FadesUnder
    <3> QED
      BY <2>1, <2>2, <3>2 DEF Matched, o
  <2>5. ASSUME Under(o, r.uid[o])' = {} PROVE ReleasedNow(box[s][h].msg)
    <3>1. CASE Under(o, r.uid[o]) = {}
      BY <2>2, <3>1 DEF Matched, Released, ReleasedNow, Fades, o
    <3>2. CASE Under(o, r.uid[o]) # {}
      <4>1. PICK g \in Under(o, r.uid[o]) : TRUE
        BY <3>2
      <4>2. ReleasedNow(box[o][g].msg)
        BY <2>3, <2>5, <4>1, FadesUnder
      <4> QED
        BY <2>2, <4>1, <4>2 DEF Matched, o
    <3> QED
      BY <3>1, <3>2
  <2> QED
    BY <2>1, <2>4, <2>5 DEF Matched, Released, ReleasedNow, o
<1> QED
  BY <1>1, <1>2, <1>3

(* The message in hand keeps its copies, or is released.                   *)
LEMMA FadesHeld ==
    ASSUME MInv, Fades, UNCHANGED db, NEW s \in Stores, NEW u, HeldAt(s, u),
           u \in Listed(s)', cur'.msg = cur.msg
    PROVE  HeldAt(s, u)'
<1>1. RowsOf(s, u)' = {}
  BY DEF HeldAt, RowsOf
<1>2. \A h \in Under(s, u)' : box'[s][h].msg = cur.msg
  <2> SUFFICES ASSUME NEW h \in Under(s, u)' PROVE box'[s][h].msg = cur.msg
    OBVIOUS
  <2>1. h \in UID
    BY DEF Under, Handles
  <2> QED
    BY <2>1, FadesUnder DEF HeldAt, MInv
<1>3. Under(s, u)' = {} => ReleasedNow(cur.msg)
  <2>1. CASE Under(s, u) = {}
    BY <2>1 DEF HeldAt, Released, ReleasedNow, Fades
  <2>2. CASE Under(s, u) # {}
    BY <2>2, FadesUnder DEF HeldAt, MInv
  <2> QED
    BY <2>1, <2>2
<1> QED
  BY <1>1, <1>2, <1>3 DEF HeldAt, Released, ReleasedNow

(* A copy appears at f under a uid that no copy and no row of s has.       *)
Appears(s, f, u) ==
    /\ f \in UID /\ u \in UID
    /\ box[s][f] = Absent
    /\ box'[s][f] # Absent
    /\ box'[s][f].uid = u
    /\ BoxSameBut(s, f)
    /\ "T" \in box'[s][f].flags => ReleasedNow(box'[s][f].msg)
    /\ Under(s, u) = {}
    /\ RowsOf(s, u) = {}
    /\ IF s = 1 THEN uidnext' = uidnext
                ELSE /\ f = u /\ 0 < u /\ u = uidnext[2]
                     /\ uidnext'[2] = u + 1
    /\ gone' = gone

LEMMA AppearsUnder ==
    ASSUME NEW s \in Stores, NEW f, NEW u, Appears(s, f, u)
    PROVE  /\ Under(s, u)' = {f}
           /\ \A t \in Stores, v \in UID : t # s \/ v # u => Under(t, v)' = Under(t, v)
           /\ \A t \in Stores, h \in UID : box[t][h] # Absent => box'[t][h] = box[t][h]
<1>1. \A t \in Stores, h \in UID : t # s \/ h # f => box'[t][h] = box[t][h]
  BY DEF Appears, BoxSameBut
<1>2. \A h \in UID : h \in Under(s, u)' => h = f
  <2> SUFFICES ASSUME NEW h \in UID, h # f, h \in Under(s, u)' PROVE FALSE
    OBVIOUS
  <2>1. h \in Under(s, u)
    BY <1>1 DEF Under, Handles
  <2> QED
    BY <2>1 DEF Appears
<1>3. f \in Under(s, u)'
  BY DEF Appears, Under, Handles
<1>4. ASSUME NEW t \in Stores, NEW v \in UID, t # s \/ v # u
      PROVE  Under(t, v)' = Under(t, v)
  BY <1>1, <1>4 DEF Appears, Under, Handles
<1>5. Under(s, u)' \subseteq UID
  BY DEF Under, Handles
<1> QED
  BY <1>1, <1>2, <1>3, <1>4, <1>5 DEF Appears

LEMMA AppearsKeeps ==
    ASSUME IsMirror, MInv, NEW s \in Stores, NEW f, NEW u, Appears(s, f, u),
           UNCHANGED db
    PROVE  CopyInv' /\ KeyInv' /\ MatchInv'
<1> USE DEF MInv
<1>0. 1 \in Stores /\ 2 \in Stores /\ Stores = {1, 2}
  BY DEF Stores
<1>a. uidnext[2] \in Nat /\ uidnext'[2] \in Nat /\ uidnext[2] <= uidnext'[2]
  <2>1. uidnext[2] \in Nat
    BY <1>0 DEF TypeOK, FolderTypeOK
  <2> QED
    BY <1>0, <2>1 DEF Appears
<1>1. CopyInv'
  <2>1. \A t \in Stores, h \in UID : t # s \/ h # f => box'[t][h] = box[t][h]
    BY DEF Appears, BoxSameBut
  <2>2. ASSUME NEW t \in Stores, NEW h \in Handles(t)', t # s \/ h # f
        PROVE  h \in Handles(t) /\ box'[t][h] = box[t][h]
    BY <2>1, <2>2 DEF Handles
  <2>3. \A t \in Stores : \A h \in Handles(t)' :
           /\ box'[t][h].uid \in UID
           /\ "T" \in box'[t][h].flags => ReleasedNow(box'[t][h].msg)
    BY <2>2 DEF CopyInv, Appears, Released, ReleasedNow
  <2>4. ASSUME NEW g \in Handles(1)', NEW h \in Handles(1)',
               box'[1][g].uid = box'[1][h].uid
        PROVE  g = h
    <3>1. CASE s = 1
      <4>1. ASSUME NEW k \in Handles(1), box[1][k].uid = u PROVE FALSE
        BY <3>1, <4>1 DEF Appears, Under
      <4> QED
        BY <1>0, <2>2, <2>4, <3>1, <4>1 DEF CopyInv, Appears
    <3>2. CASE s # 1
      BY <1>0, <2>2, <2>4, <3>2 DEF CopyInv
    <3> QED
      BY <3>1, <3>2
  <2>5. ASSUME NEW h \in Handles(2)'
        PROVE  0 < h /\ h < uidnext'[2] /\ box'[2][h].uid = h
    <3>1. h \in UID /\ h \in Int
      BY DEF Handles, UID
    <3>2. CASE s = 2 /\ h = f
      BY <1>a, <3>1, <3>2 DEF Appears
    <3>3. CASE ~(s = 2 /\ h = f)
      BY <1>0, <1>a, <2>2, <3>1, <3>3 DEF CopyInv
    <3> QED
      BY <3>2, <3>3
  <2> QED
    BY <2>3, <2>4, <2>5 DEF CopyInv, Released, ReleasedNow
<1>2. KeyInv'
  <2>1. \A r \in db : r.uid[2] \in Int
    BY <1>0 DEF TypeOK, Row, UID
  <2> QED
    BY <1>a, <2>1 DEF KeyInv, RowsOneToOne
<1>3. MatchInv'
  <2>1. ASSUME NEW r \in db, NEW t \in Stores
        PROVE  /\ Under(t, r.uid[t])' = Under(t, r.uid[t])
               /\ \A h \in Under(t, r.uid[t]) : box'[t][h] = box[t][h]
    <3>1. r.uid[t] \in UID
      BY DEF TypeOK, Row
    <3>2. t # s \/ r.uid[t] # u
      BY DEF Appears, RowsOf
    <3> QED
      BY <3>1, <3>2, AppearsUnder DEF Under, Handles
  <2> SUFFICES ASSUME NEW r \in db, NEW t \in Stores, NEW h \in Under(t, r.uid[t])
               PROVE  Matched(r, t, h)'
    BY <2>1 DEF MatchInv
  <2>2. Other(t) \in Stores
    BY OtherStore
  <2>3. Matched(r, t, h)
    BY DEF MatchInv
  <2> QED
    BY <2>1, <2>2, <2>3 DEF Matched, Released, Appears
<1> QED
  BY <1>1, <1>2, <1>3

LEMMA FadesEntries ==
    ASSUME IsMirror, MInv, Fades, UNCHANGED uidnext,
           \A t \in Stores, u \in UID : list'[t][u] \in {list[t][u], Absent}
    PROVE  EntryInv'
<1> USE DEF MInv
<1>0. 1 \in Stores /\ 2 \in Stores
  BY DEF Stores
<1>1. ASSUME NEW t \in Stores, NEW u \in Listed(t)'
      PROVE  u \in UID /\ u \in Listed(t) /\ list'[t][u] = list[t][u]
  BY <1>1 DEF Listed
<1>2. ASSUME NEW u \in Listed(1)'
      PROVE  LET e == list'[1][u]
             IN  /\ ~e.ignore /\ ~e.temporary /\ e.file \in UID
                 /\ box'[1][e.file] # Absent =>
                       /\ box'[1][e.file].uid = u
                       /\ "T" \in e.flags => ReleasedNow(box'[1][e.file].msg)
  <2> DEFINE e == list[1][u]
  <2>1. /\ list'[1][u] = e
        /\ ~e.ignore /\ ~e.temporary /\ e.file \in UID
        /\ box[1][e.file] # Absent =>
              /\ box[1][e.file].uid = u
              /\ "T" \in e.flags => Released(box[1][e.file].msg)
    BY <1>0, <1>1 DEF EntryInv
  <2> HIDE DEF e
  <2>2. box'[1][e.file] # Absent => /\ box[1][e.file] # Absent
                                    /\ box'[1][e.file].msg = box[1][e.file].msg
                                    /\ box'[1][e.file].uid = box[1][e.file].uid
    BY <1>0, <2>1, FadesPoint
  <2> QED
    BY <2>1, <2>2 DEF Fades, Released, ReleasedNow
<1>3. ASSUME NEW u \in Listed(2)'
      PROVE  /\ 0 < u /\ u < uidnext'[2]
             /\ box'[2][u] # Absent /\ "T" \in list'[2][u].flags
                    => ReleasedNow(box'[2][u].msg)
  BY <1>0, <1>1, FadesPoint DEF EntryInv, Fades, Released, ReleasedNow
<1> QED
  BY <1>2, <1>3 DEF EntryInv, Released, ReleasedNow

(* The pass is over or not begun: only the copies and the rows matter.     *)
LEMMA MirrorOver ==
    ASSUME IsMirror, MInv, TypeOK', Fades, UNCHANGED <<uidnext, db, config>>,
           list' \in {list, [s \in Stores |-> NoMessages]},
           pc' \in {"idle", "list1"} \cup ClosePCs,
           pc' \in {"idle", "list1"} => iter' = 1 /\ src' = 1
    PROVE  MInv'
<1>1. \A t \in Stores, u \in UID : list'[t][u] \in {list[t][u], Absent}
  BY DEF NoMessages
<1>2. EntryInv'
  BY <1>1, FadesEntries
<1>3. CopyInv' /\ KeyInv' /\ MatchInv'
  BY FadesKeeps
<1>4. pc' \notin {"list2"} \cup Syncing /\ pc' \notin Adding
  BY DEF ClosePCs, Syncing, Adding
<1>5. FilesListed' /\ ServerInv' /\ WorkInv'
  BY <1>4 DEF FilesListed, ServerInv, WorkInv
<1>6. OrderInv' /\ InHandInv'
  BY <1>4 DEF MInv, OrderInv, InHandInv, ClosePCs, Adding, Syncing
<1> QED
  BY <1>2, <1>3, <1>5, <1>6 DEF MInv

LEMMA FadesKept == Fades => Kept
BY DEF Fades, Kept, ReleasedNow

LEMMA NothingFades == UNCHANGED <<box, gone>> => Fades
BY DEF Fades

LEMMA MirrorAbort ==
    ASSUME IsMirror, MInv, Abort, UNCHANGED folderVars
    PROVE  MInv' /\ Kept
<1>1. TypeOK'
  BY MirrorTypes, AbortTypes DEF TypeInv
<1>2. Fades
  BY NothingFades DEF folderVars, Abort, auxVars
<1> QED
  BY <1>1, <1>2, MirrorOver, FadesKept DEF Abort, folderVars, ClosePCs

LEMMA MirrorIdle ==
    ASSUME IsMirror, MInv, StartSync \/ OpenFails \/ Fail \/ CloseFails \/ Crash
    PROVE  MInv'
<1>1. TypeOK'
  BY MirrorTypes, IdleTypes DEF TypeInv
<1>2. Fades
  BY NothingFades DEF folderVars, auxVars, StartSync, OpenFails, Fail, CloseFails,
                            Crash
<1>3. CASE StartSync
  BY <1>1, <1>2, <1>3, MirrorOver DEF StartSync, folderVars, MInv, OrderInv
<1>7. CASE OpenFails
  BY <1>1, <1>2, <1>7, MirrorOver DEF OpenFails, folderVars, ClosePCs, MInv, OrderInv
<1>4. CASE Fail
  BY <1>1, <1>2, <1>4, MirrorOver DEF Fail, folderVars, ClosePCs
<1>5. CASE Crash
  BY <1>1, <1>2, <1>5, MirrorOver DEF Crash, EndPass
<1>6. CASE CloseFails
  BY <1>1, <1>2, <1>6, MirrorOver DEF CloseFails, EndPass, ClosePCs
<1> QED
  BY <1>3, <1>4, <1>5, <1>6, <1>7

(* CLOSE expunges what is flagged Deleted, and so is released.             *)
LEMMA MirrorClose ==
    ASSUME IsMirror, MInv, Close2 \/ Close1
    PROVE  MInv' /\ Kept
<1>1. TypeOK'
  BY MirrorTypes, IdleTypes DEF TypeInv
<1>2. TypeOK /\ CopyInv
  BY DEF MInv
<1>3. gone' = gone
  BY DEF Close1, Close2, auxVars
<1>4. Fades
  <2>1. CASE UNCHANGED box
    BY <1>3, <2>1, NothingFades
  <2>2. CASE Close2
    <3>1. (Expunge[2] /\ config.deletemode # "flag") \in BOOLEAN
      OBVIOUS
    <3>2. \A t \in Stores, h \in UID :
             \/ box'[t][h] = box[t][h]
             \/ box'[t][h] = Absent /\ "T" \in box[t][h].flags
      BY <1>2, <2>2, <3>1, TheStores, CloseEffect
         DEF Close2, CloseFolder, TypeOK
    <3>3. \A t \in Stores, h \in UID :
             box[t][h] # Absent /\ "T" \in box[t][h].flags => ReleasedNow(box[t][h].msg)
      BY <1>2, <1>3 DEF CopyInv, Handles, Released, ReleasedNow
    <3> QED
      BY <1>3, <3>2, <3>3 DEF Fades
  <2>3. CASE Close1
    BY <1>2, <2>1, <2>3, TheStores DEF Close1, CloseFolder
  <2> QED
    BY <2>2, <2>3
<1> QED
  BY <1>1, <1>4, MirrorOver, FadesKept DEF Close1, Close2, EndPass, ClosePCs
-----------------------------------------------------------------------------
(* Every file of the mirror has a uid of its own and is listed under it.   *)
LEMMA MirrorListed ==
    ASSUME TypeOK, CopyInv, MaildirUpdateMessageList(1)
    PROVE  /\ \A u \in UID : list'[1][u] # Absent =>
                 \E h \in Handles(1) :
                    /\ box[1][h].uid = u
                    /\ list'[1][u] = [file |-> h, flags |-> box[1][h].flags,
                                      ignore |-> FALSE, temporary |-> FALSE]
           /\ \A h \in Handles(1) :
                 list'[1][box[1][h].uid] =
                    [file |-> h, flags |-> box[1][h].flags,
                     ignore |-> FALSE, temporary |-> FALSE]
<1> DEFINE fresh == {h \in Handles(1) : box[1][h].uid = NoUID}
           named(u) == {h \in Handles(1) : box[1][h].uid = u}
           entry(h, temp) == [file |-> h, flags |-> box[1][h].flags,
                              ignore |-> FALSE, temporary |-> temp]
           ignored == [file |-> NoFile, flags |-> {},
                       ignore |-> TRUE, temporary |-> FALSE]
           l(tempuid) == [u \in UID |->
                IF \E h \in fresh : tempuid[h] = u
                THEN entry(CHOOSE h \in fresh : tempuid[h] = u, TRUE)
                ELSE IF named(u) = {} THEN Absent
                ELSE IF Cardinality(named(u)) > 1 THEN ignored
                ELSE entry(CHOOSE h \in named(u) : TRUE, FALSE)]
<1>1. PICK tempuid : list' = [list EXCEPT ![1] = l(tempuid)]
  BY ZenonT(30) DEF MaildirUpdateMessageList
<1>2. 1 \in Stores
  BY DEF Stores
<1>3. fresh = {}
  BY <1>2 DEF CopyInv, UID, NoUID
<1>4. list'[1] = l(tempuid)
  BY <1>1, <1>2 DEF TypeOK, FolderTypeOK
<1> HIDE DEF fresh
<1>5. \A u \in UID : list'[1][u] =
         IF named(u) = {} THEN Absent
         ELSE IF Cardinality(named(u)) > 1 THEN ignored
         ELSE entry(CHOOSE h \in named(u) : TRUE, FALSE)
  BY <1>3, <1>4
<1>6. ASSUME NEW h \in Handles(1), NEW u, u = box[1][h].uid
      PROVE  u \in UID /\ list'[1][u] = entry(h, FALSE)
  <2>1. u \in UID
    BY <1>2, <1>6 DEF CopyInv
  <2>2. named(u) = {h}
    BY <1>6 DEF CopyInv
  <2> HIDE DEF named, entry, ignored
  <2>3. Cardinality(named(u)) = 1
    BY <2>2, FS_Singleton
  <2>4. (CHOOSE g \in named(u) : TRUE) = h
    BY <2>2
  <2>5. ~(Cardinality(named(u)) > 1) /\ named(u) # {}
    BY <2>2, <2>3
  <2> QED
    BY <1>5, <2>1, <2>4, <2>5
<1>7. ASSUME NEW u \in UID, list'[1][u] # Absent
      PROVE  \E h \in Handles(1) : box[1][h].uid = u
  BY <1>5, <1>7
<1> QED
  BY <1>6, <1>7

LEMMA MirrorListFolder ==
    ASSUME IsMirror, MInv, ListFolder1 \/ ListFolder2
    PROVE  MInv'
<1> USE DEF MInv
<1>1. TypeOK' /\ UNCHANGED box
  BY MirrorTypes, ListFolderTypes DEF TypeInv
<1>2. UNCHANGED <<uidnext, db, config, iter, src, todo, cur, outcome, auxVars>>
  <2>1. UNCHANGED <<db, config, iter, src, todo, cur, outcome, auxVars>>
    BY DEF ListFolder1, ListFolder2, ListFolder
  <2>2. uidnext' = uidnext
    BY TheStores DEF ListFolder1, ListFolder2, ListFolder, UpdateMessageList,
                     ImapUpdateMessageList, MaildirUpdateMessageList
  <2> QED
    BY <2>1, <2>2
<1>3. Fades
  BY <1>1, <1>2, NothingFades DEF auxVars
<1>4. CopyInv' /\ KeyInv' /\ MatchInv'
  BY <1>2, <1>3, FadesKeeps
<1>5. CASE ListFolder1
  <2>1. /\ pc = "list1" /\ pc' = "list2" /\ MaildirUpdateMessageList(1)
    BY <1>5, TheStores DEF ListFolder1, ListFolder, UpdateMessageList
  <2>2. \A t \in Stores : t # 1 => list'[t] = list[t]
    BY <2>1, TheStores, MaildirListTyped DEF TypeOK
  <2>3. list'[2] = list[2]
    BY <2>2, TheStores
  <2>4. EntryInv'
    <3>1. ASSUME NEW u \in Listed(1)'
          PROVE  LET e == list'[1][u]
                 IN  /\ ~e.ignore /\ ~e.temporary /\ e.file \in UID
                     /\ box[1][e.file] # Absent =>
                           /\ box[1][e.file].uid = u
                           /\ "T" \in e.flags => Released(box[1][e.file].msg)
      <4>1. u \in UID /\ list'[1][u] # Absent
        BY <3>1 DEF Listed
      <4>2. PICK h \in Handles(1) :
               /\ box[1][h].uid = u
               /\ list'[1][u] = [file |-> h, flags |-> box[1][h].flags,
                                 ignore |-> FALSE, temporary |-> FALSE]
        BY <2>1, <4>1, MirrorListed
      <4>3. h \in UID /\ ("T" \in box[1][h].flags => Released(box[1][h].msg))
        BY TheStores DEF Handles, CopyInv
      <4> QED
        BY <4>2, <4>3
    <3>2. \A u \in Listed(2)' : u \in Listed(2)
      BY <2>3 DEF Listed
    <3> QED
      BY <1>1, <1>2, <2>3, <3>1, <3>2 DEF EntryInv, Released, auxVars
  <2>5. FilesListed'
    <3> SUFFICES ASSUME NEW h \in Handles(1)
                 PROVE  /\ box[1][h].uid \in Listed(1)'
                        /\ list'[1][box[1][h].uid].file = h
      BY <1>1 DEF FilesListed, Handles
    <3> DEFINE e == [file |-> h, flags |-> box[1][h].flags,
                     ignore |-> FALSE, temporary |-> FALSE]
    <3>1. list'[1][box[1][h].uid] = e
      BY <2>1, MirrorListed
    <3>2. h \in UID /\ box[1][h].uid \in UID /\ box[1][h] \in Copy
      BY TheStores DEF Handles, CopyInv, TypeOK, FolderTypeOK
    <3>3. e \in Entry
      BY <3>2 DEF Entry, Copy
    <3>4. e # Absent
      BY <3>3
    <3> QED
      BY <3>1, <3>2, <3>4 DEF Listed
  <2>6. ServerInv' /\ WorkInv' /\ InHandInv' /\ OrderInv'
    BY <1>2, <2>1 DEF ServerInv, WorkInv, InHandInv, OrderInv, Syncing, Adding
  <2> QED
    BY <1>1, <1>4, <2>4, <2>5, <2>6
<1>6. CASE ListFolder2
  <2>1. /\ pc = "list2" /\ pc' = "diff" /\ ImapUpdateMessageList(2)
    BY <1>6, TheStores DEF ListFolder2, ListFolder, UpdateMessageList
  <2>2. /\ \A u \in UID : list'[1][u] = list[1][u]
        /\ \A u \in UID :
              /\ list'[2][u] = Absent <=> box[2][u] = Absent
              /\ box[2][u] # Absent =>
                    list'[2][u].flags \subseteq box[2][u].flags
    BY <2>1, TheStores, ListEffect DEF TypeOK
  <2>3. Listed(1)' = Listed(1) /\ \A u \in Listed(1) : u \in UID
    BY <2>2 DEF Listed
  <2>4. EntryInv'
    <3>1. \A u \in Listed(2)' : /\ u \in UID /\ box[2][u] # Absent
                                /\ list'[2][u].flags \subseteq box[2][u].flags
      BY <2>2 DEF Listed
    <3>2. ASSUME NEW u \in Listed(2)'
          PROVE  /\ 0 < u /\ u < uidnext[2]
                 /\ "T" \in list'[2][u].flags => Released(box[2][u].msg)
      BY <3>1, TheStores DEF CopyInv, Handles
    <3>3. \A u \in Listed(1)' : u \in Listed(1) /\ list'[1][u] = list[1][u]
      BY <2>2, <2>3
    <3> QED
      BY <1>1, <1>2, <3>2, <3>3 DEF EntryInv, Released, auxVars
  <2>5. FilesListed'
    <3> SUFFICES ASSUME NEW h \in Handles(1)
                 PROVE  /\ box[1][h].uid \in Listed(1)'
                        /\ list'[1][box[1][h].uid].file = h
      BY <1>1 DEF FilesListed, Handles
    <3> QED
      BY <2>1, <2>2, <2>3 DEF FilesListed
  <2>6. ServerInv'
    BY <1>1, <1>2, <2>1, <2>2, TheStores DEF ServerInv, Listed
  <2>7. WorkInv' /\ InHandInv' /\ OrderInv'
    BY <1>2, <2>1 DEF WorkInv, InHandInv, OrderInv, Syncing, Adding
  <2> QED
    BY <1>1, <1>4, <2>4, <2>5, <2>6, <2>7
<1> QED
  BY <1>5, <1>6

(* A step of the pass that touches neither store, nor list, nor row.       *)
LEMMA MirrorQuiet ==
    ASSUME IsMirror, MInv, UNCHANGED <<box, list, uidnext, db, gone>>
    PROVE  /\ CopyInv' /\ EntryInv' /\ KeyInv' /\ MatchInv'
           /\ pc \in {"list2"} \cup Syncing => FilesListed'
           /\ \A s \in Stores : Listed(s)' = Listed(s)
           /\ \A s \in Stores, u \in UID : HeldAt(s, u)' <=>
                 /\ u \in Listed(s)
                 /\ RowsOf(s, u) = {}
                 /\ \A h \in Under(s, u) : box[s][h].msg = cur'.msg
                 /\ Under(s, u) = {} => Released(cur'.msg)
<1>1. Fades
  BY NothingFades
<1>2. CopyInv' /\ KeyInv' /\ MatchInv'
  BY <1>1, FadesKeeps
<1>3. EntryInv'
  BY <1>1, FadesEntries
<1>4. ASSUME pc \in {"list2"} \cup Syncing PROVE FilesListed'
  BY <1>4 DEF MInv, FilesListed, Handles, Listed
<1>5. \A s \in Stores, u \in UID : Under(s, u)' = Under(s, u)
  BY DEF Under, Handles
<1>6. \A s \in Stores, u \in UID : RowsOf(s, u)' = RowsOf(s, u)
  BY DEF RowsOf
<1>7. \A s \in Stores : Listed(s)' = Listed(s)
  BY DEF Listed
<1>8. \A s \in Stores, u \in UID : HeldAt(s, u)' <=>
         /\ u \in Listed(s)
         /\ RowsOf(s, u) = {}
         /\ \A h \in Under(s, u) : box[s][h].msg = cur'.msg
         /\ Under(s, u) = {} => Released(cur'.msg)
  BY <1>5, <1>6, <1>7 DEF HeldAt, Released
<1> QED
  BY <1>2, <1>3, <1>4, <1>7, <1>8

LEMMA MirrorDiff ==
    ASSUME IsMirror, MInv, Diff
    PROVE  MInv'
<1> USE DEF MInv
<1>1. TypeOK'
  BY MirrorTypes, DiffTypes DEF TypeInv
<1>2. pc = "diff" /\ UNCHANGED <<box, list, uidnext, db, gone, config, src, cur>>
  BY DEF Diff, folderVars, auxVars
<1>3. CopyInv' /\ EntryInv' /\ KeyInv' /\ MatchInv' /\ FilesListed'
  BY <1>2, MirrorQuiet DEF Syncing
<1>4. \A s \in Stores : Listed(s)' = Listed(s)
  BY <1>2 DEF Listed
<1>5. /\ src \in Stores /\ 1 \in Stores /\ 2 \in Stores
      /\ \A r \in db, s \in Stores : r.uid[s] \in UID
  BY TheStores
<1>6. CASE config.dryrun
  <2>1. pc' \in {"diff", "close2"} /\ todo' = NothingToDo
    BY <1>2, <1>6 DEF Diff
  <2>2. ServerInv'
    BY <1>2, <1>4, <1>5, <2>1 DEF ServerInv, Syncing
  <2>3. OrderInv'
    BY <1>2, <1>4, <1>5, <1>6, <2>1 DEF OrderInv, Syncing, Adding
  <2>4. WorkInv' /\ InHandInv'
    BY <2>1 DEF WorkInv, InHandInv, Syncing, Adding
  <2> QED
    BY <1>1, <1>3, <2>2, <2>3, <2>4
<1>7. CASE ~config.dryrun
  <2>1. config \in Configs /\ src = iter /\ config.deletemode # "none"
    BY <1>2, <1>7 DEF OrderInv, Syncing, IsMirror
  <2>2. /\ pc' = "work" /\ iter' = iter
        /\ todo'.new = NewMessages(src) /\ todo'.del = DeletedMessages(src)
        /\ todo'.chg = ChangedMessages(src)
    BY <1>2, <1>7, <2>1 DEF Diff
  <2>3. ServerInv'
    BY <1>2, <1>4, <1>5, <2>2 DEF ServerInv, Syncing
  <2>4. OrderInv'
    <3>1. src = 1 => \A r \in db : r.uid[1] \in Listed(1) \/ r \in todo'.del
      BY <1>5, <2>2 DEF DeletedMessages, HasUID, Listed
    <3>2. src = 2 => \A r \in db : r.uid[1] \in Listed(1)
      BY <1>2 DEF OrderInv, Syncing
    <3> QED
      BY <1>2, <1>4, <1>5, <1>7, <2>1, <2>2, <3>1, <3>2
         DEF OrderInv, Syncing, Adding
  <2>5. WorkInv'
    <3>1. \A u \in todo'.new : u \in Listed(src)' /\ RowsOf(src, u)' = {}
      BY <1>2, <1>4, <1>5, <2>2 DEF NewMessages, RowsOf
    <3>2. \A r \in todo'.del : r \in db /\ r.uid[src] \notin Listed(src)
      BY <2>2 DEF DeletedMessages, HasUID, Listed
    <3>3. \A r \in todo'.chg : r \in db /\ r.uid[src] \in Listed(src)
      BY <1>5, <2>2 DEF ChangedMessages, HasUID, Listed
    <3> QED
      BY <1>2, <1>4, <1>5, <2>2, <3>1, <3>2, <3>3 DEF WorkInv
  <2>6. InHandInv'
    BY <2>2 DEF InHandInv, Adding
  <2> QED
    BY <1>1, <1>3, <2>3, <2>4, <2>5, <2>6
<1> QED
  BY <1>6, <1>7

LEMMA MirrorNextDirection ==
    ASSUME IsMirror, MInv, NextDirection
    PROVE  MInv'
<1> USE DEF MInv
<1>1. TypeOK'
  BY MirrorTypes, DiffTypes DEF TypeInv
<1>2. /\ pc = "work" /\ todo = NothingToDo
      /\ UNCHANGED <<box, list, uidnext, db, gone, config, todo, cur>>
  BY DEF NextDirection, folderVars, auxVars
<1>3. Fades
  BY <1>2, NothingFades
<1>4. CASE iter # 1
  <2>1. pc' = "close2"
    BY <1>4 DEF NextDirection
  <2> QED
    BY <1>1, <1>2, <1>3, <2>1, MirrorOver DEF ClosePCs
<1>5. CASE iter = 1
  <2>1. pc' = "diff" /\ iter' = 2 /\ src' = 2 /\ src = 1 /\ ~config.dryrun
    BY <1>2, <1>5 DEF NextDirection, OrderInv, Syncing
  <2>2. CopyInv' /\ EntryInv' /\ KeyInv' /\ MatchInv' /\ FilesListed'
    BY <1>2, <2>1, MirrorQuiet DEF Syncing
  <2>3. \A s \in Stores : Listed(s)' = Listed(s)
    BY <1>2 DEF Listed
  <2>4. \A r \in db : r.uid[1] \in Listed(1)
    BY <1>2, <2>1 DEF OrderInv, Syncing, NothingToDo
  <2>5. ServerInv'
    BY <1>2, <2>1, <2>3, TheStores DEF ServerInv, Syncing
  <2>6. OrderInv'
    BY <1>2, <2>1, <2>3, <2>4, TheStores DEF OrderInv, Syncing, Adding
  <2>7. WorkInv' /\ InHandInv'
    BY <2>1 DEF WorkInv, InHandInv, Adding
  <2> QED
    BY <1>1, <2>2, <2>5, <2>6, <2>7
<1> QED
  BY <1>4, <1>5
-----------------------------------------------------------------------------
(* A message that is read is in hand under its uid.                        *)
LEMMA MirrorRead ==
    ASSUME IsMirror, MInv, ReadMessage
    PROVE  MInv'
<1> USE DEF MInv
<1> PICK u \in UID : ReadNew(u)
  BY DEF ReadMessage
<1>1. CASE Abort /\ UNCHANGED folderVars
  BY <1>1, MirrorAbort
<1>2. CASE ~(Abort /\ UNCHANGED folderVars)
  <2>1. /\ pc = "work" /\ pc' = "add" /\ u \in todo.new /\ CanRead(src, u)
        /\ cur'.src = u /\ cur'.msg = Body(src, u) /\ cur'.flags = list[src][u].flags
        /\ todo'.new = todo.new \ {u} /\ todo'.del = todo.del /\ todo'.chg = todo.chg
        /\ UNCHANGED <<box, list, uidnext, db, gone, config, iter, src>>
    BY <1>2 DEF ReadNew, folderVars, auxVars, TypeOK
  <2>2. TypeOK'
    BY MirrorTypes, ReadTypes DEF TypeInv
  <2>3. CopyInv' /\ EntryInv' /\ KeyInv' /\ MatchInv' /\ FilesListed'
    BY <2>1, MirrorQuiet DEF Syncing
  <2>4. \A s \in Stores : Listed(s)' = Listed(s)
    BY <2>1 DEF Listed
  <2>5. ServerInv' /\ OrderInv'
    BY <2>1, <2>4, TheStores DEF ServerInv, OrderInv, Syncing, Adding
  <2>6. src \in Stores /\ u \in Listed(src) /\ RowsOf(src, u) = {}
    BY <2>1, TheStores DEF WorkInv, Syncing
  <2>7. WorkInv'
    BY <2>1, <2>4, <2>6 DEF WorkInv, RowsOf, Syncing
  <2>8. /\ \A h \in Under(src, u) : box[src][h].msg = cur'.msg
        /\ Under(src, u) = {} => Released(cur'.msg)
        /\ "T" \in cur'.flags => Released(cur'.msg)
    <3>1. CASE src = 2
      <4>1. Body(src, u) = ImapBody(2, u) /\ list[src][u].flags = list[2][u].flags
        BY <3>1, TheStores DEF Body
      <4>2. \A h \in Under(2, u) : h = u /\ box[2][u] # Absent
        BY DEF CopyInv, Under, Handles
      <4>3. box[2][u] # Absent => u \in Under(2, u)
        BY DEF CopyInv, Under, Handles
      <4> QED
        BY <2>1, <2>6, <3>1, <4>1, <4>2, <4>3 DEF ImapBody, EntryInv, Released
    <3>2. CASE src = 1
      <4> DEFINE f == list[1][u].file
      <4>1. f \in UID /\ box[1][f] # Absent /\ Body(src, u) = box[1][f].msg
        BY <2>1, <2>6, <3>2, TheStores, FileOf
           DEF CanRead, Body, MaildirBody, TypeOK
      <4>2. box[1][f].uid = u /\ ("T" \in list[1][u].flags => Released(box[1][f].msg))
        BY <2>6, <3>2, <4>1 DEF EntryInv
      <4> HIDE DEF f
      <4>3. f \in Under(1, u) /\ f \in Handles(1)
        BY <4>1, <4>2 DEF Under, Handles
      <4>4. \A h \in Under(1, u) : h = f
        BY <4>2, <4>3 DEF CopyInv, Under
      <4> QED
        BY <2>1, <3>2, <4>1, <4>2, <4>3, <4>4
    <3> QED
      BY <2>6, <3>1, <3>2, TheStores
  <2>9. InHandInv'
    <3>1. HeldAt(src, u)'
      BY <2>1, <2>6, <2>8, MirrorQuiet
    <3> QED
      BY <2>1, <2>8, <3>1 DEF InHandInv, Released, HeldAt, Under, Handles, RowsOf,
                               Listed, Adding
  <2> QED
    BY <2>2, <2>3, <2>5, <2>7, <2>9
<1> QED
  BY <1>1, <1>2

(* The message in hand appears on the destination under a uid of its own:  *)
(* the server never gives a uid again, and the lowest key that is not in   *)
(* the list of the Maildir is, by then, the uid of no file and of no row.  *)
LEMMA MirrorAddEffect ==
    ASSUME IsMirror, MInv, pc = "add", UNCHANGED <<db, gone>>, NEW u \in UID,
           AddMessage(dst, cur.msg, cur.flags, u)
    PROVE  \E f \in UID :
              /\ Appears(dst, f, u)
              /\ box'[dst][f].msg = cur.msg
              /\ ListSameBut(dst, u)
              /\ list'[dst][u] # Absent
              /\ list'[dst][u].flags = cur.flags
              /\ dst = 1 => /\ list'[1][u].file = f
                            /\ ~list'[1][u].ignore /\ ~list'[1][u].temporary
                            /\ \A v \in Listed(1) : list[1][v].file # f
<1> USE DEF MInv
<1>1. /\ FolderTypeOK /\ cur.msg \in Msg \cup {Blank} /\ cur.flags \in SUBSET Letter
      /\ "T" \in cur.flags => ReleasedNow(cur.msg)
  BY DEF TypeOK, InHandInv, Adding, Released, ReleasedNow
<1>2. /\ 1 \in Stores /\ 2 \in Stores /\ dst \in {1, 2} /\ src = Other(dst)
      /\ IsImap(2) /\ ~IsImap(1)
      /\ \A r \in db : r.uid[1] \in UID /\ r.uid[2] \in UID
  BY TheStores DEF Stores, Other
<1>3. CASE dst = 2
  <2> DEFINE fl == cur.flags \cap Mapped
  <2>1. ImapAddMessage(2, cur.msg, cur.flags, u) /\ ServerAppend(2, cur.msg, fl, u)
    BY <1>2, <1>3 DEF AddMessage, ImapAddMessage
  <2>2. fl \in SUBSET Letter /\ fl \subseteq cur.flags
    BY <1>1
  <2> HIDE DEF fl
  <2>3. /\ u = uidnext[2] /\ 0 < u /\ uidnext'[2] = u + 1
        /\ box'[2][u] = [msg |-> cur.msg, uid |-> u, flags |-> fl]
        /\ box'[2][u] # Absent /\ BoxSameBut(2, u)
    BY <1>1, <1>2, <2>1, <2>2, AppendEffect
  <2>4. list'[2][u] # Absent /\ list'[2][u].flags = cur.flags /\ ListSameBut(2, u)
    BY <1>1, <1>2, <2>1, AddEffect
  <2>5. box[2][u] = Absent /\ Under(2, u) = {}
    BY <2>3 DEF CopyInv, Handles, Under, UID
  <2>6. RowsOf(2, u) = {}
    BY <1>2, <2>3 DEF KeyInv, RowsOf, UID
  <2>7. Appears(2, u, u)
    BY <1>1, <2>2, <2>3, <2>5, <2>6 DEF Appears
  <2> QED
    BY <1>3, <2>3, <2>4, <2>7
<1>4. CASE dst = 1
  <2>1. MaildirAddMessage(1, cur.msg, cur.flags, u)
    BY <1>2, <1>4 DEF AddMessage
  <2> DEFINE f == NewFile(1)
             e == [file |-> f, flags |-> cur.flags,
                   ignore |-> FALSE, temporary |-> FALSE]
  <2>2. /\ u \notin Listed(1) /\ uidnext' = uidnext
        /\ f \in UID /\ box[1][f] = Absent
        /\ \A v \in Listed(1) : list[1][v].file # f
        /\ box'[1][f] = [msg |-> cur.msg, uid |-> u, flags |-> cur.flags]
        /\ box'[1][f] # Absent /\ BoxSameBut(1, f)
        /\ list'[1][u] = e /\ list'[1][u] # Absent /\ ListSameBut(1, u)
    BY <1>1, <1>2, <2>1, MaildirAddEffect
  <2> HIDE DEF f
  <2>3. Under(1, u) = {}
    BY <2>2 DEF FilesListed, Under, Syncing
  <2>4. RowsOf(1, u) = {}
    BY <1>2, <1>4, <2>2 DEF OrderInv, RowsOf, Adding, Syncing, Other
  <2>5. Appears(1, f, u)
    BY <1>1, <2>2, <2>3, <2>4 DEF Appears
  <2> QED
    BY <1>4, <2>2, <2>5
<1> QED
  BY <1>2, <1>3, <1>4

LEMMA MirrorAddNew ==
    ASSUME IsMirror, MInv, AddNew
    PROVE  MInv' /\ Kept
<1> USE DEF MInv
<1>1. TypeOK'
  BY MirrorTypes, AddNewTypes DEF TypeInv
<1> PICK u \in UID : AddMessage(dst, cur.msg, cur.flags, u) /\ cur' = [cur EXCEPT !.dst = u]
  BY DEF AddNew
<1>2. /\ pc = "add" /\ pc' = "update"
      /\ UNCHANGED <<db, gone, config, iter, src, todo>>
      /\ cur'.src = cur.src /\ cur'.dst = u
      /\ cur'.msg = cur.msg /\ cur'.flags = cur.flags
  BY DEF AddNew, auxVars, TypeOK
<1> PICK f \in UID :
       /\ Appears(dst, f, u)
       /\ box'[dst][f].msg = cur.msg
       /\ ListSameBut(dst, u)
       /\ list'[dst][u] # Absent
       /\ list'[dst][u].flags = cur.flags
       /\ dst = 1 => /\ list'[1][u].file = f
                     /\ ~list'[1][u].ignore /\ ~list'[1][u].temporary
                     /\ \A v \in Listed(1) : list[1][v].file # f
  BY <1>2, MirrorAddEffect
<1>3. /\ 1 \in Stores /\ 2 \in Stores /\ Stores = {1, 2}
      /\ src \in Stores /\ dst \in Stores /\ dst # src
      /\ dst' = dst /\ src' = src
      /\ \A r \in db, s \in Stores : r.uid[s] \in UID
      /\ cur.src \in UID
  BY <1>2, TheStores DEF dst
<1>4. CopyInv' /\ KeyInv' /\ MatchInv'
  BY <1>2, <1>3, AppearsKeeps
<1>5. /\ \A t \in Stores, h \in UID : t # dst \/ h # f => box'[t][h] = box[t][h]
      /\ \A t \in Stores, v \in UID : t # dst \/ v # u => list'[t][v] = list[t][v]
  BY DEF Appears, BoxSameBut, ListSameBut
<1>6. /\ \A t \in Stores, v \in UID :
            v \in Listed(t)' <=> v \in Listed(t) \/ (t = dst /\ v = u)
      /\ Listed(src)' = Listed(src)
      /\ \A t \in Stores : Listed(t) \subseteq UID
  BY <1>3, <1>5 DEF Listed
<1>7. /\ uidnext[2] \in Nat /\ uidnext'[2] \in Nat /\ uidnext[2] <= uidnext'[2]
      /\ "T" \in cur.flags => Released(cur.msg)
  <2>1. uidnext[2] \in Nat
    BY <1>3 DEF TypeOK, FolderTypeOK
  <2> QED
    BY <1>2, <1>3, <2>1 DEF Appears, InHandInv, Adding
<1>8. ASSUME NEW v \in Listed(1)'
      PROVE  LET e == list'[1][v]
             IN  /\ ~e.ignore /\ ~e.temporary /\ e.file \in UID
                 /\ box'[1][e.file] # Absent =>
                       /\ box'[1][e.file].uid = v
                       /\ "T" \in e.flags => Released(box'[1][e.file].msg)
  <2>1. CASE dst = 1 /\ v = u
    BY <1>7, <2>1 DEF Appears
  <2>2. CASE ~(dst = 1 /\ v = u)
    <3>1. v \in UID /\ v \in Listed(1) /\ list'[1][v] = list[1][v]
      BY <1>3, <1>5, <1>6, <1>8, <2>2 DEF Listed
    <3>2. list[1][v].file \in UID
      BY <3>1 DEF EntryInv
    <3>3. box'[1][list[1][v].file] = box[1][list[1][v].file]
      BY <1>3, <1>5, <3>1, <3>2
    <3> QED
      BY <3>1, <3>2, <3>3 DEF EntryInv
  <2> QED
    BY <2>1, <2>2
<1>9. ASSUME NEW v \in Listed(2)'
      PROVE  /\ 0 < v /\ v < uidnext'[2]
             /\ box'[2][v] # Absent /\ "T" \in list'[2][v].flags
                    => Released(box'[2][v].msg)
  <2>1. v \in UID /\ v \in Int
    BY <1>9 DEF Listed, UID
  <2>2. CASE dst = 2 /\ v = u
    BY <1>7, <2>1, <2>2 DEF Appears
  <2>3. CASE ~(dst = 2 /\ v = u)
    <3>1. /\ v \in Listed(2) /\ list'[2][v] = list[2][v]
          /\ box'[2][v] = box[2][v]
      BY <1>3, <1>5, <1>6, <1>9, <2>1, <2>3 DEF Appears
    <3> QED
      BY <1>7, <2>1, <3>1 DEF EntryInv
  <2> QED
    BY <2>2, <2>3
<1>10. EntryInv'
  BY <1>2, <1>8, <1>9 DEF EntryInv, Released
<1>11. FilesListed'
  <2> SUFFICES ASSUME NEW h \in Handles(1)'
               PROVE  /\ box'[1][h].uid \in Listed(1)'
                      /\ list'[1][box'[1][h].uid].file = h
    BY DEF FilesListed
  <2>1. CASE dst = 1 /\ h = f
    BY <1>3, <1>6, <2>1 DEF Appears
  <2>2. CASE ~(dst = 1 /\ h = f)
    <3>1. h \in UID /\ h \in Handles(1) /\ box'[1][h] = box[1][h]
      BY <1>3, <1>5, <2>2 DEF Handles
    <3>2. box[1][h].uid \in Listed(1) /\ list[1][box[1][h].uid].file = h
      BY <1>2, <3>1 DEF FilesListed, Syncing
    <3>3. dst # 1 \/ box[1][h].uid # u
      BY <3>1 DEF Appears, Under
    <3> QED
      BY <1>3, <1>5, <1>6, <3>1, <3>2, <3>3
  <2> QED
    BY <2>1, <2>2
<1>12. ServerInv'
  <2> SUFFICES ASSUME NEW r \in db
               PROVE  r.uid[2] \in Listed(2)' \/ box'[2][r.uid[2]] = Absent
    BY <1>2 DEF ServerInv
  <2>1. r.uid[2] \in UID /\ (dst # 2 \/ r.uid[2] # u)
    BY <1>3 DEF Appears, RowsOf
  <2>2. box'[2][r.uid[2]] = box[2][r.uid[2]]
    BY <1>3, <1>5, <2>1 DEF Appears
  <2> QED
    BY <1>2, <1>3, <1>6, <2>1, <2>2 DEF ServerInv, Syncing
<1>13. OrderInv'
  BY <1>2, <1>3, <1>6 DEF OrderInv, Syncing, Adding
<1>14. WorkInv'
  BY <1>2, <1>3, <1>6 DEF WorkInv, RowsOf, Syncing
<1>15. InHandInv'
  <2>1. HeldAt(src, cur.src)'
    <3>1. HeldAt(src, cur.src)
      BY <1>2 DEF InHandInv, Adding
    <3>2. Under(src, cur.src)' = Under(src, cur.src)
      BY <1>3, AppearsUnder
    <3>3. \A h \in Under(src, cur.src) : box'[src][h] = box[src][h]
      BY <1>3, AppearsUnder DEF Under, Handles
    <3> QED
      BY <1>2, <1>3, <1>6, <3>1, <3>2, <3>3 DEF HeldAt, RowsOf, Released
  <2>2. HeldAt(dst, u)'
    <3>1. Under(dst, u)' = {f}
      BY <1>3, AppearsUnder
    <3>2. RowsOf(dst, u)' = {}
      BY <1>2, <1>3 DEF Appears, RowsOf
    <3> QED
      BY <1>2, <1>3, <1>6, <3>1, <3>2 DEF HeldAt
  <2> QED
    BY <1>2, <1>3, <2>1, <2>2 DEF InHandInv, Adding, HeldAt, Released, Under,
                                  Handles, RowsOf, Listed
<1>16. Kept
  BY <1>3, AppearsUnder DEF Kept
<1> QED
  BY <1>1, <1>4, <1>10, <1>11, <1>12, <1>13, <1>14, <1>15, <1>16
-----------------------------------------------------------------------------
(* Copies fade while the list changes for one uid at most.                 *)
LEMMA FadesAt ==
    ASSUME IsMirror, MInv, Fades, UNCHANGED uidnext, NEW s \in Stores, NEW v \in UID,
           ListSameBut(s, v),
           list'[s][v] # Absent =>
              /\ list[s][v] # Absent
              /\ s = 1 => /\ list'[1][v].file = list[1][v].file
                          /\ ~list'[1][v].ignore /\ ~list'[1][v].temporary
              /\ "T" \in list'[s][v].flags =>
                    \A h \in Under(s, v) : ReleasedNow(box[s][h].msg)
    PROVE  EntryInv'
<1> USE DEF MInv
<1>0. 1 \in Stores /\ 2 \in Stores /\ Stores = {1, 2}
  BY DEF Stores
<1>1. ASSUME NEW t \in Stores, NEW u \in UID, t # s \/ u # v
      PROVE  list'[t][u] = list[t][u]
  BY <1>1 DEF ListSameBut
<1>2. ASSUME NEW u \in Listed(1)'
      PROVE  LET e == list'[1][u]
             IN  /\ ~e.ignore /\ ~e.temporary /\ e.file \in UID
                 /\ box'[1][e.file] # Absent =>
                       /\ box'[1][e.file].uid = u
                       /\ "T" \in e.flags => ReleasedNow(box'[1][e.file].msg)
  <2>1. u \in UID /\ list'[1][u] # Absent
    BY <1>2 DEF Listed
  <2>2. u \in Listed(1)
    BY <1>0, <1>1, <2>1 DEF Listed
  <2> DEFINE e == list'[1][u]  f == list[1][u].file
  <2>3. e.file = f /\ ~e.ignore /\ ~e.temporary
    BY <1>0, <1>1, <2>1, <2>2 DEF EntryInv
  <2>4. /\ f \in UID
        /\ box[1][f] # Absent =>
              /\ box[1][f].uid = u
              /\ "T" \in list[1][u].flags => Released(box[1][f].msg)
    BY <2>2 DEF EntryInv
  <2>5. box'[1][f] # Absent => /\ box[1][f] # Absent
                               /\ box'[1][f].msg = box[1][f].msg
                               /\ box'[1][f].uid = box[1][f].uid
    BY <1>0, <2>4, FadesPoint
  <2>6. ASSUME box'[1][f] # Absent, "T" \in e.flags
        PROVE  ReleasedNow(box'[1][f].msg)
    <3>1. f \in Under(1, u)
      BY <2>4, <2>5, <2>6 DEF Under, Handles
    <3>2. CASE s = 1 /\ u = v
      BY <2>1, <2>5, <2>6, <3>1, <3>2
    <3>3. CASE ~(s = 1 /\ u = v)
      <4>1. e = list[1][u]
        BY <1>0, <1>1, <2>1, <3>3
      <4> QED
        BY <2>4, <2>5, <2>6, <4>1 DEF Released, ReleasedNow, Fades
    <3> QED
      BY <3>2, <3>3
  <2> QED
    BY <2>3, <2>4, <2>5, <2>6
<1>3. ASSUME NEW u \in Listed(2)'
      PROVE  /\ 0 < u /\ u < uidnext'[2]
             /\ box'[2][u] # Absent /\ "T" \in list'[2][u].flags
                    => ReleasedNow(box'[2][u].msg)
  <2>1. u \in UID /\ list'[2][u] # Absent
    BY <1>3 DEF Listed
  <2>2. u \in Listed(2)
    BY <1>0, <1>1, <2>1 DEF Listed
  <2>3. 0 < u /\ u < uidnext'[2]
    BY <2>2 DEF EntryInv
  <2>4. ASSUME box'[2][u] # Absent, "T" \in list'[2][u].flags
        PROVE  ReleasedNow(box'[2][u].msg)
    <3>1. box[2][u] # Absent /\ box'[2][u].msg = box[2][u].msg
      BY <1>0, <2>1, <2>4, FadesPoint
    <3>2. CASE s = 2 /\ u = v
      <4>1. u \in Under(2, u)
        BY <2>1, <3>1 DEF Under, Handles, CopyInv
      <4> QED
        BY <2>1, <2>4, <3>1, <3>2, <4>1
    <3>3. CASE ~(s = 2 /\ u = v)
      <4>1. list'[2][u] = list[2][u]
        BY <1>0, <1>1, <2>1, <3>3
      <4> QED
        BY <2>2, <2>4, <3>1, <4>1 DEF EntryInv, Released, ReleasedNow, Fades
    <3> QED
      BY <3>2, <3>3
  <2> QED
    BY <2>3, <2>4
<1> QED
  BY <1>2, <1>3 DEF EntryInv, Released, ReleasedNow

(* A listed file of the Maildir that fades stays listed.                   *)
LEMMA FadesFiles ==
    ASSUME IsMirror, MInv, Fades, pc \in {"list2"} \cup Syncing,
           \A h \in Handles(1)' :
              LET u == box[1][h].uid
              IN  list'[1][u] # Absent /\ list'[1][u].file = list[1][u].file
    PROVE  FilesListed'
<1> SUFFICES ASSUME NEW h \in Handles(1)'
             PROVE  /\ box'[1][h].uid \in Listed(1)'
                    /\ list'[1][box'[1][h].uid].file = h
  BY DEF FilesListed
<1>1. h \in UID /\ box'[1][h] # Absent /\ 1 \in Stores
  BY DEF Handles, Stores
<1>2. box[1][h] # Absent /\ box'[1][h].uid = box[1][h].uid
  BY <1>1, FadesPoint DEF MInv
<1>3. /\ box[1][h].uid \in Listed(1) /\ list[1][box[1][h].uid].file = h
  BY <1>1, <1>2 DEF MInv, FilesListed, Handles
<1> QED
  BY <1>2, <1>3 DEF Listed

(* A message that is on the server and that the server does not list.      *)
LEMMA FadesServer ==
    ASSUME IsMirror, MInv, Fades, NEW u \in UID, box[2][u] = Absent
    PROVE  box'[2][u] = Absent
BY DEF Fades, Stores

(* A mail client deletes or flags a copy.                                  *)
LEMMA MirrorFades ==
    ASSUME IsMirror, MInv, TypeOK', Fades,
           UNCHANGED <<list, uidnext, db, config, pc, iter, src, todo, cur>>
    PROVE  MInv'
<1> USE DEF MInv
<1>1. CopyInv' /\ KeyInv' /\ MatchInv'
  BY FadesKeeps
<1>2. EntryInv'
  BY FadesEntries
<1>3. \A s \in Stores : Listed(s)' = Listed(s)
  BY DEF Listed
<1>4. FilesListed'
  <2>1. CASE pc \in {"list2"} \cup Syncing
    <3>1. \A h \in Handles(1)' : h \in Handles(1)
      BY FadesPoint, TheStores DEF Handles
    <3>2. \A h \in Handles(1) : list[1][box[1][h].uid] # Absent
      BY <2>1 DEF FilesListed, Listed
    <3> QED
      BY <2>1, <3>1, <3>2, FadesFiles
  <2>2. CASE pc \notin {"list2"} \cup Syncing
    BY <2>2 DEF FilesListed
  <2> QED
    BY <2>1, <2>2
<1>5. ServerInv'
  BY <1>3, TheStores, FadesServer DEF ServerInv
<1>6. OrderInv' /\ WorkInv'
  BY <1>3, TheStores DEF OrderInv, WorkInv, RowsOf
<1>7. InHandInv'
  <2>1. ASSUME NEW s \in Stores, NEW u \in UID, HeldAt(s, u) PROVE HeldAt(s, u)'
    <3>1. u \in Listed(s)'
      BY <1>3, <2>1 DEF HeldAt
    <3> QED
      BY <2>1, <3>1, FadesHeld
  <2>2. PICK t \in Stores : t = src
    BY TheStores
  <2>3. PICK o \in Stores : o = dst /\ o = dst' /\ t = src
    BY <2>2, TheStores DEF dst
  <2>4. PICK u \in UID : u = cur.src
    BY TheStores
  <2>5. PICK v \in UID : v = cur.dst
    BY TheStores
  <2>6. pc \in Adding => /\ HeldAt(t, u)'
                         /\ "T" \in cur.flags => ReleasedNow(cur.msg)
    BY <2>1, <2>3, <2>4 DEF InHandInv, Released, ReleasedNow, Fades
  <2>7. pc \in {"update", "commit"} => HeldAt(o, v)'
    BY <2>1, <2>3, <2>5 DEF InHandInv
  <2>8. pc \in Adding => HeldAt(src, cur.src)'
    BY <2>3, <2>4, <2>6 DEF HeldAt, Released, Under, Handles, RowsOf, Listed
  <2>9. pc \in {"update", "commit"} => HeldAt(dst, cur.dst)'
    BY <2>3, <2>5, <2>7 DEF HeldAt, Released, Under, Handles, RowsOf, Listed
  <2>10. pc = "commitDel" => cur.src \notin Listed(src)'
    BY <1>3, <2>3 DEF InHandInv, Listed
  <2>11. pc = "commitChg" => cur.src \in Listed(src)'
    BY <1>3, <2>3 DEF InHandInv, Listed
  <2> QED
    BY <2>3, <2>6, <2>8, <2>9, <2>10, <2>11 DEF InHandInv, Released, ReleasedNow
<1> QED
  BY <1>1, <1>2, <1>4, <1>5, <1>6, <1>7

(* The copies under a uid of the Maildir are the file its entry names, and *)
(* those under a uid of the server are the one of that uid.                *)
LEMMA TheCopy ==
    ASSUME IsMirror, MInv, NEW u \in UID
    PROVE  /\ pc \in {"list2"} \cup Syncing =>
                 \A h \in Under(1, u) : /\ u \in Listed(1) /\ h = list[1][u].file
                                        /\ HasFile(1, u)
           /\ \A h \in Under(2, u) : h = u /\ box[2][u] # Absent
           /\ box[2][u] # Absent => u \in Under(2, u)
<1>1. ASSUME NEW h \in Under(1, u), pc \in {"list2"} \cup Syncing
      PROVE  /\ u \in Listed(1) /\ h = list[1][u].file
             /\ HasFile(1, u)
  <2>1. h \in UID /\ h \in Handles(1) /\ box[1][h] # Absent /\ box[1][h].uid = u
    BY DEF Under, Handles
  <2>2. u \in Listed(1) /\ list[1][u].file = h
    BY <1>1, <2>1 DEF MInv, FilesListed
  <2>3. h # NoFile
    BY <2>1 DEF UID, NoFile
  <2> QED
    BY <2>1, <2>2, <2>3 DEF HasFile, HasUID, Listed
<1>2. \A h \in Under(2, u) : h = u /\ box[2][u] # Absent
  BY DEF MInv, CopyInv, Under, Handles
<1>3. box[2][u] # Absent => u \in Under(2, u)
  BY DEF MInv, CopyInv, Under, Handles
<1> QED
  BY <1>1, <1>2, <1>3

(* Flagging a message Deleted when it is released, or flagging it          *)
(* otherwise, and deleting it when it is released: its copy fades.         *)
LEMMA MirrorSetFlags ==
    ASSUME IsMirror, MInv, gone' = gone, NEW s \in Stores, NEW v \in UID,
           NEW fl \in SUBSET Letter, SetFlags(s, v, fl),
           "T" \in fl => \A h \in Under(s, v) : Released(box[s][h].msg)
    PROVE  /\ Fades /\ uidnext' = uidnext /\ ListSameBut(s, v)
           /\ list[s][v] # Absent /\ list'[s][v] # Absent
           /\ list'[s][v].flags = fl
           /\ s = 1 => /\ list'[1][v].file = list[1][v].file
                       /\ ~list'[1][v].ignore /\ ~list'[1][v].temporary
<1> USE DEF MInv
<1>1. FolderTypeOK /\ 1 \in Stores /\ 2 \in Stores /\ s \in {1, 2}
  BY DEF TypeOK, Stores
<1>2. CASE s = 2
  <2>1. ImapSetFlags(2, v, fl) /\ ServerStore(2, v, fl) /\ uidnext' = uidnext
    BY <1>2, TheStores DEF SetFlags, ImapSetFlags
  <2>2. /\ BoxSameBut(2, v)
        /\ box[2][v] = Absent => box'[2][v] = Absent
        /\ box[2][v] # Absent =>
              /\ box'[2][v] # Absent
              /\ box'[2][v].msg = box[2][v].msg
              /\ box'[2][v].uid = box[2][v].uid
              /\ box'[2][v].flags \subseteq fl
    BY <1>1, <2>1, StoreEffect
  <2>3. /\ ListSameBut(2, v) /\ list[2][v] # Absent /\ list'[2][v] # Absent
        /\ list'[2][v].flags = fl
    BY <1>1, <2>1, SetFlagsEffect
  <2>4. box[2][v] # Absent /\ "T" \in fl => ReleasedNow(box[2][v].msg)
    BY <1>2, TheCopy DEF Released, ReleasedNow
  <2>5. Fades
    <3>1. \A t \in Stores, h \in UID : t # 2 \/ h # v => box'[t][h] = box[t][h]
      BY <2>2 DEF BoxSameBut
    <3> QED
      BY <2>2, <2>4, <3>1 DEF Fades
  <2> QED
    BY <1>2, <2>1, <2>3, <2>5
<1>3. CASE s = 1
  <2> DEFINE f == list[1][v].file
  <2>1. MaildirSetFlags(1, v, fl) /\ HasFile(1, v)
    BY <1>3, TheStores DEF SetFlags, MaildirSetFlags
  <2>2. f \in UID /\ box[1][f] # Absent /\ list[1][v] # Absent
    BY <1>1, <2>1, FileOf
  <2>3. /\ uidnext' = uidnext /\ BoxSameBut(1, f) /\ box'[1][f] # Absent
        /\ box'[1][f].msg = box[1][f].msg
        /\ box'[1][f].uid = box[1][f].uid
        /\ box'[1][f].flags = fl
        /\ ListSameBut(1, v) /\ list'[1][v] # Absent
        /\ list'[1][v].flags = fl
        /\ list'[1][v].file = f
        /\ list'[1][v].ignore = list[1][v].ignore
        /\ list'[1][v].temporary = list[1][v].temporary
    BY <1>1, <2>1, MaildirSetFlagsEffect
  <2>4. v \in Listed(1)
    BY <2>2 DEF Listed
  <2>5. /\ ~list[1][v].ignore /\ ~list[1][v].temporary
        /\ box[1][f].uid = v
    BY <2>2, <2>4 DEF EntryInv
  <2> HIDE DEF f
  <2>6. "T" \in fl => ReleasedNow(box[1][f].msg)
    BY <1>3, <2>2, <2>5 DEF Under, Handles, Released, ReleasedNow
  <2>7. Fades
    <3>1. \A t \in Stores, h \in UID : t # 1 \/ h # f => box'[t][h] = box[t][h]
      BY <2>3 DEF BoxSameBut
    <3> QED
      BY <2>2, <2>3, <2>6, <3>1 DEF Fades
  <2> QED
    BY <1>3, <2>2, <2>3, <2>5, <2>7 DEF f
<1> QED
  BY <1>1, <1>2, <1>3

LEMMA MirrorDelete ==
    ASSUME IsMirror, MInv, pc = "work", gone' = gone, NEW s \in Stores, NEW v \in UID,
           DeleteMessage(s, v), \A h \in Under(s, v) : Released(box[s][h].msg)
    PROVE  /\ Fades /\ uidnext' = uidnext /\ ListSameBut(s, v)
           /\ list[s][v] # Absent /\ list'[s][v] = Absent
           /\ s = 1 => \A h \in Under(1, v) : box'[1][h] = Absent
<1> USE DEF MInv
<1>1. FolderTypeOK /\ 1 \in Stores /\ 2 \in Stores /\ s \in {1, 2}
  BY DEF TypeOK, Stores
<1>2. CASE s = 2
  <2>1. ImapDeleteMessage(2, v) /\ ServerStore(2, v, {"T"}) /\ uidnext' = uidnext
        /\ list[2][v] # Absent
    BY <1>2, TheStores DEF DeleteMessage, ImapDeleteMessage, HasUID
  <2>2. {"T"} \in SUBSET Letter
    BY DEF Letter, Mapped
  <2>3. /\ BoxSameBut(2, v)
        /\ box[2][v] = Absent => box'[2][v] = Absent
        /\ box[2][v] # Absent =>
              /\ box'[2][v] # Absent
              /\ box'[2][v].msg = box[2][v].msg
              /\ box'[2][v].uid = box[2][v].uid
    BY <1>1, <2>1, <2>2, StoreEffect
  <2>4. ListSameBut(2, v) /\ list'[2][v] = Absent
    BY <1>1, <2>1, DeleteEffect
  <2>5. box[2][v] # Absent => ReleasedNow(box[2][v].msg)
    BY <1>2, TheCopy DEF Released, ReleasedNow
  <2>6. Fades
    <3>1. \A t \in Stores, h \in UID : t # 2 \/ h # v => box'[t][h] = box[t][h]
      BY <2>3 DEF BoxSameBut
    <3> QED
      BY <2>3, <2>5, <3>1 DEF Fades
  <2> QED
    BY <1>2, <2>1, <2>4, <2>6
<1>3. CASE s = 1
  <2> DEFINE f == list[1][v].file
  <2>1. MaildirDeleteMessage(1, v) /\ list[1][v] # Absent
    BY <1>3, TheStores DEF DeleteMessage, MaildirDeleteMessage, HasUID
  <2>2. /\ uidnext' = uidnext /\ ListSameBut(1, v) /\ list'[1][v] = Absent
        /\ \/ box' = box /\ ~HasFile(1, v)
           \/ HasFile(1, v) /\ box'[1][f] = Absent /\ BoxSameBut(1, f)
    BY <1>1, <2>1, MaildirDeleteEffect
  <2>3. \A h \in Under(1, v) : h = f /\ HasFile(1, v)
    BY TheCopy DEF Syncing
  <2>4. CASE box' = box /\ ~HasFile(1, v)
    <3>1. Fades
      BY <2>4 DEF Fades
    <3> QED
      BY <1>3, <2>1, <2>2, <2>3, <2>4, <3>1
  <2>5. CASE HasFile(1, v) /\ box'[1][f] = Absent /\ BoxSameBut(1, f)
    <3>1. f \in UID /\ box[1][f] # Absent
      BY <1>1, <2>5, FileOf
    <3>2. v \in Listed(1)
      BY <2>1 DEF Listed
    <3>3. box[1][f].uid = v
      BY <3>1, <3>2 DEF EntryInv
    <3>4. ReleasedNow(box[1][f].msg)
      BY <1>3, <3>1, <3>3 DEF Under, Handles, Released, ReleasedNow
    <3> HIDE DEF f
    <3>5. \A t \in Stores, h \in UID : t # 1 \/ h # f => box'[t][h] = box[t][h]
      BY <2>5 DEF BoxSameBut
    <3>6. Fades
      BY <2>5, <3>1, <3>4, <3>5 DEF Fades
    <3> QED
      BY <1>3, <2>1, <2>2, <2>3, <2>5, <3>6
  <2> QED
    BY <2>2, <2>4, <2>5
<1> QED
  BY <1>1, <1>2, <1>3
-----------------------------------------------------------------------------
(* Update gives the file in hand the uid and the flags it is listed with.  *)
LEMMA MirrorUpdate ==
    ASSUME IsMirror, MInv, pc = "update", gone' = gone, NEW u \in UID,
           UpdateMessage(src, cur.src, u)
    PROVE  /\ u = cur.src /\ Fades /\ uidnext' = uidnext
           /\ EntryInv'
           /\ \A t \in Stores, v \in UID :
                 /\ list'[t][v] = Absent <=> list[t][v] = Absent
                 /\ t = 1 /\ list[1][v] # Absent => list'[1][v].file = list[1][v].file
<1> USE DEF MInv
<1>1. FolderTypeOK /\ 1 \in Stores /\ 2 \in Stores /\ src \in {1, 2} /\ cur.src \in UID
  BY TheStores DEF TypeOK, Stores
<1>2. CASE src = 2
  <2>1. u = cur.src /\ UNCHANGED <<box, list, uidnext>>
    BY <1>2, TheStores DEF UpdateMessage, folderVars
  <2>2. Fades
    BY <2>1, NothingFades
  <2> QED
    BY <2>1, <2>2, FadesEntries
<1>3. CASE src = 1
  <2> DEFINE w == cur.src  f == list[1][w].file
  <2>1. MaildirUpdate(1, w, u) /\ HasFile(1, w)
    BY <1>3, TheStores DEF UpdateMessage, MaildirUpdate
  <2>2. f \in UID /\ box[1][f] # Absent /\ list[1][w] # Absent
    BY <1>1, <2>1, FileOf
  <2>3. w \in Listed(1)
    BY <1>1, <2>2 DEF Listed
  <2>4. /\ ~list[1][w].ignore /\ ~list[1][w].temporary /\ box[1][f].uid = w
        /\ "T" \in list[1][w].flags => Released(box[1][f].msg)
    BY <2>2, <2>3 DEF EntryInv
  <2>5. /\ uidnext' = uidnext /\ u = w
        /\ BoxSameBut(1, f) /\ box'[1][f] # Absent
        /\ box'[1][f].msg = box[1][f].msg /\ box'[1][f].uid = u
        /\ box'[1][f].flags = list[1][w].flags
        /\ ListSameBut(1, w) /\ list'[1][w] # Absent
        /\ list'[1][w].file = f
        /\ list'[1][w].flags = list[1][w].flags
        /\ list'[1][w].ignore = list[1][w].ignore
        /\ ~list'[1][w].temporary
    <3>1. w \in UID
      BY <1>1
    <3> HIDE DEF w
    <3>2. /\ uidnext' = uidnext /\ (~list[1][w].temporary => u = w)
          /\ BoxSameBut(1, f) /\ box'[1][f] # Absent
          /\ box'[1][f].msg = box[1][f].msg /\ box'[1][f].uid = u
          /\ box'[1][f].flags = list[1][w].flags
          /\ ListSameBut(1, w) /\ list'[1][w] # Absent
          /\ list'[1][w].file = f
          /\ list'[1][w].flags = list[1][w].flags
          /\ list'[1][w].ignore = list[1][w].ignore
          /\ ~list'[1][w].temporary
      BY <1>1, <2>1, <3>1, MaildirUpdateEffect, SMTT(30)
    <3> QED
      BY <2>4, <3>2
  <2>6. \A h \in Under(1, w) : h = f
    BY <1>1, TheCopy DEF Syncing
  <2> HIDE DEF f, w
  <2>7. Fades
    <3>1. \A t \in Stores, h \in UID : t # 1 \/ h # f => box'[t][h] = box[t][h]
      BY <2>5 DEF BoxSameBut
    <3> QED
      BY <2>2, <2>4, <2>5, <3>1 DEF Fades, Released, ReleasedNow
  <2>8. EntryInv'
    <3>1. list'[1][w] # Absent =>
             /\ list[1][w] # Absent
             /\ list'[1][w].file = list[1][w].file
             /\ ~list'[1][w].ignore /\ ~list'[1][w].temporary
             /\ "T" \in list'[1][w].flags =>
                   \A h \in Under(1, w) : ReleasedNow(box[1][h].msg)
      BY <2>2, <2>4, <2>5, <2>6 DEF f, Released, ReleasedNow
    <3>2. w \in UID
      BY <1>1 DEF w
    <3> QED
      BY <1>1, <2>5, <2>7, <3>1, <3>2, FadesAt
  <2>9. \A t \in Stores, v \in UID : t # 1 \/ v # w => list'[t][v] = list[t][v]
    BY <2>5 DEF ListSameBut
  <2> QED
    BY <2>2, <2>5, <2>7, <2>8, <2>9 DEF f, w
<1> QED
  BY <1>1, <1>2, <1>3

LEMMA MirrorUpdateSource ==
    ASSUME IsMirror, MInv, UpdateSource
    PROVE  MInv' /\ Kept
<1> USE DEF MInv
<1>1. CASE Abort /\ UNCHANGED folderVars
  BY <1>1, MirrorAbort
<1>2. CASE ~(Abort /\ UNCHANGED folderVars)
  <2>1. /\ pc = "update" /\ pc' = "commit"
        /\ UNCHANGED <<db, gone, config, iter, src, todo>>
    BY <1>2 DEF UpdateSource, auxVars
  <2>2. PICK u \in UID : UpdateMessage(src, cur.src, u) /\ cur' = [cur EXCEPT !.src = u]
    BY <1>2 DEF UpdateSource
  <2>3. /\ u = cur.src /\ Fades /\ uidnext' = uidnext
        /\ EntryInv'
        /\ \A t \in Stores, v \in UID :
              /\ list'[t][v] = Absent <=> list[t][v] = Absent
              /\ t = 1 /\ list[1][v] # Absent => list'[1][v].file = list[1][v].file
    BY <2>1, <2>2, MirrorUpdate
  <2>4. cur' = cur
    BY <2>2, <2>3 DEF TypeOK
  <2>5. TypeOK'
    BY MirrorTypes, UpdateSourceTypes DEF TypeInv
  <2>6. CopyInv' /\ KeyInv' /\ MatchInv'
    BY <2>1, <2>3, FadesKeeps
  <2>7. \A s \in Stores : Listed(s)' = Listed(s)
    BY <2>3 DEF Listed
  <2>8. FilesListed'
    <3>1. \A h \in Handles(1)' : h \in Handles(1)
      BY <2>3, FadesPoint, TheStores DEF Handles
    <3>2. \A h \in Handles(1) : box[1][h].uid \in UID /\ list[1][box[1][h].uid] # Absent
      BY <2>1 DEF FilesListed, Listed, Syncing
    <3> QED
      BY <2>1, <2>3, <3>1, <3>2, FadesFiles, TheStores DEF Syncing
  <2>9. ServerInv'
    BY <2>1, <2>3, <2>7, TheStores, FadesServer DEF ServerInv, Syncing
  <2>10. OrderInv' /\ WorkInv'
    BY <2>1, <2>7, TheStores DEF OrderInv, WorkInv, RowsOf, Syncing, Adding
  <2>11. InHandInv'
    <3>1. PICK s \in Stores : s = src
      BY TheStores
    <3>2. PICK o \in Stores : o = dst /\ o = dst'
      BY <2>1, TheStores DEF dst
    <3>3. PICK v \in UID : v = cur.dst
      BY TheStores
    <3>4. PICK w \in UID : w = cur.src
      BY TheStores
    <3>5. HeldAt(s, w)'
      <4>1. HeldAt(s, w)
        BY <2>1, <3>1, <3>4 DEF InHandInv, Adding
      <4> QED
        BY <2>1, <2>3, <2>4, <2>7, <4>1, FadesHeld DEF HeldAt
    <3>6. HeldAt(o, v)'
      <4>1. HeldAt(o, v)
        BY <2>1, <3>2, <3>3 DEF InHandInv
      <4> QED
        BY <2>1, <2>3, <2>4, <2>7, <4>1, FadesHeld DEF HeldAt
    <3>7. HeldAt(src, cur.src)'
      BY <2>1, <2>4, <3>1, <3>4, <3>5 DEF HeldAt, Released, Under, Handles, RowsOf, Listed
    <3>8. HeldAt(dst, cur.dst)'
      BY <2>4, <3>2, <3>3, <3>6 DEF HeldAt, Released, Under, Handles, RowsOf, Listed
    <3> QED
      BY <2>1, <2>4, <3>7, <3>8 DEF InHandInv, Released, Adding
  <2> QED
    BY <2>3, <2>5, <2>6, <2>8, <2>9, <2>10, <2>11, FadesKept
<1> QED
  BY <1>1, <1>2
-----------------------------------------------------------------------------
(* Rows.                                                                   *)
LEMMA MirrorCommitDelete ==
    ASSUME IsMirror, MInv, CommitDelete
    PROVE  MInv'
<1> USE DEF MInv
<1>1. TypeOK'
  BY MirrorTypes, CommitTypes DEF TypeInv
<1>2. /\ pc = "commitDel" /\ pc' = "work"
      /\ UNCHANGED <<box, list, uidnext, gone, config, iter, src, todo>>
      /\ db' = {r \in db : r.uid[src] # cur.src}
  BY CommittedFacts DEF CommitDelete, RowDeleted, RowsOf
<1>3. /\ src \in Stores /\ 1 \in Stores /\ 2 \in Stores
      /\ \A s \in Stores : Listed(s)' = Listed(s)
      /\ \A s \in Stores : \A u : Under(s, u)' = Under(s, u)
  BY <1>2, TheStores DEF Listed, Under, Handles
<1>4. CopyInv' /\ EntryInv' /\ FilesListed'
  BY <1>2 DEF CopyInv, EntryInv, FilesListed, Released, Handles, Listed, Syncing
<1>5. KeyInv'
  BY <1>2 DEF KeyInv, RowsOneToOne
<1>6. MatchInv'
  <2> SUFFICES ASSUME NEW r \in db', NEW s \in Stores, NEW h \in Under(s, r.uid[s])
               PROVE  Matched(r, s, h)'
    BY <1>3 DEF MatchInv
  <2>1. r \in db /\ Other(s) \in Stores
    BY <1>2, OtherStore
  <2> QED
    BY <1>2, <1>3, <2>1 DEF MatchInv, Matched, Released
<1>7. ServerInv'
  BY <1>2, <1>3 DEF ServerInv, Syncing
<1>8. OrderInv'
  BY <1>2, <1>3 DEF OrderInv, Syncing, Adding
<1>9. WorkInv'
  <2>1. \A u \in todo.new : RowsOf(src, u)' = {}
    BY <1>2 DEF WorkInv, RowsOf, Syncing
  <2>2. \A r \in todo.chg : \E q \in db' : q.uid = r.uid
    <3> SUFFICES ASSUME NEW r \in todo.chg PROVE \E q \in db' : q.uid = r.uid
      OBVIOUS
    <3>1. r.uid[src] \in Listed(src) /\ cur.src \notin Listed(src)
      BY <1>2 DEF WorkInv, InHandInv, Syncing
    <3>2. PICK q \in db : q.uid = r.uid
      BY <1>2 DEF WorkInv, Syncing
    <3> QED
      BY <1>2, <3>1, <3>2
  <2>3. \A r \in todo.del : r \in db' /\ r.uid[src] \notin Listed(src)
    BY <1>2 DEF WorkInv, Syncing
  <2> QED
    BY <1>2, <1>3, <2>1, <2>2, <2>3 DEF WorkInv, Syncing
<1>10. InHandInv'
  BY <1>2 DEF InHandInv, Adding
<1> QED
  BY <1>1, <1>4, <1>5, <1>6, <1>7, <1>8, <1>9, <1>10

(* The row of a new message pairs two uids no row had, of one message.     *)
LEMMA MirrorCommitNew ==
    ASSUME IsMirror, MInv, CommitNew
    PROVE  MInv'
<1> USE DEF MInv
<1> DEFINE n == [uid |-> Pair(src, cur.src, cur.dst), flags |-> cur.flags]
<1>1. TypeOK'
  BY MirrorTypes, CommitTypes DEF TypeInv
<1>2. /\ pc = "commit" /\ pc' = "work"
      /\ UNCHANGED <<box, list, uidnext, gone, config, iter, src, todo>>
      /\ db' = {r \in db : r.uid # n.uid} \cup {n}
  BY CommittedFacts DEF CommitNew, RowUpdated
<1>3. /\ src \in Stores /\ dst \in Stores /\ 1 \in Stores /\ 2 \in Stores
      /\ Stores = {src, dst} /\ dst = Other(src) /\ src = Other(dst)
      /\ \A s \in Stores : Listed(s)' = Listed(s)
      /\ \A s \in Stores : \A u : Under(s, u)' = Under(s, u)
      /\ \A r \in db, s \in Stores : r.uid[s] \in UID
  BY <1>2, TheStores DEF Listed, Under, Handles, dst, Other, Stores
<1>4. /\ n.uid[src] = cur.src /\ n.uid[dst] = cur.dst
      /\ n.uid \in [Stores -> UID]
  BY <1>3, TheStores, PairFacts
<1> HIDE DEF n
<1>5. \A s \in Stores :
         /\ n.uid[s] \in Listed(s)
         /\ RowsOf(s, n.uid[s]) = {}
         /\ \A h \in Under(s, n.uid[s]) : box[s][h].msg = cur.msg
         /\ Under(s, n.uid[s]) = {} => Released(cur.msg)
  BY <1>2, <1>3, <1>4 DEF InHandInv, HeldAt, Adding
<1>6. \A r \in db, s \in Stores : r.uid[s] # n.uid[s]
  BY <1>5 DEF RowsOf
<1>7. db' = db \cup {n}
  BY <1>2, <1>3, <1>6
<1>8. CopyInv' /\ EntryInv' /\ FilesListed'
  BY <1>2 DEF CopyInv, EntryInv, FilesListed, Released, Handles, Listed, Syncing
<1>9. KeyInv'
  <2>1. 0 < n.uid[2] /\ n.uid[2] < uidnext[2]
    BY <1>3, <1>5 DEF EntryInv
  <2>2. RowsOneToOne'
    <3> SUFFICES ASSUME NEW r \in db', NEW q \in db', NEW s \in Stores,
                        r.uid[s] = q.uid[s]
                 PROVE  r = q
      BY DEF RowsOneToOne
    <3> QED
      BY <1>6, <1>7 DEF KeyInv, RowsOneToOne
  <2> QED
    BY <1>2, <1>7, <2>1, <2>2 DEF KeyInv
<1>10. MatchInv'
  <2> SUFFICES ASSUME NEW r \in db', NEW s \in Stores, NEW h \in Under(s, r.uid[s])
               PROVE  Matched(r, s, h)'
    BY <1>3 DEF MatchInv
  <2>1. Other(s) \in Stores
    BY OtherStore
  <2>2. CASE r \in db
    BY <1>2, <1>3, <2>1, <2>2 DEF MatchInv, Matched, Released
  <2>3. CASE r = n
    BY <1>2, <1>3, <1>5, <2>1, <2>3 DEF Matched, Released
  <2> QED
    BY <1>7, <2>2, <2>3
<1>11. ServerInv'
  BY <1>2, <1>3, <1>5, <1>7 DEF ServerInv, Syncing
<1>12. OrderInv'
  BY <1>2, <1>3, <1>5, <1>7 DEF OrderInv, Syncing, Adding
<1>13. WorkInv'
  <2>1. \A u \in todo.new : RowsOf(src, u)' = {}
    <3> SUFFICES ASSUME NEW u \in todo.new PROVE RowsOf(src, u)' = {}
      OBVIOUS
    <3>1. RowsOf(src, u) = {} /\ u # cur.src
      BY <1>2 DEF WorkInv, InHandInv, Syncing, Adding
    <3> QED
      BY <1>2, <1>4, <1>7, <3>1 DEF RowsOf
  <2> QED
    BY <1>2, <1>3, <1>7, <2>1 DEF WorkInv, Syncing
<1>14. InHandInv'
  BY <1>2 DEF InHandInv, Adding
<1> QED
  BY <1>1, <1>8, <1>9, <1>10, <1>11, <1>12, <1>13, <1>14

(* The row of a changed message keeps its uids.                            *)
LEMMA MirrorCommitChange ==
    ASSUME IsMirror, MInv, CommitChange
    PROVE  MInv'
<1> USE DEF MInv
<1> DEFINE n == [uid |-> Pair(src, cur.src, cur.dst), flags |-> cur.flags]
<1>1. TypeOK'
  BY MirrorTypes, CommitTypes DEF TypeInv
<1>2. /\ pc = "commitChg" /\ pc' = "work"
      /\ UNCHANGED <<box, list, uidnext, gone, config, iter, src, todo>>
      /\ db' = {r \in db : r.uid # n.uid} \cup {n}
  BY CommittedFacts DEF CommitChange, RowUpdated
<1>3. /\ src \in Stores /\ 1 \in Stores /\ 2 \in Stores
      /\ \A s \in Stores : Listed(s)' = Listed(s)
      /\ \A s \in Stores : \A u : Under(s, u)' = Under(s, u)
      /\ \A r \in db : r.uid \in [Stores -> UID]
  BY <1>2, TheStores DEF Listed, Under, Handles
<1>4. n.uid[src] = cur.src /\ cur.src \in Listed(src)
  <2>1. n.uid[src] = cur.src
    <3>1. src \in Stores /\ cur.src \in UID /\ cur.dst \in UID
      BY TheStores
    <3>2. Pair(src, cur.src, cur.dst)[src] = cur.src
      BY <3>1, PairFacts
    <3> QED
      BY <3>2
  <2> QED
    BY <1>2, <2>1 DEF InHandInv
<1>5. PICK q \in db : q.uid = n.uid
  BY <1>2 DEF InHandInv
<1> HIDE DEF n
<1>6. /\ \A r \in db' : \E o \in db : o.uid = r.uid
      /\ \A r \in db : \E o \in db' : o.uid = r.uid
  BY <1>2, <1>5
<1>7. CopyInv' /\ EntryInv' /\ FilesListed'
  BY <1>2 DEF CopyInv, EntryInv, FilesListed, Released, Handles, Listed, Syncing
<1>8. KeyInv'
  <2>1. RowsOneToOne'
    <3> SUFFICES ASSUME NEW r \in db', NEW p \in db', NEW s \in Stores,
                        r.uid[s] = p.uid[s]
                 PROVE  r = p
      BY DEF RowsOneToOne
    <3>1. PICK o \in db : o.uid = r.uid
      BY <1>6
    <3>2. PICK k \in db : k.uid = p.uid
      BY <1>6
    <3>3. r.uid = p.uid
      BY <3>1, <3>2 DEF KeyInv, RowsOneToOne
    <3> QED
      BY <1>2, <3>3 DEF KeyInv, RowsOneToOne
  <2>2. \A r \in db' : 0 < r.uid[2] /\ r.uid[2] < uidnext[2]
    BY <1>6 DEF KeyInv
  <2> QED
    BY <1>2, <2>1, <2>2 DEF KeyInv
<1>9. MatchInv'
  <2> SUFFICES ASSUME NEW r \in db', NEW s \in Stores, NEW h \in Under(s, r.uid[s])
               PROVE  Matched(r, s, h)'
    BY <1>3 DEF MatchInv
  <2>1. Other(s) \in Stores
    BY OtherStore
  <2>2. PICK o \in db : o.uid = r.uid
    BY <1>6
  <2>3. Matched(o, s, h)
    BY <2>2 DEF MatchInv
  <2> QED
    BY <1>2, <1>3, <2>1, <2>2, <2>3 DEF Matched, Released
<1>10. ServerInv'
  <2> SUFFICES ASSUME NEW r \in db'
               PROVE  r.uid[2] \in Listed(2)' \/ box'[2][r.uid[2]] = Absent
    BY <1>2 DEF ServerInv
  <2>1. PICK o \in db : o.uid = r.uid
    BY <1>6
  <2> QED
    BY <1>2, <1>3, <2>1 DEF ServerInv, Syncing
<1>11. OrderInv'
  <2>1. ASSUME src = 1, NEW r \in db'
        PROVE  r.uid[1] \in Listed(1) \/ r \in todo.del
    <3>1. CASE r = n
      BY <1>4, <2>1, <3>1
    <3>2. CASE r \in db
      BY <1>2, <2>1, <3>2 DEF OrderInv, Syncing
    <3> QED
      BY <1>2, <3>1, <3>2
  <2>2. ASSUME src = 2, todo.new # {}, NEW r \in db'
        PROVE  r.uid[1] \in Listed(1)
    BY <1>2, <1>6, <2>2 DEF OrderInv, Syncing
  <2> QED
    BY <1>2, <1>3, <2>1, <2>2 DEF OrderInv, Syncing, Adding
<1>12. WorkInv'
  <2>1. \A u \in todo.new : RowsOf(src, u)' = {}
    BY <1>2, <1>6, SMTT(30) DEF WorkInv, RowsOf, Syncing
  <2>2. \A r \in todo.del : r \in db' /\ r.uid[src] \notin Listed(src)
    BY <1>2, <1>4 DEF WorkInv, Syncing
  <2>3. \A r \in todo.chg : /\ r.uid[src] \in Listed(src)
                            /\ \E o \in db' : o.uid = r.uid
    <3> SUFFICES ASSUME NEW r \in todo.chg
                 PROVE  r.uid[src] \in Listed(src) /\ \E o \in db' : o.uid = r.uid
      OBVIOUS
    <3>1. r.uid[src] \in Listed(src) /\ \E o \in db : o.uid = r.uid
      BY <1>2 DEF WorkInv, Syncing
    <3> QED
      BY <1>6, <3>1
  <2> QED
    BY <1>2, <1>3, <2>1, <2>2, <2>3 DEF WorkInv, Syncing
<1>13. InHandInv'
  BY <1>2 DEF InHandInv, Adding
<1> QED
  BY <1>1, <1>7, <1>8, <1>9, <1>10, <1>11, <1>12, <1>13
-----------------------------------------------------------------------------
(* What a deletion or a changed flag leaves as it was.                     *)
LEMMA TheRow ==
    ASSUME IsMirror, MInv, NEW r \in db, NEW v \in DststoreUID(src, r.uid[src])
    PROVE  v = r.uid[dst] /\ v \in UID
<1>1. src \in Stores /\ dst \in Stores /\ dst = Other(src) /\ r.uid[dst] \in UID
  BY TheStores DEF MInv
<1>2. r \in RowsOf(src, r.uid[src])
  BY DEF RowsOf
<1>3. PICK q \in RowsOf(src, r.uid[src]) : v = q.uid[dst]
  BY <1>1, <1>2 DEF DststoreUID
<1>4. q = r
  BY <1>1, <1>3 DEF MInv, KeyInv, RowsOneToOne, RowsOf
<1> QED
  BY <1>1, <1>3, <1>4

(* A message without a copy on the source is released on the destination.  *)
LEMMA DeletedIsReleased ==
    ASSUME IsMirror, MInv, pc = "work", NEW r \in todo.del
    PROVE  /\ r \in db /\ Under(src, r.uid[src]) = {}
           /\ \A h \in Under(dst, r.uid[dst]) : Released(box[dst][h].msg)
<1>1. r \in db /\ r.uid[src] \notin Listed(src)
  BY DEF MInv, WorkInv, Syncing
<1>2. /\ src \in {1, 2} /\ src \in Stores /\ dst \in Stores /\ src = Other(dst)
      /\ r.uid[src] \in UID
  BY <1>1, TheStores DEF MInv, Other, Stores
<1>3. Under(src, r.uid[src]) = {}
  <2>1. CASE src = 1
    BY <1>1, <1>2, <2>1, TheCopy DEF Syncing
  <2>2. CASE src = 2
    <3>1. box[2][r.uid[2]] = Absent
      BY <1>1, <2>2 DEF MInv, ServerInv, Syncing
    <3> QED
      BY <1>2, <2>2, <3>1, TheCopy
  <2> QED
    BY <1>2, <2>1, <2>2
<1>4. \A h \in Under(dst, r.uid[dst]) : Released(box[dst][h].msg)
  BY <1>1, <1>2, <1>3 DEF MInv, MatchInv, Matched
<1> QED
  BY <1>1, <1>3, <1>4

LEMMA MirrorDeleteRow ==
    ASSUME IsMirror, MInv, DeleteMessages
    PROVE  MInv' /\ Kept
<1> USE DEF MInv
<1>1. TypeOK'
  BY MirrorTypes, DeleteRowTypes DEF TypeInv
<1> PICK r \in todo.del, v \in UID : DeleteRow(r, v)
  BY DEF DeleteMessages
<1>2. CASE Abort /\ UNCHANGED folderVars
  BY <1>2, MirrorAbort
<1>3. CASE ~(Abort /\ UNCHANGED folderVars)
  <2> DEFINE u == r.uid[src]
  <2>1. /\ pc = "work" /\ pc' = "commitDel" /\ todo.new = {}
        /\ DeleteDst(r, v) /\ v \in DststoreUID(src, u)
        /\ cur'.src = u
        /\ todo'.new = todo.new /\ todo'.del = todo.del \ {r} /\ todo'.chg = todo.chg
        /\ UNCHANGED <<db, gone, config, iter, src>>
    BY <1>3 DEF DeleteRow, auxVars, NoCur, TypeOK
  <2>2. /\ src \in Stores /\ dst \in Stores /\ src # dst /\ Stores = {1, 2}
        /\ 1 \in Stores /\ 2 \in Stores /\ dst' = dst
        /\ \A q \in db, s \in Stores : q.uid[s] \in UID
    BY <2>1, TheStores DEF dst
  <2>3. /\ r \in db /\ Under(src, u) = {}
        /\ \A h \in Under(dst, r.uid[dst]) : Released(box[dst][h].msg)
        /\ u \notin Listed(src)
    BY <2>1, DeletedIsReleased DEF WorkInv, Syncing
  <2>4. v = r.uid[dst] /\ v \in UID
    BY <2>1, <2>3, TheRow
  <2>5. /\ Fades /\ uidnext' = uidnext /\ ListSameBut(dst, v)
        /\ list[dst][v] # Absent
        /\ \/ /\ list'[dst][v] # Absent
              /\ dst = 1 => /\ list'[1][v].file = list[1][v].file
                            /\ ~list'[1][v].ignore /\ ~list'[1][v].temporary
           \/ /\ list'[dst][v] = Absent
              /\ dst = 1 => \A h \in Under(1, v) : box'[1][h] = Absent
    <3>1. CASE DeleteMessage(dst, v)
      BY <2>1, <2>2, <2>3, <2>4, <3>1, MirrorDelete
    <3>2. CASE SetFlags(dst, v, list[dst][v].flags \cup Newflags) /\ HasUID(dst, v)
      <4> DEFINE fl == list[dst][v].flags \cup Newflags
      <4>1. fl \in SUBSET Letter
        <5>1. list[dst][v] \in Entry
          BY <2>2, <2>4, <3>2 DEF HasUID, TypeOK, FolderTypeOK
        <5> QED
          BY <5>1 DEF Entry, Letter
      <4> HIDE DEF fl
      <4> QED
        BY <2>1, <2>2, <2>3, <2>4, <3>2, <4>1, MirrorSetFlags DEF fl
    <3>3. CASE UNCHANGED folderVars /\ HasUID(dst, v)
      <4>1. UNCHANGED <<box, list, uidnext>> /\ list[dst][v] # Absent
        BY <3>3 DEF folderVars, HasUID
      <4>2. Fades
        BY <2>1, <4>1, NothingFades
      <4>3. dst = 1 => ~list[1][v].ignore /\ ~list[1][v].temporary
        BY <2>4, <4>1 DEF EntryInv, Listed
      <4> QED
        BY <4>1, <4>2, <4>3 DEF ListSameBut
    <3> QED
      BY <2>1, <3>1, <3>2, <3>3 DEF DeleteDst
  <2>6. /\ \A t \in Stores, w \in UID : t # dst \/ w # v => list'[t][w] = list[t][w]
        /\ Listed(src)' = Listed(src)
        /\ \A s \in Stores : Listed(s) \subseteq UID
    BY <2>1, <2>2, <2>5 DEF ListSameBut, Listed
  <2>7. CopyInv' /\ KeyInv' /\ MatchInv'
    BY <2>1, <2>5, FadesKeeps
  <2>8. EntryInv'
    <3>1. list'[dst][v] # Absent /\ "T" \in list'[dst][v].flags =>
             \A h \in Under(dst, v) : ReleasedNow(box[dst][h].msg)
      BY <2>1, <2>3, <2>4 DEF Released, ReleasedNow
    <3> QED
      BY <2>2, <2>4, <2>5, <3>1, FadesAt
  <2>9. FilesListed'
    <3>1. ASSUME NEW h \in Handles(1)'
          PROVE  /\ list'[1][box[1][h].uid] # Absent
                 /\ list'[1][box[1][h].uid].file = list[1][box[1][h].uid].file
      <4>1. /\ h \in UID /\ h \in Handles(1) /\ box'[1][h] # Absent
            /\ box[1][h].uid \in Listed(1)
        BY <2>1, <2>2, <2>5, <3>1, FadesPoint DEF Handles, FilesListed, Syncing
      <4>2. CASE dst = 1 /\ box[1][h].uid = v
        BY <2>5, <4>1, <4>2 DEF Under
      <4>3. CASE ~(dst = 1 /\ box[1][h].uid = v)
        BY <2>2, <2>6, <4>1, <4>3 DEF Listed
      <4> QED
        BY <4>2, <4>3
    <3> QED
      BY <2>1, <2>5, <3>1, FadesFiles DEF Syncing
  <2>10. \A q \in db : q.uid[src] = u \/ q.uid[dst] = v => q = r
    BY <2>2, <2>3, <2>4 DEF KeyInv, RowsOneToOne
  <2>11. \A q \in db, s \in Stores :
            \/ s = dst /\ q = r
            \/ q.uid[s] \in Listed(s)' <=> q.uid[s] \in Listed(s)
    BY <2>2, <2>6, <2>10 DEF Listed
  <2>12. ServerInv'
    <3> SUFFICES ASSUME NEW q \in db, q # r
                 PROVE  q.uid[2] \in Listed(2)' \/ box'[2][q.uid[2]] = Absent
      BY <2>1 DEF ServerInv
    <3> QED
      BY <2>1, <2>2, <2>5, <2>11, FadesServer DEF ServerInv, Syncing
  <2>13. OrderInv'
    <3>1. src = 1 => \A q \in db : \/ q.uid[1] \in Listed(1)'
                                   \/ q \in todo'.del
                                   \/ q.uid[1] = u
      BY <2>1, <2>2, <2>11 DEF OrderInv, Syncing
    <3> QED
      BY <2>1, <3>1 DEF OrderInv, Syncing, Adding
  <2>14. WorkInv'
    <3>1. \A q \in todo'.del : /\ q \in db /\ q.uid[src] \notin Listed(src)
                               /\ q.uid[src] # u
      BY <2>1, <2>10 DEF WorkInv, Syncing
    <3> QED
      BY <2>1, <2>6, <3>1 DEF WorkInv, Syncing
  <2>15. InHandInv'
    BY <2>1, <2>3, <2>6 DEF InHandInv, Adding
  <2> QED
    BY <1>1, <2>5, <2>7, <2>8, <2>9, <2>12, <2>13, <2>14, <2>15, FadesKept
<1> QED
  BY <1>2, <1>3 DEF DeleteRow

LEMMA MirrorChangeRow ==
    ASSUME IsMirror, MInv, ChangeMessages
    PROVE  MInv' /\ Kept
<1> USE DEF MInv
<1>1. TypeOK'
  BY MirrorTypes, ChangeRowTypes DEF TypeInv
<1> PICK r \in todo.chg, v \in UID : ChangeRow(r, v)
  BY DEF ChangeMessages
<1> DEFINE u == r.uid[src]  fl == list[src][u].flags
<1>2. /\ pc = "work" /\ todo.new = {} /\ todo.del = {}
      /\ v \in DststoreUID(src, u)
      /\ u \in Listed(src)
  BY DEF ChangeRow, WorkInv, Syncing
<1>3. /\ src \in Stores /\ dst \in Stores /\ src # dst /\ Stores = {1, 2}
      /\ 1 \in Stores /\ 2 \in Stores /\ dst = Other(src) /\ src = Other(dst)
      /\ \A q \in db, s \in Stores : q.uid[s] \in UID
  BY TheStores DEF Other, Stores
<1>4. CASE Abort /\ UNCHANGED folderVars
  BY <1>4, MirrorAbort
<1>5. CASE /\ todo' = [todo EXCEPT !.chg = @ \ {r}]
           /\ UNCHANGED <<folderVars, config, pc, iter, src, cur, outcome, db, auxVars>>
  <2>1. /\ todo'.new = todo.new /\ todo'.del = todo.del /\ todo'.chg = todo.chg \ {r}
        /\ UNCHANGED <<box, list, uidnext, db, gone, config, pc, iter, src, cur>>
    BY <1>5 DEF TypeOK, folderVars, auxVars
  <2>2. CopyInv' /\ EntryInv' /\ KeyInv' /\ MatchInv' /\ FilesListed'
    BY <1>2, <2>1, MirrorQuiet DEF Syncing
  <2>3. \A s \in Stores : Listed(s)' = Listed(s)
    BY <2>1 DEF Listed
  <2>4. ServerInv' /\ OrderInv'
    BY <1>2, <1>3, <2>1, <2>3 DEF ServerInv, OrderInv, Syncing, Adding
  <2>5. WorkInv' /\ InHandInv'
    BY <1>2, <1>3, <2>1, <2>3 DEF WorkInv, InHandInv, RowsOf, Syncing, Adding
  <2> QED
    BY <1>1, <2>1, <2>2, <2>4, <2>5 DEF Kept
<1>6. CASE /\ SetFlags(dst, v, fl)
           /\ cur' = [src |-> u, dst |-> v, msg |-> Blank, flags |-> fl]
           /\ todo' = [todo EXCEPT !.chg = @ \ {r}]
           /\ pc' = "commitChg"
           /\ UNCHANGED <<config, iter, src, outcome, db, auxVars>>
  <2>1. /\ todo'.new = {} /\ todo'.del = {} /\ todo'.chg = todo.chg \ {r}
        /\ UNCHANGED <<db, gone, config, iter, src>>
        /\ cur'.src = u /\ cur'.dst = v
    BY <1>2, <1>6 DEF TypeOK, auxVars
  <2>2. PICK q \in db : q.uid = r.uid
    BY <1>2 DEF WorkInv, Syncing
  <2>3. v = q.uid[dst] /\ u = q.uid[src] /\ u \in UID
    BY <1>2, <1>3, <2>2, TheRow
  <2>4. "T" \in fl => \A h \in Under(dst, v) : Released(box[dst][h].msg)
    <3> SUFFICES ASSUME "T" \in fl, NEW h \in Under(dst, v)
                 PROVE  Released(box[dst][h].msg)
      OBVIOUS
    <3>1. Matched(q, dst, h)
      BY <1>3, <2>3 DEF MatchInv
    <3>2. ASSUME NEW g \in Under(src, u) PROVE Released(box[src][g].msg)
      <4>1. CASE src = 1
        <5>1. u \in Listed(1) /\ g = list[1][u].file /\ HasFile(1, u)
          BY <1>2, <2>3, <3>2, <4>1, TheCopy DEF Syncing
        <5> QED
          BY <4>1, <5>1 DEF EntryInv, HasFile
      <4>2. CASE src = 2
        <5>1. g = u /\ box[2][u] # Absent
          BY <2>3, <3>2, <4>2, TheCopy
        <5> QED
          BY <1>2, <4>2, <5>1 DEF EntryInv
      <4> QED
        BY <1>3, <4>1, <4>2
    <3>3. CASE Under(src, u) = {}
      BY <1>3, <2>3, <3>1, <3>3 DEF Matched
    <3>4. CASE Under(src, u) # {}
      BY <1>3, <2>3, <3>1, <3>2, <3>4 DEF Matched
    <3> QED
      BY <3>3, <3>4
  <2>5. fl \in SUBSET Letter
    <3>1. list[src][u] \in Entry
      BY <1>2, <1>3, <2>3 DEF Listed, TypeOK, FolderTypeOK
    <3> QED
      BY <3>1 DEF Entry
  <2> HIDE DEF fl
  <2>6. /\ Fades /\ uidnext' = uidnext /\ ListSameBut(dst, v)
        /\ list[dst][v] # Absent /\ list'[dst][v] # Absent
        /\ list'[dst][v].flags = fl
        /\ dst = 1 => /\ list'[1][v].file = list[1][v].file
                      /\ ~list'[1][v].ignore /\ ~list'[1][v].temporary
    BY <1>3, <1>6, <2>1, <2>4, <2>5, MirrorSetFlags
  <2>7. CopyInv' /\ KeyInv' /\ MatchInv'
    BY <2>1, <2>6, FadesKeeps
  <2>8. EntryInv'
    <3>1. "T" \in list'[dst][v].flags => \A h \in Under(dst, v) : ReleasedNow(box[dst][h].msg)
      BY <2>1, <2>4, <2>6 DEF Released, ReleasedNow
    <3> QED
      BY <1>3, <2>6, <3>1, FadesAt
  <2>9. \A t \in Stores, w \in UID : t # dst \/ w # v => list'[t][w] = list[t][w]
    BY <2>6 DEF ListSameBut
  <2>10. \A s \in Stores : Listed(s)' = Listed(s)
    BY <2>6, <2>9 DEF Listed
  <2>11. FilesListed'
    <3>1. \A h \in Handles(1)' : h \in Handles(1)
      BY <1>3, <2>6, FadesPoint DEF Handles
    <3>2. \A h \in Handles(1) : box[1][h].uid \in UID /\ list[1][box[1][h].uid] # Absent
      BY <1>2 DEF FilesListed, Listed, Syncing
    <3>3. \A w \in UID : list[1][w] # Absent =>
             list'[1][w] # Absent /\ list'[1][w].file = list[1][w].file
      BY <1>3, <2>6, <2>9
    <3> QED
      BY <1>2, <2>6, <3>1, <3>2, <3>3, FadesFiles DEF Syncing
  <2>12. ServerInv'
    BY <1>2, <1>3, <1>6, <2>1, <2>6, <2>10, FadesServer DEF ServerInv, Syncing
  <2>13. OrderInv'
    BY <1>2, <1>3, <1>6, <2>1, <2>10 DEF OrderInv, Syncing, Adding
  <2>14. WorkInv'
    BY <1>2, <1>3, <2>1, <2>10 DEF WorkInv, Syncing
  <2>15. InHandInv'
    <3>1. q.uid = Pair(src, u, v)
      <4>1. q.uid \in [Stores -> UID]
        BY TheStores
      <4> QED
        BY <1>3, <2>3, <4>1 DEF Pair
    <3>2. \E p \in db' : p.uid = Pair(src', cur'.src, cur'.dst)
      BY <2>1, <3>1
    <3>3. cur'.src \in Listed(src)'
      BY <1>2, <1>3, <2>1, <2>10
    <3> QED
      BY <1>6, <2>1, <3>2, <3>3 DEF InHandInv, Adding, Pair
  <2> QED
    BY <1>1, <2>6, <2>7, <2>8, <2>11, <2>12, <2>13, <2>14, <2>15, FadesKept
<1> QED
  BY <1>4, <1>5, <1>6 DEF ChangeRow
-----------------------------------------------------------------------------
(* Mail is delivered to the server under a uid no list and no row has.     *)
LEMMA MirrorDeliver ==
    ASSUME IsMirror, MInv, TypeOK', NEW s \in Stores, NEW m \in Msg, Deliver(s, m)
    PROVE  MInv' /\ Kept
<1> USE DEF MInv
<1>1. /\ UNCHANGED <<list, db, config, pc, iter, src, todo, cur, gone>>
      /\ <<"deliver", s>> \in UserOps
  BY DEF Deliver, UserStep, syncVars, ImapDeliver, MaildirDeliver
<1>2. s = 2 /\ 1 \in Stores /\ 2 \in Stores /\ FolderTypeOK
  BY <1>1 DEF IsMirror, Stores, TypeOK
<1> DEFINE fl == {}
<1>3. PICK u \in UID : ServerAppend(2, m, fl, u)
  BY <1>2, TheStores DEF Deliver, ImapDeliver
<1>4. fl \in SUBSET Letter /\ "T" \notin fl /\ m \in Msg \cup {Blank}
  OBVIOUS
<1> HIDE DEF fl
<1>5. /\ u = uidnext[2] /\ 0 < u /\ uidnext'[2] = u + 1
      /\ box'[2][u] = [msg |-> m, uid |-> u, flags |-> fl]
      /\ box'[2][u] # Absent /\ BoxSameBut(2, u)
  BY <1>2, <1>3, <1>4, AppendEffect
<1>6. box[2][u] = Absent /\ Under(2, u) = {} /\ u \notin Listed(2)
  BY <1>5 DEF CopyInv, EntryInv, Handles, Under, UID
<1>7. \A r \in db, t \in Stores : r.uid[t] \in UID
  BY TheStores
<1>8. RowsOf(2, u) = {}
  BY <1>2, <1>5, <1>7 DEF KeyInv, RowsOf, UID
<1>9. Appears(2, u, u)
  BY <1>1, <1>4, <1>5, <1>6, <1>8 DEF Appears
<1>10. CopyInv' /\ KeyInv' /\ MatchInv'
  BY <1>1, <1>2, <1>9, AppearsKeeps
<1>11. /\ \A t \in Stores, h \in UID : t # 2 \/ h # u => box'[t][h] = box[t][h]
       /\ \A t \in Stores : Listed(t)' = Listed(t)
  BY <1>1, <1>5 DEF BoxSameBut, Listed
<1>12. EntryInv'
  <2>1. ASSUME NEW v \in Listed(2)
        PROVE  0 < v /\ v < uidnext'[2] /\ box'[2][v] = box[2][v]
    <3>1. v \in UID /\ v \in Int /\ v # u
      BY <1>6, <2>1 DEF Listed, UID
    <3> QED
      BY <1>2, <1>5, <1>11, <2>1, <3>1 DEF EntryInv, UID
  <2>2. \A h \in UID : box'[1][h] = box[1][h]
    BY <1>2, <1>11
  <2> QED
    BY <1>1, <1>2, <1>11, <2>1, <2>2 DEF EntryInv, Released
<1>13. FilesListed'
  BY <1>1, <1>2, <1>11 DEF FilesListed, Handles
<1>14. ServerInv'
  <2>1. \A r \in db : box'[2][r.uid[2]] = box[2][r.uid[2]]
    BY <1>2, <1>7, <1>8, <1>11 DEF RowsOf
  <2> QED
    BY <1>1, <1>2, <1>11, <2>1 DEF ServerInv
<1>15. OrderInv' /\ WorkInv'
  BY <1>1, <1>11, TheStores DEF OrderInv, WorkInv, RowsOf
<1>16. InHandInv'
  <2>1. ASSUME NEW t \in Stores, NEW v \in Listed(t)
        PROVE  Under(t, v)' = Under(t, v) /\ \A h \in Under(t, v) : box'[t][h] = box[t][h]
    <3>1. v \in UID /\ (t # 2 \/ v # u)
      BY <1>6 DEF Listed
    <3>2. Under(t, v)' = Under(t, v)
      BY <1>2, <1>9, <3>1, AppearsUnder
    <3>3. \A h \in UID : box[t][h] # Absent => box'[t][h] = box[t][h]
      BY <1>2, <1>9, AppearsUnder
    <3> QED
      BY <3>2, <3>3 DEF Under, Handles
  <2>2. \A t \in Stores : \A v : HeldAt(t, v) =>
           /\ v \in Listed(t)'
           /\ RowsOf(t, v)' = {}
           /\ \A h \in Under(t, v)' : box'[t][h].msg = cur.msg
           /\ Under(t, v)' = {} => Released(cur.msg)
    BY <1>1, <1>11, <2>1 DEF HeldAt, RowsOf
  <2>3. /\ src \in Stores /\ dst \in Stores /\ dst' = dst
    BY <1>1, TheStores DEF dst
  <2>4. ASSUME pc \in Adding PROVE HeldAt(src, cur.src)'
    <3>1. PICK t \in Stores : t = src /\ t = src'
      BY <1>1, <2>3
    <3>2. PICK v \in UID : v = cur.src
      BY TheStores
    <3>3. HeldAt(t, v)
      BY <2>4, <3>1, <3>2 DEF InHandInv
    <3> QED
      BY <1>1, <2>2, <3>1, <3>2, <3>3 DEF HeldAt, Released, Under, Handles, RowsOf, Listed
  <2>5. ASSUME pc \in {"update", "commit"} PROVE HeldAt(dst, cur.dst)'
    <3>1. PICK o \in Stores : o = dst /\ o = dst'
      BY <2>3
    <3>2. PICK v \in UID : v = cur.dst
      BY TheStores
    <3>3. HeldAt(o, v)
      BY <2>5, <3>1, <3>2 DEF InHandInv
    <3> QED
      BY <1>1, <2>2, <3>1, <3>2, <3>3 DEF HeldAt, Released, Under, Handles, RowsOf, Listed
  <2>6. \A v : v \in Listed(src)' <=> v \in Listed(src)
    BY <1>1 DEF Listed
  <2> QED
    BY <1>1, <2>4, <2>5, <2>6 DEF InHandInv, Released, Listed
<1>17. Kept
  BY <1>2, <1>9, AppearsUnder DEF Kept
<1> QED
  BY <1>10, <1>12, <1>13, <1>14, <1>15, <1>16, <1>17

LEMMA MirrorUser ==
    ASSUME IsMirror, MInv, User
    PROVE  MInv' /\ Kept
<1> USE DEF MInv
<1>1. TypeOK' /\ FolderTypeOK
  BY MirrorTypes, UserTypes DEF TypeInv, TypeOK
<1>2. CASE \E s \in Stores : \E m \in Msg : Deliver(s, m)
  BY <1>1, <1>2, MirrorDeliver
<1>3. CASE \E s \in Stores : \E h \in Handles(s) : Remove(s, h)
  <2> PICK s \in Stores : \E h \in Handles(s) : Remove(s, h)
    BY <1>3
  <2> PICK h \in Handles(s) : Remove(s, h)
    OBVIOUS
  <2>1. /\ h \in UID /\ box[s][h] # Absent
        /\ box' = [box EXCEPT ![s][h] = Absent]
        /\ gone' = gone \cup {box[s][h].msg}
        /\ UNCHANGED <<list, uidnext, db, config, pc, iter, src, todo, cur>>
    BY DEF Handles, Remove, UserDelete, UserStep, syncVars
  <2>2. Fades
    BY <1>1, <2>1 DEF FolderTypeOK, Fades, ReleasedNow
  <2> QED
    BY <1>1, <2>1, <2>2, MirrorFades, FadesKept
<1>4. CASE \E s \in Stores : \E h \in Handles(s), f \in UserFlag : Toggle(s, h, f)
  <2> PICK s \in Stores : \E h \in Handles(s), f \in UserFlag : Toggle(s, h, f)
    BY <1>4
  <2> PICK h \in Handles(s), f \in UserFlag : Toggle(s, h, f)
    OBVIOUS
  <2>1. /\ h \in UID /\ box[s][h] # Absent /\ box[s][h] \in Copy
        /\ gone' = IF f = "T" THEN gone \cup {box[s][h].msg} ELSE gone
        /\ UNCHANGED <<list, uidnext, db, config, pc, iter, src, todo, cur>>
    <3>1. h \in UID /\ box[s][h] # Absent
      BY DEF Handles
    <3>2. box[s][h] \in Copy
      BY <1>1, <3>1 DEF FolderTypeOK
    <3> QED
      BY <3>1, <3>2 DEF Toggle, UserFlags, UserStep, syncVars
  <2>2. PICK fl \in SUBSET Letter :
           /\ box' = [box EXCEPT ![s][h].flags = fl]
           /\ fl \subseteq box[s][h].flags \cup {f}
    <3>1. box[s][h].flags \in SUBSET Letter
      BY <2>1 DEF Copy
    <3>2. /\ box[s][h].flags \ {f} \in SUBSET Letter
          /\ box[s][h].flags \cup {f} \in SUBSET Letter
      BY <3>1 DEF Letter
    <3> QED
      BY <3>2 DEF Toggle, UserFlags
  <2> DEFINE c == [box[s][h] EXCEPT !.flags = fl]
  <2>3. /\ c \in Copy /\ c.msg = box[s][h].msg /\ c.uid = box[s][h].uid
        /\ c.flags = fl
    BY <2>1 DEF Copy
  <2>4. box' = [box EXCEPT ![s][h] = c]
    BY <1>1, <2>1, <2>2 DEF FolderTypeOK
  <2> HIDE DEF c
  <2>5. BoxSameBut(s, h) /\ box'[s][h] = c
    BY <1>1, <2>1, <2>3, <2>4, PutCopy
  <2>6. "T" \in fl => ReleasedNow(box[s][h].msg)
    <3>1. "T" \in box[s][h].flags => Released(box[s][h].msg)
      BY <2>1 DEF CopyInv, Handles
    <3> QED
      BY <2>1, <2>2, <3>1 DEF Released, ReleasedNow
  <2>7. Fades
    <3>1. \A t \in Stores, g \in UID : t # s \/ g # h => box'[t][g] = box[t][g]
      BY <2>5 DEF BoxSameBut
    <3>2. gone \subseteq gone'
      BY <2>1
    <3>3. c # Absent
      BY <2>3
    <3> QED
      BY <2>1, <2>3, <2>5, <2>6, <3>1, <3>2, <3>3 DEF Fades
  <2> QED
    BY <1>1, <2>1, <2>7, MirrorFades, FadesKept
<1> QED
  BY <1>2, <1>3, <1>4 DEF User

LEMMA MirrorNext ==
    ASSUME IsMirror, MInv, [Next]_vars
    PROVE  MInv' /\ Kept
<1>1. CASE UNCHANGED vars
  <2>1. TypeOK'
    BY <1>1, MirrorTypes, NextTypes DEF TypeInv
  <2>2. UNCHANGED <<box, list, uidnext, db, config, pc, iter, src, todo, cur, gone>>
    BY <1>1 DEF vars
  <2>3. Fades
    BY <2>2, NothingFades
  <2> QED
    BY <2>1, <2>2, <2>3, MirrorFades, FadesKept
<1>2. CASE StartSync \/ OpenFails \/ Fail \/ CloseFails \/ Crash
  <2>1. UNCHANGED box
    BY <1>2 DEF StartSync, OpenFails, Fail, CloseFails, Crash, folderVars
  <2> QED
    BY <1>2, <2>1, MirrorIdle DEF Kept
<1>3. CASE ListFolder1 \/ ListFolder2
  <2>1. UNCHANGED box
    BY <1>3, MirrorTypes, ListFolderTypes
  <2> QED
    BY <1>3, <2>1, MirrorListFolder DEF Kept
<1>4. CASE Diff \/ ReadMessage \/ CommitNew \/ CommitDelete \/ CommitChange \/ NextDirection
  <2>1. UNCHANGED box
    BY <1>4 DEF Diff, ReadMessage, ReadNew, CommitNew, CommitDelete, CommitChange,
                Committed, NextDirection, folderVars
  <2> QED
    BY <1>4, <2>1, MirrorDiff, MirrorRead, MirrorCommitNew, MirrorCommitDelete,
       MirrorCommitChange, MirrorNextDirection DEF Kept
<1>5. CASE AddNew \/ UpdateSource \/ DeleteMessages \/ ChangeMessages \/ Close2 \/ Close1
  BY <1>5, MirrorAddNew, MirrorUpdateSource, MirrorDeleteRow, MirrorChangeRow,
     MirrorClose
<1>6. CASE User
  BY <1>6, MirrorUser
<1> QED
  BY <1>1, <1>2, <1>3, <1>4, <1>5, <1>6 DEF Next, SyncStep
-----------------------------------------------------------------------------
(* The invariant holds in every state of every behaviour of a mirror: no   *)
(* two files of the Maildir get one uid, and before a uid is given again   *)
(* the row that had it is gone.                                            *)
THEOREM MirrorInvariance ==
    ASSUME IsMirror PROVE Spec => []MInv
<1>1. Init => MInv
  BY MirrorInit
<1>2. MInv /\ [Next]_vars => MInv'
  BY MirrorNext
<1> QED
  BY <1>1, <1>2, PTL DEF Spec

(* No row of a mirror pairs two different messages, though a file's uid is *)
(* the lowest one free and is given again: SyncFolder deletes the rows of  *)
(* the files that are gone before it adds the server's messages.           *)
THEOREM MirrorPairsEqualMessages ==
    ASSUME IsMirror PROVE Spec => []PairingSound
<1>1. MInv => PairingSound
  <2> SUFFICES ASSUME MInv, NEW r \in db, NEW h1 \in Under(1, r.uid[1]),
                      NEW h2 \in Under(2, r.uid[2])
               PROVE  box[1][h1].msg = box[2][h2].msg
    BY DEF PairingSound
  <2>1. Matched(r, 1, h1)
    BY DEF MInv, MatchInv, Stores
  <2> QED
    BY <2>1 DEF Matched, Other
<1> QED
  BY <1>1, MirrorInvariance, PTL

(* GetDststoreUID and Delete find at most one row for a uid of a mirror,   *)
(* the uids that the Maildir gives again included.                         *)
THEOREM MirrorHasOneRowPerUid ==
    ASSUME IsMirror PROVE Spec => []RowsOneToOne
<1>1. MInv => RowsOneToOne
  BY DEF MInv, KeyInv
<1> QED
  BY <1>1, MirrorInvariance, PTL

(* Neither the Maildir nor the server loses its last copy of a message     *)
(* unless a mail client deleted it or flagged it Deleted somewhere.        *)
THEOREM MirrorLosesNoMessage ==
    ASSUME IsMirror PROVE Spec => LastCopyKept
<1> DEFINE Lost(s, m) == CopiesOf(s, m) # {} /\ CopiesOf(s, m)' = {} => m \in gone'
           A == \A s \in Stores, m \in Msg : Lost(s, m)
<1>1. MInv /\ [Next]_vars => [A]_vars
  <2> SUFFICES ASSUME MInv, [Next]_vars, NEW s \in Stores, NEW m \in Msg,
                      CopiesOf(s, m) # {}, CopiesOf(s, m)' = {}
               PROVE  m \in gone'
    OBVIOUS
  <2>1. PICK h \in UID : box[s][h] # Absent /\ box[s][h].msg = m
    BY DEF CopiesOf, Handles
  <2>2. Kept
    BY MirrorNext
  <2>3. ~(box'[s][h] # Absent /\ box'[s][h].msg = m)
    BY DEF CopiesOf, Handles
  <2> QED
    BY <2>1, <2>2, <2>3 DEF Kept
<1> HIDE DEF A
<1>2. Spec => [][A]_vars
  BY <1>1, MirrorInvariance, PTL DEF Spec
<1> QED
  BY <1>2 DEF A, LastCopyKept
=============================================================================
