----------------------------- MODULE CopyProofs -----------------------------
(***************************************************************************)
(* How many copies of one message two IMAP servers may end up with.        *)
(***************************************************************************)
EXTENDS SyncFolderProofs, FiniteSetTheorems

IsCopy(s, u, m) == box[s][u] # Absent /\ box[s][u].msg = m

(* The copy AddNew made, while the row that will join it to the message in *)
(* hand is not committed.                                                  *)
Appended(s, u) == pc \in {"update", "commit"} /\ s = dst /\ u = cur.dst

(* What a pass takes for different messages: the uids of a row, or the uid *)
(* of a copy no row speaks of, with 0, which is nobody's uid.              *)
Strands(m) ==
    {k \in [Stores -> UID] :
        \/ \E r \in db, s \in Stores : k = r.uid /\ IsCopy(s, r.uid[s], m)
        \/ \E s \in Stores, u \in UID :
              /\ k = Pair(s, u, 0)
              /\ IsCopy(s, u, m)
              /\ RowsOf(s, u) = {}
              /\ ~Appended(s, u)
        \/ pc \in Adding /\ cur.msg = m /\ k = Pair(src, cur.src, 0)}

(* A row is deleted when the copy on the source is gone for good.          *)
RowGoesInv ==
    pc = "commitDel" => /\ cur.src < uidnext[src]
                        /\ box[src][cur.src] = Absent

StrandInv ==
    /\ \A m \in Msg : Cardinality(Strands(m)) <= 1 + faults
    /\ \A m \in Msg \ born : Strands(m) = {}
-----------------------------------------------------------------------------
USE KindAssumption, ExpungeAssumption, BlankAssumption, AbsentAssumption,
    MaxUIDAssumption, ConfigsAssumption, BoundsAssumption

(* Facts on finite sets.                                                   *)
LEMMA AddOne ==
    ASSUME NEW A, NEW B, NEW x, IsFiniteSet(A), B \subseteq A \cup {x}
    PROVE  IsFiniteSet(B) /\ Cardinality(B) <= Cardinality(A) + 1
<1>a. /\ IsFiniteSet(A \cup {x})
      /\ Cardinality(A \cup {x}) = IF x \in A THEN Cardinality(A) ELSE Cardinality(A) + 1
  BY FS_AddElement, Zenon
<1>b. Cardinality(A) \in Nat
  BY FS_CardinalityType
<1>1. /\ IsFiniteSet(A \cup {x})
      /\ Cardinality(A \cup {x}) <= Cardinality(A) + 1
  BY <1>a, <1>b
<1>2. IsFiniteSet(B) /\ Cardinality(B) <= Cardinality(A \cup {x})
  BY <1>1, FS_Subset
<1> QED
  BY <1>1, <1>2, FS_CardinalityType

LEMMA ReplaceOne ==
    ASSUME NEW A, NEW B, NEW k \in A, NEW x, IsFiniteSet(A),
           B \subseteq (A \ {k}) \cup {x}
    PROVE  Cardinality(B) <= Cardinality(A)
<1> DEFINE C == A \ {k}
<1>1. IsFiniteSet(C) /\ Cardinality(C) = Cardinality(A) - 1
  BY FS_RemoveElement
<1>2. B \subseteq C \cup {x}
  OBVIOUS
<1> HIDE DEF C
<1>3. IsFiniteSet(B) /\ Cardinality(B) <= Cardinality(C) + 1
  BY <1>1, <1>2, AddOne
<1> QED
  BY <1>1, <1>3, FS_CardinalityType

LEMMA FinitelyManyPairs == IsFiniteSet([Stores -> UID])
<1> DEFINE g == [k \in [Stores -> UID] |-> <<k[1], k[2]>>]
<1>1. IsFiniteSet(UID \X UID)
  <2>1. 0 \in Int /\ MaxUID \in Int
    OBVIOUS
  <2>2. IsFiniteSet(UID)
    BY <2>1, FS_Interval, Zenon DEF UID
  <2> QED
    BY <2>2, FS_Product, Zenon
<1>2. g \in [[Stores -> UID] -> UID \X UID]
  BY DEF Stores
<1>3. ASSUME NEW k \in [Stores -> UID], NEW l \in [Stores -> UID], g[k] = g[l]
      PROVE  k = l
  <2>1. k[1] = l[1] /\ k[2] = l[2]
    BY <1>3
  <2> QED
    BY <2>1 DEF Stores
<1> HIDE DEF g
<1>4. IsInjective(g)
  BY <1>2, <1>3 DEF IsInjective
<1>5. g \in Injection([Stores -> UID], UID \X UID)
  BY <1>2, <1>4 DEF Injection
<1> QED
  BY <1>1, <1>5, FS_Injection

LEMMA FiniteStrands == \A m : IsFiniteSet(Strands(m))
BY FinitelyManyPairs, FS_Subset DEF Strands
-----------------------------------------------------------------------------
(* What a step may do to the strands of a message.                         *)
Replaced(m) ==
    \E k \in Strands(m) : \E x :
        Strands(m)' \subseteq (Strands(m) \ {k}) \cup {x}
TornByFault(m) ==
    /\ faults' = faults + 1
    /\ Strands(m) # {}
    /\ \E x : Strands(m)' \subseteq Strands(m) \cup {x}
Delivered(m) ==
    /\ m \in born' \ born
    /\ \E x : Strands(m)' \subseteq {x}

StrandStep(m) ==
    \/ Strands(m)' \subseteq Strands(m)
    \/ Replaced(m)
    \/ TornByFault(m)
    \/ Delivered(m)

LEMMA StrandsKept ==
    ASSUME StrandInv, faults \in Nat, faults' \in {faults, faults + 1},
           born \subseteq born',
           \A m \in Msg : StrandStep(m)
    PROVE  StrandInv'
<1> SUFFICES ASSUME NEW m \in Msg
             PROVE  /\ Cardinality(Strands(m)') <= 1 + faults'
                    /\ m \notin born' => Strands(m)' = {}
  BY DEF StrandInv
<1>1. /\ IsFiniteSet(Strands(m)) /\ Cardinality(Strands(m)) \in Nat
      /\ Cardinality(Strands(m)) <= 1 + faults
      /\ m \notin born => Strands(m) = {}
  BY FiniteStrands, FS_CardinalityType DEF StrandInv
<1>2. CASE Strands(m)' \subseteq Strands(m)
  <2>1. IsFiniteSet(Strands(m)') /\ Cardinality(Strands(m)') <= Cardinality(Strands(m))
    BY <1>1, <1>2, FS_Subset
  <2>2. Cardinality(Strands(m)') \in Nat
    BY <2>1, FS_CardinalityType
  <2> QED
    BY <1>1, <1>2, <2>1, <2>2
<1>3. CASE Replaced(m)
  <2>1. PICK k \in Strands(m) :
           \E x : Strands(m)' \subseteq (Strands(m) \ {k}) \cup {x}
    BY <1>3 DEF Replaced
  <2> PICK x : Strands(m)' \subseteq (Strands(m) \ {k}) \cup {x}
    BY <2>1
  <2>2. Cardinality(Strands(m)') <= Cardinality(Strands(m))
    BY <1>1, <2>1, ReplaceOne
  <2>3. Cardinality(Strands(m)') \in Nat
    BY <1>1, <2>1, AddOne, FS_CardinalityType, FS_RemoveElement
  <2> QED
    BY <1>1, <2>1, <2>2, <2>3
<1>4. CASE TornByFault(m)
  <2>1. PICK x : Strands(m)' \subseteq Strands(m) \cup {x}
    BY <1>4 DEF TornByFault
  <2>2. /\ Cardinality(Strands(m)') <= Cardinality(Strands(m)) + 1
        /\ Cardinality(Strands(m)') \in Nat
    BY <1>1, <2>1, AddOne, FS_CardinalityType
  <2> QED
    BY <1>1, <1>4, <2>2 DEF TornByFault
<1>5. CASE Delivered(m)
  <2>1. PICK x : Strands(m)' \subseteq {x}
    BY <1>5 DEF Delivered
  <2> DEFINE S == Strands(m)'
             X == {x}
  <2>a. IsFiniteSet(X) /\ Cardinality(X) = 1 /\ S \in SUBSET X
    BY <2>1, FS_Singleton
  <2> HIDE DEF S, X
  <2>b. Cardinality(S) <= 1 /\ Cardinality(S) \in Nat
    BY <2>a, FS_Subset, FS_CardinalityType
  <2>2. Cardinality(Strands(m)') <= 1 /\ Cardinality(Strands(m)') \in Nat
    BY <2>b DEF S
  <2> QED
    BY <1>5, <2>2 DEF Delivered
<1> QED
  BY <1>2, <1>3, <1>4, <1>5 DEF StrandStep

(* A step that changes no pair of uids, and after which a copy it made is  *)
(* still the one in hand, adds no strand.                                  *)
LEMMA FewerStrands ==
    ASSUME TypeOK, NEW m \in Msg,
           \A r \in db' : \E q \in db : q.uid = r.uid,
           \A r \in db : \E q \in db' : q.uid = r.uid,
           \A s \in Stores, u \in UID :
              IsCopy(s, u, m)' /\ ~IsCopy(s, u, m)
                 => Appended(s, u)' /\ RowsOf(s, u) = {},
           \A s \in Stores, u \in UID :
              IsCopy(s, u, m)' /\ Appended(s, u) => Appended(s, u)',
           pc' \in Adding /\ cur'.msg = m => Pair(src', cur'.src, 0) \in Strands(m)
    PROVE  Strands(m)' \subseteq Strands(m)
<1> SUFFICES ASSUME NEW k \in Strands(m)'
             PROVE  k \in Strands(m)
  OBVIOUS
<1>0. k \in [Stores -> UID]
  BY DEF Strands
<1>1. CASE \E r \in db', s \in Stores : k = r.uid /\ IsCopy(s, r.uid[s], m)'
  <2>1. PICK r \in db, s \in Stores : k = r.uid /\ IsCopy(s, r.uid[s], m)'
    BY <1>1
  <2>2. r.uid[s] \in UID /\ RowsOf(s, r.uid[s]) # {}
    BY DEF TypeOK, Row, RowsOf
  <2>3. IsCopy(s, r.uid[s], m)
    BY <2>1, <2>2
  <2> QED
    BY <1>0, <2>1, <2>3 DEF Strands
<1>2. CASE \E s \in Stores, u \in UID :
              /\ k = Pair(s, u, 0)
              /\ IsCopy(s, u, m)'
              /\ RowsOf(s, u)' = {}
              /\ ~Appended(s, u)'
  <2>1. PICK s \in Stores, u \in UID :
              /\ k = Pair(s, u, 0)
              /\ IsCopy(s, u, m)'
              /\ RowsOf(s, u)' = {}
              /\ ~Appended(s, u)'
    BY <1>2
  <2>2. RowsOf(s, u) = {}
    BY <2>1 DEF RowsOf
  <2>3. IsCopy(s, u, m) /\ ~Appended(s, u)
    BY <2>1
  <2> QED
    BY <1>0, <2>1, <2>2, <2>3 DEF Strands
<1>3. CASE pc' \in Adding /\ cur'.msg = m /\ k = Pair(src', cur'.src, 0)
  BY <1>3
<1> QED
  BY <1>1, <1>2, <1>3 DEF Strands
-----------------------------------------------------------------------------
(* What the steps of a pass do to the copies.                              *)
LEMMA TwoStores ==
    ASSUME IInv
    PROVE  /\ src \in Stores /\ dst \in Stores /\ src # dst /\ Stores = {src, dst}
           /\ Other(src) = dst /\ Other(dst) = src
           /\ \A r \in db, s \in Stores : r.uid[s] \in UID /\ r.uid[s] > 0
           /\ \A r \in db : r.uid \in [Stores -> UID]
           /\ cur.src \in UID /\ cur.dst \in UID
BY OtherStore DEF IInv, TypeOK, RowInv, Row, dst, Stores, Other, UID

SameCopies ==
    \A s \in Stores, u \in UID :
        /\ box'[s][u] = Absent <=> box[s][u] = Absent
        /\ box[s][u] # Absent => box'[s][u].msg = box[s][u].msg

LEMMA StoreCopies ==
    ASSUME FolderTypeOK, NEW s \in Stores, NEW u \in UID, NEW fl,
           ServerStore(s, u, fl)
    PROVE  SameCopies
<1>1. CASE box[s][u] = Absent
  BY <1>1 DEF ServerStore, SameCopies
<1>2. CASE box[s][u] # Absent
  <2> DEFINE g == fl \cap Mapped
             c == [box[s][u] EXCEPT !.flags = g]
  <2>1. box[s][u] \in Copy
    BY <1>2 DEF FolderTypeOK
  <2>2. g \in SUBSET Letter
    BY DEF Letter
  <2>3. box' = [box EXCEPT ![s][u] = c]
    BY <1>2 DEF ServerStore, FolderTypeOK
  <2> HIDE DEF g
  <2>4. c \in Copy /\ c.msg = box[s][u].msg
    BY <2>1, <2>2 DEF Copy
  <2>5. c # Absent
    BY <2>4
  <2> HIDE DEF c
  <2> QED
    BY <1>2, <2>3, <2>4, <2>5 DEF FolderTypeOK, SameCopies
<1> QED
  BY <1>1, <1>2

LEMMA StoringCopies ==
    ASSUME AllImap, IInv, DeleteMessages \/ ChangeMessages
    PROVE  SameCopies
<1>1. CASE UNCHANGED box
  BY <1>1 DEF SameCopies
<1>2. FolderTypeOK
  BY DEF IInv, TypeOK
<1>3. CASE DeleteMessages
  <2>1. UNCHANGED box \/ \E v \in UID : \E fl : ServerStore(dst, v, fl)
    BY <1>3, Dispatch, TwoStores
       DEF DeleteMessages, DeleteRow, DeleteDst, DeleteMessage, SetFlags,
           ImapDeleteMessage, ImapSetFlags, folderVars
  <2> QED
    BY <1>1, <1>2, <2>1, StoreCopies, TwoStores
<1>4. CASE ChangeMessages
  <2>1. UNCHANGED box \/ \E v \in UID : \E fl : ServerStore(dst, v, fl)
    BY <1>4, Dispatch, TwoStores
       DEF ChangeMessages, ChangeRow, SetFlags, ImapSetFlags, folderVars
  <2> QED
    BY <1>1, <1>2, <2>1, StoreCopies, TwoStores
<1> QED
  BY <1>3, <1>4

(* Closing, and a mail client's deletion or flag, make no copy.            *)
LEMMA OtherCopies ==
    ASSUME AllImap, IInv,
           \/ Close2 \/ Close1
           \/ \E s \in Stores : \E h \in Handles(s) : Remove(s, h)
           \/ \E s \in Stores : \E h \in Handles(s), f \in UserFlag : Toggle(s, h, f)
    PROVE  \A s \in Stores, u \in UID : \A m : IsCopy(s, u, m)' => IsCopy(s, u, m)
<1> USE DEF IInv, TypeOK
<1>1. CASE Close2 \/ Close1
  <2>1. PICK s \in Stores, expunge \in BOOLEAN : ImapClose(s, expunge)
    BY <1>1, Dispatch DEF Close2, Close1, CloseFolder, Stores
  <2> QED
    BY <2>1, CloseEffect DEF IsCopy
<1>2. CASE \E s \in Stores : \E h \in Handles(s) : Remove(s, h)
  BY <1>2 DEF Remove, UserDelete, Handles, FolderTypeOK, IsCopy
<1>3. CASE \E s \in Stores : \E h \in Handles(s), f \in UserFlag : Toggle(s, h, f)
  <2>a. PICK s \in Stores, h \in UID :
           box[s][h] # Absent /\ \E f \in UserFlag : Toggle(s, h, f)
    BY <1>3 DEF Handles
  <2>b. \/ \E f \in UserFlag : box' = [box EXCEPT ![s][h].flags = box[s][h].flags \ {f}]
        \/ \E f \in UserFlag : box' = [box EXCEPT ![s][h].flags = box[s][h].flags \cup {f}]
    BY <2>a DEF Toggle, UserFlags
  <2>1. PICK fl : box' = [box EXCEPT ![s][h].flags = fl]
    BY <2>b
  <2> DEFINE c == [box[s][h] EXCEPT !.flags = fl]
  <2>2. c.msg = box[s][h].msg
    BY <2>a DEF FolderTypeOK, Copy
  <2>3. box' = [box EXCEPT ![s][h] = c]
    BY <2>a, <2>1 DEF FolderTypeOK
  <2> HIDE DEF c
  <2> QED
    BY <2>a, <2>2, <2>3 DEF FolderTypeOK, IsCopy
<1> QED
  BY <1>1, <1>2, <1>3
-----------------------------------------------------------------------------
(* The steps that neither have a copy in hand nor take one.                *)
LEMMA PlainStrands ==
    ASSUME IInv, NEW m \in Msg,
           \A s \in Stores, u \in UID : IsCopy(s, u, m)' => IsCopy(s, u, m),
           \A r \in db' : \E q \in db : q.uid = r.uid,
           \A r \in db : \E q \in db' : q.uid = r.uid,
           pc \notin {"update", "commit"}, pc' \notin Adding
    PROVE  StrandStep(m)
BY FewerStrands DEF IInv, Appended, StrandStep

LEMMA PlainSteps ==
    ASSUME AllImap, IInv, NEW m \in Msg,
           \/ StartSync \/ ListFolder1 \/ ListFolder2 \/ Diff \/ NextDirection
           \/ DeleteMessages \/ ChangeMessages \/ CommitChange
           \/ Close2 \/ Close1 \/ CloseFails \/ OpenFails
    PROVE  StrandStep(m)
<1>1. CASE \/ StartSync \/ ListFolder1 \/ ListFolder2 \/ Diff \/ NextDirection
           \/ CloseFails \/ OpenFails
  <2>1. /\ UNCHANGED <<box, db>>
        /\ pc \notin {"update", "commit"} /\ pc' \notin Adding
    BY <1>1, Dispatch
       DEF StartSync, ListFolder1, ListFolder2, ListFolder, UpdateMessageList,
           ImapUpdateMessageList, Diff, NextDirection, CloseFails, OpenFails, EndPass,
           ClosePCs, Adding, folderVars, Stores
  <2> QED
    BY <2>1, PlainStrands DEF IsCopy
<1>2. CASE DeleteMessages \/ ChangeMessages
  <2>1. UNCHANGED db /\ pc = "work" /\ pc' \notin Adding
    BY <1>2 DEF DeleteMessages, DeleteRow, ChangeMessages, ChangeRow, Abort, Adding
  <2>2. \A s \in Stores, u \in UID : IsCopy(s, u, m)' => IsCopy(s, u, m)
    BY <1>2, StoringCopies DEF SameCopies, IsCopy
  <2> QED
    BY <2>1, <2>2, PlainStrands
<1>3. CASE CommitChange
  <2> DEFINE n == [uid |-> Pair(src, cur.src, cur.dst), flags |-> cur.flags]
  <2>1. /\ UNCHANGED box /\ pc = "commitChg" /\ pc' = "work"
        /\ db' = {r \in db : r.uid # n.uid} \cup {n}
    BY <1>3, CommittedFacts DEF CommitChange, RowUpdated, IInv
  <2>2. \E q \in db : q.uid = n.uid
    BY <2>1 DEF IInv, CurInv
  <2> HIDE DEF n
  <2>3. /\ \A r \in db' : \E q \in db : q.uid = r.uid
        /\ \A r \in db : \E q \in db' : q.uid = r.uid
    BY <2>1, <2>2
  <2> QED
    BY <2>1, <2>3, PlainStrands DEF IsCopy, Adding
<1>4. CASE Close2 \/ Close1
  <2>1. UNCHANGED db /\ pc \in ClosePCs /\ pc' \notin Adding
    BY <1>4 DEF Close2, Close1, EndPass, ClosePCs, Adding
  <2>2. \A s \in Stores, u \in UID : IsCopy(s, u, m)' => IsCopy(s, u, m)
    BY <1>4, OtherCopies
  <2> QED
    BY <2>1, <2>2, PlainStrands DEF ClosePCs
<1> QED
  BY <1>1, <1>2, <1>3, <1>4

LEMMA HandStrand ==
    ASSUME IInv, NEW m \in Msg, pc \in Adding, cur.msg = m
    PROVE  Pair(src, cur.src, 0) \in Strands(m)
<1>1. 0 \in UID
  BY DEF UID
<1>2. Pair(src, cur.src, 0) \in [Stores -> UID]
  BY <1>1, TwoStores, PairFacts
<1> QED
  BY <1>2 DEF Strands

(* Mail clients, beside a pass that may have a message in hand.            *)
LEMMA ClientSteps ==
    ASSUME AllImap, IInv, NEW m \in Msg,
           \/ \E s \in Stores : \E h \in Handles(s) : Remove(s, h)
           \/ \E s \in Stores : \E h \in Handles(s), f \in UserFlag : Toggle(s, h, f)
           \/ UNCHANGED vars
    PROVE  StrandStep(m)
<1>1. UNCHANGED <<db, pc, src, cur>>
  BY DEF Remove, Toggle, UserStep, syncVars, vars
<1>2. \A s \in Stores, u \in UID : IsCopy(s, u, m)' => IsCopy(s, u, m)
  <2>1. CASE UNCHANGED vars
    BY <2>1 DEF vars, IsCopy
  <2> QED
    BY <2>1, OtherCopies
<1>3. \A s, u : Appended(s, u)' <=> Appended(s, u)
  BY <1>1 DEF Appended, dst
<1>4. pc' \in Adding /\ cur'.msg = m => Pair(src', cur'.src, 0) \in Strands(m)
  BY <1>1, HandStrand
<1> QED
  BY <1>1, <1>2, <1>3, <1>4, FewerStrands DEF IInv, StrandStep

(* A message is delivered once, so its first copy is the only strand.      *)
LEMMA DeliverStrands ==
    ASSUME AllImap, IInv, StrandInv, NEW m \in Msg,
           NEW s \in Stores, NEW d \in Msg, Deliver(s, d)
    PROVE  StrandStep(m)
<1> USE DEF IInv, TypeOK
<1>1. PICK v \in UID : ServerAppend(s, d, {}, v)
  BY Dispatch DEF Deliver, ImapDeliver
<1>2. /\ UNCHANGED <<db, pc, src, cur>> /\ d \notin born /\ born' = born \cup {d}
  BY DEF Deliver, UserStep, syncVars
<1>3. BoxSameBut(s, v) /\ box'[s][v].msg = d
  <2> DEFINE c == [msg |-> d, uid |-> v, flags |-> {}]
  <2>1. box' = [box EXCEPT ![s][v] = c] /\ c.msg = d
    BY <1>1 DEF ServerAppend
  <2> HIDE DEF c
  <2> QED
    BY <2>1 DEF FolderTypeOK, BoxSameBut
<1>4. \A t \in Stores, u \in UID : t # s \/ u # v => (IsCopy(t, u, m)' <=> IsCopy(t, u, m))
  BY <1>3 DEF BoxSameBut, IsCopy
<1>5. \A t, u : Appended(t, u)' <=> Appended(t, u)
  BY <1>2 DEF Appended, dst
<1>6. pc' \in Adding /\ cur'.msg = m => Pair(src', cur'.src, 0) \in Strands(m)
  BY <1>2, HandStrand
<1>7. CASE m # d
  <2>1. \A t \in Stores, u \in UID : IsCopy(t, u, m)' => IsCopy(t, u, m)
    BY <1>3, <1>4, <1>7 DEF IsCopy
  <2> QED
    BY <1>2, <1>5, <1>6, <2>1, FewerStrands DEF StrandStep
<1>8. CASE m = d
  <2>1. Strands(m) = {}
    BY <1>2, <1>8 DEF StrandInv
  <2>2. \A r \in db : r.uid[s] # v
    <3>1. v = uidnext[s] /\ uidnext[s] \in Nat
      BY <1>1 DEF ServerAppend, FolderTypeOK
    <3> QED
      BY <3>1, TwoStores DEF RowInv, UID
  <2>3. Strands(m)' \subseteq {Pair(s, v, 0)}
    <3> SUFFICES ASSUME NEW k \in Strands(m)', k # Pair(s, v, 0) PROVE FALSE
      OBVIOUS
    <3>1. CASE \E r \in db, t \in Stores : k = r.uid /\ IsCopy(t, r.uid[t], m)'
      BY <1>4, <2>1, <2>2, <3>1, TwoStores DEF Strands
    <3>2. CASE \E t \in Stores, u \in UID :
                  /\ k = Pair(t, u, 0)
                  /\ IsCopy(t, u, m)'
                  /\ RowsOf(t, u) = {}
                  /\ ~Appended(t, u)
      <4>1. PICK t \in Stores, u \in UID :
                  /\ k = Pair(t, u, 0)
                  /\ IsCopy(t, u, m)
                  /\ RowsOf(t, u) = {}
                  /\ ~Appended(t, u)
        BY <1>4, <3>2
      <4>2. k \in [Stores -> UID]
        BY <4>1, PairFacts DEF UID
      <4> QED
        BY <2>1, <4>1, <4>2 DEF Strands
    <3>3. CASE pc' \in Adding /\ cur'.msg = m
      BY <1>6, <2>1, <3>3
    <3> QED
      BY <1>2, <1>5, <3>1, <3>2, <3>3 DEF Strands, RowsOf
  <2> QED
    BY <1>2, <1>8, <2>3 DEF StrandStep, Delivered
<1> QED
  BY <1>7, <1>8
-----------------------------------------------------------------------------
(* A new message is one strand from its reading until its row is committed.*)
LEMMA ReadStrands ==
    ASSUME AllImap, IInv, NEW m \in Msg, ReadMessage
    PROVE  StrandStep(m)
<1> PICK u \in UID : ReadNew(u)
  BY DEF ReadMessage
<1>1. /\ pc = "work" /\ pc' = "add" /\ u \in todo.new
      /\ cur' = [src |-> u, dst |-> 0, msg |-> ImapBody(src, u),
                 flags |-> list[src][u].flags]
      /\ UNCHANGED <<box, db, src>>
  BY Dispatch, TwoStores DEF ReadNew, Body, folderVars
<1>2. cur'.src = u /\ cur'.msg = ImapBody(src, u)
  BY <1>1
<1>3. RowsOf(src, u) = {}
  BY <1>1 DEF IInv, TodoInv, Syncing
<1>4. ASSUME cur'.msg = m PROVE Pair(src, u, 0) \in Strands(m)
  <2>1. IsCopy(src, u, m)
    BY <1>2, <1>4 DEF ImapBody, IsCopy
  <2>2. 0 \in UID
    BY DEF UID
  <2>3. Pair(src, u, 0) \in [Stores -> UID]
    BY <2>2, TwoStores, PairFacts
  <2>4. ~Appended(src, u)
    BY <1>1 DEF Appended
  <2> QED
    BY <1>3, <2>1, <2>3, <2>4, TwoStores DEF Strands
<1>5. \A s \in Stores, h \in UID : IsCopy(s, h, m)' => IsCopy(s, h, m)
  BY <1>1 DEF IsCopy
<1>6. \A s, h : ~Appended(s, h)
  BY <1>1 DEF Appended
<1> QED
  BY <1>1, <1>2, <1>4, <1>5, <1>6, FewerStrands DEF IInv, StrandStep

LEMMA AddStrands ==
    ASSUME AllImap, IInv, NEW m \in Msg, AddNew
    PROVE  StrandStep(m)
<1> USE DEF IInv, TypeOK
<1>1. PICK v \in UID : /\ ImapAddMessage(dst, cur.msg, cur.flags, v)
                       /\ cur' = [cur EXCEPT !.dst = v]
  BY Dispatch, TwoStores DEF AddNew, AddMessage
<1>2. /\ pc = "add" /\ pc' = "update" /\ UNCHANGED <<db, src>>
      /\ cur'.dst = v /\ cur'.msg = cur.msg /\ cur'.src = cur.src
      /\ dst' = dst
  BY <1>1 DEF AddNew, dst
<1>3. \A t \in Stores, h \in UID : t # dst \/ h # v => box'[t][h] = box[t][h]
  BY <1>1, TwoStores DEF ImapAddMessage, ServerAppend, FolderTypeOK
<1>4. RowsOf(dst, v) = {}
  <2>1. v = uidnext[dst] /\ uidnext[dst] \in Nat
    BY <1>1, TwoStores DEF ImapAddMessage, ServerAppend, FolderTypeOK
  <2>2. \A r \in db : r.uid[dst] # v
    BY <2>1, TwoStores DEF RowInv, UID
  <2> QED
    BY <2>2 DEF RowsOf
<1>5. \A s, h : ~Appended(s, h)
  BY <1>2 DEF Appended
<1>6. ASSUME NEW s \in Stores, NEW h \in UID, IsCopy(s, h, m)', ~IsCopy(s, h, m)
      PROVE  Appended(s, h)' /\ RowsOf(s, h) = {}
  <2>1. s = dst /\ h = v
    BY <1>3, <1>6 DEF IsCopy
  <2> QED
    BY <1>2, <1>4, <2>1 DEF Appended
<1>7. cur'.msg = m => Pair(src', cur'.src, 0) \in Strands(m)
  BY <1>2, HandStrand DEF Adding
<1> QED
  BY <1>2, <1>5, <1>6, <1>7, FewerStrands DEF StrandStep

LEMMA UpdateStrands ==
    ASSUME AllImap, IInv, NEW m \in Msg, UpdateSource
    PROVE  StrandStep(m)
<1>1. /\ pc = "update" /\ pc' = "commit" /\ cur' = cur
      /\ UNCHANGED <<box, db, src>>
  BY Dispatch, TwoStores DEF UpdateSource, UpdateMessage, IInv, TypeOK, folderVars
<1>2. \A s \in Stores, u \in UID : IsCopy(s, u, m)' => IsCopy(s, u, m)
  BY <1>1 DEF IsCopy
<1>3. \A s, u : Appended(s, u) => Appended(s, u)'
  BY <1>1 DEF Appended, dst
<1>4. cur'.msg = m => Pair(src', cur'.src, 0) \in Strands(m)
  BY <1>1, HandStrand DEF Adding
<1> QED
  BY <1>1, <1>2, <1>3, <1>4, FewerStrands DEF IInv, StrandStep

(* The strand of the message in hand becomes the one of its row.           *)
LEMMA CommitNewStrands ==
    ASSUME AllImap, IInv, NEW m \in Msg, CommitNew
    PROVE  StrandStep(m)
<1> DEFINE n == [uid |-> Pair(src, cur.src, cur.dst), flags |-> cur.flags]
           w == Pair(src, cur.src, 0)
<1>1. /\ UNCHANGED <<box, src>> /\ pc = "commit" /\ pc' = "work"
      /\ db' = {r \in db : r.uid # n.uid} \cup {n}
  BY CommittedFacts DEF CommitNew, RowUpdated, IInv
<1>2. /\ n.uid \in [Stores -> UID]
      /\ n.uid[src] = cur.src /\ n.uid[dst] = cur.dst
  BY TwoStores, PairFacts
<1>3. Holds(src, cur.src) /\ Holds(dst, cur.dst)
  BY <1>1 DEF IInv, CurInv, Adding
<1>a. 0 \in UID
  BY DEF UID
<1>4. /\ w \in [Stores -> UID] /\ w[src] = cur.src /\ w[dst] = 0
  BY <1>a, TwoStores, PairFacts
<1> HIDE DEF n, w
<1>5. /\ \A r \in db' : r \in db \/ r = n
      /\ n \in db'
  BY <1>1
<1>6. \A s \in Stores, u \in UID : RowsOf(s, u)' = {} => n.uid[s] # u
  BY <1>5 DEF RowsOf
<1>7. \A s \in Stores : IsCopy(s, n.uid[s], m) => cur.msg = m
  BY <1>2, <1>3, TwoStores DEF Holds, IsCopy
(* What is a strand now was one before, unless it is the new row.          *)
<1>8. ASSUME NEW k \in Strands(m)', k # n.uid
      PROVE  k \in Strands(m) /\ k # w
  <2>1. k \in [Stores -> UID]
    BY DEF Strands
  <2>2. CASE \E r \in db', s \in Stores : k = r.uid /\ IsCopy(s, r.uid[s], m)'
    <3>1. PICK r \in db, s \in Stores : k = r.uid /\ IsCopy(s, r.uid[s], m)
      BY <1>1, <1>5, <1>8, <2>2 DEF IsCopy
    <3>2. r.uid[dst] > 0
      BY TwoStores
    <3> QED
      BY <1>4, <2>1, <3>1, <3>2 DEF Strands
  <2>3. CASE \E s \in Stores, u \in UID :
                /\ k = Pair(s, u, 0)
                /\ IsCopy(s, u, m)'
                /\ RowsOf(s, u)' = {}
    <3>1. PICK s \in Stores, u \in UID :
                /\ k = Pair(s, u, 0)
                /\ IsCopy(s, u, m)'
                /\ RowsOf(s, u)' = {}
      BY <2>3
    <3>2. IsCopy(s, u, m)
      BY <1>1, <3>1 DEF IsCopy
    <3>3. RowsOf(s, u) = {}
      <4> SUFFICES ASSUME NEW r \in db, r.uid[s] = u PROVE FALSE
        BY DEF RowsOf
      <4>1. r \notin db'
        BY <3>1 DEF RowsOf
      <4>2. r.uid = n.uid
        BY <1>1, <4>1
      <4> QED
        BY <1>5, <3>1, <4>2 DEF RowsOf
    <3>4. ~Appended(s, u)
      BY <1>2, <1>6, <3>1 DEF Appended
    <3>5. k # w
      <4>1. u > 0
        BY <3>2 DEF IInv, BoxInv, IsCopy, UID
      <4>2. k[s] = u /\ 0 \in UID
        BY <3>1, PairFacts DEF UID
      <4>3. s = src => u # cur.src
        BY <1>2, <1>6, <3>1
      <4> QED
        BY <1>4, <4>1, <4>2, <4>3, TwoStores
    <3> QED
      BY <2>1, <3>1, <3>2, <3>3, <3>4, <3>5 DEF Strands
  <2> QED
    BY <1>1, <2>2, <2>3 DEF Strands, Adding
<1>9. CASE cur.msg = m
  <2>1. w \in Strands(m)
    BY <1>1, <1>9, HandStrand DEF Adding, w
  <2>2. Strands(m)' \subseteq (Strands(m) \ {w}) \cup {n.uid}
    BY <1>8
  <2> QED
    BY <2>1, <2>2 DEF StrandStep, Replaced
<1>10. CASE cur.msg # m
  <2>1. ASSUME n.uid \in Strands(m)' PROVE n.uid \in Strands(m)
    <3>1. CASE \E r \in db', s \in Stores : n.uid = r.uid /\ IsCopy(s, r.uid[s], m)'
      BY <1>1, <1>7, <1>10, <3>1 DEF IsCopy
    <3>2. CASE \E s \in Stores, u \in UID :
                  n.uid = Pair(s, u, 0) /\ RowsOf(s, u)' = {}
      <4>1. PICK s \in Stores, u \in UID :
                  n.uid = Pair(s, u, 0) /\ RowsOf(s, u)' = {}
        BY <3>2
      <4>2. n.uid[s] = u
        BY <4>1, PairFacts DEF UID
      <4> QED
        BY <1>6, <4>1, <4>2
    <3> QED
      BY <1>1, <2>1, <3>1, <3>2 DEF Strands, Adding
  <2> QED
    BY <1>8, <2>1 DEF StrandStep
<1> QED
  BY <1>9, <1>10

(* The message of a deleted row is no longer on the source: what is left   *)
(* of its strand is the copy on the destination.                           *)
LEMMA CommitDeleteStrands ==
    ASSUME AllImap, IInv, RowGoesInv, NEW m \in Msg, CommitDelete
    PROVE  StrandStep(m)
<1>1. /\ UNCHANGED box /\ pc = "commitDel" /\ pc' = "work"
      /\ db' = db \ RowsOf(src, cur.src)
  BY CommittedFacts DEF CommitDelete, RowDeleted, IInv
<1>2. box[src][cur.src] = Absent
  BY <1>1 DEF RowGoesInv
<1>3. \A s, u : ~Appended(s, u)
  BY <1>1 DEF Appended
<1>4. \A r \in db : r \in db' <=> r.uid[src] # cur.src
  BY <1>1 DEF RowsOf
<1>a. db' \subseteq db /\ pc' \notin Adding
  BY <1>1 DEF Adding
(* What is a strand now and was none before is what the row leaves.        *)
<1>5. ASSUME NEW k \in Strands(m)'
      PROVE  \/ k \in Strands(m) /\ \A r \in db : r.uid[src] = cur.src => k # r.uid
             \/ \E r \in db : /\ r.uid[src] = cur.src
                              /\ IsCopy(dst, r.uid[dst], m)
                              /\ k = Pair(dst, r.uid[dst], 0)
  <2>1. k \in [Stores -> UID]
    BY DEF Strands
  <2>2. CASE \E r \in db', s \in Stores : k = r.uid /\ IsCopy(s, r.uid[s], m)'
    <3>1. PICK r \in db', s \in Stores : k = r.uid /\ IsCopy(s, r.uid[s], m)'
      BY <2>2
    <3>2. r \in db /\ IsCopy(s, r.uid[s], m) /\ k[src] # cur.src
      BY <1>1, <1>4, <1>a, <3>1 DEF IsCopy
    <3> QED
      BY <2>1, <3>1, <3>2 DEF Strands
  <2>3. CASE \E s \in Stores, u \in UID :
                /\ k = Pair(s, u, 0)
                /\ IsCopy(s, u, m)'
                /\ RowsOf(s, u)' = {}
    <3>1. PICK s \in Stores, u \in UID :
                /\ k = Pair(s, u, 0)
                /\ IsCopy(s, u, m)'
                /\ RowsOf(s, u)' = {}
      BY <2>3
    <3>2. IsCopy(s, u, m)
      BY <1>1, <3>1 DEF IsCopy
    <3>3. CASE RowsOf(s, u) = {}
      <4>0. 0 \in UID
        BY DEF UID
      <4>1. k[Other(s)] = 0
        BY <3>1, <4>0, PairFacts
      <4>2. \A r \in db : k # r.uid
        BY <4>1, OtherStore, TwoStores
      <4> QED
        BY <1>3, <2>1, <3>1, <3>2, <3>3, <4>2 DEF Strands
    <3>4. CASE RowsOf(s, u) # {}
      <4>1. PICK r \in db : r.uid[s] = u
        BY <3>4 DEF RowsOf
      <4>2. r.uid[src] = cur.src
        BY <1>4, <3>1, <4>1 DEF RowsOf
      <4>3. s = dst
        BY <1>2, <3>2, <4>1, <4>2, TwoStores DEF IsCopy
      <4> QED
        BY <3>1, <3>2, <4>1, <4>2, <4>3
    <3> QED
      BY <3>3, <3>4
  <2> QED
    BY <1>a, <2>2, <2>3 DEF Strands
<1>6. CASE \E r \in db : r.uid[src] = cur.src /\ IsCopy(dst, r.uid[dst], m)
  <2>1. PICK r \in db : r.uid[src] = cur.src /\ IsCopy(dst, r.uid[dst], m)
    BY <1>6
  <2>2. \A q \in db : q.uid[src] = cur.src => q = r
    BY <2>1, TwoStores DEF IInv, RowInv, RowsOneToOne
  <2>3. r.uid \in Strands(m)
    BY <2>1, TwoStores DEF Strands
  <2>4. Strands(m)' \subseteq (Strands(m) \ {r.uid}) \cup {Pair(dst, r.uid[dst], 0)}
    BY <1>5, <2>1, <2>2
  <2> QED
    BY <2>3, <2>4 DEF StrandStep, Replaced
<1>7. CASE ~\E r \in db : r.uid[src] = cur.src /\ IsCopy(dst, r.uid[dst], m)
  <2>1. Strands(m)' \subseteq Strands(m)
    BY <1>5, <1>7
  <2> QED
    BY <2>1 DEF StrandStep
<1> QED
  BY <1>6, <1>7

(* A failure may leave the appended copy without a row: one strand more.   *)
LEMMA FaultStrands ==
    ASSUME AllImap, IInv, NEW m \in Msg, Fail \/ Crash
    PROVE  StrandStep(m)
<1>1. /\ UNCHANGED <<box, db>> /\ pc' \notin Adding /\ pc' \notin {"update", "commit"}
      /\ faults' = faults + 1
  BY DEF Fail, Crash, EndPass, Adding, folderVars
<1>2. CASE pc \in {"update", "commit"} /\ IsCopy(dst, cur.dst, m)
  <2>1. pc \in Adding /\ cur.msg = m
    BY <1>2 DEF IInv, CurInv, Holds, IsCopy, Adding
  <2>2. Strands(m) # {}
    BY <2>1, HandStrand
  <2>3. Strands(m)' \subseteq Strands(m) \cup {Pair(dst, cur.dst, 0)}
    <3> SUFFICES ASSUME NEW k \in Strands(m)', k # Pair(dst, cur.dst, 0)
                 PROVE  k \in Strands(m)
      OBVIOUS
    <3>1. k \in [Stores -> UID]
      BY DEF Strands
    <3>2. CASE \E r \in db', s \in Stores : k = r.uid /\ IsCopy(s, r.uid[s], m)'
      BY <1>1, <3>1, <3>2 DEF Strands, IsCopy
    <3>3. CASE \E s \in Stores, u \in UID :
                  /\ k = Pair(s, u, 0)
                  /\ IsCopy(s, u, m)'
                  /\ RowsOf(s, u)' = {}
      <4>1. PICK s \in Stores, u \in UID :
                  /\ k = Pair(s, u, 0)
                  /\ IsCopy(s, u, m)
                  /\ RowsOf(s, u) = {}
        BY <1>1, <3>3 DEF IsCopy, RowsOf
      <4>2. ~Appended(s, u)
        BY <4>1 DEF Appended
      <4> QED
        BY <3>1, <4>1, <4>2 DEF Strands
    <3> QED
      BY <1>1, <3>2, <3>3 DEF Strands
  <2> QED
    BY <1>1, <2>2, <2>3 DEF StrandStep, TornByFault
<1>3. CASE ~(pc \in {"update", "commit"} /\ IsCopy(dst, cur.dst, m))
  <2>1. \A s \in Stores, u \in UID : IsCopy(s, u, m)' => IsCopy(s, u, m)
    BY <1>1 DEF IsCopy
  <2>2. \A s \in Stores, u \in UID : IsCopy(s, u, m) => ~Appended(s, u)
    BY <1>3 DEF Appended
  <2> QED
    BY <1>1, <2>1, <2>2, FewerStrands DEF IInv, StrandStep
<1> QED
  BY <1>2, <1>3
-----------------------------------------------------------------------------
(* Why the two parts are kept by every step.                               *)
LEMMA RowGoesStart ==
    ASSUME AllImap, IInv, DeleteMessages
    PROVE  RowGoesInv'
<1> SUFFICES ASSUME pc' = "commitDel" PROVE RowGoesInv'
  BY DEF RowGoesInv
<1> PICK r \in todo.del, v \in UID : DeleteRow(r, v)
  BY DEF DeleteMessages
<1> DEFINE u == r.uid[src]
<1> USE DEF IInv
<1>1. /\ pc = "work" /\ v \in DststoreUID(src, u) /\ DeleteDst(r, v)
      /\ cur' = [NoCur EXCEPT !.src = u, !.dst = v]
      /\ UNCHANGED src
  BY DEF DeleteRow, Abort
<1>2. u \in UID /\ cur'.src = u
  BY <1>1, TwoStores DEF TypeOK, Row, NoCur
<1>3. list[src][u] = Absent /\ list[dst][v] # Absent
  BY <1>1 DEF TodoInv, Syncing, DeleteDst, HasUID
<1>4. PICK q \in db : q.uid = Pair(src, u, v)
  BY <1>1, <1>2, <1>3, DststoreUIDFacts
<1>5. q.uid[src] = u
  BY <1>2, <1>4, TwoStores, PairFacts
<1>6. box[src][u] = Absent /\ u < uidnext[src]
  <2>1. box[src][u] = Absent
    BY <1>1, <1>3, <1>5 DEF CoverInv, Syncing, TypeOK, Stores
  <2>2. u < uidnext[src]
    BY <1>5, TwoStores DEF RowInv
  <2> QED
    BY <2>1, <2>2
<1>7. SameCopies
  BY StoringCopies
<1>8. uidnext' = uidnext
  BY <1>1, Dispatch, TwoStores
     DEF DeleteDst, DeleteMessage, SetFlags, ImapDeleteMessage, ImapSetFlags,
         folderVars
<1> QED
  BY <1>1, <1>2, <1>6, <1>7, <1>8, TwoStores DEF RowGoesInv, SameCopies

LEMMA RowGoesStep ==
    ASSUME AllImap, IInv, RowGoesInv, [Next]_vars
    PROVE  RowGoesInv'
<1> SUFFICES ASSUME pc' = "commitDel" PROVE RowGoesInv'
  BY DEF RowGoesInv
<1>1. CASE DeleteMessages
  BY <1>1, RowGoesStart
<1>2. CASE UNCHANGED vars
  BY <1>2 DEF vars, RowGoesInv
<1>3. CASE User
  <2>1. UNCHANGED <<pc, src, cur>>
    BY <1>3 DEF User, Deliver, Remove, Toggle, UserStep, syncVars
  <2>2. cur.src < uidnext[src] /\ box[src][cur.src] = Absent
    BY <2>1 DEF RowGoesInv
  <2>3. box'[src][cur.src] = Absent /\ cur.src < uidnext'[src]
    <3>1. CASE \E s \in Stores : \E d \in Msg : Deliver(s, d)
      <4> PICK s \in Stores, d \in Msg : Deliver(s, d)
        BY <3>1
      <4>1. PICK v \in UID : ServerAppend(s, d, {}, v)
        BY Dispatch DEF Deliver, ImapDeliver
      <4>2. uidnext[src] \in Nat /\ cur.src \in Nat
        BY TwoStores DEF IInv, TypeOK, FolderTypeOK, UID
      <4> QED
        BY <2>2, <4>1, <4>2, TwoStores DEF ServerAppend, IInv, TypeOK, FolderTypeOK
    <3>2. CASE \E s \in Stores : \E h \in Handles(s) : Remove(s, h)
      BY <2>2, <3>2, TwoStores
         DEF Remove, UserDelete, Handles, IInv, TypeOK, FolderTypeOK
    <3>3. CASE \E s \in Stores : \E h \in Handles(s), f \in UserFlag : Toggle(s, h, f)
      <4>1. PICK s \in Stores, h \in UID :
               /\ box[s][h] # Absent
               /\ uidnext' = uidnext
               /\ \E fl : box' = [box EXCEPT ![s][h].flags = fl]
        BY <3>3 DEF Toggle, UserFlags, Handles
      <4>2. s # src \/ h # cur.src
        BY <2>2, <4>1
      <4> QED
        BY <2>2, <4>1, <4>2, TwoStores DEF IInv, TypeOK, FolderTypeOK
    <3> QED
      BY <1>3, <3>1, <3>2, <3>3 DEF User
  <2> QED
    BY <2>1, <2>3 DEF RowGoesInv
<1>4. CASE StartSync \/ OpenFails \/ Fail \/ CloseFails \/ Crash
  BY <1>4 DEF StartSync, OpenFails, Fail, CloseFails, Crash, EndPass
<1>5. CASE SyncStep /\ ~DeleteMessages
  BY <1>5 DEF SyncStep, ListFolder1, ListFolder2, ListFolder, Diff, ReadMessage,
              ReadNew, Abort, AddNew, UpdateSource, CommitNew, CommitDelete,
              CommitChange, Committed, ChangeMessages, ChangeRow, NextDirection,
              Close2, Close1, EndPass
<1> QED
  BY <1>1, <1>2, <1>3, <1>4, <1>5 DEF Next

LEMMA NextStrands ==
    ASSUME AllImap, IInv, RowGoesInv, StrandInv, [Next]_vars
    PROVE  StrandInv'
<1>1. ASSUME NEW m \in Msg PROVE StrandStep(m)
  <2>1. CASE UNCHANGED vars
    BY <2>1, ClientSteps
  <2>2. CASE StartSync \/ SyncStep \/ OpenFails \/ CloseFails
    BY <2>2, PlainSteps, ReadStrands, AddStrands, UpdateStrands,
       CommitNewStrands, CommitDeleteStrands DEF SyncStep
  <2>3. CASE Fail \/ Crash
    BY <2>3, FaultStrands
  <2>4. CASE User
    BY <2>4, ClientSteps, DeliverStrands DEF User
  <2> QED
    BY <2>1, <2>2, <2>3, <2>4 DEF Next
<1>2. faults \in Nat
  BY DEF IInv, TypeOK
<1>3. faults' \in {faults, faults + 1} /\ born \subseteq born'
  <2>1. CASE UNCHANGED vars
    BY <2>1 DEF vars
  <2>2. CASE StartSync \/ OpenFails \/ Fail \/ CloseFails \/ Crash
    BY <2>2 DEF StartSync, OpenFails, Fail, CloseFails, Crash
  <2>3. CASE User
    BY <2>3 DEF User, Deliver, Remove, Toggle, UserStep
  <2>4. CASE SyncStep
    BY <2>4 DEF SyncStep, ListFolder1, ListFolder2, ListFolder, Diff, ReadMessage,
                ReadNew, Abort, AddNew, UpdateSource, CommitNew, CommitDelete,
                CommitChange, Committed, DeleteMessages, DeleteRow,
                ChangeMessages, ChangeRow, NextDirection, Close2, Close1, auxVars
  <2> QED
    BY <2>1, <2>2, <2>3, <2>4 DEF Next
<1> QED
  BY <1>1, <1>2, <1>3, StrandsKept

LEMMA InitStrands == Init => RowGoesInv /\ StrandInv
<1> SUFFICES ASSUME Init PROVE RowGoesInv /\ StrandInv
  OBVIOUS
<1>1. /\ pc = "idle" /\ db = {} /\ faults = 0
      /\ \A s \in Stores, u \in UID : box[s][u] = Absent
  BY DEF Init, FolderInit, NoMessages
<1>2. \A m : Strands(m) = {}
  BY <1>1 DEF Strands, IsCopy, Adding
<1>3. \A m : Cardinality(Strands(m)) = 0
  BY <1>2, FS_EmptySet
<1> QED
  BY <1>1, <1>2, <1>3 DEF RowGoesInv, StrandInv
-----------------------------------------------------------------------------
(* The copy of store s that a strand stands for.                           *)
StandsFor(k, s, h) == k[s] = h \/ (k[s] = 0 /\ Appended(s, h))

LEMMA CopyHasStrand ==
    ASSUME IInv, NEW s \in Stores, NEW m \in Msg, NEW h \in CopiesOf(s, m)
    PROVE  \E k \in Strands(m) : StandsFor(k, s, h)
<1>1. h \in UID /\ IsCopy(s, h, m)
  BY DEF CopiesOf, Handles, IsCopy
<1>2. CASE RowsOf(s, h) # {}
  <2>1. PICK r \in db : r.uid[s] = h
    BY <1>2 DEF RowsOf
  <2>2. r.uid \in Strands(m)
    BY <1>1, <2>1, TwoStores DEF Strands
  <2>3. StandsFor(r.uid, s, h)
    BY <2>1 DEF StandsFor
  <2> QED
    BY <2>2, <2>3
<1>3. CASE Appended(s, h)
  <2>1. pc \in Adding /\ cur.msg = m
    BY <1>1, <1>3 DEF Appended, IInv, CurInv, Holds, IsCopy, Adding
  <2>2. 0 \in UID
    BY DEF UID
  <2>3. Pair(src, cur.src, 0)[s] = 0
    BY <1>3, <2>2, TwoStores, PairFacts DEF Appended
  <2> QED
    BY <1>3, <2>1, <2>3, HandStrand DEF StandsFor
<1>4. CASE RowsOf(s, h) = {} /\ ~Appended(s, h)
  <2>1. 0 \in UID
    BY DEF UID
  <2>2. Pair(s, h, 0) \in [Stores -> UID] /\ Pair(s, h, 0)[s] = h
    BY <1>1, <2>1, PairFacts
  <2>3. Pair(s, h, 0) \in Strands(m)
    BY <1>1, <1>4, <2>2 DEF Strands
  <2>4. StandsFor(Pair(s, h, 0), s, h)
    BY <2>2 DEF StandsFor
  <2> QED
    BY <2>3, <2>4
<1> QED
  BY <1>2, <1>3, <1>4

LEMMA CopiesAtMostStrands ==
    ASSUME IInv, NEW s \in Stores, NEW m \in Msg
    PROVE  Cardinality(CopiesOf(s, m)) <= Cardinality(Strands(m))
<1> DEFINE F == [h \in CopiesOf(s, m) |->
                    CHOOSE k \in Strands(m) : StandsFor(k, s, h)]
<1>1. \A h \in CopiesOf(s, m) : F[h] \in Strands(m) /\ StandsFor(F[h], s, h)
  BY CopyHasStrand
<1>2. F \in [CopiesOf(s, m) -> Strands(m)]
  BY <1>1
<1>3. ASSUME NEW h \in CopiesOf(s, m), NEW g \in CopiesOf(s, m), F[h] = F[g]
      PROVE  h = g
  <2>1. h > 0 /\ g > 0 /\ h \in UID /\ g \in UID
    BY DEF CopiesOf, Handles, IInv, BoxInv
  <2>2. StandsFor(F[h], s, h) /\ StandsFor(F[h], s, g)
    BY <1>1, <1>3
  <2> HIDE DEF F
  <2> QED
    BY <2>1, <2>2 DEF StandsFor, Appended
<1> HIDE DEF F
<1>4. IsInjective(F)
  BY <1>2, <1>3 DEF IsInjective
<1>5. F \in Injection(CopiesOf(s, m), Strands(m))
  BY <1>2, <1>4 DEF Injection
<1> QED
  BY <1>5, FiniteStrands, FS_Injection

(* However the passes, the mail clients and the failures interleave, a     *)
(* store holds at most one copy of a message more than commands failed:    *)
(* only an append whose row is not committed is ever repeated.             *)
THEOREM CopiesBounded ==
    ASSUME AllImap PROVE Spec => []DuplicatesBounded
<1> DEFINE SInv == IInv /\ RowGoesInv /\ StrandInv
<1>1. Init => SInv
  BY InitInv, InitStrands
<1>2. SInv /\ [Next]_vars => SInv'
  BY NextInv, RowGoesStep, NextStrands
<1>3. SInv => DuplicatesBounded
  <2> SUFFICES ASSUME SInv, NEW s \in Stores, NEW m \in Msg
               PROVE  Cardinality(CopiesOf(s, m)) <= 1 + faults
    BY DEF DuplicatesBounded
  <2>1. /\ Cardinality(CopiesOf(s, m)) <= Cardinality(Strands(m))
        /\ Cardinality(Strands(m)) <= 1 + faults
    BY CopiesAtMostStrands DEF StrandInv
  <2>2. IsFiniteSet(CopiesOf(s, m))
    <3>1. 0 \in Int /\ MaxUID \in Int
      OBVIOUS
    <3>2. IsFiniteSet(UID) /\ CopiesOf(s, m) \in SUBSET UID
      BY <3>1, FS_Interval, Zenon DEF UID, CopiesOf, Handles
    <3> QED
      BY <3>2, FS_Subset
  <2>3. Cardinality(CopiesOf(s, m)) \in Nat /\ Cardinality(Strands(m)) \in Nat
    BY <2>2, FiniteStrands, FS_CardinalityType
  <2> QED
    BY <2>1, <2>3 DEF IInv, TypeOK
<1> QED
  BY <1>1, <1>2, <1>3, PTL DEF Spec
=============================================================================
