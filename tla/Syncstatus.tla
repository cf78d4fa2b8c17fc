----------------------------- MODULE Syncstatus -----------------------------
(***************************************************************************)
(* UIDMapSyncstatus: the SQLite table that remembers, for one folder, which*)
(* uid of store 1 is the same message as which uid of store 2 and the flags*)
(* both had when they were last synchronised.  src is the store SetSrcstore*)
(* selected: its column is the key of every query.                         *)
(***************************************************************************)
EXTENDS Mailfolder

VARIABLE db     \* the committed rows; the pair of uids is the primary key

Row == [uid : [Stores -> UID], flags : SUBSET Letter]

(* Wrong: the column order of Update without a look at SetSrcstore.        *)
PairInArgumentOrder(src, u, v) == [s \in Stores |-> IF s = 1 THEN u ELSE v]

Pair(src, u, v) == [s \in Stores |-> IF s = src THEN u ELSE v]

RowsOf(src, u) == {r \in db : r.uid[src] = u}

(* Wrong: the query selects the column it filters on.                      *)
DststoreUIDSameColumn(src, u) ==
    IF RowsOf(src, u) = {} THEN {0} ELSE {r.uid[src] : r \in RowsOf(src, u)}

(* GetDststoreUID answers the first row of the query, in no given order,   *)
(* and 0 without an error when there is none.                              *)
DststoreUID(src, u) ==
    IF RowsOf(src, u) = {} THEN {0}
    ELSE {r.uid[Other(src)] : r \in RowsOf(src, u)}

(* Update: "insert or replace", keyed by the pair.                         *)
RowUpdated(src, u, v, fl) ==
    {r \in db : r.uid # Pair(src, u, v)}
        \cup {[uid |-> Pair(src, u, v), flags |-> fl]}

(* Wrong: the transaction of Delete is never committed.                    *)
RowDeletedRolledBack(src, u) == db

(* Delete: every row of the source uid.                                    *)
RowDeleted(src, u) == db \ RowsOf(src, u)

(* GetMessages minus the uids of the rows; ignored messages are dropped.   *)
NewMessages(src) ==
    {u \in Listed(src) : RowsOf(src, u) = {} /\ ~IsIgnored(src, u)}

(* One entry for every row whose source uid is not in the list.            *)
DeletedMessages(src) == {r \in db : ~HasUID(src, r.uid[src])}

(* One entry for every row whose flags are not those of the list.          *)
ChangedMessages(src) ==
    {r \in db : /\ HasUID(src, r.uid[src])
                /\ ~IsIgnored(src, r.uid[src])
                /\ list[src][r.uid[src]].flags # r.flags}
=============================================================================
