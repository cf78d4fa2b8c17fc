---------------------------- MODULE MCSyncgroup ----------------------------
(* Values for the constants of Syncgroup.                                  *)
EXTENDS Syncgroup

CONSTANTS f1, f2                    \* model values: the folders
CONSTANTS imap1, imap2, md1, md2    \* model values: the stores

(* Two syncgroups share the server imap1, the second is in deletemode flag.*)
OneServer == [g \in Group |-> [i \in {1, 2} |->
                IF i = 1 THEN imap1 ELSE IF g = 1 THEN md1 ELSE md2]]
(* IMAP1 <-> Maildir1 <-> IMAP2.                                           *)
OneMaildir == [g \in Group |-> [i \in {1, 2} |->
                IF i = 2 THEN md1 ELSE IF g = 1 THEN imap1 ELSE imap2]]

AllAccepted == [s \in Store |-> {}]
(* The Maildir md1 refuses f2.                                             *)
RefuseF2 == [s \in Store |-> IF s = md1 THEN {[not |-> TRUE, matches |-> {f2}],
                                              [not |-> FALSE, matches |-> Folder]}
                             ELSE {}]
ExpungeAll == [s \in Store |-> TRUE]

Has(x, y, z) == [s \in Store |-> CASE s = imap1 -> x [] s = md1 -> y [] OTHER -> z]

(* One syncgroup and two folders, of which either store may have some.     *)
TwoFolders ==
    {[selected |-> {1}, there |-> Has(x, y, {}), synced |-> z, quiet |-> FALSE] :
        x \in SUBSET Folder, y \in SUBSET Folder, z \in {{}, Store}}
(* Two syncgroups with one folder, which their stores may have or not.     *)
TwoSyncgroups ==
    {[selected |-> {1, 2}, there |-> Has(x, y, z), synced |-> {}, quiet |-> TRUE] :
        x \in SUBSET {f1}, y \in SUBSET {f1}, z \in SUBSET {f1}}
OneOrTwo == TwoFolders \cup TwoSyncgroups

(* The servers have the folder and the Maildir, used for the first time,   *)
(* does not.                                                               *)
FirstUse == {[selected |-> {1, 2}, there |-> [s \in Store |-> IF s = md1 THEN {} ELSE {f1}],
              synced |-> {}, quiet |-> TRUE]}

AllFolders == Group \X Folder
(* The second syncgroup has one folder.                                    *)
Three == {1} \X Folder \cup {<<2, f1>>}

(* Clients and servers act on the first folder.                            *)
OpsOnF1 == {<<"create", s, f1>> : s \in {imap1, md1}}
               \cup {<<"delete", s, f1>> : s \in {imap1, md1}}
               \cup {<<"renumber", imap1, f1>>}
=============================================================================
