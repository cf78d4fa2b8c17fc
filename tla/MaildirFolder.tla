---------------------------- MODULE MaildirFolder ----------------------------
(***************************************************************************)
(* MaildirFolder: the MailfolderManager of a Maildir.  The uid of a        *)
(* message is the ",u=" part of its file name; a file without one, or with *)
(* the ",f=" of another folder, gets a temporary uid counted down from the *)
(* largest.  A handle is the identity of a file: mail clients and the      *)
(* folder rename a file, the handle stays.                                 *)
(***************************************************************************)
EXTENDS Mailfolder, Functions, FiniteSetsExt

(* A name no file has and no list entry still refers to: generateFilename  *)
(* puts the time, a sequence number and the pid in every name it makes.    *)
FreeFiles(s) == {h \in UID : /\ h \notin Handles(s)
                             /\ \A u \in Listed(s) : list[s][u].file # h}
NewFile(s) == CHOOSE h \in FreeFiles(s) : TRUE

MaildirDeliver(s, m) ==
    /\ FreeFiles(s) # {}
    /\ box' = [box EXCEPT ![s][NewFile(s)] =
                  [msg |-> m, uid |-> NoUID, flags |-> {}]]
    /\ UNCHANGED <<list, uidnext>>

(* Wrong: the number of messages instead of the lowest free key.           *)
NextFreeUIDCounted(s) == Cardinality(Listed(s))

(* getNextFreeUID: the lowest key that is not in m.messages now.           *)
NextFreeUID(s) == Min(UID \ Listed(s))

(* findFilepath: the base name of the entry is still in cur or new.        *)
HasFile(s, u) ==
    /\ HasUID(s, u)
    /\ list[s][u].file # NoFile
    /\ box[s][list[s][u].file] # Absent

(* The first file read with a uid registers it; another one makes the      *)
(* entry ignored and nameless.  Readdirnames is in no order, so temporary  *)
(* uids go to the unnumbered files in any order.                           *)
MaildirUpdateMessageList(s) ==
    LET fresh == {h \in Handles(s) : box[s][h].uid = NoUID}
        named(u) == {h \in Handles(s) : box[s][h].uid = u}
        entry(h, temp) == [file |-> h, flags |-> box[s][h].flags,
                           ignore |-> FALSE, temporary |-> temp]
        ignored == [file |-> NoFile, flags |-> {},
                    ignore |-> TRUE, temporary |-> FALSE]
    IN  \E tempuid \in Bijection(fresh,
                           (MaxUID + 1 - Cardinality(fresh)) .. MaxUID) :
          /\ list' = [list EXCEPT ![s] = [u \in UID |->
                IF \E h \in fresh : tempuid[h] = u
                THEN entry(CHOOSE h \in fresh : tempuid[h] = u, TRUE)
                ELSE IF named(u) = {} THEN Absent
                ELSE IF Cardinality(named(u)) > 1 THEN ignored
                ELSE entry(CHOOSE h \in named(u) : TRUE, FALSE)]]
          /\ UNCHANGED <<box, uidnext>>

MaildirBody(s, u) == box[s][list[s][u].file].msg

MaildirAddMessage(s, m, fl, u) ==
    /\ FreeFiles(s) # {} /\ Listed(s) # UID
    /\ u = NextFreeUID(s)
    /\ box' = [box EXCEPT ![s][NewFile(s)] =
                  [msg |-> m, uid |-> u, flags |-> fl]]
    /\ list' = [list EXCEPT ![s][u] =
                  [file |-> NewFile(s), flags |-> fl,
                   ignore |-> FALSE, temporary |-> FALSE]]
    /\ UNCHANGED uidnext

(* Update renames the file to its final uid, with the flags of the list.   *)
(* The entry of a temporary uid stays under its temporary key.             *)
MaildirUpdate(s, u, out) ==
    /\ HasFile(s, u)
    /\ out = IF list[s][u].temporary THEN NextFreeUID(s) ELSE u
    /\ box' = [box EXCEPT ![s][list[s][u].file].uid = out,
                          ![s][list[s][u].file].flags = list[s][u].flags]
    /\ list' = [list EXCEPT ![s][u].temporary = FALSE]
    /\ UNCHANGED uidnext

(* Wrong: the flags are recorded but the file is not renamed.              *)
MaildirSetFlagsUnnamed(s, u, fl) ==
    /\ HasFile(s, u)
    /\ list' = [list EXCEPT ![s][u].flags = fl]
    /\ UNCHANGED <<box, uidnext>>

MaildirSetFlags(s, u, fl) ==
    /\ HasFile(s, u)
    /\ box' = [box EXCEPT ![s][list[s][u].file].flags = fl]
    /\ list' = [list EXCEPT ![s][u].flags = fl]
    /\ UNCHANGED uidnext

(* The file is removed if it is there; the entry goes in any case.         *)
MaildirDeleteMessage(s, u) ==
    /\ HasUID(s, u)
    /\ box' = IF HasFile(s, u)
              THEN [box EXCEPT ![s][list[s][u].file] = Absent] ELSE box
    /\ list' = [list EXCEPT ![s][u] = Absent]
    /\ UNCHANGED uidnext
=============================================================================
