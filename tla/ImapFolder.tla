----------------------------- MODULE ImapFolder -----------------------------
(***************************************************************************)
(* ImapFolder: the MailfolderManager of a folder on an IMAP server.  The   *)
(* server gives every appended message the next uid and never gives a uid  *)
(* again; a copy's handle is its uid.                                      *)
(***************************************************************************)
EXTENDS Mailfolder

(* External: APPEND and delivery on the server, the uid is always fresh.   *)
ServerAppend(s, m, fl, u) ==
    /\ u = uidnext[s]
    /\ u \in UID
    /\ box' = [box EXCEPT ![s][u] = [msg |-> m, uid |-> u, flags |-> fl]]
    /\ uidnext' = [uidnext EXCEPT ![s] = u + 1]

ImapDeliver(s, m) ==
    /\ \E u \in UID : ServerAppend(s, m, {}, u)
    /\ UNCHANGED list

(* UID FETCH 1:* (UID FLAGS); ImapFlagsToString keeps the mapped flags.    *)
ImapUpdateMessageList(s) ==
    /\ list' = [list EXCEPT ![s] = [u \in UID |->
           IF box[s][u] = Absent THEN Absent
           ELSE [file |-> u, flags |-> box[s][u].flags \cap Mapped,
                 ignore |-> FALSE, temporary |-> FALSE]]]
    /\ UNCHANGED <<box, uidnext>>

(* A uid that is no longer on the server has no BODY[] in the response:    *)
(* the body stays nil and the command completes without an error.          *)
ImapBody(s, u) == IF box[s][u] = Absent THEN Blank ELSE box[s][u].msg

(* Wrong: the appended message is not registered in m.messages.            *)
ImapAddMessageUnlisted(s, m, fl, u) ==
    /\ ServerAppend(s, m, fl \cap Mapped, u)
    /\ UNCHANGED list

(* The server keeps the mapped flags, the list all of them.                *)
ImapAddMessage(s, m, fl, u) ==
    /\ ServerAppend(s, m, fl \cap Mapped, u)
    /\ list' = [list EXCEPT ![s][u] =
           [file |-> u, flags |-> fl, ignore |-> FALSE, temporary |-> FALSE]]

(* UID STORE on a uid that is gone completes with OK and changes nothing.  *)
ServerStore(s, u, fl) ==
    box' = IF box[s][u] = Absent THEN box
           ELSE [box EXCEPT ![s][u].flags = fl \cap Mapped]

ImapSetFlags(s, u, fl) ==
    /\ HasUID(s, u)
    /\ ServerStore(s, u, fl)
    /\ list' = [list EXCEPT ![s][u].flags = fl]
    /\ UNCHANGED uidnext

ImapDeleteMessage(s, u) ==
    /\ HasUID(s, u)
    /\ ServerStore(s, u, {"T"})
    /\ list' = [list EXCEPT ![s][u] = Absent]
    /\ UNCHANGED uidnext

(* Wrong: the folder is left without the CLOSE command.                    *)
ImapCloseUnexpunged(s, expunge) == UNCHANGED box

(* CLOSE expunges every message flagged \Deleted, whoever flagged it.      *)
ImapClose(s, expunge) ==
    box' = [box EXCEPT ![s] = [u \in UID |->
        IF expunge /\ box[s][u] # Absent /\ "T" \in box[s][u].flags
        THEN Absent ELSE box[s][u]]]
=============================================================================
