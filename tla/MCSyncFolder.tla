---------------------------- MODULE MCSyncFolder ----------------------------
(* Values for the constants of SyncFolder, one set per question.           *)
EXTENDS SyncFolder, TLC

CONSTANTS m1, m2, m3    \* model values: the messages

ImapImap == [s \in Stores |-> "IMAP"]
MaildirImap == [s \in Stores |-> IF s = 1 THEN "Maildir" ELSE "IMAP"]
ImapMaildir == [s \in Stores |-> IF s = 1 THEN "IMAP" ELSE "Maildir"]

BothExpunge == [s \in Stores |-> TRUE]
(* What the code defaults to.                                              *)
NoExpunge == [s \in Stores |-> FALSE]

Setting(mode) == [deletemode |-> mode, dryrun |-> FALSE]
ExpungeOnly == {Setting("expunge")}
FlagOnly == {Setting("flag")}
DryRun == {[deletemode |-> "expunge", dryrun |-> TRUE]}
ExpungeOrNone == {Setting("expunge"), Setting("none")}
(* All but none: a row that outlives its Maildir file frees its uid.       *)
DryRunOrNotNone ==
    DryRun \cup {Setting(m) : m \in Deletemodes \ {"none"}}

AllOps == {"deliver", "delete", "flag"} \X Stores
(* Mail arrives at store 1; both stores lose messages to their clients.    *)
ArriveAtOne == {<<"deliver", 1>>, <<"delete", 1>>, <<"delete", 2>>}
(* The Maildir, store 1, is a mirror: mail arrives on the server only.     *)
ArriveAtTwo == AllOps \ {<<"deliver", 1>>}

MsgSymmetry == Permutations(Msg)
=============================================================================
