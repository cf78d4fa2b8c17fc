----------------------------- MODULE Mailfolder -----------------------------
(***************************************************************************)
(* One mail folder that exists on both stores of a syncgroup: what each    *)
(* store really holds (box), what the MailfolderManager of the running     *)
(* pass believes it holds (list), and the outside world, the mail clients  *)
(* and delivery agents that change a store at any moment.  The operations  *)
(* of the two implementations are in ImapFolder and MaildirFolder.         *)
(***************************************************************************)
EXTENDS Integers, FiniteSets

CONSTANTS
    Kind,       \* Kind[s]: storetype of store s, "IMAP" or "Maildir"
    Expunge,    \* Expunge[s]: the expunge option of IMAP store s
    Msg,        \* the messages that may be delivered
    Blank,      \* the empty message, what a vanished IMAP body reads as
    UserFlag,   \* the flags the mail clients toggle
    Absent,     \* no message, or no list entry, under this number
    MaxUID      \* bound: the largest uid (math.MaxUint32 in the code)

Stores == {1, 2}
Other(s) == 3 - s
UID == 0 .. MaxUID
NoUID == -1         \* a Maildir file whose name carries no uid of this folder
NoFile == -1        \* the Filename "" of an ignored Maildir message

(* ImapFlagsMap: the Maildir letters that have an IMAP flag.               *)
Mapped == {"S", "R", "T", "D", "F"}
(* The letters addFlags appends: the word "newflags", not its argument.    *)
Newflags == {"n", "e", "w", "f", "l", "a", "g", "s"}
Letter == Mapped \cup Newflags \cup UserFlag

Copy == [msg : Msg \cup {Blank}, uid : UID \cup {NoUID}, flags : SUBSET Letter]
Entry == [file : UID \cup {NoFile}, flags : SUBSET Letter,
          ignore : BOOLEAN, temporary : BOOLEAN]

ASSUME KindAssumption    == Kind \in [Stores -> {"IMAP", "Maildir"}]
ASSUME ExpungeAssumption == Expunge \in [Stores -> BOOLEAN]
ASSUME BlankAssumption   == Blank \notin Msg
ASSUME AbsentAssumption  == Absent \notin Copy \cup Entry
ASSUME MaxUIDAssumption  == MaxUID \in Nat \ {0}

VARIABLES
    box,        \* box[s][h]: the copy store s holds under handle h; the handle
                \* is the uid on an IMAP server, a file identity in a Maildir
    list,       \* list[s][u]: m.messages of the folder object of store s
    uidnext     \* uidnext[s]: the next uid the IMAP server of s hands out

folderVars == <<box, list, uidnext>>

NoMessages == [u \in UID |-> Absent]

Handles(s) == {h \in UID : box[s][h] # Absent}
Listed(s)  == {u \in UID : list[s][u] # Absent}

(* The copies of message m that store s holds.                             *)
CopiesOf(s, m) == {h \in Handles(s) : box[s][h].msg = m}

FolderTypeOK ==
    /\ box \in [Stores -> [UID -> Copy \cup {Absent}]]
    /\ list \in [Stores -> [UID -> Entry \cup {Absent}]]
    /\ uidnext \in [Stores -> Nat \ {0}]

FolderInit ==
    /\ box = [s \in Stores |-> NoMessages]
    /\ list = [s \in Stores |-> NoMessages]
    /\ uidnext = [s \in Stores |-> 1]

(* A mail client removes a copy, or sets or clears one of its flags.       *)
UserDelete(s, h) ==
    /\ h \in Handles(s)
    /\ box' = [box EXCEPT ![s][h] = Absent]
    /\ UNCHANGED <<list, uidnext>>

UserFlags(s, h, fl) ==
    /\ h \in Handles(s)
    /\ box' = [box EXCEPT ![s][h].flags = fl]
    /\ UNCHANGED <<list, uidnext>>

(* HasUID, IsIgnored: is the uid a key of the map, is its entry ignored.   *)
HasUID(s, u) == list[s][u] # Absent
IsIgnored(s, u) == HasUID(s, u) /\ list[s][u].ignore
=============================================================================
