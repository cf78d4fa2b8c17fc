# GoMailSync in TLA+

Specifications of GoMailSync, from the creation of its syncgroups to the passes over a folder,
checked with TLC and proved with TLAPS.  Paths and line numbers are those of the repository; `PROJECT.json`
maps every definition to the lines it stands for.

    tlc -workers 2 -config ImapFaults.cfg MCSyncFolder.tla
    tlapm SyncFolderProofs.tla

## The system

| Part | State | Operations |
|---|---|---|
| Program (`gomailsync.go`) | the options | creates the syncgroups one after the other and starts a `Sync` goroutine for each |
| Syncgroup, creation (`syncgroup.go:30-176`) | its two store objects, `Expunge` in the shared configuration of a store | `newStore`, `getSyncFolders`, `mergeFolders` |
| Syncgroup, scheduler (`syncgroup.go:177-283`) | `usedfolders`, `folderindex`, `syncscount`, channels `sched` (room for one) and `c` (unbuffered) | the select loop; `SyncFolderWrapper`; one timer per finished folder |
| Syncgroup, pass (`syncgroup.go:285-509`) | source and destination, the three lists of uids | one pass over one folder: new, deleted, changed messages, first store 1 to 2, then 2 to 1 |
| ImapFolder, MaildirFolder (behind `MailfolderManager`) | `m.messages`, the list made at the start of the pass | list, read, add, update, flag, delete, close |
| UIDMapSyncstatus | the SQLite table (uid of store 1, uid of store 2, flags) | three queries, insert or replace, delete, transactions |
| ImapStore | `m.folders`, a mutex, the file `uidvalidity` of each folder | list and create mailboxes, compare UIDVALIDITY, make folder objects |
| MaildirStore | `m.folders` without a mutex, two `folderuid` files for each folder | list and create folders, compare the two files, make folder objects |
| Patterns (`utils.go`, `matching.go`) | `Excluded` of each folder | which folders a store accepts |
| Configuration (`config.go`) | the parsed file | parse and verify |

A syncgroup joins two stores, for each of which it has a store object of its own, even when
another syncgroup uses the same store.  It chooses its folders once, when it is created.  Its loop starts a goroutine for a folder, which
opens the folder on both stores and the folder's table, runs one pass and
reports on `c`; the loop arms a timer that frees the folder after the interval.
Mail clients and delivery agents change both stores at any time, behind the
back of the pass.  Only the stores and the table outlive a pass.

What is hard here:

* the pass works on lists that stop being true as soon as they are made, and
  on a table that must stay in step with two stores although no transaction
  spans the three: every failure or crash between two of them leaves a trace;
* deletions are inferred from a row without a message, so every wrong row is
  a lost message;
* an IMAP server never reuses a uid, the Maildir code does;
* a folder is identified twice, by the store and in the metadata, and the two are written one after
  the other by goroutines that a failure or the end of the program stops anywhere;
* the list of folders is shared by all goroutines of a syncgroup, with a mutex in one store and
  without in the other, and made once: what others create or delete later it does not see;
* a folder is freed by a timer while the loop scans, and the loop is woken over
  a channel on which the loop itself also sends.

What makes each part correct:

* pass: rows pair equal messages, one to one; no last copy is lost; a pass that
  nothing disturbed makes the stores equal; deletions reach both stores; a
  failure costs at most a duplicate; a dry run changes nothing;
* scheduler: one pass per folder at a time, the option bounds the passes, no
  wake-up is lost, every folder is synchronised again and again;
* stores: a folder is synchronised under one identity for ever; it is refused, or used without an
  identity, only after a failure, a kill or somebody else disturbed this very folder; every other
  folder is opened again and again;
* choice of folders: a folder is touched only if a store that has it accepts it and none that has it
  refuses it (one that a store refuses but lacks *is* created there); a restart chooses the same folders again; a syncgroup with deletemode flag never expunges.

## Modules

| Module | Models | |
|---|---|---|
| `Mailfolder` | one folder on both stores: `box` (what a store holds), `list` (`m.messages`), the mail clients' operations | variables shared by all below |
| `ImapFolder` | `imapfolder.go`; the server as seen through its commands | extends `Mailfolder` |
| `MaildirFolder` | `maildirfolder.go` over file identities | extends `Mailfolder` |
| `Syncstatus` | `uidmapsyncstatus.go`: the variable `db` and the queries | extends `Mailfolder` |
| `SyncFolder` | `Syncgroup.SyncFolder`; `Next`, `Spec`, `FairSpec`, the properties | composes the four |
| `TwoWaySync` | what a pass promises: the messages of two stores, without uids, lists and rows | `SyncFolder` implements it: `IsTwoWaySync` |
| `MCSyncFolder` | values of the constants | extends `SyncFolder` |
| `SyncFolderProofs` | theorems for two IMAP servers | extends `SyncFolder` |
| `PassProofs` | theorems on how an undisturbed pass between two IMAP servers ends | extends `SyncFolderProofs` |
| `CopyProofs` | the theorem on duplicates between two IMAP servers | extends `SyncFolderProofs` |
| `MaildirProofs` | theorems for any kinds of stores, and for a Maildir that mirrors a server | extends `SyncFolderProofs` |
| `TwoWaySyncProofs` | the proofs of `IsTwoWaySync` for two IMAP servers and for the mirror | extends `MaildirProofs` |
| `Scheduler` | `Syncgroup.Sync`, its goroutines and timers | alone |
| `SyncPool` | what the scheduler promises: folders that are free, in work, or at rest | `Scheduler` implements it: `KeepsThePool` |
| `SchedulerProofs` | its theorems | extends `Scheduler` |
| `Storemanager` | which folders and identities the stores have, what the store objects know, what each goroutine has in hand | variables shared by the three below |
| `ImapStore` | `imapstore.go` and the server's CREATE, SELECT, UIDVALIDITY | extends `Storemanager` |
| `MaildirStore` | `maildirstore.go` | extends `Storemanager` |
| `Syncgroup` | main, creation of the syncgroups, choice of folders, one goroutine per folder; failures, kills, restarts, mail clients | composes the two stores |
| `MCSyncgroup` | values of the constants | extends `Syncgroup` |
| `SyncgroupProofs` | theorems for any configuration | extends `Syncgroup` |
| `RestartProofs` | theorems on restarts and on refused folders | extends `SyncgroupProofs` |

The three levels meet at two interfaces.  `Syncgroup` starts a goroutine for a folder and lets it end; that
there is one for each folder at a time is what `Scheduler` shows (`OneSyncPerFolder`).  The step "work" of
`Syncgroup` is a pass of `SyncFolder`; that its rows and uids belong together is what `Syncgroup` shows (`IdentityKept`).
The other direction is an assumption: the liveness of `SyncFolder` (`InSyncUnlessOrphaned`, `DeletionsPropagate`) and
of `Syncgroup` (`FoldersAreOpened`) presumes a scheduler that keeps starting passes (`StartSync`, `SyncFolder` are fair).  `Scheduler`
delivers that only while its loop is not blocked on its own channel (`SyncsUnlessWedged`), and it can block for
good (`SchedulerWedge`).  For the whole program these three properties therefore hold up to that moment only.

### A pass

`pc` says where the pass is; one step is one command to a store together with
the local work around it:

    idle -> list1 -> list2 -> diff -> work -> ... -> work -> diff -> work -> ... -> close2 -> close1 -> idle
                                      work -> add -> update -> commit -> work       (a new message)
                                      work -> commitDel -> work                     (a deleted message)
                                      work -> commitChg -> work                     (a changed message)

`iter` and `src` are the loop over the two directions; `todo` holds what is left
of the three results, `cur` the message in hand.  Any guard that makes the code
return an error leads to `Abort`, which still runs the two deferred closes;
`Fail` is a command, query or commit that fails for an outside reason, `CloseFails`
a close that does not reach the server, `Crash` the end of the process.  `OpenFails` is a folder that
cannot be opened: there is no pass, but when it is the second one the first is closed, with its expunge.  The open
transaction is not a variable: its single write becomes visible with the commit, and nothing
else reads the table before.

A copy has a handle: on an IMAP server its uid, in a Maildir the identity of the
file, which stays when the file is renamed; the uid in the name is a field of
the copy.  `Readdirnames` is in no order, so unnumbered files get the temporary
uids in any order.  A message body is a model value; `Blank` is the empty body
that `ReadMessage` returns for a uid the server no longer has.  Flags are sets of
Maildir letters, and the conversions to and from IMAP flags drop the letters
that have none (`Mapped`).  `addFlags` is modelled as it is written: it adds the
letters of the word "newflags".

`deletemode` "trash" is refused by the configuration check, and the tests set it
directly; its branch is modelled: an error of `SetFlags`, for whatever reason, is shadowed there, and the row is deleted all the same.

Assumed of the outside: a server with UIDPLUS never hands a uid out twice and
keeps UIDVALIDITY; a mail client does not undelete (a message it flagged Deleted
may go); a delivered message is new.

### The scheduler

`loop` is "select", "scan" (the two nested loops after `<-sched`), "start" (a free folder was found and the lock
released, the goroutine is not started yet; timers may take the lock in between) or "refill" (a
result was taken and `sched <- true` is next).  For every folder `running`, `sending`
and `armed` count the goroutines inside the pass, those blocked on `c`, and the timers
that have not fired; `waking` counts the timers blocked on `sched`.  A rendezvous on the
unbuffered channel is the one step `Result`.  The count of `interactions`
(`syncgroup.go:258-268`) is left out, as the program passes -1.

### The abstract specifications

`TwoWaySync` knows for each store the messages it holds, the messages ever delivered, those a mail client
gave up (deleted or flagged Deleted), and the message a pass has in its hand.  A pass reads a message a
store holds, then adds it to the other store or loses it; and it drops messages that were given up.  Uids,
lists, rows, flags, the order of steps and all errors are gone.  The mapping: `held` are the messages with a
copy, `hand` is `cur.msg` between `ReadMessage` and `AddMessage`.  An empty message (`Blank`) is none.

`SyncPool` knows for each folder whether it is free, in work or at rest.  A sync that waits to report is still
in work, a used folder that no goroutine has is at rest.

### The stores and the choice of folders

`pass[w]` is the goroutine of one folder of one syncgroup: `pc` is its next step, `at` the store it opens.
A step is one command, or one read or write of a file:

    idle -> open -> ... -> open -> ... -> list -> work -> idle
    IMAP:     open -> [create ->] select -> saved -> [createSaved -> fillSaved ->] connect -> opened
    Maildir:  open -> read -> compare -> opened
    Maildir, new:  open -> read -> compare -> [createMd -> fillMd -> createDir -> fillDir ->] slice -> append -> read -> ...

The mutex of an `ImapStore` is held in the steps of the second line (`Locked`).  `slice` and `append` are the
read and the write of `m.folders` by goroutines without a lock: what another appended in between is lost.

An identity is a number: `tag` is the UIDVALIDITY of a mailbox or the folderuid file in the Maildir, `meta` the file of
the metadata directory, each possibly missing (`NoFile`) or created and not yet written (`Empty`).  A new
identity is `fresh`: a server never repeats a UIDVALIDITY of a name, a generated folderuid is a random one.
The history says what the properties are about: `first` (the identity of the first pass), `hurt` (folders that a
failure, a kill or somebody else disturbed), `overtaken` (goroutines whose folder somebody touched since they
started), `chosen` (the last choice of folders).

`Restart` is the end of the program and its next start, possibly with another value of the option -n; the stores and the files
outlive it.  `Fail` is a command or file operation whose error is returned; `MkdirFails` and `WriteMaildirFileFails` are the
two errors of `CreateFolder` that are not (`maildirstore.go:191` logs one, `:221` drops the other).

Abstracted: the three directories of a Maildir folder are one step; a file that exists can be read; listing
the folders of a store is one step; a pattern is the set of folders it matches; folder names are values.

## What TLC checks

| Run | Shows | Size |
|---|---|---|
| `ImapFaults` | two servers, delete modes expunge and none, operations of all kinds, 2 failures or crashes: all safety properties, and `TwoWaySync` implemented | 379,861 states |
| `ImapConverges` | two servers, 4 operations of all kinds but setting T, 1 failure or crash: `InSyncUnlessOrphaned`, `DeletionsPropagate` | 319,161 states |
| `MaildirMirror` | a Maildir that only the server feeds, all modes but none, and dry run, 1 failure: the same, and `OnlyExpungeRemoves` | 82,514 states |
| `SchedulerThree` | 3 folders, 2 at a time: safety, `SyncPool` implemented, and `SyncsUnlessWedged` | 8,397 states |
| `Stores` | one syncgroup of a server and a Maildir with two folders, a mail client or renumbering, a failure or kill with restart, dry run or not; and two syncgroups that share the server: all store properties and `FoldersAreOpened` | 419,969 states |
| `MaildirNewUids` | *violated*: two new Maildir messages get one uid | finding |
| `MaildirUidReuse` | *violated*: a reused Maildir uid loses a message | finding |
| `FlagMode` | *violated*: deletemode flag ends the pass with an error | finding |
| `DryRun` | *violated*: a dry run expunges | finding |
| `DeletedOnBoth` | *violated*: nothing fails; a message deleted on both stores leaves a row that stops the folder for good | finding |
| `SchedulerWedge` | *violated*: the loop blocks on its own channel | finding |
| `SharedMaildir` | *violated*: two syncgroups that share a new Maildir open a folder that is half created | finding |

`MaildirMirror` leaves out deliveries to the Maildir and deletemode none, because those are where
the Maildir's uids collide: a delivery needs a final uid (`MaildirNewUids`), and in deletemode none a row
outlives its file and the uid is handed out again (the same defect as in `MaildirUidReuse`).

Every property of a passing run has a mutant in `PROJECT.json`: a plausible bug in one mapped definition,
kept beside it under a comment that starts with "Wrong:", with which TLC finds the property violated.

The properties, each stated with the behaviour it is about in the module:

* `PairingSound`, `RowsOneToOne`: a row never pairs different messages, a uid has
  one row.  Everything a pass infers rests on these two.
* `LastCopyKept` (action): a store loses its last copy of a message only if a mail
  client deleted a copy or flagged one Deleted.
* `DuplicatesBounded`: at most one more copy for every failure.
* `CleanPassConverges`: an undisturbed pass that ends without an error leaves equal stores
  and an exact table.  `CleanAbortMeansOrphan`: the only error of an undisturbed pass is
  an orphan row.
* `OnlyExpungeRemoves` (action).
* `InSyncUnlessOrphaned` (liveness): once the mail clients are quiet the stores become and stay alike, or some row's message is gone
  from both for good.  The exception is the code's: a message deleted on both stores between two passes, or a failure after a
  deletion, leaves such a row (`HasOrphan`), and `DeleteMessage` refuses it in every later pass.  Without the exception
  the property is `EventuallyInSync`, which `DeletedOnBoth` violates without any failure.  With deletions on
  store 1 only it holds without failures, and one failed command or crash violates it (both checked, not runs of their own).
* `DeletionsPropagate` (liveness): without failures, what a mail client deletes on either store, at any point of a pass, is
  eventually gone from both and never comes back; with the same exception.
* `IsTwoWaySync`: every step is one of `TwoWaySync`.  Beside `LastCopyKept` this says that what a pass
  appends was read from the other store in this pass, once.
* `OneSyncPerFolder`, `WithinConcurrentsyncs`, `NoLostWakeup`, `SyncsUnlessWedged`, and `KeepsThePool`: every step
  is one of `SyncPool`.
* `IdentityKept`: a goroutine in work, unless overtaken, works under the identity the folder was first
  synchronised under, and that is still the store's.
* `OnlyHurtFoldersAreRefused`: the two sides of an identity disagree, or one is empty, only for a folder that was
  disturbed or is being created; the races between goroutines alone never do this.
* `OnlyAcceptedFoldersAreOpened`: a folder is opened only if a store accepts it that had it when the syncgroup was made and
  still lists it, and never if a store that had it then refuses it.  It does not say that a store never gets a folder it
  refuses, which is false (see the divergences below).
* `FlagGroupsNeverExpunge`: a goroutine of a syncgroup with deletemode flag never has a folder that expunges.  Other
  syncgroups that name the store stop expunging as well, as `examples/gomailsyncrc:120` announces.
* `RestartsChooseAlike` (action): a restart chooses the folders of the last start again, except those that were created
  in a store whose patterns refuse them, which it drops.
* `FoldersAreOpened` (liveness): every chosen folder is worked on again and again, or is refused for a reason that
  stays (`Refused`).

### Bounds

`MaxUserOps` and `MaxFaults` bound what the outside does; passes are not bounded. `MaxUID` is large
enough that no run meets it for another reason than these two, which `math.MaxUint32` is in the
program.  In `MaildirFolder` it also bounds the files: a step that makes a file or gives a uid needs a free one
(`FreeFiles`, `Listed(s) # UID`); a file system never runs out of the names `generateFilename` makes.  Two messages and three operations let a message be added, changed and
deleted on both sides around one failure, which is what every counterexample found so far
needed (at most four operations, no or one failure).  In `ImapConverges` mail clients do not set T (`UserFlag`): a
T set during a pass may be overwritten by that pass with the flags it listed before, so that deletion is taken back, and `DeletionsPropagate`
would not hold of it; deletions are removals there. `ImapFaults` was also run with
four operations and `MaxUID` 7 in deletemode expunge (2.8 million states): no difference.
`MaxWaking` bounds the timers that wait at once. `SyncsUnlessWedged` was also
checked for (folders, concurrentsyncs) = (2,2), (3,3) and (4,2).

`Stores` has one mail client operation (`MaxOps`) on the first folder (`OpsOnF1`) and one failure or kill
(`MaxFaults`), at any step of either goroutine; the second folder is there to race with.  With operations on
both folders the single syncgroup was checked as well (498,987 to 594,061 states, by the option -n): no difference.
In the situations of two syncgroups (`TwoSyncgroups`) the mail clients are quiet and there is one folder, because those
are about what the syncgroups do to each other: the order of creation, the shared `Expunge`, and two
store objects of one server.  Restarts count as failures and everything else repeats for ever, so a torn
folder is met again by every later pass.

`SchedulerThree` and `SchedulerWedge` do not check for deadlock, because the loop blocked on its own channel
is one. `Stores` and `SharedMaildir` do not, because a program whose syncgroups have no folder, or failed, has
nothing to do. No other run turns the check off.

### Fairness

`FairSpec` of `SyncFolder`: the scheduler starts passes again and again (`StartSync`) and a
started pass goes on by itself, because every command returns or fails (`SyncStep`); the first takes a
scheduler that is not wedged for granted;
mail clients, failures and crashes have none.

`FairSpec` of `Scheduler`: a pass ends and a timer fires in the end.  A Go select with several ready
cases takes one at random, and senders blocked on a channel are served in order, so `Schedule`,
`Result` and `TimerWakes` have strong fairness; `TimerFires` has it because `MaxWaking` may delay it, which
the program does not.

`FairSpec` of `Syncgroup`: main goes on (`NewStore1`, `NewStore2`); a goroutine's next step is taken, because the
scheduler starts folders again and again and a call returns (`Step`).  `ImapLock` has strong fairness: a Go mutex
hands itself to a waiter after a millisecond, so a goroutine gets it although others take it in between.  Mail clients, failures and
kills have none.

With `concurrentsyncs` 1 `SyncsUnlessWedged` does not hold: a scan starts at the folder that
was started last, and when that folder's timer fires before the next scan it is started
again. That takes an interval shorter than the loop's own step; 0 is accepted by
`config.go:229`, whose message says "must be positive".

## What TLAPS proves

`SyncFolderProofs`, for any messages, settings, operation and failure bounds, any `MaxUID`, and two
IMAP servers (`AllImap`):

* `TypeCorrect`: `Spec => []TypeOK`
* `RowsPairEqualMessages`: `Spec => []PairingSound`
* `OneRowPerUid`: `Spec => []RowsOneToOne`
* `NoMessageLost`: `Spec => LastCopyKept`

None of the properties is inductive.  The invariant `IInv` adds what a pass relies on:

* `BoxInv`, `ListInv`, `RowInv`: every uid in a mailbox, a list or a row was handed out by the
  server, is not 0, and is below `uidnext`.  So a fresh uid meets no old row, and the 0 of
  `GetDststoreUID` meets no message.
* `PairInv`: the copies of a row are the same message, and where one of them is gone the other may
  go.  This gives `PairingSound`, and with `CoverInv` `LastCopyKept`.
* `CoverInv`: while a direction is worked on, a row's message that is not in the list is really gone.  Appended
  messages are listed, so direction 2 does not take them for deleted.
* `TodoInv`, `CurInv`: what is still to do, and the message in hand, are what the queries said,
  although the stores moved on.

`NextInv` has one lemma per action; `ServerAppend`, `ServerStore` and the folder operations have lemmas
of their own on what they leave alone.

`PassProofs`, under the same assumptions, on a pass that nothing disturbed:

* `PassesConverge`: `Spec => []CleanPassConverges`
* `OnlyOrphansAbort`: `Spec => []CleanAbortMeansOrphan`

Both properties speak of the end of a pass only.  `PassInv` says what holds before: a list shows what its store holds
(`Faithful`); what the current direction still has to do is in `todo` or in hand (`LeftInv`); the second direction does
not undo what the first one reached, since a message appended by the first has its row and is listed (`ReachedInv`);
flags in hand are those of both copies when the row is written (`HandInv`, which needs `MappedInv`: a server stores no letter it
lacks, so nothing is lost on the way back).  At the end nothing is left, hence `Settled`, and `SettledInSync` counts: the rows are
a bijection between the live copies of the two stores, so each message is there equally often.  For the
other theorem `AbortedInv` follows every error return; only the one of `DeleteMessage` is left, where both copies of the row are gone.

`CopyProofs`, under the same assumptions: `CopiesBounded`, `Spec => []DuplicatesBounded`.  To count copies is not enough: a message
may be on one store, about to be added, and then on both, without a fault.  `Strands` counts what a pass takes for
different messages: the rows that have a copy of it, the copies without a row, and the message in hand.  A delivery starts the
only strand of a message, `CommitNew` joins two strands, and only a fault between `AddMessage` and the commit leaves one more (`StrandInv`).
Each store has at most one copy per strand.  `RowGoesInv` is why a deleted row does not split one.

`MaildirProofs`, for any two stores, two Maildirs included, without an assumption:

* `AnyKindTypeCorrect`: `Spec => []TypeOK`
* `OnlyExpungeTakesCopies`: `Spec => OnlyExpungeRemoves`

The other properties are false for a Maildir in general: `MaildirNewUids` and `MaildirUidReuse` show a uid that is given
twice, and one that is given again while a row still has it.  They are true of a mirror (`IsMirror`): store 1 is the Maildir and store 2 the
server, nothing is delivered to the Maildir, and deletemode is not none, except in a dry run, as in `MaildirMirror`.  No
condition can be dropped: the two runs violate one each (a delivery; the Maildir as store 2), and in deletemode none
rows keep the uids of files that are gone.

* `MirrorPairsEqualMessages`: `Spec => []PairingSound`
* `MirrorHasOneRowPerUid`: `Spec => []RowsOneToOne`
* `MirrorLosesNoMessage`: `Spec => LastCopyKept`

`IInv` is of no use here, as `BoxInv` needs uids that grow.  In its place `MInv` says why a uid that is given again is free of
every trace of the old message:

* `CopyInv`: no two files have one uid.  `FilesListed`: while the pass works every file is listed, since
  only the pass adds files; so the lowest uid that is not listed is the uid of no file.
* `OrderInv`: when the pass adds the server's messages to the Maildir every row has its uid there listed, since the
  direction before deleted the rows whose file is gone.  So that uid is in no row either.  With the Maildir as store 2 the two directions come
  in the other order, and this is what fails.
* `EntryInv`: an entry of the list names the file of its uid or one that is gone; `NewFile` is never a name that an entry still has.
* `MatchInv`: the copies under the two uids of a row are the same message, and where one of them is gone the other may go.
* `ServerInv`, `WorkInv`, `InHandInv`: as `CoverInv`, `TodoInv`, `CurInv` above.

Two lemmas carry the steps: `FadesKeeps` (copies only lose what is released) and `AppearsKeeps` (one copy comes under a
uid without a trace).  Every step but `AddNew` and a delivery fades.

`TwoWaySyncProofs`: `ImplementsTwoWaySync`, for two servers, and `MirrorIsTwoWaySync`, for the mirror: `Spec => IsTwoWaySync`.  One
lemma per kind of step.  Between servers, from `IInv`: a fresh uid makes `AddMessage` add and never replace (`BoxInv`), and
what `Close` expunges was flagged Deleted by a mail client or for one (`BoxInv` again).  In the mirror, from `MInv`: what is added
appears (`MirrorAddEffect`), every other step of a pass only loses copies in one store (`Loses`), and these were given up (`Kept`).

`SchedulerProofs`, for any number of folders, any `concurrentsyncs` and `MaxWaking`:
`SchedulerTypeCorrect`, `NeverTwoSyncsOfAFolder`, `NeverTooManySyncs`, `WakeupsAreNotLost`, and
`ImplementsSyncPool`, `Spec => KeepsThePool`.  The invariant
`SchedInv` says that a used folder has exactly one holder (a goroutine, the loop, or a timer: `HolderInv`) and that
a free folder the current scan has passed left a wake-up (`ScanInv`).  `FoundInv` carries the look at `usedfolders` over
to the start of the goroutine: only the loop marks a folder, and timers only free them, so the folder is still free.

`SyncgroupProofs`, for any stores, folders, patterns, syncgroups, operations, failures and kills:

* `SyncgroupTypeCorrect`: `Spec => []TypeOK`
* `OnlyAcceptedFolders`: `Spec => []OnlyAcceptedFoldersAreOpened`.  `ChoiceInv`: a goroutine is busy only with a folder
  its running syncgroup chose, and none it chose is excluded, since `m.folders` grows and `Excluded` does not.  `StartedInv`: the
  lists the choice was made from are still part of `m.folders` and of every slice a goroutine is about to write
  back (`StartedFrom`), so a lost append loses only what was appended.
* `FlagGroupsDoNotExpunge`: `Spec => []FlagGroupsNeverExpunge`.  `ExpungeInv`: the configuration of the store is cleared
  before the first folder is opened, and nothing but a restart sets it again.
* `OneIdentity`: `NotShared => (Spec => []IdentityKept)`, where `NotShared` says that every store belongs to one
  syncgroup, once.  `WorkInv` says for every goroutine and store what is known at each step: the first identity is the
  one in the metadata and never again changed; what was opened is what the metadata say; what is in hand is what
  the store said, unless overtaken; and a file is written only where there was none.  The assumption is
  needed: `SharedMaildir` violates the property without it.  It keeps the goroutines apart (`Apart`: no other one has
  this folder of this store), so a step needs to be looked at for its own goroutine only (`OthersKept`).

`RestartProofs`, for any configuration:

* `SameChoiceAfterRestart`: `Spec => RestartsChooseAlike`, without an assumption; the property itself excepts mail clients (`ops`)
  and running syncgroups that share a store (`Alone`).  `RestartInv`: what the syncgroup would choose now is part of its last choice,
  and every folder of that choice is still on one of the stores (`StillChosen`), also while it creates folders and after a kill.
* `RefusalTakesDisturbance`: `OwnMaildirs => (Spec => []OnlyHurtFoldersAreRefused)`, where `OwnMaildirs` says that a Maildir belongs
  to one syncgroup, once; servers may be shared.  `SharedMaildir` shows why: a second syncgroup meets a Maildir folder in the
  middle of its creation.  `RefusalInv` says for a folder that was not disturbed which combinations of its two files exist, and
  which goroutine is about to complete the torn ones (`MailboxInv`, `MaildirInv`), and what a goroutine in the middle of a
  creation knows (`ImapHand`, `MaildirHand`).  Two goroutines of different syncgroups at one mailbox write the same value.

What is only model-checked: liveness (`InSyncUnlessOrphaned`, `DeletionsPropagate`, `SyncsUnlessWedged`, `FoldersAreOpened`), which TLAPS
cannot prove from fairness; and, for the mirror, `DuplicatesBounded`, `CleanPassConverges` and `CleanAbortMeansOrphan`.

## Findings

Each violated run has its entry in `PROJECT.json`.  Divergences without a run:

* `examples/gomailsyncrc:66` gives true as the default of `expunge`, `config.go:93` leaves it false.
* `config.go:229` accepts the interval 0, its message says "must be positive".
* `examples/gomailsyncrc:69` says "Accept only the folders that matches all the Regexp Patterns."; a folder that
  only the other store has is created and synchronised on a store whose patterns refuse it (`mergeFolders`,
  `syncgroup.go:74`), until the next start excludes it.  `OnlyAcceptedFoldersAreOpened` and `RestartsChooseAlike` describe exactly this.
* `maildirstore.go:223` says "Remove previous file"; it never happens, as the error of the write before (`:221`) is dropped.
* `gomailsync.go:34` says "Do not execute sync actions but just log what will be done"; a dry run creates mailboxes,
  because `NewImapStore` (`imapstore.go:201`) does not keep its parameter `dryrun`.

## Not modelled, and the plan

Not modelled:

* folder names and their translation to paths and separators (`FolderToStorePath`), regular expressions: data without
  state; a folder is a value, a pattern the set it matches;
* a read of an existing file that fails: `imapstore.go:146` takes any error of `os.Open` for a first use and
  then accepts whatever UIDVALIDITY the server has;
* the reconnect of `ImapFolder.getImapClient`, which shows as a failed command only: a mailbox replaced in the middle
  of a pass is not noticed, and `IdentityKept` leaves such passes out (`overtaken`);
* a folder that is removed while `filepath.Walk` goes through a Maildir;
* reading and checking the configuration, whose accepted values are the constants of the modules; logging, error
  wrapping, the mock server of the tests; the options -l and the end of the program.

Left of the plan:

1. For the mirror: `CleanAbortMeansOrphan` and `CleanPassConverges` (`Faithful` for a list that names files), then `DuplicatesBounded`
   (`Strands` over files).
2. Liveness in the abstract specifications: `TwoWaySync` with the promise that what one store holds the other will.
