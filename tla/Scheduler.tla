------------------------------ MODULE Scheduler ------------------------------
(***************************************************************************)
(* Syncgroup.Sync: the loop that keeps a bounded number of folders in work,*)
(* the SyncFolderWrapper goroutines that report to it on the unbuffered    *)
(* channel c, and the timer goroutines that free a folder when its interval*)
(* is over and wake the loop through sched, a channel with room for one.   *)
(***************************************************************************)
EXTENDS Integers, FiniteSets

CONSTANTS
    N,                  \* len(folders)
    Concurrentsyncs,    \* the option of the syncgroup, a uint8
    MaxWaking           \* bound: timer goroutines that wait at once

Folder == 0 .. N - 1

ASSUME NAssumption == N \in Nat
ASSUME ConcurrentsyncsAssumption == Concurrentsyncs \in 0 .. 255
ASSUME MaxWakingAssumption == MaxWaking \in Nat \ {0}

MaxConcurrentSyncs ==
    IF Concurrentsyncs > N THEN N
    ELSE IF Concurrentsyncs < 1 THEN 1 ELSE Concurrentsyncs

VARIABLES
    usedfolders,    \* usedfolders[f]: f is in work, or waits for its interval
    folderindex,    \* where the next scan starts
    syncscount,     \* the syncs the loop believes to run, a uint8
    sched,          \* tokens in the buffer of sched
    loop,           \* the loop is at "select", "scan", "start" or "refill"
    scanned,        \* i: the folders the current scan has passed
    finished,       \* result.Folderindex, while the loop is at "refill"
    running,        \* running[f]: goroutines inside SyncFolder(f)
    sending,        \* sending[f]: those that wait for the loop at out <- result
    armed,          \* armed[f]: timers of f that did not fire yet
    waking          \* timer goroutines that wait at sched <- true

vars == <<usedfolders, folderindex, syncscount, sched, loop, scanned, finished,
          running, sending, armed, waking>>

TypeOK ==
    /\ usedfolders \in [Folder -> BOOLEAN]
    /\ folderindex \in Folder \cup {0}
    /\ syncscount \in 0 .. 255
    /\ sched \in {0, 1}
    /\ loop \in {"select", "scan", "start", "refill"}
    /\ scanned \in 0 .. N
    /\ finished \in Folder \cup {0}
    /\ running \in [Folder -> Nat]
    /\ sending \in [Folder -> Nat]
    /\ armed \in [Folder -> Nat]
    /\ waking \in Nat

None == [f \in Folder |-> 0]

Init ==
    /\ usedfolders = [f \in Folder |-> FALSE]
    /\ folderindex = 0
    /\ syncscount = 0
    /\ sched = 1
    /\ loop = "select"
    /\ scanned = 0
    /\ finished = 0
    /\ running = None
    /\ sending = None
    /\ armed = None
    /\ waking = 0
-----------------------------------------------------------------------------
(* Wrong: the result is taken without syncscount--.                        *)
ResultUncounted(f) ==
    /\ loop = "select"
    /\ sending[f] > 0
    /\ sending' = [sending EXCEPT ![f] = @ - 1]
    /\ finished' = f
    /\ loop' = "refill"
    /\ UNCHANGED <<usedfolders, folderindex, syncscount, sched, scanned,
                   running, armed, waking>>

(* case result := <-c, up to the send on sched, which may have to wait.    *)
Result(f) ==
    /\ loop = "select"
    /\ sending[f] > 0
    /\ sending' = [sending EXCEPT ![f] = @ - 1]
    /\ syncscount' = (syncscount - 1) % 256
    /\ finished' = f
    /\ loop' = "refill"
    /\ UNCHANGED <<usedfolders, folderindex, sched, scanned, running, armed, waking>>

(* sched <- true, then time.AfterFunc.                                     *)
Refill ==
    /\ loop = "refill"
    /\ sched = 0
    /\ sched' = 1
    /\ armed' = [armed EXCEPT ![finished] = @ + 1]
    /\ loop' = "select"
    /\ UNCHANGED <<usedfolders, folderindex, syncscount, scanned, finished,
                   running, sending, waking>>

(* case <-sched.                                                           *)
Schedule ==
    /\ loop = "select"
    /\ sched = 1
    /\ sched' = 0
    /\ scanned' = 0
    /\ loop' = "scan"
    /\ UNCHANGED <<usedfolders, folderindex, syncscount, finished, running,
                   sending, armed, waking>>

(* Wrong: the index runs past the last folder, or stays where it is.       *)
ScanUsedPast ==
    /\ loop = "scan"
    /\ syncscount < MaxConcurrentSyncs
    /\ scanned < N
    /\ usedfolders[folderindex]
    /\ folderindex' = folderindex + 1
    /\ scanned' = scanned + 1
    /\ UNCHANGED <<usedfolders, syncscount, sched, loop, finished, running,
                   sending, armed, waking>>

ScanUsedInPlace ==
    /\ loop = "scan"
    /\ syncscount < MaxConcurrentSyncs
    /\ scanned < N
    /\ usedfolders[folderindex]
    /\ scanned' = scanned + 1
    /\ UNCHANGED <<usedfolders, folderindex, syncscount, sched, loop, finished,
                   running, sending, armed, waking>>

(* One look at usedfolders under the lock: the folder is passed over ...   *)
ScanUsed ==
    /\ loop = "scan"
    /\ syncscount < MaxConcurrentSyncs
    /\ scanned < N
    /\ usedfolders[folderindex]
    /\ folderindex' = IF folderindex + 1 >= N THEN 0 ELSE folderindex + 1
    /\ scanned' = scanned + 1
    /\ UNCHANGED <<usedfolders, syncscount, sched, loop, finished, running,
                   sending, armed, waking>>

(* ... or found, and the lock is released before the sync starts.          *)
ScanFree ==
    /\ loop = "scan"
    /\ syncscount < MaxConcurrentSyncs
    /\ scanned < N
    /\ ~usedfolders[folderindex]
    /\ loop' = "start"
    /\ UNCHANGED <<usedfolders, folderindex, syncscount, sched, scanned, finished,
                   running, sending, armed, waking>>

(* Wrong: the folder is not marked.                                        *)
StartFolderUnmarked ==
    /\ loop = "start"
    /\ running' = [running EXCEPT ![folderindex] = @ + 1]
    /\ syncscount' = (syncscount + 1) % 256
    /\ scanned' = 0
    /\ loop' = "scan"
    /\ UNCHANGED <<usedfolders, folderindex, sched, finished, sending, armed, waking>>

(* The goroutine of the folder that was found, whoever held the lock in    *)
(* between; then the next scan begins, from this folder.                   *)
StartFolder ==
    /\ loop = "start"
    /\ running' = [running EXCEPT ![folderindex] = @ + 1]
    /\ usedfolders' = [usedfolders EXCEPT ![folderindex] = TRUE]
    /\ syncscount' = (syncscount + 1) % 256
    /\ scanned' = 0
    /\ loop' = "scan"
    /\ UNCHANGED <<folderindex, sched, finished, sending, armed, waking>>

(* Enough syncs run, or no folder was found.                               *)
ScanEnds ==
    /\ loop = "scan"
    /\ syncscount >= MaxConcurrentSyncs \/ scanned = N
    /\ loop' = "select"
    /\ UNCHANGED <<usedfolders, folderindex, syncscount, sched, scanned,
                   finished, running, sending, armed, waking>>

(* SyncFolder returns, with an error or without.                           *)
SyncReturns(f) ==
    /\ running[f] > 0
    /\ running' = [running EXCEPT ![f] = @ - 1]
    /\ sending' = [sending EXCEPT ![f] = @ + 1]
    /\ UNCHANGED <<usedfolders, folderindex, syncscount, sched, loop, scanned,
                   finished, armed, waking>>

(* Wrong: the folder is freed and the loop is not woken.                   *)
TimerFiresSilently(f) ==
    /\ armed[f] > 0
    /\ armed' = [armed EXCEPT ![f] = @ - 1]
    /\ usedfolders' = [usedfolders EXCEPT ![f] = FALSE]
    /\ UNCHANGED <<folderindex, syncscount, sched, loop, scanned, finished,
                   running, sending, waking>>

(* The interval of f is over: the folder is free, then the loop is woken.  *)
TimerFires(f) ==
    /\ armed[f] > 0
    /\ waking < MaxWaking
    /\ armed' = [armed EXCEPT ![f] = @ - 1]
    /\ usedfolders' = [usedfolders EXCEPT ![f] = FALSE]
    /\ waking' = waking + 1
    /\ UNCHANGED <<folderindex, syncscount, sched, loop, scanned, finished,
                   running, sending>>

TimerWakes ==
    /\ waking > 0
    /\ sched = 0
    /\ sched' = 1
    /\ waking' = waking - 1
    /\ UNCHANGED <<usedfolders, folderindex, syncscount, loop, scanned,
                   finished, running, sending, armed>>

Scan == ScanUsed \/ ScanFree \/ StartFolder \/ ScanEnds

Next ==
    \/ Schedule \/ Scan \/ Refill \/ TimerWakes
    \/ \E f \in Folder : Result(f) \/ SyncReturns(f) \/ TimerFires(f)

Spec == Init /\ [][Next]_vars

(* A sync ends and a timer fires in the end.  A select with several ready  *)
(* cases takes one at random and blocked senders queue up, so none of them *)
(* is passed over for ever; nor is a timer that the bound delays.          *)
FairSpec ==
    /\ Spec
    /\ WF_vars(Scan) /\ WF_vars(Refill) /\ SF_vars(Schedule) /\ SF_vars(TimerWakes)
    /\ \A f \in Folder : /\ SF_vars(Result(f))
                         /\ WF_vars(SyncReturns(f))
                         /\ SF_vars(TimerFires(f))
-----------------------------------------------------------------------------
(* A folder is never synchronised by two goroutines at once, nor while it  *)
(* waits for its interval: they would both add its new messages and write  *)
(* the same syncstatus.  The flag of usedfolders is the only guard, and the*)
(* loop acts on what it said before the lock was released and taken again. *)
OneSyncPerFolder ==
    \A f \in Folder :
        running[f] + sending[f] + armed[f] <= IF usedfolders[f] THEN 1 ELSE 0

Busy == {f \in Folder : running[f] + sending[f] > 0}

(* syncscount, counted up and down in a uint8, is the number of folders    *)
(* whose goroutine did not report yet, and never exceeds the option.       *)
WithinConcurrentsyncs ==
    syncscount = Cardinality(Busy) /\ syncscount <= MaxConcurrentSyncs

(* When the loop sleeps while a sync could be started, a wake-up is on its *)
(* way: a folder freed behind the back of the scan is not forgotten.       *)
NoLostWakeup ==
    /\ loop = "select"
    /\ syncscount < MaxConcurrentSyncs
    /\ \E f \in Folder : ~usedfolders[f]
    => sched = 1 \/ waking > 0

(* A folder as the promise sees it: its sync ends when the loop takes the  *)
(* result, and its rest when the timer clears the flag.                    *)
PoolState ==
    [f \in Folder |-> IF f \in Busy THEN "syncing"
                      ELSE IF usedfolders[f] THEN "resting" ELSE "free"]

Pool == INSTANCE SyncPool WITH Limit <- MaxConcurrentSyncs, state <- PoolState

(* The loop, its goroutines and timers keep the promise of a pool: a sync  *)
(* starts on a free folder while fewer than the limit are in work, every   *)
(* sync is followed by a rest, and nothing but its own timer ends the rest *)
(* of a folder, whichever of the goroutines is the faster one.             *)
KeepsThePool == Pool!Spec

(* The loop waits for room in sched, which only the loop itself can make.  *)
Wedged == loop = "refill" /\ sched = 1

(* Every folder is synchronised again and again ...                        *)
FoldersKeepSyncing == \A f \in Folder : []<>(running[f] > 0)

(* ... unless the loop blocks on its own channel.  Nothing else stops it   *)
(* when two folders may be in work at once.                                *)
SyncsUnlessWedged == <>[]Wedged \/ FoldersKeepSyncing
=============================================================================
