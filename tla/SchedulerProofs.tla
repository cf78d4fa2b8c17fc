--------------------------- MODULE SchedulerProofs ---------------------------
(***************************************************************************)
(* The safety of the scheduler, for any number of folders, any value of    *)
(* concurrentsyncs and any number of waiting timers.                       *)
(***************************************************************************)
EXTENDS Scheduler, FiniteSetTheorems, TLAPS

(* Who holds the flag of f: a goroutine, the loop that received its result,*)
(* or the timer that will clear the flag.  There is exactly one.           *)
Holders(f) ==
    running[f] + sending[f] + armed[f]
        + IF loop = "refill" /\ finished = f THEN 1 ELSE 0

HolderInv ==
    /\ loop = "refill" => finished \in Folder
    /\ \A f \in Folder : Holders(f) = IF usedfolders[f] THEN 1 ELSE 0

(* The scan comes back to f after all the others: it looked at it already. *)
Passed(f) ==
    scanned >= IF f < folderindex THEN folderindex - f ELSE folderindex + N - f

Woken == sched = 1 \/ waking > 0

(* A folder the scan passed over and that is free now left a wake-up.      *)
ScanInv ==
    loop = "scan" => \A f \in Folder : Passed(f) /\ ~usedfolders[f] => Woken

(* Only a timer clears a flag and only the loop sets one, so what the loop *)
(* found under the lock is still so when it takes the lock again.          *)
FoundInv ==
    loop = "start" => /\ ~usedfolders[folderindex]
                      /\ folderindex \in Folder
                      /\ syncscount < MaxConcurrentSyncs

SchedInv ==
    /\ TypeOK
    /\ HolderInv
    /\ FoundInv
    /\ ScanInv
    /\ NoLostWakeup
    /\ WithinConcurrentsyncs
-----------------------------------------------------------------------------
USE NAssumption, ConcurrentsyncsAssumption, MaxWakingAssumption

LEMMA Limit == MaxConcurrentSyncs \in 0 .. 255
BY DEF MaxConcurrentSyncs

(* No two goroutines, and no goroutine and timer, have the same folder.    *)
LEMMA AtMostOne ==
    ASSUME TypeOK, HolderInv
    PROVE  OneSyncPerFolder
<1> SUFFICES ASSUME NEW f \in Folder
             PROVE  running[f] + sending[f] + armed[f]
                        <= IF usedfolders[f] THEN 1 ELSE 0
  BY DEF OneSyncPerFolder
<1>1. running[f] \in Nat /\ sending[f] \in Nat /\ armed[f] \in Nat
  BY DEF TypeOK
<1> QED
  BY <1>1 DEF HolderInv, Holders

LEMMA SchedInitInv == Init => SchedInv
<1> SUFFICES ASSUME Init PROVE SchedInv
  OBVIOUS
<1> USE DEF Init, None
<1>1. TypeOK
  BY DEF TypeOK
<1>2. HolderInv /\ FoundInv /\ ScanInv /\ NoLostWakeup
  BY DEF HolderInv, Holders, FoundInv, ScanInv, NoLostWakeup
<1>3. Busy = {}
  BY DEF Busy
<1>4. WithinConcurrentsyncs
  BY <1>3, Limit, FS_EmptySet DEF WithinConcurrentsyncs
<1> QED
  BY <1>1, <1>2, <1>4 DEF SchedInv

(* What a step needs to know of the busy folders.                          *)
LEMMA BusyFacts ==
    ASSUME TypeOK
    PROVE  IsFiniteSet(Busy) /\ Cardinality(Busy) \in Nat
<1>1. IsFiniteSet(Folder)
  BY FS_Interval DEF Folder
<1>2. Busy \in SUBSET Folder
  BY DEF Busy
<1> QED
  BY <1>1, <1>2, FS_Subset, FS_CardinalityType

(* At most one of four counters that make at most one is not zero.         *)
LEMMA OneOfFour ==
    ASSUME NEW a \in Nat, NEW b \in Nat, NEW c \in Nat, NEW d \in {0, 1}
    PROVE  /\ a + b + c + d = 0 => a = 0 /\ b = 0 /\ c = 0
           /\ a + b + c + d = 1 /\ b > 0 => b = 1 /\ a = 0 /\ c = 0
           /\ a + b + c + d = 1 /\ c > 0 => c = 1 /\ a = 0 /\ b = 0 /\ d = 0
  BY SMT

(* A flag that is clear has no holder, a timer or a sender is the only one.*)
LEMMA HolderFacts ==
    ASSUME TypeOK, HolderInv, NEW f \in Folder
    PROVE  /\ running[f] \in Nat /\ sending[f] \in Nat /\ armed[f] \in Nat
           /\ ~usedfolders[f] => running[f] = 0 /\ sending[f] = 0 /\ armed[f] = 0
           /\ sending[f] > 0 => /\ usedfolders[f] /\ sending[f] = 1
                                /\ running[f] = 0 /\ armed[f] = 0
           /\ armed[f] > 0 => /\ armed[f] = 1 /\ running[f] = 0 /\ sending[f] = 0
                              /\ ~(loop = "refill" /\ finished = f)
<1>1. running[f] \in Nat /\ sending[f] \in Nat /\ armed[f] \in Nat
  BY DEF TypeOK
<1> DEFINE held == IF loop = "refill" /\ finished = f THEN 1 ELSE 0
<1>2. held \in {0, 1}
  OBVIOUS
<1>3. running[f] + sending[f] + armed[f] + held = IF usedfolders[f] THEN 1 ELSE 0
  <2>1. Holders(f) = IF usedfolders[f] THEN 1 ELSE 0
    BY DEF HolderInv
  <2>2. Holders(f) = running[f] + sending[f] + armed[f] + held
    BY DEF Holders
  <2> QED
    BY <2>1, <2>2
<1>4. held = 0 => ~(loop = "refill" /\ finished = f)
  OBVIOUS
<1> HIDE DEF held
<1>5. usedfolders[f] \in BOOLEAN
  BY DEF TypeOK
<1>6. CASE usedfolders[f]
  <2>1. running[f] + sending[f] + armed[f] + held = 1
    BY <1>3, <1>6
  <2> QED
    BY <2>1, <1>1, <1>2, <1>4, <1>6, OneOfFour
<1>7. CASE ~usedfolders[f]
  <2>1. running[f] + sending[f] + armed[f] + held = 0
    BY <1>3, <1>7
  <2>2. running[f] = 0 /\ sending[f] = 0 /\ armed[f] = 0
    BY <2>1, <1>1, <1>2, OneOfFour, ZenonT(30)
  <2> QED
    BY <2>2, <1>7
<1> QED
  BY <1>5, <1>6, <1>7

LEMMA ResultInv ==
    ASSUME SchedInv, NEW f \in Folder, Result(f)
    PROVE  SchedInv'
<1> USE DEF SchedInv
<1>1. /\ running[f] \in Nat /\ sending[f] \in Nat /\ armed[f] \in Nat
      /\ syncscount \in 0 .. 255
  BY DEF TypeOK
<1>2. /\ loop = "select" /\ sending[f] > 0 /\ loop' = "refill" /\ finished' = f
      /\ sending' = [sending EXCEPT ![f] = @ - 1]
      /\ syncscount' = (syncscount - 1) % 256
      /\ UNCHANGED <<usedfolders, folderindex, sched, scanned, running, armed, waking>>
  BY DEF Result
<1>3. usedfolders[f] /\ sending[f] = 1 /\ running[f] = 0 /\ armed[f] = 0
  BY <1>2, HolderFacts
<1>4. Busy' = Busy \ {f} /\ f \in Busy
  BY <1>1, <1>2, <1>3 DEF Busy, TypeOK
<1>5. Cardinality(Busy') = Cardinality(Busy) - 1
  BY <1>4, BusyFacts, FS_RemoveElement
<1>6. syncscount = Cardinality(Busy) /\ syncscount <= MaxConcurrentSyncs
  BY DEF WithinConcurrentsyncs
<1>7. Cardinality(Busy) >= 1
  <2>1. IsFiniteSet(Busy \ {f}) /\ Cardinality(Busy \ {f}) \in Nat
    BY BusyFacts, FS_RemoveElement, FS_CardinalityType
  <2> QED
    BY <1>4, <1>5, <2>1, BusyFacts
<1>8. syncscount' = syncscount - 1
  BY <1>1, <1>2, <1>6, <1>7
<1>9. TypeOK'
  BY <1>1, <1>2, <1>3, <1>6, <1>7, <1>8 DEF TypeOK
<1>10. HolderInv'
  BY <1>2, <1>3 DEF HolderInv, Holders, TypeOK
<1>11. WithinConcurrentsyncs'
  <2>1. syncscount' = Cardinality(Busy')
    BY <1>5, <1>6, <1>8
  <2>2. syncscount' <= MaxConcurrentSyncs
    BY <1>1, <1>6, <1>8, Limit
  <2> QED
    BY <2>1, <2>2 DEF WithinConcurrentsyncs, MaxConcurrentSyncs
<1> QED
  BY <1>2, <1>9, <1>10, <1>11 DEF FoundInv, ScanInv, NoLostWakeup

LEMMA StartFolderInv ==
    ASSUME SchedInv, StartFolder
    PROVE  SchedInv'
<1> DEFINE f == folderindex
<1> USE DEF SchedInv
<1>1. f \in Folder /\ syncscount \in 0 .. 255 /\ scanned \in 0 .. N
  BY DEF StartFolder, FoundInv, TypeOK, Folder
<1>2. /\ loop = "start" /\ loop' = "scan" /\ syncscount < MaxConcurrentSyncs
      /\ scanned' = 0 /\ ~usedfolders[f]
      /\ running' = [running EXCEPT ![f] = @ + 1]
      /\ usedfolders' = [usedfolders EXCEPT ![f] = TRUE]
      /\ syncscount' = (syncscount + 1) % 256
      /\ UNCHANGED <<folderindex, sched, finished, sending, armed, waking>>
  BY DEF StartFolder, FoundInv
<1> HIDE DEF f
<1>3. running[f] \in Nat /\ sending[f] \in Nat /\ armed[f] \in Nat
  BY <1>1 DEF TypeOK
<1>4. running[f] = 0 /\ sending[f] = 0 /\ armed[f] = 0
  BY <1>1, <1>2, HolderFacts
<1>5. Busy' = Busy \cup {f} /\ f \notin Busy
  BY <1>1, <1>2, <1>4 DEF Busy, TypeOK
<1>6. Cardinality(Busy') = Cardinality(Busy) + 1
  BY <1>5, BusyFacts, FS_AddElement
<1>7. syncscount' = syncscount + 1
  BY <1>1, <1>2, Limit
<1>8. TypeOK'
  BY <1>1, <1>2, <1>7, Limit DEF TypeOK
<1>9. HolderInv'
  BY <1>1, <1>2, <1>4 DEF HolderInv, Holders, TypeOK
<1>10. ScanInv'
  BY <1>1, <1>2 DEF ScanInv, Passed, TypeOK, Folder
<1>11. WithinConcurrentsyncs'
  <2>1. syncscount' = Cardinality(Busy')
    BY <1>6, <1>7 DEF WithinConcurrentsyncs
  <2>2. syncscount' <= MaxConcurrentSyncs
    BY <1>1, <1>2, <1>7, Limit
  <2> QED
    BY <2>1, <2>2 DEF WithinConcurrentsyncs, MaxConcurrentSyncs
<1> QED
  BY <1>2, <1>8, <1>9, <1>10, <1>11 DEF FoundInv, NoLostWakeup

(* Between the look and the start only the loop is bound to the folder.    *)
LEMMA ScanFreeInv ==
    ASSUME SchedInv, ScanFree
    PROVE  SchedInv'
<1> USE DEF SchedInv
<1>1. /\ loop = "scan" /\ loop' = "start" /\ syncscount < MaxConcurrentSyncs
      /\ scanned < N /\ ~usedfolders[folderindex]
      /\ UNCHANGED <<usedfolders, folderindex, syncscount, sched, scanned, finished,
                     running, sending, armed, waking>>
  BY DEF ScanFree
<1>2. TypeOK' /\ HolderInv' /\ ScanInv' /\ NoLostWakeup'
  BY <1>1 DEF TypeOK, HolderInv, Holders, ScanInv, NoLostWakeup
<1>3. folderindex \in Folder
  BY <1>1 DEF TypeOK, Folder
<1>4. FoundInv' /\ WithinConcurrentsyncs'
  BY <1>1, <1>3 DEF FoundInv, WithinConcurrentsyncs, Busy, MaxConcurrentSyncs
<1> QED
  BY <1>2, <1>4

LEMMA ScanUsedInv ==
    ASSUME SchedInv, ScanUsed
    PROVE  SchedInv'
<1> USE DEF SchedInv
<1>1. /\ folderindex \in Folder /\ scanned \in 0 .. N /\ scanned < N
      /\ loop = "scan" /\ usedfolders[folderindex] /\ scanned' = scanned + 1
      /\ folderindex' = IF folderindex + 1 >= N THEN 0 ELSE folderindex + 1
      /\ UNCHANGED <<usedfolders, syncscount, sched, loop, finished, running,
                     sending, armed, waking>>
  BY DEF ScanUsed, TypeOK, Folder
<1>2. TypeOK'
  BY <1>1 DEF TypeOK, Folder
<1>3. HolderInv' /\ FoundInv' /\ NoLostWakeup'
  BY <1>1 DEF HolderInv, Holders, FoundInv, NoLostWakeup
<1>4. ScanInv'
  <2> SUFFICES ASSUME NEW f \in Folder, Passed(f)', ~usedfolders[f]
               PROVE  sched' = 1 \/ waking' > 0
    BY <1>1 DEF ScanInv, Woken
  <2>1. f # folderindex
    BY <1>1
  <2>2. Passed(f)
    BY <1>1, <2>1 DEF Passed, Folder
  <2> QED
    BY <1>1, <2>2 DEF ScanInv, Woken
<1>5. WithinConcurrentsyncs'
  BY <1>1 DEF WithinConcurrentsyncs, Busy, MaxConcurrentSyncs
<1> QED
  BY <1>2, <1>3, <1>4, <1>5

LEMMA ScanEndsInv ==
    ASSUME SchedInv, ScanEnds
    PROVE  SchedInv'
<1> USE DEF SchedInv
<1>1. /\ loop = "scan" /\ loop' = "select"
      /\ syncscount >= MaxConcurrentSyncs \/ scanned = N
      /\ UNCHANGED <<usedfolders, folderindex, syncscount, sched, scanned,
                     finished, running, sending, armed, waking>>
  BY DEF ScanEnds
<1>2. TypeOK' /\ HolderInv' /\ FoundInv' /\ ScanInv'
  BY <1>1 DEF TypeOK, HolderInv, Holders, FoundInv, ScanInv
<1>3. NoLostWakeup'
  <2> SUFFICES ASSUME syncscount < MaxConcurrentSyncs,
                      NEW f \in Folder, ~usedfolders[f]
               PROVE  sched = 1 \/ waking > 0
    BY <1>1 DEF NoLostWakeup, MaxConcurrentSyncs
  <2>1. scanned = N
    BY <1>1, Limit DEF TypeOK
  <2>2. Passed(f)
    BY <2>1 DEF Passed, Folder, TypeOK
  <2> QED
    BY <1>1, <2>2 DEF ScanInv, Woken
<1>4. WithinConcurrentsyncs'
  BY <1>1 DEF WithinConcurrentsyncs, Busy, MaxConcurrentSyncs
<1> QED
  BY <1>2, <1>3, <1>4

LEMMA SyncReturnsInv ==
    ASSUME SchedInv, NEW f \in Folder, SyncReturns(f)
    PROVE  SchedInv'
<1> USE DEF SchedInv
<1>1. /\ running[f] > 0
      /\ running' = [running EXCEPT ![f] = @ - 1]
      /\ sending' = [sending EXCEPT ![f] = @ + 1]
      /\ UNCHANGED <<usedfolders, folderindex, syncscount, sched, loop, scanned,
                     finished, armed, waking>>
  BY DEF SyncReturns
<1>2. running[f] \in Nat /\ sending[f] \in Nat
  BY DEF TypeOK
<1>3. TypeOK'
  BY <1>1, <1>2 DEF TypeOK
<1>4. HolderInv'
  BY <1>1, <1>2 DEF HolderInv, Holders, TypeOK
<1>5. FoundInv' /\ ScanInv' /\ NoLostWakeup'
  BY <1>1 DEF FoundInv, ScanInv, Passed, Woken, NoLostWakeup, MaxConcurrentSyncs
<1>6. Busy' = Busy
  BY <1>1, <1>2 DEF Busy, TypeOK
<1>7. WithinConcurrentsyncs'
  BY <1>1, <1>6 DEF WithinConcurrentsyncs, MaxConcurrentSyncs
<1> QED
  BY <1>3, <1>4, <1>5, <1>7

LEMMA TimerFiresInv ==
    ASSUME SchedInv, NEW f \in Folder, TimerFires(f)
    PROVE  SchedInv'
<1> USE DEF SchedInv
<1>1. /\ armed[f] > 0
      /\ armed' = [armed EXCEPT ![f] = @ - 1]
      /\ usedfolders' = [usedfolders EXCEPT ![f] = FALSE]
      /\ waking' = waking + 1
      /\ UNCHANGED <<folderindex, syncscount, sched, loop, scanned, finished,
                     running, sending>>
  BY DEF TimerFires
<1>2. running[f] \in Nat /\ sending[f] \in Nat /\ armed[f] \in Nat /\ waking \in Nat
  BY DEF TypeOK
<1>3. /\ armed[f] = 1 /\ running[f] = 0 /\ sending[f] = 0
      /\ ~(loop = "refill" /\ finished = f)
  BY <1>1, HolderFacts
<1>4. TypeOK'
  BY <1>1, <1>2 DEF TypeOK
<1>5. HolderInv'
  BY <1>1, <1>2, <1>3 DEF HolderInv, Holders, TypeOK
<1>6. FoundInv' /\ ScanInv' /\ NoLostWakeup'
  <2>1. usedfolders \in [Folder -> BOOLEAN]
    BY DEF TypeOK
  <2>2. FoundInv'
    BY <1>1, <2>1 DEF FoundInv, MaxConcurrentSyncs
  <2> QED
    BY <1>1, <1>2, <2>2 DEF ScanInv, Woken, NoLostWakeup
<1>7. WithinConcurrentsyncs'
  BY <1>1 DEF WithinConcurrentsyncs, Busy, MaxConcurrentSyncs
<1> QED
  BY <1>4, <1>5, <1>6, <1>7

LEMMA SchedNextInv ==
    ASSUME SchedInv, [Next]_vars
    PROVE  SchedInv'
<1> USE DEF SchedInv
<1>1. CASE UNCHANGED vars
  <2>1. TypeOK' /\ HolderInv' /\ FoundInv' /\ ScanInv' /\ NoLostWakeup'
    BY <1>1 DEF vars, TypeOK, HolderInv, Holders, FoundInv, ScanInv, Passed, Woken,
                NoLostWakeup, MaxConcurrentSyncs
  <2>2. WithinConcurrentsyncs'
    BY <1>1 DEF vars, WithinConcurrentsyncs, Busy, MaxConcurrentSyncs
  <2> QED
    BY <2>1, <2>2
<1>2. CASE Schedule
  <2>1. TypeOK' /\ HolderInv' /\ FoundInv'
    BY <1>2 DEF Schedule, TypeOK, HolderInv, Holders, FoundInv
  <2>2. ScanInv' /\ NoLostWakeup'
    BY <1>2 DEF Schedule, ScanInv, Passed, NoLostWakeup, TypeOK, Folder
  <2>3. WithinConcurrentsyncs'
    BY <1>2 DEF Schedule, WithinConcurrentsyncs, Busy, MaxConcurrentSyncs
  <2> QED
    BY <2>1, <2>2, <2>3
<1>3. CASE Refill
  <2>1. finished \in Folder /\ armed[finished] \in Nat
    BY <1>3 DEF Refill, HolderInv, TypeOK
  <2>2. TypeOK'
    BY <1>3, <2>1 DEF Refill, TypeOK
  <2>3. HolderInv'
    BY <1>3, <2>1 DEF Refill, HolderInv, Holders, TypeOK
  <2>4. FoundInv' /\ ScanInv' /\ NoLostWakeup'
    BY <1>3 DEF Refill, FoundInv, ScanInv, NoLostWakeup
  <2>5. WithinConcurrentsyncs'
    BY <1>3 DEF Refill, WithinConcurrentsyncs, Busy, MaxConcurrentSyncs
  <2> QED
    BY <2>2, <2>3, <2>4, <2>5
<1>4. CASE TimerWakes
  <2>1. TypeOK' /\ HolderInv' /\ FoundInv'
    BY <1>4 DEF TimerWakes, TypeOK, HolderInv, Holders, FoundInv, MaxConcurrentSyncs
  <2>2. ScanInv' /\ NoLostWakeup'
    BY <1>4 DEF TimerWakes, ScanInv, Woken, NoLostWakeup
  <2>3. WithinConcurrentsyncs'
    BY <1>4 DEF TimerWakes, WithinConcurrentsyncs, Busy, MaxConcurrentSyncs
  <2> QED
    BY <2>1, <2>2, <2>3
<1> QED
  BY <1>1, <1>2, <1>3, <1>4, ScanUsedInv, ScanFreeInv, StartFolderInv, ScanEndsInv,
     ResultInv, SyncReturnsInv, TimerFiresInv DEF Next, Scan
-----------------------------------------------------------------------------
(* The invariant of the scheduler holds in every state of every behaviour. *)
THEOREM SchedulerInvariance == Spec => []SchedInv
<1>1. Init => SchedInv
  BY SchedInitInv
<1>2. SchedInv /\ [Next]_vars => SchedInv'
  BY SchedNextInv
<1> QED
  BY <1>1, <1>2, PTL DEF Spec

(* The index stays in range and the uint8 never wraps round.               *)
THEOREM SchedulerTypeCorrect == Spec => []TypeOK
<1>1. SchedInv => TypeOK
  BY DEF SchedInv
<1> QED
  BY <1>1, SchedulerInvariance, PTL

(* usedfolders keeps a folder from being synchronised twice at once.       *)
THEOREM NeverTwoSyncsOfAFolder == Spec => []OneSyncPerFolder
<1>1. SchedInv => OneSyncPerFolder
  BY AtMostOne DEF SchedInv
<1> QED
  BY <1>1, SchedulerInvariance, PTL

(* syncscount is exact, and concurrentsyncs is a limit that holds.         *)
THEOREM NeverTooManySyncs == Spec => []WithinConcurrentsyncs
<1>1. SchedInv => WithinConcurrentsyncs
  BY DEF SchedInv
<1> QED
  BY <1>1, SchedulerInvariance, PTL

(* A loop that sleeps beside a free folder and a free slot will be woken.  *)
THEOREM WakeupsAreNotLost == Spec => []NoLostWakeup
<1>1. SchedInv => NoLostWakeup
  BY DEF SchedInv
<1> QED
  BY <1>1, SchedulerInvariance, PTL
-----------------------------------------------------------------------------
(* Scheduler implements SyncPool.                                          *)
LEMMA SameCardinality == Pool!Cardinality(Busy) = Cardinality(Busy)
BY DEF Pool!Cardinality, Cardinality

LEMMA InWorkIsBusy == Pool!InWork = Busy
BY DEF Pool!InWork, PoolState, Busy

LEMMA PoolInit == Init => Pool!Init
<1> SUFFICES ASSUME Init PROVE Pool!Init
  OBVIOUS
<1>1. Busy = {}
  BY DEF Init, None, Busy
<1> QED
  BY <1>1 DEF Init, PoolState, Pool!Init

(* A started goroutine takes a free folder into work.                      *)
LEMMA StartFolderInPool ==
    ASSUME SchedInv, StartFolder
    PROVE  Pool!Start(folderindex)
<1> DEFINE f == folderindex
<1>1. /\ f \in Folder /\ ~usedfolders[f] /\ syncscount < MaxConcurrentSyncs
      /\ running' = [running EXCEPT ![f] = @ + 1]
      /\ usedfolders' = [usedfolders EXCEPT ![f] = TRUE]
      /\ sending' = sending
  BY DEF SchedInv, FoundInv, StartFolder
<1> HIDE DEF f
<1>2. running[f] = 0 /\ sending[f] = 0
  BY <1>1, HolderFacts DEF SchedInv
<1>3. f \notin Busy /\ Busy' = Busy \cup {f}
  BY <1>1, <1>2 DEF Busy, SchedInv, TypeOK
<1>4. PoolState[f] = "free"
  BY <1>1, <1>3 DEF PoolState
<1>5. Pool!Cardinality(Pool!InWork) < MaxConcurrentSyncs
  BY <1>1, InWorkIsBusy, SameCardinality DEF SchedInv, WithinConcurrentsyncs
<1>6. PoolState' = [PoolState EXCEPT ![f] = "syncing"]
  BY <1>1, <1>3 DEF PoolState, SchedInv, TypeOK
<1> QED
  BY <1>4, <1>5, <1>6 DEF Pool!Start, f

(* A result that the loop takes puts its folder to rest.                   *)
LEMMA ResultInPool ==
    ASSUME SchedInv, NEW f \in Folder, Result(f)
    PROVE  Pool!Finish(f)
<1>1. /\ sending[f] > 0 /\ sending' = [sending EXCEPT ![f] = @ - 1]
      /\ running' = running /\ usedfolders' = usedfolders
  BY DEF Result
<1>2. usedfolders[f] /\ sending[f] = 1 /\ running[f] = 0
  BY <1>1, HolderFacts DEF SchedInv
<1>3. f \in Busy /\ Busy' = Busy \ {f}
  BY <1>1, <1>2 DEF Busy, SchedInv, TypeOK
<1> QED
  BY <1>1, <1>2, <1>3, ZenonT(30) DEF Pool!Finish, PoolState

(* A timer that fires ends the rest of its folder.                         *)
LEMMA TimerFiresInPool ==
    ASSUME SchedInv, NEW f \in Folder, TimerFires(f)
    PROVE  Pool!Release(f)
<1>1. /\ armed[f] > 0 /\ usedfolders' = [usedfolders EXCEPT ![f] = FALSE]
      /\ running' = running /\ sending' = sending
  BY DEF TimerFires
<1>2. running[f] = 0 /\ sending[f] = 0 /\ usedfolders[f]
  <2>1. TypeOK /\ HolderInv
    BY DEF SchedInv
  <2>2. armed[f] # 0
    BY <1>1
  <2> QED
    BY <1>1, <2>1, <2>2, HolderFacts
<1>3. f \notin Busy /\ Busy' = Busy
  BY <1>1, <1>2 DEF Busy
<1>4. usedfolders \in [Folder -> BOOLEAN]
  BY DEF SchedInv, TypeOK
<1>5. PoolState[f] = "resting"
  BY <1>2, <1>3 DEF PoolState
<1>6. PoolState' = [PoolState EXCEPT ![f] = "free"]
  BY <1>1, <1>3, <1>4 DEF PoolState
<1> QED
  BY <1>5, <1>6 DEF Pool!Release

(* The other steps are the loop's own affair.                              *)
LEMMA StutterInPool ==
    ASSUME SchedInv,
           \/ UNCHANGED vars \/ Schedule \/ ScanUsed \/ ScanFree \/ ScanEnds \/ Refill
           \/ TimerWakes \/ \E f \in Folder : SyncReturns(f)
    PROVE  PoolState' = PoolState
<1>1. usedfolders' = usedfolders
  BY DEF vars, Schedule, ScanUsed, ScanFree, ScanEnds, Refill, TimerWakes, SyncReturns
<1>2. Busy' = Busy
  <2>1. CASE \E f \in Folder : SyncReturns(f)
    <3>1. PICK f \in Folder : SyncReturns(f)
      BY <2>1
    <3>2. running[f] \in Nat /\ sending[f] \in Nat
      BY DEF SchedInv, TypeOK
    <3> QED
      BY <3>1, <3>2 DEF SyncReturns, Busy, SchedInv, TypeOK
  <2>2. CASE ~ \E f \in Folder : SyncReturns(f)
    BY <2>2 DEF vars, Schedule, ScanUsed, ScanFree, ScanEnds, Refill, TimerWakes, Busy
  <2> QED
    BY <2>1, <2>2
<1> QED
  BY <1>1, <1>2 DEF PoolState

(* Every behaviour of the loop, its goroutines and timers is a behaviour   *)
(* of a pool that never has more than the limit of folders in work and     *)
(* lets every folder rest after its sync.                                  *)
THEOREM ImplementsSyncPool == Spec => KeepsThePool
<1>1. Init => Pool!Init
  BY PoolInit
<1>2. SchedInv /\ [Next]_vars => [Pool!Next]_PoolState
  <2> SUFFICES ASSUME SchedInv, [Next]_vars
               PROVE  Pool!Next \/ PoolState' = PoolState
    OBVIOUS
  <2>1. SchedInv => (StartFolder => folderindex \in Folder)
    BY DEF SchedInv, FoundInv, StartFolder
  <2>2. CASE StartFolder
    BY <2>1, <2>2, StartFolderInPool DEF Pool!Next
  <2>3. CASE \E f \in Folder : Result(f)
    BY <2>3, ResultInPool DEF Pool!Next
  <2>4. CASE \E f \in Folder : TimerFires(f)
    BY <2>4, TimerFiresInPool DEF Pool!Next
  <2>5. CASE \/ UNCHANGED vars \/ Schedule \/ ScanUsed \/ ScanFree \/ ScanEnds \/ Refill
             \/ TimerWakes \/ \E f \in Folder : SyncReturns(f)
    BY <2>5, StutterInPool
  <2> QED
    BY <2>2, <2>3, <2>4, <2>5 DEF Next, Scan
<1> QED
  BY <1>1, <1>2, SchedulerInvariance, PTL DEF Spec, KeepsThePool, Pool!Spec
=============================================================================
