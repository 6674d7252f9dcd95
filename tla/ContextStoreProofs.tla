------------------------- MODULE ContextStoreProofs -------------------------
(***************************************************************************)
(* Proofs about ContextStore, for any number of processes, nodes and       *)
(* operations: StoreInv is inductive, and it implies the two promises.     *)
(***************************************************************************)
EXTENDS ContextStore, TLAPS

LEMMA BlankIsDocument == Blank \in Documents
  BY DEF Blank, Documents

LEMMA LoadedIsDocument == TypeOK => Loaded \in Documents
  BY BlankIsDocument DEF TypeOK, Loaded

(* Going through the file a second time changes nothing.                   *)
LEMMA OnDiskIsDocument ==
  ASSUME NEW d \in Documents
  PROVE  OnDisk(d) \in Documents /\ OnDisk(OnDisk(d)) = OnDisk(d)
<1>1. \A n \in Names : d[n] # Nothing => d[n] \in Contents /\ Json[d[n]] \in Contents
  BY StoreAssumption DEF Documents
<1>2. OnDisk(d) \in Documents
  BY <1>1 DEF OnDisk, Documents
<1>3. \A n \in Names : OnDisk(d)[n] = IF d[n] = Nothing THEN Nothing ELSE Json[d[n]]
  BY DEF OnDisk
<1>4. \A n \in Names : OnDisk(OnDisk(d))[n] = OnDisk(d)[n]
  BY <1>1, <1>3, StoreAssumption DEF OnDisk
<1> QED BY <1>2, <1>4 DEF OnDisk

(* An entry goes its way through the file by itself. *)
LEMMA OnDiskEntry ==
  ASSUME NEW d \in Documents, NEW n \in Names, NEW c \in Contents
  PROVE  OnDisk([d EXCEPT ![n] = c]) = [OnDisk(d) EXCEPT ![n] = Json[c]]
<1>1. c # Nothing /\ \A m \in Names : [d EXCEPT ![n] = c][m] = IF m = n THEN c ELSE d[m]
  BY StoreAssumption DEF Documents
<1>2. \A m \in Names : OnDisk([d EXCEPT ![n] = c])[m] = [OnDisk(d) EXCEPT ![n] = Json[c]][m]
  BY <1>1 DEF OnDisk
<1> QED BY <1>2 DEF OnDisk

LEMMA NothingOnDisk ==
  ASSUME NEW d \in Documents, NEW n \in Names
  PROVE  OnDisk([d EXCEPT ![n] = Nothing]) = [OnDisk(d) EXCEPT ![n] = Nothing]
<1>1. \A m \in Names : [d EXCEPT ![n] = Nothing][m] = IF m = n THEN Nothing ELSE d[m]
  BY DEF Documents
<1>2. \A m \in Names : OnDisk([d EXCEPT ![n] = Nothing])[m] = [OnDisk(d) EXCEPT ![n] = Nothing][m]
  BY <1>1 DEF OnDisk
<1> QED BY <1>2 DEF OnDisk

LEMMA JsonAgain ==
  ASSUME NEW c \in Contents PROVE Json[c] \in Contents /\ Json[Json[c]] = Json[c]
BY StoreAssumption

(* An entry that is in JSON form keeps the whole so. *)
LEMMA EntryOnDisk ==
  ASSUME NEW d \in Documents, OnDisk(d) = d, NEW n \in Names, NEW c \in Contents
  PROVE  OnDisk([d EXCEPT ![n] = Json[c]]) = [d EXCEPT ![n] = Json[c]]
BY OnDiskEntry, JsonAgain

LEMMA BlankOnDisk == OnDisk(Blank) = Blank
  BY DEF Blank, OnDisk

(* An entry is replaced or removed. *)
LEMMA EntryReplaced ==
  ASSUME NEW d \in Documents, NEW n \in Names, NEW c \in Contents \cup {Nothing}
  PROVE  [d EXCEPT ![n] = c] \in Documents
  BY DEF Documents

-----------------------------------------------------------------------------
LEMMA StoreInvInit == Init => StoreInv
<1> SUFFICES ASSUME Init PROVE StoreInv
  OBVIOUS
<1>1. TypeOK
  BY BlankIsDocument DEF Init, TypeOK, NoJob, Steps
<1>2. \A s \in Stores : job[s].step = "idle"
  BY DEF Init, NoJob
<1>3. LockOwned /\ LockExclusive
  BY <1>2 DEF Init, LockOwned, LockExclusive
<1>4. Undisturbed
  BY <1>2 DEF Init, Undisturbed, Busy
<1>5. SoleWriter /\ Settled
  BY <1>2, BlankOnDisk DEF Init, SoleWriter, Settled, Busy, NoJob
<1> QED BY <1>1, <1>3, <1>4, <1>5 DEF StoreInv

LEMMA RequestKeepsType ==
  ASSUME TypeOK, NEW s \in Stores, Request(s)
  PROVE  TypeOK'
<1>1. ASSUME NEW n \in Names, NEW c \in Contents, Update(s, n, c)
      PROVE  TypeOK'
  <2>1. /\ [Loaded EXCEPT ![n] = Json[c]] \in Documents
        /\ [cache[s] EXCEPT ![n] = c] \in Documents
        /\ [asked EXCEPT ![n] = Json[c]] \in Documents
    BY LoadedIsDocument, JsonAgain, EntryReplaced DEF TypeOK
  <2> QED BY <1>1, <2>1 DEF TypeOK, Update, Begins, Steps
<1>2. ASSUME NEW n \in Names, NEW c \in Contents, Set(s, n, c)
      PROVE  TypeOK'
  <2>1. /\ [cache[s] EXCEPT ![n] = c] \in Documents
        /\ OnDisk([cache[s] EXCEPT ![n] = c]) \in Documents
        /\ [asked EXCEPT ![n] = Json[c]] \in Documents
    BY JsonAgain, EntryReplaced, OnDiskIsDocument DEF TypeOK
  <2> QED BY <1>2, <2>1 DEF TypeOK, Set, Begins, Steps
<1>3. ASSUME NEW n \in Names, ClearNode(s, n)
      PROVE  TypeOK'
  <2>1. /\ [Loaded EXCEPT ![n] = Nothing] \in Documents
        /\ [cache[s] EXCEPT ![n] = Nothing] \in Documents
        /\ [asked EXCEPT ![n] = Nothing] \in Documents
    BY LoadedIsDocument, EntryReplaced DEF TypeOK
  <2> QED BY <1>3, <2>1 DEF TypeOK, ClearNode, Begins, Steps
<1>4. ASSUME ClearAll(s)
      PROVE  TypeOK'
  BY <1>4, BlankIsDocument DEF TypeOK, ClearAll, Begins, Steps
<1> QED BY <1>1, <1>2, <1>3, <1>4 DEF Request

LEMMA ProgressKeepsType ==
  ASSUME TypeOK, NEW s \in Stores, Progress(s) \/ Crash(s)
  PROVE  TypeOK'
<1>1. CASE Truncate(s)
  BY <1>1, BlankIsDocument DEF TypeOK, Truncate, Quiet, Holding, Steps
<1>2. CASE Dump(s)
  <2>1. UNCHANGED <<file, lock, cache, asked, writers, ops>> /\ disturbed' \in BOOLEAN
    BY <1>2 DEF TypeOK, Dump, Quiet
  <2>2. PICK step \in {"dumped", "broken"} : job' = [job EXCEPT ![s].step = step]
    BY <1>2 DEF Dump
  <2>3. job' \in [Stores -> [step : Steps, all : BOOLEAN, data : Documents]]
    BY <2>2 DEF TypeOK, Steps
  <2> QED BY <2>1, <2>3 DEF TypeOK
<1>3. CASE Close(s)
  BY <1>3, BlankIsDocument DEF TypeOK, Close, Quiet, Holding, NoJob, Steps
<1>4. CASE ClearWrite(s)
  BY <1>4, BlankIsDocument DEF TypeOK, ClearWrite, Quiet, Holding, NoJob, Steps
<1>5. CASE Restart(s)
  BY <1>5, BlankIsDocument, LoadedIsDocument DEF TypeOK, Restart, NoJob, Steps
<1>6. CASE Crash(s)
  <2>1. [NoJob EXCEPT !.step = "down"] \in [step : Steps, all : BOOLEAN, data : Documents]
    BY BlankIsDocument DEF NoJob, Steps
  <2>2. job' \in [Stores -> [step : Steps, all : BOOLEAN, data : Documents]]
    BY <1>6, <2>1 DEF TypeOK, Crash
  <2>3. file' \in [text : {"whole", "empty", "torn"}, data : Documents]
    BY <1>6, BlankIsDocument DEF TypeOK, Crash, Holding
  <2>4. disturbed' \in BOOLEAN
    BY <1>6 DEF TypeOK, Crash, Busy
  <2> QED BY <1>6, <2>2, <2>3, <2>4 DEF TypeOK, Crash, Quiet
<1> QED BY <1>1, <1>2, <1>3, <1>4, <1>5, <1>6 DEF Progress

-----------------------------------------------------------------------------
(* The lock is asked for when it is free, and given back by its owner. *)
LEMMA LockKept ==
  ASSUME StoreInv, NEW s \in Stores, Request(s) \/ Progress(s) \/ Crash(s)
  PROVE  LockOwned' /\ LockExclusive'
<1> USE DEF StoreInv, LockOwned, LockExclusive, TypeOK
<1>1. ASSUME NEW n \in Names, NEW c \in Contents, Update(s, n, c) \/ Set(s, n, c)
      PROVE  LockOwned' /\ LockExclusive'
  BY <1>1 DEF Update, Set, Begins
<1>2. ASSUME NEW n \in Names, ClearNode(s, n)
      PROVE  LockOwned' /\ LockExclusive'
  BY <1>2 DEF ClearNode, Begins
<1>3. CASE ClearAll(s)
  BY <1>3 DEF ClearAll, Begins
<1>4. CASE Truncate(s) \/ Dump(s) \/ Close(s)
  BY <1>4 DEF Truncate, Dump, Close, NoJob
<1>5. CASE ClearWrite(s) \/ Crash(s)
  <2>1. /\ job'[s].step \in {"idle", "down"}
        /\ \A t \in Stores \ {s} : job'[t] = job[t]
        /\ lock' = lock \ {s}
    BY <1>5 DEF ClearWrite, Crash, NoJob
  <2>2. lock' = IF lock = {s} THEN {} ELSE lock
    BY <2>1
  <2> QED BY <2>1, <2>2
<1>6. CASE Restart(s)
  BY <1>6 DEF Restart, NoJob
<1> QED BY <1>1, <1>2, <1>3, <1>4, <1>5, <1>6 DEF Request, Progress

(* An operation that begins undisturbed finds the file as it was asked to  *)
(* be, and is the only one in progress.                                    *)
LEMMA RequestUndisturbed ==
  ASSUME StoreInv, NEW s \in Stores, Request(s)
  PROVE  Undisturbed'
<1> SUFFICES ASSUME ~ disturbed'
             PROVE  Undisturbed'
  BY DEF Undisturbed
<1>1. /\ ~ disturbed
      /\ job[s].step = "idle"
      /\ \A t \in Stores : ~ Busy(t)
  BY DEF Request, Update, Set, ClearNode, ClearAll, Begins, Busy
<1>2. file = [text |-> "whole", data |-> asked] /\ Loaded = asked
  BY <1>1 DEF StoreInv, Undisturbed, Loaded
<1> DEFINE Started == /\ job'[s].step \in {"loaded", "clearing"}
                      /\ job'[s].data = asked'
                      /\ \A t \in Stores \ {s} : job'[t] = job[t]
<1>3. Started
  <2> USE <1>2 DEF Begins, StoreInv, TypeOK
  <2>1. ASSUME NEW n \in Names, NEW c \in Contents, Update(s, n, c)
        PROVE  Started
    BY <2>1 DEF Update
  <2>2. ASSUME NEW n \in Names, NEW c \in Contents, Set(s, n, c)
        PROVE  Started
    BY <2>2 DEF Set
  <2>3. ASSUME NEW n \in Names, ClearNode(s, n)
        PROVE  Started
    BY <2>3 DEF ClearNode
  <2>4. ASSUME ClearAll(s)
        PROVE  Started
    BY <2>4 DEF ClearAll
  <2> QED BY <2>1, <2>2, <2>3, <2>4 DEF Request
<1> QED BY <1>1, <1>3 DEF Undisturbed, Busy

(* Each step of an undisturbed operation leaves the file as the next one   *)
(* expects it, and the last one leaves it as it was asked to be.           *)
LEMMA ProgressUndisturbed ==
  ASSUME StoreInv, NEW s \in Stores, Progress(s) \/ Crash(s)
  PROVE  Undisturbed'
<1> SUFFICES ASSUME ~ disturbed'
             PROVE  Undisturbed'
  BY DEF Undisturbed
<1>1. ~ disturbed
  BY DEF Progress, Truncate, Dump, Close, ClearWrite, Restart, Crash
<1>2. /\ asked' = asked
      /\ \A t \in Stores \ {s} : job'[t] = job[t]
  BY DEF Progress, Truncate, Dump, Close, ClearWrite, Restart, Crash, Quiet, StoreInv, TypeOK
<1>3. CASE Truncate(s)
  <2>1. /\ job'[s].step \in {"truncated", "dumped"}
        /\ job'[s].data = job[s].data
        /\ Busy(s)
        /\ file'.text = "empty"
    BY <1>3 DEF Truncate, Busy, Holding, StoreInv, TypeOK
  <2> QED BY <1>1, <1>2, <2>1 DEF StoreInv, Undisturbed, Busy
<1>4. CASE Dump(s)
  <2>1. /\ job'[s].step = "dumped"
        /\ job'[s].data = job[s].data
        /\ Busy(s) /\ job[s].step = "truncated"
        /\ file' = file
    BY <1>4 DEF Dump, Busy, StoreInv, TypeOK
  <2> QED BY <1>1, <1>2, <2>1 DEF StoreInv, Undisturbed, Busy
<1>5. CASE Close(s) \/ ClearWrite(s)
  <2>1. /\ Busy(s)
        /\ job'[s].step = "idle"
    BY <1>5 DEF Close, ClearWrite, Busy, NoJob, StoreInv, TypeOK
  <2>2. /\ job[s].data = asked
        /\ job[s].step # "broken"
        /\ job[s].step = "dumped" => file.text = "empty"
        /\ \A t \in Stores : Busy(t) => t = s
    BY <1>1, <2>1 DEF StoreInv, Undisturbed
  <2>3. file' = [text |-> "whole", data |-> asked]
    BY <1>5, <2>2 DEF Close, ClearWrite, Holding
  <2> QED BY <1>2, <2>1, <2>2, <2>3 DEF Undisturbed, Busy
<1>6. CASE Restart(s) \/ Crash(s)
  <2>1. ~ Busy(s)
    <3>1. CASE Restart(s)
      BY <3>1 DEF Restart, Busy
    <3>2. CASE Crash(s)
      BY <3>2, Zenon DEF Crash
    <3> QED BY <1>6, <3>1, <3>2
  <2>2. job'[s].step \in {"idle", "down"}
    BY <1>6 DEF Restart, Crash, NoJob, StoreInv, TypeOK
  <2>3. file' = file
    BY <1>6, <2>1 DEF Restart, Crash, Busy
  <2> QED BY <1>1, <1>2, <2>1, <2>2, <2>3 DEF StoreInv, Undisturbed, Busy
<1> QED BY <1>3, <1>4, <1>5, <1>6 DEF Progress

(* The cache and what was asked for change alike when the sole writer      *)
(* begins an operation.                                                    *)
LEMMA RequestBySoleWriter ==
  ASSUME StoreInv, NEW s \in Stores, Request(s)
  PROVE  SoleWriter'
<1> USE DEF StoreInv, TypeOK, Begins
<1>1. /\ job[s].step = "idle"
      /\ writers' = writers \cup {s}
      /\ ~ disturbed' => ~ disturbed
      /\ \A t \in Stores \ {s} : job'[t] = job[t]
  BY DEF Request, Update, Set, ClearNode, ClearAll
<1>2. \A t \in Stores : Busy(t)' => t \in writers'
  BY <1>1 DEF SoleWriter, Busy
<1>3. ASSUME ~ disturbed', writers' \subseteq {s}
      PROVE  OnDisk(cache'[s]) = asked'
  <2>1. OnDisk(cache[s]) = asked /\ cache[s] \in Documents
    BY <1>1, <1>3 DEF SoleWriter
  <2>2. ASSUME NEW n \in Names, NEW c \in Contents, Update(s, n, c) \/ Set(s, n, c)
        PROVE  OnDisk(cache'[s]) = asked'
    <3>1. cache'[s] = [cache[s] EXCEPT ![n] = c] /\ asked' = [asked EXCEPT ![n] = Json[c]]
      BY <2>2 DEF Update, Set
    <3>2. OnDisk([cache[s] EXCEPT ![n] = c]) = [OnDisk(cache[s]) EXCEPT ![n] = Json[c]]
      BY <2>1, OnDiskEntry
    <3> QED BY <2>1, <3>1, <3>2
  <2>3. ASSUME NEW n \in Names, ClearNode(s, n)
        PROVE  OnDisk(cache'[s]) = asked'
    <3>1. cache'[s] = [cache[s] EXCEPT ![n] = Nothing] /\ asked' = [asked EXCEPT ![n] = Nothing]
      BY <2>3 DEF ClearNode
    <3>2. OnDisk([cache[s] EXCEPT ![n] = Nothing]) = [OnDisk(cache[s]) EXCEPT ![n] = Nothing]
      BY <2>1, NothingOnDisk
    <3> QED BY <2>1, <3>1, <3>2
  <2>4. ASSUME ClearAll(s)
        PROVE  OnDisk(cache'[s]) = asked'
    BY <2>4, BlankOnDisk DEF ClearAll
  <2> QED BY <2>2, <2>3, <2>4 DEF Request
<1> QED BY <1>1, <1>2, <1>3 DEF SoleWriter

(* Only a new instance gets another cache: it finds the file as it was     *)
(* asked to be.                                                            *)
LEMMA ProgressOfSoleWriter ==
  ASSUME StoreInv, NEW s \in Stores, Progress(s) \/ Crash(s)
  PROVE  SoleWriter'
<1> USE DEF StoreInv, TypeOK
<1>1. /\ asked' = asked /\ writers' = writers
      /\ \A t \in Stores \ {s} : job'[t] = job[t] /\ cache'[t] = cache[t]
      /\ ~ disturbed' => ~ disturbed
  BY DEF Progress, Truncate, Dump, Close, ClearWrite, Restart, Crash, Quiet
<1>2. CASE Restart(s)
  <2>1. ~ Busy(s) /\ job'[s].step = "idle"
    BY <1>2 DEF Restart, Busy, NoJob
  <2>2. ASSUME ~ disturbed, writers \subseteq {s}
        PROVE  OnDisk(cache'[s]) = asked
    <3>1. \A t \in Stores : ~ Busy(t)
      BY <2>1, <2>2 DEF SoleWriter
    <3>2. file = [text |-> "whole", data |-> asked]
      BY <2>2, <3>1 DEF Undisturbed
    <3> QED BY <1>2, <3>2 DEF Restart, Loaded, Settled
  <2> QED BY <1>1, <2>1, <2>2 DEF SoleWriter, Busy
<1>3. CASE Truncate(s) \/ Dump(s) \/ Close(s) \/ ClearWrite(s) \/ Crash(s)
  <2>1. cache' = cache /\ job[s].step # "down"
    BY <1>3 DEF Truncate, Dump, Close, ClearWrite, Crash, Quiet
  <2>2. job'[s].step \in {"idle", "down"} \/ Busy(s)
    BY <1>3 DEF Truncate, Dump, Close, ClearWrite, Crash, NoJob, Busy
  <2> QED BY <1>1, <2>1, <2>2 DEF SoleWriter, Busy
<1> QED BY <1>2, <1>3 DEF Progress

(* Whatever is written was read from the file or has gone through OnDisk.  *)
LEMMA SettledKept ==
  ASSUME StoreInv, NEW s \in Stores, Request(s) \/ Progress(s) \/ Crash(s)
  PROVE  Settled'
<1> USE BlankOnDisk DEF StoreInv, TypeOK
<1>1. Loaded \in Documents /\ OnDisk(Loaded) = Loaded
  BY LoadedIsDocument DEF Loaded, Settled
<1>2. ASSUME NEW n \in Names, NEW c \in Contents, Update(s, n, c)
      PROVE  Settled'
  <2>1. /\ OnDisk([Loaded EXCEPT ![n] = Json[c]]) = [Loaded EXCEPT ![n] = Json[c]]
        /\ OnDisk([asked EXCEPT ![n] = Json[c]]) = [asked EXCEPT ![n] = Json[c]]
    BY <1>1, EntryOnDisk DEF Settled
  <2> QED BY <1>2, <2>1 DEF Settled, Update, Begins
<1>3. ASSUME NEW n \in Names, NEW c \in Contents, Set(s, n, c)
      PROVE  Settled'
  <2>1. [cache[s] EXCEPT ![n] = c] \in Documents
    BY EntryReplaced
  <2>2. /\ OnDisk(OnDisk([cache[s] EXCEPT ![n] = c])) = OnDisk([cache[s] EXCEPT ![n] = c])
        /\ OnDisk([asked EXCEPT ![n] = Json[c]]) = [asked EXCEPT ![n] = Json[c]]
    BY <2>1, OnDiskIsDocument, EntryOnDisk DEF Settled
  <2> QED BY <1>3, <2>2 DEF Settled, Set, Begins
<1>4. ASSUME NEW n \in Names, ClearNode(s, n)
      PROVE  Settled'
  <2>1. /\ OnDisk([Loaded EXCEPT ![n] = Nothing]) = [Loaded EXCEPT ![n] = Nothing]
        /\ OnDisk([asked EXCEPT ![n] = Nothing]) = [asked EXCEPT ![n] = Nothing]
    BY <1>1, NothingOnDisk DEF Settled
  <2> QED BY <1>4, <2>1 DEF Settled, ClearNode, Begins
<1>5. CASE ClearAll(s)
  BY <1>5 DEF ClearAll, Begins, Settled
<1>6. CASE Truncate(s) \/ Close(s) \/ ClearWrite(s)
  BY <1>6 DEF Truncate, Close, ClearWrite, Quiet, Holding, NoJob, Settled
<1>7. CASE Dump(s)
  <2>1. PICK step \in {"dumped", "broken"} : job' = [job EXCEPT ![s].step = step]
    BY <1>7 DEF Dump
  <2>2. \A t \in Stores : job'[t].data = job[t].data
    BY <2>1
  <2> QED BY <1>7, <2>2 DEF Dump, Quiet, Settled
<1>8. CASE Restart(s) \/ Crash(s)
  <2>1. \A t \in Stores : job'[t].data \in {job[t].data, Blank}
    BY <1>8 DEF Restart, Crash, NoJob
  <2>2. file'.data \in {file.data, Blank} /\ asked' = asked
    BY <1>8 DEF Restart, Crash, Quiet, Holding
  <2> QED BY <2>1, <2>2 DEF Settled
<1> QED BY <1>2, <1>3, <1>4, <1>5, <1>6, <1>7, <1>8 DEF Request, Progress

(* The file is whole or being rewritten by the one operation in progress,  *)
(* the lock is where it should be: what the two promises rest on.          *)
THEOREM StoreSafe == Spec => []StoreInv
<1>1. Init => StoreInv
  BY StoreInvInit
<1>2. StoreInv /\ [Next]_vars => StoreInv'
  <2> SUFFICES ASSUME StoreInv, [Next]_vars
               PROVE  StoreInv'
    OBVIOUS
  <2>1. CASE Next
    <3>1. PICK s \in Stores : Request(s) \/ Progress(s) \/ Crash(s)
      BY <2>1 DEF Next
    <3>2. TypeOK'
      BY <3>1, RequestKeepsType, ProgressKeepsType DEF StoreInv
    <3>3. LockOwned' /\ LockExclusive'
      BY <3>1, LockKept
    <3>4. Undisturbed'
      BY <3>1, RequestUndisturbed, ProgressUndisturbed
    <3>5. SoleWriter'
      BY <3>1, RequestBySoleWriter, ProgressOfSoleWriter
    <3>6. Settled'
      BY <3>1, SettledKept
    <3> QED BY <3>2, <3>3, <3>4, <3>5, <3>6 DEF StoreInv
  <2>2. CASE UNCHANGED vars
    BY <2>2 DEF vars, StoreInv, TypeOK, LockOwned, LockExclusive, Undisturbed, SoleWriter, Settled, Busy
  <2> QED BY <2>1, <2>2
<1> QED BY <1>1, <1>2, PTL DEF Spec

(* No write is lost between operations that never met. *)
THEOREM WritesAreStored == Spec => []LastWriteStored
<1>1. StoreInv => LastWriteStored
  BY DEF StoreInv, Undisturbed, LastWriteStored
<1> QED BY <1>1, StoreSafe, PTL

(* An instance that alone has written answers, but for its form, what a    *)
(* restart would find.                                                     *)
THEOREM CacheAgrees == Spec => []SoleStoreAgrees
<1>1. StoreInv => SoleStoreAgrees
  <2> SUFFICES ASSUME StoreInv, NEW s \in Stores,
                      ~ disturbed, writers = {s}, job[s].step = "idle"
               PROVE  OnDisk(cache[s]) = Loaded
    BY DEF SoleStoreAgrees
  <2>1. \A t \in Stores : ~ Busy(t)
    BY DEF StoreInv, SoleWriter, Busy
  <2>2. file = [text |-> "whole", data |-> asked]
    BY <2>1 DEF StoreInv, Undisturbed
  <2>3. OnDisk(cache[s]) = asked
    BY DEF StoreInv, SoleWriter
  <2> QED BY <2>2, <2>3 DEF Loaded
<1> QED BY <1>1, StoreSafe, PTL

=============================================================================
