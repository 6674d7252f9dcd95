---------------------------- MODULE ContextStore ----------------------------
(***************************************************************************)
(* ContextStore: every instance has the contexts of the nodes in a dict of *)
(* its own and rewrites one JSON file they share.  Instances live in       *)
(* several processes (each API worker, each script).  A process may die at *)
(* any time; the kernel then drops its lock and what it has not flushed.   *)
(*                                                                         *)
(* open(path, "w") empties the file before the lock is asked for, and the  *)
(* text is flushed when the file is closed, after the lock is given back.  *)
(* Documents are taken to fit the I/O buffer (8 KiB): longer ones only add *)
(* moments at which the file cannot be decoded, as it cannot when empty.   *)
(*                                                                         *)
(* The dict keeps a content as it was given; what comes back from the file *)
(* is its JSON form, with strings for keys and lists for tuples.           *)
(***************************************************************************)
EXTENDS Integers

CONSTANTS
  Stores,    \* instances of ContextStore, one per process
  Names,     \* node ids
  Contents,  \* contents that json.dump can write
  Json,      \* Json[c] is what json.load makes of the dump of c
  Nothing,   \* no entry
  MaxOps     \* bound: how many operations are begun

ASSUME StoreAssumption ==
  /\ Nothing \notin Contents
  /\ Json \in [Contents -> Contents]
  /\ \A c \in Contents : Json[Json[c]] = Json[c]
  /\ MaxOps \in Nat

Documents == [Names -> Contents \cup {Nothing}]
Blank == [n \in Names |-> Nothing]

(* What a dict becomes on its way through the file. *)
OnDisk(d) == [n \in Names |-> IF d[n] = Nothing THEN Nothing ELSE Json[d[n]]]

Steps == {"idle", "loaded", "truncated", "dumped", "broken", "clearing", "down"}

VARIABLES
  file,       \* text: whole (data is what it decodes to), empty or torn
  lock,       \* who has the exclusive flock between two steps, if any
  cache,      \* context_cache of each instance
  job,        \* where each is in its operation, and what its text decodes to
  asked,      \* history: what the operations begun so far should leave on disk
  writers,    \* history: the instances that began one
  disturbed,  \* history: two operations met, one failed, or its process died
  ops         \* how many operations were begun

vars == <<file, lock, cache, job, asked, writers, disturbed, ops>>

TypeOK ==
  /\ file \in [text : {"whole", "empty", "torn"}, data : Documents]
  /\ lock \in SUBSET Stores
  /\ cache \in [Stores -> Documents]
  /\ job \in [Stores -> [step : Steps, all : BOOLEAN, data : Documents]]
  /\ asked \in Documents
  /\ writers \subseteq Stores
  /\ disturbed \in BOOLEAN
  /\ ops \in Nat

NoJob == [step |-> "idle", all |-> FALSE, data |-> Blank]

Init ==
  /\ file = [text |-> "whole", data |-> Blank]
  /\ lock = {}
  /\ cache = [s \in Stores |-> Blank]
  /\ job = [s \in Stores |-> NoJob]
  /\ asked = Blank
  /\ writers = {}
  /\ disturbed = FALSE
  /\ ops = 0

Busy(s) == job[s].step \notin {"idle", "down"}

(* json.load under the shared lock; what cannot be decoded counts as {}. *)
Loaded == IF file.text = "whole" THEN file.data ELSE Blank

Holding(text, data) == [text |-> text, data |-> IF text = "whole" THEN data ELSE Blank]

-----------------------------------------------------------------------------
(* Operations, up to the point where the file is opened for writing *)

Begins(s, wanted, met) ==
  /\ job[s].step = "idle"
  /\ ops < MaxOps
  /\ ops' = ops + 1
  /\ asked' = wanted
  /\ writers' = writers \cup {s}
  /\ disturbed' = (disturbed \/ met \/ \E t \in Stores \ {s} : Busy(t))

(* Mutants: the file is rewritten from the cache; cleared entries stay in  *)
(* the cache; a node is cleared without asking for the lock.               *)
UpdateFromCache(s, n, c) ==
  /\ lock = {}
  /\ Begins(s, [asked EXCEPT ![n] = Json[c]], FALSE)
  /\ cache' = [cache EXCEPT ![s][n] = c]
  /\ job' = [job EXCEPT ![s] = [step |-> "loaded", all |-> FALSE, data |-> OnDisk(cache'[s])]]
  /\ UNCHANGED <<file, lock>>

ClearFileOnly(s, n) ==
  /\ lock = {}
  /\ Begins(s, [asked EXCEPT ![n] = Nothing], FALSE)
  /\ lock' = {s}
  /\ job' = [job EXCEPT ![s] =
               [step |-> "clearing", all |-> FALSE, data |-> [Loaded EXCEPT ![n] = Nothing]]]
  /\ UNCHANGED <<file, cache>>

ClearNodeUnlocked(s, n) ==
  /\ Begins(s, [asked EXCEPT ![n] = Nothing], FALSE)
  /\ cache' = [cache EXCEPT ![s][n] = Nothing]
  /\ job' = [job EXCEPT ![s] =
               [step |-> "clearing", all |-> FALSE, data |-> [Loaded EXCEPT ![n] = Nothing]]]
  /\ UNCHANGED <<file, lock>>

(* update(): the file is loaded under the shared lock, the entry replaced. *)
Update(s, n, c) ==
  /\ lock = {}
  /\ Begins(s, [asked EXCEPT ![n] = Json[c]], FALSE)
  /\ cache' = [cache EXCEPT ![s][n] = c]
  /\ job' = [job EXCEPT ![s] =
               [step |-> "loaded", all |-> FALSE, data |-> [Loaded EXCEPT ![n] = Json[c]]]]
  /\ UNCHANGED <<file, lock>>

(* set(): the whole file is written from the cache, which knows nothing of *)
(* what the others have written since it was loaded.                       *)
Set(s, n, c) ==
  LET mine == [cache[s] EXCEPT ![n] = c]
      wanted == [asked EXCEPT ![n] = Json[c]]
  IN  /\ Begins(s, wanted, OnDisk(mine) # wanted)
      /\ cache' = [cache EXCEPT ![s] = mine]
      /\ job' = [job EXCEPT ![s] = [step |-> "loaded", all |-> FALSE, data |-> OnDisk(mine)]]
      /\ UNCHANGED <<file, lock>>

(* clear(): no lock at all. *)
ClearAll(s) ==
  /\ Begins(s, Blank, FALSE)
  /\ cache' = [cache EXCEPT ![s] = Blank]
  /\ job' = [job EXCEPT ![s] = [step |-> "loaded", all |-> TRUE, data |-> Blank]]
  /\ UNCHANGED <<file, lock>>

(* clear(n): loaded and rewritten in place under one exclusive lock. *)
ClearNode(s, n) ==
  /\ lock = {}
  /\ Begins(s, [asked EXCEPT ![n] = Nothing], FALSE)
  /\ cache' = [cache EXCEPT ![s][n] = Nothing]
  /\ lock' = {s}
  /\ job' = [job EXCEPT ![s] =
               [step |-> "clearing", all |-> FALSE, data |-> [Loaded EXCEPT ![n] = Nothing]]]
  /\ UNCHANGED file

-----------------------------------------------------------------------------
(* Writing *)

Quiet == UNCHANGED <<cache, asked, writers, ops>>

Truncate(s) ==
  /\ job[s].step = "loaded"
  /\ file' = Holding("empty", Blank)
  /\ job' = [job EXCEPT ![s].step = IF job[s].all THEN "dumped" ELSE "truncated"]
  /\ UNCHANGED <<lock, disturbed>>
  /\ Quiet

(* json.dump to the buffer, under the exclusive lock.  Contents may turn   *)
(* out not to be serialisable, in the middle of the text.                  *)
Dump(s) ==
  /\ job[s].step = "truncated"
  /\ lock = {}
  /\ \/ /\ job' = [job EXCEPT ![s].step = "dumped"]
        /\ UNCHANGED disturbed
     \/ /\ job' = [job EXCEPT ![s].step = "broken"]
        /\ disturbed' = TRUE
  /\ UNCHANGED <<file, lock>>
  /\ Quiet

(* The buffer is written from the start of the file.  What another process *)
(* wrote after it was emptied may be longer, and its end then stays.  Half *)
(* a text is torn, unless the other's happens to begin with the same.      *)
Close(s) ==
  /\ \/ /\ job[s].step = "dumped"
        /\ \E text \in IF file.text = "empty" THEN {"whole"} ELSE {"whole", "torn"} :
             file' = Holding(text, job[s].data)
     \/ /\ job[s].step = "broken"
        /\ \/ file' = Holding("torn", Blank)
           \/ file.text # "empty" /\ UNCHANGED file
  /\ job' = [job EXCEPT ![s] = NoJob]
  /\ UNCHANGED <<lock, disturbed>>
  /\ Quiet

(* Mutant: the lock is not given back. *)
ClearWriteKeepsLock(s) ==
  /\ job[s].step = "clearing"
  /\ file' = Holding("whole", job[s].data)
  /\ job' = [job EXCEPT ![s] = NoJob]
  /\ UNCHANGED <<lock, disturbed>>
  /\ Quiet

(* clear(n) writes in place, then cuts the file to the new length. *)
ClearWrite(s) ==
  /\ job[s].step = "clearing"
  /\ file' = Holding("whole", job[s].data)
  /\ lock' = lock \ {s}
  /\ job' = [job EXCEPT ![s] = NoJob]
  /\ UNCHANGED disturbed
  /\ Quiet

(* The process dies; in the middle of clear(n) the old end may be left. *)
Crash(s) ==
  /\ job[s].step # "down"
  /\ \/ UNCHANGED file
     \/ job[s].step = "clearing" /\ file' = Holding("torn", Blank)
  /\ lock' = lock \ {s}
  /\ job' = [job EXCEPT ![s] = [NoJob EXCEPT !.step = "down"]]
  /\ disturbed' = (disturbed \/ Busy(s))
  /\ Quiet

(* __init__ of a new instance: _load_context. *)
Restart(s) ==
  /\ job[s].step = "down"
  /\ lock = {}
  /\ cache' = [cache EXCEPT ![s] = Loaded]
  /\ job' = [job EXCEPT ![s] = NoJob]
  /\ UNCHANGED <<file, lock, asked, writers, disturbed, ops>>

Request(s) ==
  \/ \E n \in Names, c \in Contents : Update(s, n, c) \/ Set(s, n, c)
  \/ \E n \in Names : ClearNode(s, n)
  \/ ClearAll(s)

Progress(s) == Truncate(s) \/ Dump(s) \/ Close(s) \/ ClearWrite(s) \/ Restart(s)

Next == \E s \in Stores : Request(s) \/ Progress(s) \/ Crash(s)

Spec == Init /\ [][Next]_vars

(* A process that is not killed runs on, and a free flock is granted. *)
FairSpec == Spec /\ \A s \in Stores : WF_vars(Progress(s))

-----------------------------------------------------------------------------
(* Properties *)

(* The exclusive lock is only ever seen with the process that is clearing  *)
(* a node, and with one at most.                                           *)
LockOwned == \A s \in Stores : lock = {s} <=> job[s].step = "clearing"

LockExclusive == lock = {} \/ \E s \in Stores : lock = {s}

(* As long as no two operations met, the one in progress is alone, and the *)
(* file is what it has made of it so far.                                  *)
Undisturbed ==
  ~ disturbed =>
    /\ \A s, t \in Stores : Busy(s) /\ Busy(t) => s = t
    /\ \A s \in Stores : Busy(s) =>
         /\ job[s].data = asked
         /\ job[s].step # "broken"
         /\ job[s].step \in {"truncated", "dumped"} => file.text = "empty"
    /\ (\A s \in Stores : ~ Busy(s)) => file = [text |-> "whole", data |-> asked]

(* The cache of an instance that is the only one to have written has what  *)
(* was asked for, or what becomes that on disk, and whoever is in the      *)
(* middle of an operation has begun it.                                    *)
SoleWriter ==
  \A s \in Stores :
    /\ Busy(s) => s \in writers
    /\ ~ disturbed /\ writers \subseteq {s} /\ job[s].step # "down" => OnDisk(cache[s]) = asked

(* What is on disk, or should be, stays the same when it is read and       *)
(* written again.                                                          *)
Settled ==
  /\ OnDisk(file.data) = file.data
  /\ OnDisk(asked) = asked
  /\ \A s \in Stores : OnDisk(job[s].data) = job[s].data

(* The inductive invariant of the proofs. *)
StoreInv == TypeOK /\ LockOwned /\ LockExclusive /\ Undisturbed /\ SoleWriter /\ Settled

(* Nothing asked for is lost: when no operation is in progress the file    *)
(* can be read and has the last content of every node, whichever process   *)
(* wrote it and whatever the caches hold, unless operations met, one       *)
(* failed or was killed, or set() wrote from a cache that had not seen     *)
(* what others wrote.                                                      *)
LastWriteStored ==
  ~ disturbed /\ (\A s \in Stores : ~ Busy(s)) =>
    file = [text |-> "whole", data |-> asked]

(* get() answers, but for its form, what a restart would find, as long as  *)
(* one instance alone has written: the cache and the file are changed by   *)
(* separate code.  The form may differ: a tuple comes back as a list, and  *)
(* a key that is a number as a string.                                     *)
SoleStoreAgrees ==
  \A s \in Stores :
    ~ disturbed /\ writers = {s} /\ job[s].step = "idle" => OnDisk(cache[s]) = Loaded

(* No operation waits for ever, though processes die holding the lock.     *)
EveryOperationEnds == \A s \in Stores : Busy(s) ~> ~ Busy(s)
=============================================================================
