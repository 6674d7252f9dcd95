------------------------ MODULE LevelPermitsProofs ------------------------
(***************************************************************************)
(* Proofs about LevelPermits for every level: any number of tasks, any set *)
(* of LLM nodes and any max_parallel.                                      *)
(***************************************************************************)
EXTENDS LevelPermits, FiniteSetTheorems, SequenceTheorems, TLAPS

SemType == [value : Nat, waiters : Seq(Tasks), done : Nat]

(* What the semaphore alone guarantees between two suspension points. *)
SemOK(s) ==
  /\ s \in SemType
  /\ \A i, j \in DOMAIN s.waiters : s.waiters[i] = s.waiters[j] => i = j
  /\ s.done <= Len(s.waiters)

(* A free permit and a queue: then a woken task is still to come. *)
WakerComing(s) == s.value > 0 /\ s.waiters # <<>> => s.done > 0

Queued(s, t) == \E i \in DOMAIN s.waiters : s.waiters[i] = t

Held(f) == Cardinality(HeldIn(f))

-----------------------------------------------------------------------------
(* The semaphore's methods *)

LEMMA SemFields ==
  ASSUME NEW s \in SemType
  PROVE  /\ s.value \in Nat /\ s.done \in Nat
         /\ s.waiters \in Seq(Tasks) /\ Len(s.waiters) \in Nat
         /\ DOMAIN s.waiters = 1 .. Len(s.waiters)
         /\ s.waiters # <<>> <=> Len(s.waiters) > 0
<1>1. s.value \in Nat /\ s.done \in Nat /\ s.waiters \in Seq(Tasks)
  BY DEF SemType
<1>2. Len(s.waiters) \in Nat /\ DOMAIN s.waiters = 1 .. Len(s.waiters)
  BY <1>1, LenProperties
<1>3. s.waiters # <<>> <=> Len(s.waiters) > 0
  BY <1>1, <1>2, EmptySeq
<1> QED BY <1>1, <1>2, <1>3

(* _wake_up_next moves a permit from _value to a future; the queue stays. *)
LEMMA WakeNextFacts ==
  ASSUME NEW s, SemOK(s), s.value > 0
  PROVE  /\ SemOK(WakeNext(s))
         /\ WakeNext(s).waiters = s.waiters
         /\ WakeNext(s).value + WakeNext(s).done = s.value + s.done
         /\ WakerComing(WakeNext(s))
<1>1. s \in SemType
  BY DEF SemOK
<1>2. /\ s.value \in Nat /\ s.done \in Nat /\ Len(s.waiters) \in Nat
      /\ s.waiters # <<>> <=> Len(s.waiters) > 0
  BY <1>1, SemFields
<1>3. CASE s.done = Len(s.waiters)
  BY <1>2, <1>3 DEF WakeNext, WakerComing
<1>4. CASE s.done # Len(s.waiters)
  <2>1. /\ WakeNext(s) \in SemType
        /\ WakeNext(s).value = s.value - 1
        /\ WakeNext(s).done = s.done + 1
        /\ WakeNext(s).waiters = s.waiters
    BY <1>1, <1>2, <1>4 DEF WakeNext, SemType
  <2>2. s.done + 1 <= Len(s.waiters)
    BY <1>2, <1>4 DEF SemOK
  <2> QED BY <1>2, <2>1, <2>2 DEF SemOK, WakerComing
<1> QED BY <1>3, <1>4

(* release() adds one permit, free or already promised to a sleeper. *)
LEMMA ReleaseOneFacts ==
  ASSUME NEW s, SemOK(s)
  PROVE  /\ SemOK(ReleaseOne(s))
         /\ ReleaseOne(s).waiters = s.waiters
         /\ ReleaseOne(s).value + ReleaseOne(s).done = s.value + s.done + 1
         /\ WakerComing(ReleaseOne(s))
<1> DEFINE freed == [s EXCEPT !.value = @ + 1]
<1>1. s \in SemType
  BY DEF SemOK
<1>2. s.value \in Nat /\ s.done \in Nat
  BY <1>1, SemFields
<1>3. /\ freed \in SemType /\ freed.value = s.value + 1
      /\ freed.waiters = s.waiters /\ freed.done = s.done
  BY <1>1, <1>2 DEF SemType
<1>4. ReleaseOne(s) = WakeNext(freed)
  BY DEF ReleaseOne
<1> HIDE DEF freed
<1>5. SemOK(freed) /\ freed.value > 0
  BY <1>2, <1>3 DEF SemOK
<1>6. /\ SemOK(WakeNext(freed))
      /\ WakeNext(freed).waiters = freed.waiters
      /\ WakeNext(freed).value + WakeNext(freed).done = freed.value + freed.done
      /\ WakerComing(WakeNext(freed))
  BY <1>5, WakeNextFacts
<1> QED BY <1>2, <1>3, <1>4, <1>6

(* A woken task leaves the queue with the permit it was promised; nobody   *)
(* else's place changes.                                                   *)
LEMMA AfterWakeFacts ==
  ASSUME NEW s, SemOK(s), s.done > 0
  PROVE  /\ SemOK(AfterWake(s))
         /\ AfterWake(s).value + AfterWake(s).done = s.value + s.done - 1
         /\ ~ Queued(AfterWake(s), Head(s.waiters))
         /\ \A u : u # Head(s.waiters) => (Queued(AfterWake(s), u) <=> Queued(s, u))
         /\ WakerComing(AfterWake(s))
<1> DEFINE d == [value |-> s.value, waiters |-> Tail(s.waiters), done |-> s.done - 1]
           n == Len(s.waiters)
<1>1. s \in SemType
  BY DEF SemOK
<1>2. /\ s.value \in Nat /\ s.done \in Nat /\ n \in Nat /\ n > 0
      /\ s.waiters \in Seq(Tasks) /\ s.waiters # <<>>
      /\ DOMAIN s.waiters = 1 .. n
      /\ s.done <= n
  BY <1>1, SemFields DEF SemOK
<1>3. /\ Tail(s.waiters) \in Seq(Tasks) /\ Len(Tail(s.waiters)) = n - 1
      /\ Head(s.waiters) = s.waiters[1]
      /\ \A i \in 1 .. n - 1 : Tail(s.waiters)[i] = s.waiters[i + 1]
  BY <1>2, HeadTailProperties
<1>4. /\ d \in SemType /\ d.value = s.value /\ d.done = s.done - 1
      /\ d.waiters = Tail(s.waiters)
  BY <1>1, <1>2, <1>3 DEF SemType
<1>5. AfterWake(s) = IF d.value > 0 THEN WakeNext(d) ELSE d
  BY DEF AfterWake
<1> HIDE DEF d
<1>6. DOMAIN d.waiters = 1 .. n - 1
  BY <1>3, <1>4, SemFields
<1>7. ASSUME NEW i \in 1 .. n, NEW j \in 1 .. n, s.waiters[i] = s.waiters[j]
      PROVE  i = j
  BY <1>2, <1>7 DEF SemOK
<1> HIDE DEF n
<1>8. SemOK(d)
  <2>1. ASSUME NEW i \in 1 .. n - 1, NEW j \in 1 .. n - 1,
               d.waiters[i] = d.waiters[j]
        PROVE  i = j
    <3>1. i + 1 \in 1 .. n /\ j + 1 \in 1 .. n
      BY <1>2
    <3>2. s.waiters[i + 1] = s.waiters[j + 1]
      BY <1>3, <1>4, <2>1
    <3>3. i + 1 = j + 1
      BY <3>1, <3>2, <1>7
    <3> QED BY <3>3
  <2>2. d.done <= Len(d.waiters)
    BY <1>2, <1>3, <1>4
  <2> QED BY <1>4, <1>6, <2>1, <2>2 DEF SemOK
<1>9. ~ Queued(d, Head(s.waiters))
  <2>1. ASSUME NEW i \in 1 .. n - 1 PROVE d.waiters[i] # Head(s.waiters)
    <3>1. i + 1 \in 1 .. n /\ 1 \in 1 .. n /\ i + 1 # 1
      BY <1>2
    <3>2. s.waiters[i + 1] # s.waiters[1]
      BY <3>1, <1>7
    <3> QED BY <1>3, <1>4, <3>2
  <2> QED BY <2>1, <1>6 DEF Queued
<1>10. ASSUME NEW u, u # Head(s.waiters)
       PROVE  Queued(d, u) <=> Queued(s, u)
  <2>1. ASSUME NEW i \in 1 .. n - 1, d.waiters[i] = u PROVE Queued(s, u)
    <3>1. i + 1 \in 1 .. n /\ s.waiters[i + 1] = u
      BY <1>2, <1>3, <1>4, <2>1
    <3> QED BY <3>1, <1>2 DEF Queued
  <2>2. ASSUME NEW i \in 1 .. n, s.waiters[i] = u PROVE Queued(d, u)
    <3>1. i # 1
      BY <1>3, <1>10, <2>2
    <3>2. i - 1 \in 1 .. n - 1 /\ d.waiters[i - 1] = u
      BY <3>1, <1>2, <1>3, <1>4, <2>2
    <3> QED BY <3>2, <1>6 DEF Queued
  <2> QED BY <2>1, <2>2, <1>2, <1>6 DEF Queued
<1>11. CASE d.value > 0
  <2>1. /\ SemOK(WakeNext(d)) /\ WakeNext(d).waiters = d.waiters
        /\ WakeNext(d).value + WakeNext(d).done = d.value + d.done
        /\ WakerComing(WakeNext(d))
    BY <1>8, <1>11, WakeNextFacts
  <2>2. AfterWake(s) = WakeNext(d)
    BY <1>5, <1>11
  <2> QED BY <1>2, <1>4, <1>9, <1>10, <2>1, <2>2 DEF Queued
<1>12. CASE ~ (d.value > 0)
  <2>1. AfterWake(s) = d
    BY <1>5, <1>12
  <2> QED BY <1>2, <1>4, <1>8, <1>9, <1>10, <1>12, <2>1 DEF WakerComing
<1> QED BY <1>11, <1>12

(* __aexit__ gives back what the task held, whoever is promised it. *)
LEMMA ReleaseAllFacts ==
  ASSUME NEW t, SemOK(sem)
  PROVE  /\ SemOK(ReleaseAll(t))
         /\ ReleaseAll(t).waiters = sem.waiters
         /\ ReleaseAll(t).value + ReleaseAll(t).done
              = sem.value + sem.done + Weight(t)
         /\ WakerComing(ReleaseAll(t))
<1> DEFINE r == ReleaseOne(sem)
<1>1. /\ SemOK(r) /\ r.waiters = sem.waiters
      /\ r.value + r.done = sem.value + sem.done + 1
      /\ WakerComing(r)
  BY ReleaseOneFacts
<1>2. sem.value \in Nat /\ sem.done \in Nat
  BY SemFields DEF SemOK
<1>3. CASE t \in Heavy
  <2> HIDE DEF r
  <2>1. /\ SemOK(ReleaseOne(r)) /\ ReleaseOne(r).waiters = r.waiters
        /\ ReleaseOne(r).value + ReleaseOne(r).done = r.value + r.done + 1
        /\ WakerComing(ReleaseOne(r))
    BY <1>1, ReleaseOneFacts
  <2>2. ReleaseAll(t) = ReleaseOne(r) /\ Weight(t) = 2
    BY <1>3 DEF ReleaseAll, Weight, r
  <2> QED BY <1>1, <1>2, <2>1, <2>2
<1>4. CASE t \notin Heavy
  BY <1>1, <1>4 DEF ReleaseAll, Weight
<1> QED BY <1>3, <1>4

-----------------------------------------------------------------------------
(* Counting the permits that tasks hold *)

LEMMA HeldFinite ==
  ASSUME NEW f \in [Tasks -> 0 .. 2]
  PROVE  IsFiniteSet(HeldIn(f)) /\ Held(f) \in Nat
<1>1. IsFiniteSet(Tasks) /\ IsFiniteSet(1 .. 2)
  <2>1. 1 \in Int /\ 2 \in Int /\ NumTasks \in Int
    BY LevelAssumption
  <2>2. IsFiniteSet(1 .. 2) /\ IsFiniteSet(1 .. NumTasks)
    BY <2>1, FS_Interval
  <2> QED BY <2>2 DEF Tasks
<1>2. IsFiniteSet(Tasks \X (1 .. 2))
  BY <1>1, FS_Product
<1>3. HeldIn(f) \subseteq Tasks \X (1 .. 2)
  BY DEF HeldIn
<1>4. IsFiniteSet(HeldIn(f))
  BY <1>2, <1>3, FS_Subset
<1> QED BY <1>4, FS_CardinalityType DEF Held

LEMMA HeldAddOne ==
  ASSUME NEW f \in [Tasks -> 0 .. 2], NEW t \in Tasks, f[t] < 2
  PROVE  Held([f EXCEPT ![t] = f[t] + 1]) = Held(f) + 1
<1> DEFINE g == [f EXCEPT ![t] = f[t] + 1]
           p == <<t, f[t] + 1>>
<1>1. f[t] \in {0, 1}
  OBVIOUS
<1>2. p \in Tasks \X {1, 2}
  BY <1>1
<1>3. HeldIn(g) = HeldIn(f) \cup {p}
  <2>1. ASSUME NEW q \in Tasks \X {1, 2}
        PROVE  q[2] <= g[q[1]] <=> (q[2] <= f[q[1]] \/ q = p)
    <3>1. PICK u \in Tasks, k \in {1, 2} : q = <<u, k>>
      OBVIOUS
    <3>2. CASE u = t
      BY <1>1, <3>1, <3>2
    <3>3. CASE u # t
      BY <3>1, <3>3
    <3> QED BY <3>2, <3>3
  <2> QED BY <1>2, <2>1 DEF HeldIn
<1>4. p \notin HeldIn(f)
  BY <1>1 DEF HeldIn
<1> QED BY <1>3, <1>4, HeldFinite, FS_AddElement DEF Held

(* Setting one task's count changes the total by the difference. *)
LEMMA HeldSet ==
  ASSUME NEW f \in [Tasks -> 0 .. 2], NEW t \in Tasks, NEW n \in 0 .. 2
  PROVE  Held([f EXCEPT ![t] = n]) = Held(f) - f[t] + n
<1> DEFINE At(k) == [f EXCEPT ![t] = k]
<1>1. \A k \in 0 .. 2 : At(k) \in [Tasks -> 0 .. 2] /\ At(k)[t] = k
  OBVIOUS
<1>2. At(1) = [At(0) EXCEPT ![t] = At(0)[t] + 1]
      /\ At(2) = [At(1) EXCEPT ![t] = At(1)[t] + 1]
  OBVIOUS
<1>3. At(f[t]) = f /\ f[t] \in 0 .. 2
  OBVIOUS
<1> HIDE DEF At
<1>4. Held(At(1)) = Held(At(0)) + 1 /\ Held(At(2)) = Held(At(1)) + 1
  BY <1>1, <1>2, HeldAddOne
<1>5. Held(At(0)) \in Nat
  BY <1>1, HeldFinite
<1>6. \A k \in 0 .. 2 : Held(At(k)) = Held(At(0)) + k
  BY <1>4, <1>5
<1>7. Held(f) = Held(At(0)) + f[t]
  BY <1>3, <1>6
<1>8. Held(At(n)) = Held(At(0)) + n
  BY <1>6
<1>9. Held(At(n)) = Held(f) - f[t] + n
  BY <1>3, <1>5, <1>7, <1>8
<1> QED BY <1>9 DEF At

-----------------------------------------------------------------------------
(* The acquire loop of one task, from its (have + 1)-th permit on, when    *)
(* every other task is as PermitInv wants it.                              *)

LEMMA AcquireFromInv ==
  ASSUME NEW t \in Tasks, NEW have \in 0 .. 2, NEW s,
         have <= Weight(t), AcquireFrom(t, have, s),
         got \in [Tasks -> 0 .. 2],
         pc \in [Tasks -> {"new", "waiting", "running", "left"}],
         SemOK(s), WakerComing(s), ~ Queued(s, t),
         \A u \in Tasks \ {t} : pc[u] = "waiting" <=> Queued(s, u),
         HoldsWhatItNeeds,
         s.value + s.done + Held([got EXCEPT ![t] = have]) = MaxParallel
  PROVE  PermitInv'
<1> DEFINE missing == Weight(t) - have
           now == IF Locked(s) THEN 0
                  ELSE IF s.value < missing THEN s.value ELSE missing
           n == Len(s.waiters)
<1>1. /\ s \in SemType /\ s.value \in Nat /\ s.done \in Nat /\ n \in Nat
      /\ s.waiters \in Seq(Tasks) /\ DOMAIN s.waiters = 1 .. n
      /\ s.waiters # <<>> <=> n > 0
      /\ s.done <= n
  BY SemFields DEF SemOK
<1>2. Weight(t) \in {1, 2} /\ missing \in {0, 1, 2}
  BY DEF Weight
<1>3. now \in 0 .. 2 /\ now <= missing /\ now <= s.value
  BY <1>1, <1>2 DEF Locked
<1>4. now < missing => s.waiters # <<>> \/ s.value = now
  BY <1>1, <1>2 DEF Locked
<1>5. /\ got' = [got EXCEPT ![t] = have + now]
      /\ \/ /\ now = missing
            /\ sem' = [s EXCEPT !.value = @ - now]
            /\ pc' = [pc EXCEPT ![t] = "running"]
         \/ /\ now < missing
            /\ sem' = [value   |-> s.value - now,
                       waiters |-> Append(s.waiters, t),
                       done    |-> s.done]
            /\ pc' = [pc EXCEPT ![t] = "waiting"]
  BY DEF AcquireFrom, Enqueue
<1>6. have + missing = Weight(t)
  BY <1>2
<1> HIDE DEF missing, now, n
<1>7. have + now \in 0 .. 2
  BY <1>2, <1>3, <1>6
<1>8. got' \in [Tasks -> 0 .. 2] /\ got'[t] = have + now
      /\ \A u \in Tasks \ {t} : got'[u] = got[u]
  BY <1>5, <1>7
<1>9. pc' \in [Tasks -> {"new", "waiting", "running", "left"}]
      /\ \A u \in Tasks \ {t} : pc'[u] = pc[u]
  BY <1>5
<1>10. Held(got') = Held([got EXCEPT ![t] = have]) + now
  <2>1. Held([got EXCEPT ![t] = have]) = Held(got) - got[t] + have
    BY HeldSet
  <2>2. Held([got EXCEPT ![t] = have + now]) = Held(got) - got[t] + (have + now)
    BY <1>7, HeldSet
  <2>3. Held(got) \in Nat /\ got[t] \in Nat
    BY HeldFinite
  <2> QED BY <1>3, <1>5, <2>1, <2>2, <2>3
<1>11. SemOK(sem') /\ sem'.value = s.value - now /\ sem'.done = s.done
  <2>1. CASE now = missing
    <3>1. /\ sem' \in SemType /\ sem'.value = s.value - now
          /\ sem'.done = s.done /\ sem'.waiters = s.waiters
      BY <1>1, <1>3, <1>5, <2>1 DEF SemType
    <3> QED BY <3>1 DEF SemOK
  <2>2. CASE now < missing
    <3>1. /\ Append(s.waiters, t) \in Seq(Tasks)
          /\ Len(Append(s.waiters, t)) = n + 1
          /\ DOMAIN Append(s.waiters, t) = 1 .. n + 1
          /\ \A i \in 1 .. n : Append(s.waiters, t)[i] = s.waiters[i]
          /\ Append(s.waiters, t)[n + 1] = t
      BY <1>1, AppendProperties, LenProperties DEF n
    <3>2. /\ sem' \in SemType /\ sem'.value = s.value - now
          /\ sem'.done = s.done /\ sem'.waiters = Append(s.waiters, t)
      <4>1. sem' = [value   |-> s.value - now,
                    waiters |-> Append(s.waiters, t),
                    done    |-> s.done]
        BY <1>2, <1>3, <1>5, <2>2
      <4>2. s.value - now \in Nat
        BY <1>1, <1>3
      <4> QED BY <1>1, <3>1, <4>1, <4>2 DEF SemType
    <3>3. ASSUME NEW i \in 1 .. n + 1, NEW j \in 1 .. n + 1,
                 sem'.waiters[i] = sem'.waiters[j]
          PROVE  i = j
      <4>1. \A k \in 1 .. n : s.waiters[k] # t
        BY <1>1 DEF Queued
      <4>2. i \in 1 .. n \/ i = n + 1
        BY <1>1
      <4>3. j \in 1 .. n \/ j = n + 1
        BY <1>1
      <4>4. \A k, l \in 1 .. n : s.waiters[k] = s.waiters[l] => k = l
        BY <1>1 DEF SemOK
      <4> QED BY <3>1, <3>2, <3>3, <4>1, <4>2, <4>3, <4>4
    <3>4. sem'.done <= Len(sem'.waiters)
      BY <1>1, <3>1, <3>2
    <3> QED BY <3>1, <3>2, <3>3, <3>4 DEF SemOK
  <2> QED BY <2>1, <2>2, <1>5
<1>12. \A u \in Tasks : pc'[u] = "waiting" <=> Queued(sem', u)
  <2>1. CASE now = missing
    <3>1. sem'.waiters = s.waiters /\ pc'[t] = "running"
      BY <1>1, <1>2, <1>3, <1>5, <2>1 DEF SemType
    <3> QED BY <1>9, <3>1 DEF Queued
  <2>2. CASE now < missing
    <3>1. sem'.waiters = Append(s.waiters, t) /\ pc'[t] = "waiting"
      BY <1>2, <1>3, <1>5, <2>2
    <3>2. /\ DOMAIN sem'.waiters = 1 .. n + 1
          /\ \A i \in 1 .. n : sem'.waiters[i] = s.waiters[i]
          /\ sem'.waiters[n + 1] = t
      BY <1>1, <3>1, AppendProperties, LenProperties DEF n
    <3>3. Queued(sem', t)
      BY <1>1, <3>2 DEF Queued
    <3>4. ASSUME NEW u \in Tasks \ {t} PROVE Queued(sem', u) <=> Queued(s, u)
      <4>1. \A i \in 1 .. n + 1 : i \in 1 .. n \/ i = n + 1
        BY <1>1
      <4>2. \A i \in 1 .. n : i \in 1 .. n + 1
        BY <1>1
      <4> QED BY <1>1, <3>2, <4>1, <4>2 DEF Queued
    <3> QED BY <1>9, <3>1, <3>3, <3>4
  <2> QED BY <2>1, <2>2, <1>5
<1>13. HoldsWhatItNeeds'
  <2>1. \/ now = missing /\ pc'[t] = "running"
        \/ now < missing /\ pc'[t] = "waiting"
    BY <1>5
  <2>2. have + now = Weight(t) <=> now = missing
    BY <1>2, <1>3, <1>6
  <2>3. now < missing => have + now < Weight(t)
    BY <1>2, <1>3, <1>6
  <2> QED BY <1>8, <1>9, <2>1, <2>2, <2>3 DEF HoldsWhatItNeeds, Weight
<1>14. PermitsConserved'
  <2>1. Held([got EXCEPT ![t] = have]) \in Nat
    <3>1. [got EXCEPT ![t] = have] \in [Tasks -> 0 .. 2]
      OBVIOUS
    <3> QED BY <3>1, HeldFinite
  <2>2. sem'.value + sem'.done + Held(got') = MaxParallel
    BY <1>1, <1>3, <1>10, <1>11, <2>1
  <2> QED BY <2>2 DEF PermitsConserved, Held
<1>15. NoLostWakeup'
  <2>1. CASE now = missing
    <3>1. sem'.waiters = s.waiters
      BY <1>1, <1>2, <1>3, <1>5, <2>1 DEF SemType
    <3> QED BY <1>1, <1>3, <1>11, <3>1 DEF NoLostWakeup, WakerComing
  <2>2. CASE now < missing
    <3>1. sem'.value > 0 => s.waiters # <<>> /\ s.value > 0
      BY <1>1, <1>3, <1>4, <1>11, <2>2
    <3> QED BY <1>11, <3>1 DEF NoLostWakeup, WakerComing
  <2> QED BY <2>1, <2>2, <1>5
<1>16. TypeOK'
  BY <1>8, <1>9, <1>11 DEF TypeOK, SemOK, SemType
<1>17. QueueWellFormed'
  BY <1>11, <1>12 DEF QueueWellFormed, Queued, SemOK
<1> QED BY <1>13, <1>14, <1>15, <1>16, <1>17 DEF PermitInv

-----------------------------------------------------------------------------
(* The inductive invariant *)

LEMMA PermitInvInit == Init => PermitInv
<1> SUFFICES ASSUME Init PROVE PermitInv
  OBVIOUS
<1>1. sem \in SemType /\ sem.waiters = <<>> /\ sem.done = 0 /\ sem.value = MaxParallel
  BY LevelAssumption DEF Init, SemType
<1>2. Held(got) = 0
  <2>1. HeldIn(got) = {}
    BY DEF Init, HeldIn
  <2> QED BY <2>1, FS_EmptySet DEF Held
<1>3. DOMAIN sem.waiters = {} /\ Len(sem.waiters) = 0
  BY <1>1
<1>4. TypeOK
  BY <1>1 DEF Init, TypeOK, SemType
<1>5. PermitsConserved
  BY <1>1, <1>2, LevelAssumption DEF PermitsConserved, Held
<1>6. QueueWellFormed /\ HoldsWhatItNeeds /\ NoLostWakeup
  BY <1>1, <1>3 DEF Init, QueueWellFormed, HoldsWhatItNeeds, NoLostWakeup
<1> QED BY <1>4, <1>5, <1>6 DEF PermitInv

(* The invariant in the terms of the lemmas above. *)
LEMMA PermitInvFacts ==
  ASSUME PermitInv
  PROVE  /\ SemOK(sem) /\ WakerComing(sem)
         /\ sem.value \in Nat /\ sem.done \in Nat
         /\ got \in [Tasks -> 0 .. 2]
         /\ pc \in [Tasks -> {"new", "waiting", "running", "left"}]
         /\ \A u \in Tasks : pc[u] = "waiting" <=> Queued(sem, u)
         /\ HoldsWhatItNeeds
         /\ sem.value + sem.done + Held(got) = MaxParallel
         /\ Held(got) \in Nat
<1>1. SemOK(sem)
  BY DEF PermitInv, TypeOK, QueueWellFormed, SemOK, SemType
<1>2. sem.value \in Nat /\ sem.done \in Nat
  BY <1>1, SemFields DEF SemOK
<1>3. got \in [Tasks -> 0 .. 2]
  BY DEF PermitInv, TypeOK
<1>4. Held(got) \in Nat
  BY <1>3, HeldFinite
<1> QED BY <1>1, <1>2, <1>3, <1>4
     DEF PermitInv, TypeOK, QueueWellFormed, NoLostWakeup, PermitsConserved,
         WakerComing, Queued, Held

LEMMA StartPreserves ==
  ASSUME PermitInv, NEW t \in Tasks, Start(t) PROVE PermitInv'
<1>1. got[t] = 0 /\ pc[t] = "new"
  BY PermitInvFacts DEF Start, HoldsWhatItNeeds
<1>2. [got EXCEPT ![t] = 0] = got
  BY <1>1, PermitInvFacts
<1>3. ~ Queued(sem, t)
  BY <1>1, PermitInvFacts
<1>4. 0 <= Weight(t) /\ 0 \in 0 .. 2
  BY DEF Weight
<1>5. AcquireFrom(t, 0, sem)
  BY DEF Start
<1>6. sem.value + sem.done + Held([got EXCEPT ![t] = 0]) = MaxParallel
  BY <1>2, PermitInvFacts
<1> QED BY <1>3, <1>4, <1>5, <1>6, PermitInvFacts, AcquireFromInv

LEMMA ResumedIsQueued ==
  ASSUME PermitInv, NEW t \in Tasks, Resume(t) PROVE Queued(sem, t)
<1>1. sem.done > 0 /\ t = Head(sem.waiters)
  BY DEF Resume
<1>2. sem \in SemType /\ sem.done <= Len(sem.waiters)
  BY PermitInvFacts DEF SemOK
<1>3. sem.waiters \in Seq(Tasks) /\ sem.waiters # <<>>
      /\ 1 \in DOMAIN sem.waiters
  BY <1>1, <1>2, SemFields
<1>4. sem.waiters[1] = t
  BY <1>1, <1>3, HeadTailProperties
<1> QED BY <1>3, <1>4 DEF Queued

LEMMA ResumePreserves ==
  ASSUME PermitInv, NEW t \in Tasks, Resume(t) PROVE PermitInv'
<1> DEFINE s == AfterWake(sem)
<1>1. sem.done > 0 /\ t = Head(sem.waiters) /\ AcquireFrom(t, got[t] + 1, s)
  BY DEF Resume
<1>2. /\ SemOK(s) /\ WakerComing(s)
      /\ s.value + s.done = sem.value + sem.done - 1
      /\ ~ Queued(s, t)
      /\ \A u : u # t => (Queued(s, u) <=> Queued(sem, u))
  BY <1>1, PermitInvFacts, AfterWakeFacts
<1>3. Queued(sem, t)
  BY ResumedIsQueued
<1>4. pc[t] = "waiting"
  BY <1>3, PermitInvFacts
<1>5. got[t] < Weight(t) /\ got[t] \in 0 .. 2 /\ Weight(t) \in {1, 2}
  BY <1>4, PermitInvFacts DEF HoldsWhatItNeeds, Weight
<1>6. s.value \in Nat /\ s.done \in Nat
  BY <1>2, SemFields DEF SemOK
<1> HIDE DEF s
<1>7. Held([got EXCEPT ![t] = got[t] + 1]) = Held(got) + 1
  <2>1. got \in [Tasks -> 0 .. 2] /\ got[t] < 2
    BY <1>5, PermitInvFacts
  <2> QED BY <2>1, HeldAddOne
<1>8. s.value + s.done + Held([got EXCEPT ![t] = got[t] + 1]) = MaxParallel
  BY <1>2, <1>6, <1>7, PermitInvFacts
<1>9. got[t] + 1 \in 0 .. 2 /\ got[t] + 1 <= Weight(t)
  BY <1>5
<1>10. \A u \in Tasks \ {t} : pc[u] = "waiting" <=> Queued(s, u)
  BY <1>2, PermitInvFacts
<1> QED BY <1>1, <1>2, <1>8, <1>9, <1>10, PermitInvFacts, AcquireFromInv

LEMMA LeavePreserves ==
  ASSUME PermitInv, NEW t \in Tasks, Leave(t) PROVE PermitInv'
<1>1. /\ pc[t] = "running" /\ sem' = ReleaseAll(t)
      /\ got' = [got EXCEPT ![t] = 0] /\ pc' = [pc EXCEPT ![t] = "left"]
  BY DEF Leave
<1>2. got[t] = Weight(t) /\ Weight(t) \in {1, 2}
  BY <1>1, PermitInvFacts DEF HoldsWhatItNeeds, Weight
<1>3. /\ SemOK(sem') /\ sem'.waiters = sem.waiters
      /\ sem'.value + sem'.done = sem.value + sem.done + Weight(t)
      /\ WakerComing(sem')
  BY <1>1, PermitInvFacts, ReleaseAllFacts
<1>4. sem'.value \in Nat /\ sem'.done \in Nat
  BY <1>3, SemFields DEF SemOK
<1>5. /\ got' \in [Tasks -> 0 .. 2] /\ got'[t] = 0
      /\ pc' \in [Tasks -> {"new", "waiting", "running", "left"}]
      /\ pc'[t] = "left"
      /\ \A u \in Tasks \ {t} : got'[u] = got[u] /\ pc'[u] = pc[u]
  BY <1>1, PermitInvFacts
<1>6. Held(got') = Held(got) - Weight(t)
  <2>1. Held([got EXCEPT ![t] = 0]) = Held(got) - got[t] + 0
    <3>1. got \in [Tasks -> 0 .. 2] /\ 0 \in 0 .. 2
      BY PermitInvFacts
    <3> QED BY <3>1, HeldSet
  <2> QED BY <1>1, <1>2, <2>1, PermitInvFacts
<1>7. PermitsConserved'
  <2>1. sem'.value + sem'.done + Held(got') = MaxParallel
    BY <1>2, <1>3, <1>4, <1>6, PermitInvFacts
  <2> QED BY <2>1 DEF PermitsConserved, Held
<1>8. QueueWellFormed'
  <2>1. \A u \in Tasks : pc'[u] = "waiting" <=> Queued(sem', u)
    BY <1>1, <1>3, <1>5, PermitInvFacts DEF Queued
  <2> QED BY <1>3, <2>1 DEF QueueWellFormed, Queued, SemOK
<1>9. HoldsWhatItNeeds'
  BY <1>5, PermitInvFacts DEF HoldsWhatItNeeds, Weight
<1>10. TypeOK' /\ NoLostWakeup'
  BY <1>3, <1>5 DEF TypeOK, SemOK, SemType, NoLostWakeup, WakerComing
<1> QED BY <1>7, <1>8, <1>9, <1>10 DEF PermitInv

LEMMA PermitInvStep == PermitInv /\ [Next]_vars => PermitInv'
<1> SUFFICES ASSUME PermitInv, [Next]_vars PROVE PermitInv'
  OBVIOUS
<1>1. CASE UNCHANGED vars
  BY <1>1 DEF vars, PermitInv, TypeOK, PermitsConserved, QueueWellFormed,
              HoldsWhatItNeeds, NoLostWakeup, HeldIn
<1>2. CASE Gathered
  BY <1>1, <1>2 DEF Gathered
<1>3. ASSUME NEW t \in Tasks, Start(t) PROVE PermitInv'
  BY <1>3, StartPreserves
<1>4. ASSUME NEW t \in Tasks, Resume(t) PROVE PermitInv'
  BY <1>4, ResumePreserves
<1>5. ASSUME NEW t \in Tasks, Leave(t) PROVE PermitInv'
  BY <1>5, LeavePreserves
<1> QED BY <1>1, <1>2, <1>3, <1>4, <1>5 DEF Next

(* The accounting of permits is right in every reachable state: none lost, *)
(* none minted, sleepers queued once and never forgotten.                  *)
THEOREM PermitsSafe == Spec => []PermitInv
BY PermitInvInit, PermitInvStep, PTL DEF Spec

-----------------------------------------------------------------------------
(* What follows for the level *)

LEMMA LoadWithinLimit == PermitInv => RunningWithinLimit
<1> SUFFICES ASSUME PermitInv PROVE RunningWithinLimit
  OBVIOUS
<1>1. Admission!Slots(Running) \subseteq HeldIn(got)
  <2>1. ASSUME NEW p \in Running \X {1, 2}, p[2] <= Weight(p[1])
        PROVE  p \in HeldIn(got)
    <3>1. p[1] \in Tasks /\ got[p[1]] = Weight(p[1])
      BY PermitInvFacts DEF Running, HoldsWhatItNeeds
    <3> QED BY <2>1, <3>1 DEF HeldIn
  <2> QED BY <2>1 DEF Admission!Slots
<1>2. IsFiniteSet(HeldIn(got))
  BY PermitInvFacts, HeldFinite
<1>3. /\ IsFiniteSet(Admission!Slots(Running))
      /\ Cardinality(Admission!Slots(Running)) <= Cardinality(HeldIn(got))
  BY <1>1, <1>2, FS_Subset
<1>4. Cardinality(Admission!Slots(Running)) \in Nat
  BY <1>3, FS_CardinalityType
<1>5. Cardinality(Admission!Slots(Running)) <= MaxParallel
  BY <1>3, <1>4, PermitInvFacts DEF Held
<1>6. Admission!Load(Running) = Cardinality(Admission!Slots(Running))
  BY DEF Admission!Load, Admission!Cardinality, Cardinality
<1> QED BY <1>5, <1>6 DEF RunningWithinLimit

(* max_parallel holds at any moment for nodes of any weight mix. *)
THEOREM LimitRespected == Spec => []RunningWithinLimit
BY PermitsSafe, LoadWithinLimit, PTL

LEMMA NoStall == PermitInv => NoPermitStall
<1> SUFFICES ASSUME PermitInv, Cardinality(Heavy) < MaxParallel,
                    NEW x \in Tasks, pc[x] # "left",
                    \A t \in Tasks : pc[t] \notin {"new", "running"},
                    ~ (sem.done > 0)
             PROVE  FALSE
  BY DEF NoPermitStall, CanProceed
<1>1. /\ sem \in SemType /\ sem.value \in Nat /\ sem.done = 0
      /\ WakerComing(sem) /\ Held(got) \in Nat
      /\ sem.value + Held(got) = MaxParallel
  BY PermitInvFacts DEF SemOK
<1>2. pc[x] = "waiting"
  BY PermitInvFacts
<1>3. sem.waiters # <<>>
  BY <1>1, <1>2, PermitInvFacts, SemFields DEF Queued
<1>4. sem.value = 0
  BY <1>1, <1>3 DEF WakerComing
<1>5. HeldIn(got) \subseteq Heavy \X {1}
  <2>1. ASSUME NEW u \in Tasks PROVE got[u] = 0 \/ (u \in Heavy /\ got[u] = 1)
    <3>1. pc[u] \in {"waiting", "left"} /\ got[u] \in 0 .. 2
      BY PermitInvFacts
    <3>2. got[u] < Weight(u) \/ got[u] = 0
      BY <3>1, PermitInvFacts DEF HoldsWhatItNeeds
    <3> QED BY <3>1, <3>2 DEF Weight
  <2>2. ASSUME NEW u \in Tasks, NEW k \in {1, 2}, k <= got[u]
        PROVE  u \in Heavy /\ k = 1
    BY <2>1, <2>2
  <2> QED BY <2>2 DEF HeldIn
<1>6. IsFiniteSet(Heavy)
  <2>1. IsFiniteSet(1 .. NumTasks)
    BY LevelAssumption, FS_Interval
  <2> QED BY <2>1, LevelAssumption, FS_Subset DEF Tasks
<1>7. IsFiniteSet({1}) /\ Cardinality({1}) = 1
  BY FS_Singleton
<1>8. /\ IsFiniteSet(Heavy \X {1})
      /\ Cardinality(Heavy \X {1}) = Cardinality(Heavy) * Cardinality({1})
  BY <1>6, <1>7, FS_Product
<1>9. Cardinality(HeldIn(got)) <= Cardinality(Heavy \X {1})
  BY <1>5, <1>8, FS_Subset
<1>10. Cardinality(Heavy) \in Nat
  BY <1>6, FS_CardinalityType
<1>11. Cardinality(Heavy \X {1}) = Cardinality(Heavy)
  BY <1>7, <1>8, <1>10
<1> QED BY <1>1, <1>4, <1>9, <1>10, <1>11, LevelAssumption DEF Held

(* A level with fewer LLM nodes than permits can never starve itself. *)
THEOREM FewHeavyNeverStall == Spec => []NoPermitStall
BY PermitsSafe, NoStall, PTL

LEMMA AdmissionInit == Init => Admission!Init
<1> SUFFICES ASSUME Init PROVE Running = {} /\ Left = {}
  BY DEF Admission!Init
<1> QED BY DEF Init, Running, Left

LEMMA AdmissionStep ==
  PermitInv /\ RunningWithinLimit' /\ [Next]_vars => [Admission!Next]_(Admission!vars)
<1> SUFFICES ASSUME PermitInv, RunningWithinLimit', [Next]_vars
             PROVE  Admission!Next \/ UNCHANGED <<Running, Left>>
  BY DEF Admission!vars
<1>1. pc \in [Tasks -> {"new", "waiting", "running", "left"}]
  BY PermitInvFacts
<1>2. CASE UNCHANGED vars \/ Gathered
  BY <1>2 DEF Gathered, vars, Running, Left
<1>3. ASSUME NEW t \in Tasks, pc[t] \in {"new", "waiting"},
             pc' = [pc EXCEPT ![t] = "running"]
      PROVE  Admission!Enter(t)
  <2>1. Running' = Running \cup {t} /\ Left' = Left /\ t \notin Running \cup Left
    BY <1>1, <1>3 DEF Running, Left
  <2> QED BY <2>1 DEF Admission!Enter, RunningWithinLimit, Admission!Load, Admission!Slots
<1>4. ASSUME NEW t \in Tasks, pc[t] \in {"new", "waiting"},
             pc' = [pc EXCEPT ![t] = "waiting"]
      PROVE  UNCHANGED <<Running, Left>>
  BY <1>1, <1>4 DEF Running, Left
<1>5. ASSUME NEW t \in Tasks, Start(t)
      PROVE  Admission!Enter(t) \/ UNCHANGED <<Running, Left>>
  <2>1. pc[t] = "new" /\ (\/ pc' = [pc EXCEPT ![t] = "running"]
                          \/ pc' = [pc EXCEPT ![t] = "waiting"])
    BY <1>5 DEF Start, AcquireFrom
  <2> QED BY <2>1, <1>3, <1>4
<1>6. ASSUME NEW t \in Tasks, Resume(t)
      PROVE  Admission!Enter(t) \/ UNCHANGED <<Running, Left>>
  <2>1. Queued(sem, t)
    BY <1>6, ResumedIsQueued
  <2>2. pc[t] = "waiting"
    BY <2>1, PermitInvFacts
  <2>3. \/ pc' = [pc EXCEPT ![t] = "running"]
        \/ pc' = [pc EXCEPT ![t] = "waiting"]
    BY <1>6 DEF Resume, AcquireFrom
  <2> QED BY <2>2, <2>3, <1>3, <1>4
<1>7. ASSUME NEW t \in Tasks, Leave(t) PROVE Admission!Leave(t)
  <2>1. pc[t] = "running" /\ pc' = [pc EXCEPT ![t] = "left"]
    BY <1>7 DEF Leave
  <2> QED BY <1>1, <2>1 DEF Admission!Leave, Running, Left
<1> QED BY <1>2, <1>5, <1>6, <1>7 DEF Next, Admission!Next

(* The semaphore protocol implements weighted admission. *)
THEOREM PermitsImplementAdmission == Spec => ImplementsAdmission
<1>1. Spec => [](PermitInv /\ RunningWithinLimit)
  BY PermitsSafe, LimitRespected, PTL
<1> QED BY <1>1, AdmissionInit, AdmissionStep, PTL
     DEF Spec, ImplementsAdmission, Admission!Spec
=============================================================================
