------------------------ MODULE TrafficTracker_proofs ------------------------
(***************************************************************************)
(* Theorems about TrafficTracker, for every set of users, every amount of  *)
(* traffic and every number of restarts and failed writes.                 *)
(***************************************************************************)
EXTENDS TrafficTracker, TLAPS

\* What is subtracted from a counter is no more than the counter.
LEMMA PrevFits ==
    ASSUME TypeOK, NEW u \in Users
    PROVE  /\ Prev(u) \in [Dirs -> Nat]
           /\ \A d \in Dirs : Prev(u)[d] <= reading.counts[u][d]
           /\ Prev(u) = last[u] \/ (Prev(u) = Zero[u]
                 /\ \E d \in Dirs : reading.counts[u][d] < last[u][d])
<1>1. /\ reading.counts \in Counts /\ last \in Counts
  BY DEF TypeOK
<1>2. /\ reading.counts[u] \in [Dirs -> Nat] /\ last[u] \in [Dirs -> Nat]
      /\ Zero[u] = [d \in Dirs |-> 0]
  BY <1>1 DEF Counts, Zero
<1>3. CASE \E d \in Dirs : reading.counts[u][d] < last[u][d]
  BY <1>2, <1>3 DEF Prev
<1>4. CASE \A d \in Dirs : ~(reading.counts[u][d] < last[u][d])
  BY <1>2, <1>4 DEF Prev
<1> QED BY <1>3, <1>4

\* A poll adds a natural number to every total.
LEMMA DeltaIsNat ==
    ASSUME TypeOK, NEW u \in Users, NEW d \in Dirs
    PROVE  /\ Delta(u, d) \in Nat
           /\ Delta(u, d) = reading.counts[u][d] - Prev(u)[d]
<1>1. reading.counts[u][d] \in Nat
  BY DEF TypeOK, Counts
<1> QED BY <1>1, PrevFits DEF Delta

\* Sums of counters are counters.
LEMMA PlusTypes ==
    ASSUME NEW f \in Counts, NEW g \in Counts
    PROVE  /\ Plus(f, g) \in Counts
           /\ \A u \in Users, d \in Dirs : Plus(f, g)[u][d] = f[u][d] + g[u][d]
BY DEF Plus, Counts

\* So is the counter that starts at zero.
LEMMA ZeroTypes ==
    /\ Zero \in Counts
    /\ \A u \in Users, d \in Dirs : Zero[u][d] = 0
BY DEF Zero, Counts

\* A flush writes well-formed records only.
LEMMA FlushTypes ==
    ASSUME TypeOK, NEW k \in SUBSET Users, NEW t \in Counts, NEW changed \in BOOLEAN,
           Flush(k, t, changed)
    PROVE  /\ dirty' \in BOOLEAN /\ due' \in BOOLEAN
           /\ disk' \in [known : SUBSET Users, totals : Counts]
           /\ writeErrors' \in Nat
           /\ disk' = disk \/ disk' = [known |-> k, totals |-> t]
<1>1. CASE /\ ~(changed /\ due)
           /\ dirty' = changed
           /\ UNCHANGED <<disk, due, writeErrors>>
  BY <1>1 DEF TypeOK
<1>2. CASE /\ dirty' = FALSE /\ due' = FALSE
           /\ \/ disk' = [known |-> k, totals |-> t] /\ UNCHANGED writeErrors
              \/ writeErrors' = writeErrors + 1 /\ UNCHANGED disk
  <2>1. [known |-> k, totals |-> t] \in [known : SUBSET Users, totals : Counts]
    OBVIOUS
  <2>2. writeErrors' \in Nat
    BY <1>2 DEF TypeOK
  <2>3. /\ disk' = disk \/ disk' = [known |-> k, totals |-> t]
        /\ disk' \in [known : SUBSET Users, totals : Counts]
    BY <1>2, <2>1 DEF TypeOK
  <2> QED BY <1>2, <2>2, <2>3
<1> QED BY <1>1, <1>2 DEF Flush

-----------------------------------------------------------------------------
(* Type correctness of every step.                                         *)

\* The initial state is well-typed.
LEMMA TypeInit == Init => TypeOK
<1> SUFFICES ASSUME Init PROVE TypeOK
  OBVIOUS
<1>1. /\ reading \in [users : SUBSET Users, counts : Counts, carried : Counts, epoch : Nat]
      /\ disk \in [known : SUBSET Users, totals : Counts]
  BY ZeroTypes DEF Init, NoReading
<1>2. lastEpoch \in [Users -> Nat]
  BY DEF Init
<1> QED BY <1>1, <1>2, ZeroTypes DEF Init, TypeOK

\* A restart of the runtime moves its counters to carried.
LEMMA RestartTypes ==
    ASSUME TypeOK, RestartRuntime,
           installed' \subseteq Users, resetting' \subseteq Users
    PROVE  TypeOK'
<1>1. carried' \in Counts /\ live' \in Counts /\ epoch' \in Nat
  BY PlusTypes, ZeroTypes DEF TypeOK, RestartRuntime
<1> QED BY <1>1 DEF TypeOK, RestartRuntime, baseline, faults

\* A restart of the API loads well-formed records.
LEMMA BootTypes ==
    ASSUME TypeOK, NEW saved \in [known : SUBSET Users, totals : Counts], Boot(saved),
           disk' \in [known : SUBSET Users, totals : Counts], writeErrors' \in Nat
    PROVE  TypeOK'
<1>1. /\ recounted' \in Counts /\ last' \in Counts /\ lastCarried' \in Counts
      /\ lastEpoch' \in [Users -> Nat] /\ apiRestarts' \in Nat
      /\ reading' \in [users : SUBSET Users, counts : Counts, carried : Counts, epoch : Nat]
  BY PlusTypes, ZeroTypes DEF TypeOK, Boot, NoReading
<1> QED BY <1>1 DEF TypeOK, Boot, runtime

\* Every step keeps every variable in its type.
LEMMA TypeStep == TypeOK /\ [Next]_vars => TypeOK'
<1> SUFFICES ASSUME TypeOK, [Next]_vars PROVE TypeOK'
  OBVIOUS
<1> USE DEF runtime, baseline, faults
<1>1. ASSUME NEW u \in Users, NEW d \in Dirs, Traffic(u, d) PROVE TypeOK'
  <2>1. live' \in Counts
    BY <1>1 DEF Traffic, TypeOK, Counts
  <2> QED BY <1>1, <2>1 DEF Traffic, TypeOK
<1>2. ASSUME NEW u \in Users, CreateUser(u) \/ DeleteUser(u) PROVE TypeOK'
  BY <1>2, RestartTypes DEF CreateUser, DeleteUser, TypeOK
<1>3. ASSUME NEW u \in Users, ResetUser(u) PROVE TypeOK'
  <2>1. totals' \in Counts /\ last' \in Counts
    BY <1>3, ZeroTypes DEF ResetUser, TypeOK, Counts
  <2> QED BY <1>3, <2>1 DEF ResetUser, TypeOK
<1>4. CASE ContainerRestart
  BY <1>4, RestartTypes DEF ContainerRestart, TypeOK
<1>5. CASE PollStart
  BY <1>5 DEF PollStart, TypeOK
<1>6. CASE Answer
  <2>1. reading' \in [users : SUBSET Users, counts : Counts, carried : Counts, epoch : Nat]
    BY <1>6 DEF Answer, TypeOK
  <2> QED BY <1>6, <2>1 DEF Answer, TypeOK
<1>7. CASE PollApplied
  <2>1. known' \in SUBSET Users
    BY <1>7 DEF PollApplied, TypeOK
  <2>2. totals' \in Counts
    <3>1. \A u \in Users, d \in Dirs : totals[u][d] + Delta(u, d) \in Nat
      BY DeltaIsNat DEF TypeOK, Counts
    <3> QED BY <1>7, <3>1 DEF PollApplied, TypeOK, Counts
  <2>3. last' \in Counts /\ lastCarried' \in Counts /\ lastEpoch' \in [Users -> Nat]
    BY <1>7 DEF PollApplied, TypeOK, Counts
  <2>4. reading' \in [users : SUBSET Users, counts : Counts, carried : Counts, epoch : Nat]
    BY <1>7, ZeroTypes DEF PollApplied, NoReading
  <2>5. (dirty \/ PollChanges) \in BOOLEAN
    BY DEF TypeOK
  <2>6. Flush(known', totals', dirty \/ PollChanges)
    BY <1>7 DEF PollApplied
  <2>7. /\ dirty' \in BOOLEAN /\ due' \in BOOLEAN
        /\ disk' \in [known : SUBSET Users, totals : Counts]
        /\ writeErrors' \in Nat
    BY <2>1, <2>2, <2>5, <2>6, FlushTypes
  <2> QED BY <1>7, <2>1, <2>2, <2>3, <2>4, <2>7 DEF PollApplied, TypeOK
<1>8. CASE PollFails
  <2>1. reading' \in [users : SUBSET Users, counts : Counts, carried : Counts, epoch : Nat]
    BY <1>8, ZeroTypes DEF PollFails, NoReading
  <2>2. /\ dirty' \in BOOLEAN /\ due' \in BOOLEAN
        /\ disk' \in [known : SUBSET Users, totals : Counts]
        /\ writeErrors' \in Nat
    BY <1>8, FlushTypes DEF PollFails, TypeOK
  <2> QED BY <1>8, <2>1, <2>2 DEF PollFails, TypeOK
<1>9. CASE IntervalPasses
  BY <1>9 DEF IntervalPasses, TypeOK
<1>10. CASE ApiCrash
  BY <1>10, BootTypes DEF ApiCrash, TypeOK
<1>11. CASE ApiStop
  <2>1. disk' \in [known : SUBSET Users, totals : Counts] /\ writeErrors' \in Nat
    BY <1>11 DEF ApiStop, TypeOK
  <2> QED BY <1>11, <2>1, BootTypes DEF ApiStop
<1>12. CASE UNCHANGED vars
  BY <1>12 DEF vars, TypeOK
<1> QED BY <1>1, <1>2, <1>3, <1>4, <1>5, <1>6, <1>7, <1>8, <1>9, <1>10, <1>11, <1>12
        DEF Next

-----------------------------------------------------------------------------
(* The account of one counter.                                             *)

\* The counters and records of a user are numbers.
LEMMA Numbers ==
    ASSUME TypeOK, NEW u \in Users, NEW d \in Dirs
    PROVE  /\ totals[u][d] \in Nat /\ last[u][d] \in Nat
           /\ lastCarried[u][d] \in Nat /\ lastEpoch[u] \in Nat
           /\ live[u][d] \in Nat /\ carried[u][d] \in Nat
           /\ recounted[u][d] \in Nat /\ disk.totals[u][d] \in Nat
           /\ reading.counts[u][d] \in Nat /\ reading.carried[u][d] \in Nat
           /\ reading.epoch \in Nat /\ epoch \in Nat
BY DEF TypeOK, Counts

\* Replacing a baseline by a reading that is not older keeps the account, with
\* the old baseline subtracted or, when the runtime has restarted, nothing.
LEMMA Advance ==
    ASSUME NEW total \in Nat, NEW seen \in Nat, NEW before \in Nat, NEW when \in Nat,
           NEW count \in Nat, NEW since \in Nat, NEW now \in Nat, NEW twice \in Nat,
           NEW prev \in Nat,
           total <= before + seen + twice, seen <= total,
           when <= now,
           when = now => before = since /\ seen <= count,
           when < now => before + seen <= since,
           prev <= count,
           prev = seen \/ (prev = 0 /\ when < now)
    PROVE  /\ total + (count - prev) <= since + count + twice
           /\ count <= total + (count - prev)
OBVIOUS

\* Traffic only adds to what a reading is compared with.
LEMMA TrafficAccount ==
    ASSUME TypeOK, TypeOK', NEW w \in Users, NEW e \in Dirs, Traffic(w, e),
           NEW u \in Users, NEW d \in Dirs, Accounted(u, d)
    PROVE  Accounted(u, d)'
<1>1. live[u][d] <= live'[u][d]
  BY Numbers DEF Traffic, TypeOK, Counts
<1>2. live[u][d] \in Nat /\ live'[u][d] \in Nat /\ carried[u][d] \in Nat
      /\ recounted[u][d] \in Nat /\ disk.totals[u][d] \in Nat
      /\ last[u][d] \in Nat /\ reading.counts[u][d] \in Nat
  BY DEF TypeOK, Counts
<1>3. UNCHANGED <<carried, epoch, totals, last, lastEpoch, lastCarried, phase, reading,
                  disk, recounted>>
  BY DEF Traffic, baseline, faults
<1> QED BY <1>1, <1>2, <1>3 DEF Accounted, Grounded, Ordered

\* A restart of the runtime moves what was counted to carried, and every
\* reading is of an earlier epoch from then on.
LEMMA RestartAccount ==
    ASSUME TypeOK, RestartRuntime, NEW u \in Users, NEW d \in Dirs, Accounted(u, d)
    PROVE  Accounted(u, d)'
<1>1. /\ carried'[u][d] = carried[u][d] + live[u][d]
      /\ live'[u][d] = 0 /\ epoch' = epoch + 1
  BY PlusTypes, ZeroTypes DEF RestartRuntime, TypeOK
<1>2. UNCHANGED <<totals, last, lastEpoch, lastCarried, phase, reading, disk, recounted>>
  BY DEF RestartRuntime, baseline, faults
<1>3. /\ last[u][d] \in Nat /\ lastCarried[u][d] \in Nat /\ lastEpoch[u] \in Nat
      /\ live[u][d] \in Nat /\ carried[u][d] \in Nat /\ epoch \in Nat
      /\ reading.counts[u][d] \in Nat /\ reading.carried[u][d] \in Nat
      /\ reading.epoch \in Nat /\ recounted[u][d] \in Nat /\ disk.totals[u][d] \in Nat
  BY Numbers
<1>4. Grounded(u, d, last[u][d], lastCarried[u][d], lastEpoch[u])'
  <2>1. Grounded(u, d, last[u][d], lastCarried[u][d], lastEpoch[u])
    BY DEF Accounted
  <2>2. /\ last'[u][d] = last[u][d] /\ lastCarried'[u][d] = lastCarried[u][d]
        /\ lastEpoch'[u] = lastEpoch[u]
    BY <1>2
  <2>3. lastEpoch[u] < epoch' /\ lastCarried[u][d] + last[u][d] <= carried'[u][d]
    BY <1>1, <1>3, <2>1 DEF Grounded
  <2> QED BY <1>1, <1>3, <2>2, <2>3 DEF Grounded
<1>5. phase' = "answered"
         => Grounded(u, d, reading.counts[u][d], reading.carried[u][d], reading.epoch)'
  BY <1>1, <1>2, <1>3 DEF Accounted, Grounded
<1>6. phase' = "answered" => Ordered(u, d)'
  BY <1>2 DEF Accounted, Ordered
<1> QED BY <1>1, <1>2, <1>3, <1>4, <1>5, <1>6 DEF Accounted

\* The deleted user's account is closed, the others' are not touched.
LEMMA ResetAccount ==
    ASSUME TypeOK, NEW w \in Users, ResetUser(w),
           NEW u \in Users, NEW d \in Dirs, Accounted(u, d)
    PROVE  Accounted(u, d)'
<1>1. UNCHANGED <<live, carried, epoch, lastEpoch, lastCarried, phase, reading, disk,
                  recounted>>
  BY DEF ResetUser, runtime, faults
<1>2. /\ totals'[u][d] = IF u = w THEN 0 ELSE totals[u][d]
      /\ last'[u][d] = IF u = w THEN 0 ELSE last[u][d]
  BY ZeroTypes DEF ResetUser, TypeOK, Counts
<1> QED BY <1>1, <1>2, Numbers DEF Accounted, Grounded, Ordered

\* The runtime's answer is its counters now, never older than a baseline.
LEMMA AnswerAccount ==
    ASSUME TypeOK, Answer, NEW u \in Users, NEW d \in Dirs, Accounted(u, d)
    PROVE  Accounted(u, d)'
<1>1. /\ reading'.counts = live /\ reading'.carried = carried /\ reading'.epoch = epoch
      /\ UNCHANGED <<live, carried, epoch, totals, last, lastEpoch, lastCarried, disk,
                     recounted>>
  BY DEF Answer, runtime, baseline, faults
<1> QED BY <1>1, Numbers DEF Accounted, Grounded, Ordered

\* Adding a reading's growth moves the baseline and the total alike.
LEMMA PollAccount ==
    ASSUME IInv, PollApplied, NEW u \in Users, NEW d \in Dirs
    PROVE  Accounted(u, d)'
<1>1. TypeOK /\ Accounted(u, d) /\ phase = "answered"
      /\ UNCHANGED <<live, carried, epoch, recounted>> /\ phase' = "sleep"
  BY DEF IInv, PollApplied, runtime
<1>2. disk'.totals = disk.totals \/ disk'.totals = totals'
  BY DEF PollApplied, Flush
<1>3. CASE u \in reading.users
  <2>1. /\ totals'[u][d] = totals[u][d] + (reading.counts[u][d] - Prev(u)[d])
        /\ last'[u][d] = reading.counts[u][d]
        /\ lastEpoch'[u] = reading.epoch
        /\ lastCarried'[u][d] = reading.carried[u][d]
    BY <1>1, <1>3 DEF PollApplied, Delta
  <2>2. /\ Prev(u)[d] \in Nat /\ Prev(u)[d] <= reading.counts[u][d]
        /\ Prev(u)[d] = last[u][d]
              \/ (Prev(u)[d] = 0 /\ lastEpoch[u] < reading.epoch)
    <3>1. CASE Prev(u) = last[u]
      BY <1>1, <3>1, PrevFits
    <3>2. CASE /\ Prev(u) = Zero[u]
               /\ \E e \in Dirs : reading.counts[u][e] < last[u][e]
      <4>1. PICK e \in Dirs : reading.counts[u][e] < last[u][e]
        BY <3>2
      <4>2. Ordered(u, e) /\ last[u][e] \in Nat /\ reading.counts[u][e] \in Nat
            /\ lastEpoch[u] \in Nat /\ reading.epoch \in Nat
        BY <1>1, Numbers DEF IInv, Accounted
      <4>3. lastEpoch[u] < reading.epoch
        BY <4>1, <4>2 DEF Ordered
      <4> QED BY <1>1, <3>2, <4>3, ZeroTypes, PrevFits
    <3> QED BY <1>1, <3>1, <3>2, PrevFits
  <2>3. /\ totals'[u][d] <= lastCarried'[u][d] + last'[u][d] + recounted[u][d]
        /\ last'[u][d] <= totals'[u][d]
    BY <1>1, <2>1, <2>2, Numbers, Advance DEF Accounted, Ordered
  <2>4. Grounded(u, d, last[u][d], lastCarried[u][d], lastEpoch[u])'
    BY <1>1, <2>1 DEF Accounted, Grounded
  <2>5. totals'[u][d] <= carried[u][d] + live[u][d] + recounted[u][d]
    <3>1. reading.carried[u][d] + reading.counts[u][d] <= carried[u][d] + live[u][d]
      BY <1>1, Numbers DEF Accounted, Grounded
    <3> QED BY <1>1, <2>1, <2>2, <2>3, <3>1, Numbers
  <2> QED BY <1>1, <1>2, <2>3, <2>4, <2>5 DEF Accounted
<1>4. CASE u \notin reading.users
  <2>1. /\ totals'[u] = totals[u] /\ last'[u] = last[u]
        /\ lastEpoch'[u] = lastEpoch[u] /\ lastCarried'[u] = lastCarried[u]
    BY <1>4 DEF PollApplied
  <2>2. totals[u][d] <= carried[u][d] + live[u][d] + recounted[u][d]
    BY <1>1, Numbers DEF Accounted, Grounded
  <2> QED BY <1>1, <1>2, <2>1, <2>2 DEF Accounted, Grounded
<1> QED BY <1>3, <1>4

\* A failed poll may still flush totals that are in order.
LEMMA FailAccount ==
    ASSUME TypeOK, PollFails, NEW u \in Users, NEW d \in Dirs, Accounted(u, d)
    PROVE  Accounted(u, d)'
<1>1. /\ UNCHANGED <<live, carried, epoch, totals, last, lastEpoch, lastCarried, recounted>>
      /\ phase' = "sleep"
  BY DEF PollFails, runtime, baseline
<1>2. disk'.totals = disk.totals \/ disk'.totals = totals
  BY DEF PollFails, Flush
<1>3. totals[u][d] <= carried[u][d] + live[u][d] + recounted[u][d]
  BY Numbers DEF Accounted, Grounded
<1> QED BY <1>1, <1>2, <1>3 DEF Accounted, Grounded

\* A restart of the API recounts at most what the runtime counts now.
LEMMA BootAccount ==
    ASSUME TypeOK, NEW saved, Boot(saved), NEW u \in Users, NEW d \in Dirs,
           Accounted(u, d),
           saved.totals = disk.totals \/ saved.totals = totals,
           disk'.totals = saved.totals
    PROVE  Accounted(u, d)'
<1>1. /\ totals' = saved.totals /\ last'[u][d] = 0
      /\ lastEpoch'[u] = epoch /\ lastCarried'[u][d] = carried[u][d]
      /\ recounted'[u][d] = recounted[u][d] + live[u][d]
      /\ phase' = "sleep" /\ UNCHANGED <<live, carried, epoch>>
  BY PlusTypes, ZeroTypes DEF Boot, TypeOK, runtime
<1>2. saved.totals[u][d] <= carried[u][d] + live[u][d] + recounted[u][d]
  BY Numbers DEF Accounted, Grounded
<1>3. saved.totals[u][d] \in Nat
  BY Numbers
<1> QED BY <1>1, <1>2, <1>3, Numbers DEF Accounted, Grounded

-----------------------------------------------------------------------------
(* The theorems.                                                           *)

\* Every step keeps every account.
LEMMA AccountStep == IInv /\ [Next]_vars => IInv'
<1> SUFFICES ASSUME IInv, [Next]_vars PROVE IInv'
  OBVIOUS
<1>1. TypeOK /\ TypeOK'
  BY TypeStep DEF IInv
<1> SUFFICES ASSUME NEW u \in Users, NEW d \in Dirs PROVE Accounted(u, d)'
  BY <1>1 DEF IInv
<1>2. Accounted(u, d)
  BY DEF IInv
<1>3. ASSUME NEW w \in Users, NEW e \in Dirs, Traffic(w, e) PROVE Accounted(u, d)'
  BY <1>1, <1>2, <1>3, TrafficAccount
<1>4. CASE ContainerRestart \/ \E w \in Users : CreateUser(w) \/ DeleteUser(w)
  BY <1>1, <1>2, <1>4, RestartAccount DEF ContainerRestart, CreateUser, DeleteUser
<1>5. ASSUME NEW w \in Users, ResetUser(w) PROVE Accounted(u, d)'
  BY <1>1, <1>2, <1>5, ResetAccount
<1>6. CASE PollStart
  BY <1>2, <1>6 DEF PollStart, runtime, baseline, faults, Accounted, Grounded, Ordered
<1>7. CASE Answer
  BY <1>1, <1>2, <1>7, AnswerAccount
<1>8. CASE PollApplied
  BY <1>8, PollAccount
<1>9. CASE PollFails
  BY <1>1, <1>2, <1>9, FailAccount
<1>10. CASE IntervalPasses
  BY <1>2, <1>10 DEF IntervalPasses, runtime, baseline, faults, Accounted, Grounded, Ordered
<1>11. CASE ApiCrash
  <2>1. Boot(disk) /\ disk' = disk
    BY <1>11 DEF ApiCrash
  <2> QED BY <1>1, <1>2, <2>1, BootAccount
<1>12. CASE ApiStop
  <2>1. Boot(disk') /\ (disk'.totals = disk.totals \/ disk'.totals = totals)
    BY <1>12 DEF ApiStop
  <2> QED BY <1>1, <1>2, <2>1, BootAccount
<1>13. CASE UNCHANGED vars
  BY <1>2, <1>13 DEF vars, runtime, baseline, faults, Accounted, Grounded, Ordered
<1> QED BY <1>3, <1>4, <1>5, <1>6, <1>7, <1>8, <1>9, <1>10, <1>11, <1>12, <1>13 DEF Next

\* The inductive invariant holds throughout.
THEOREM AccountsKept == Spec => []IInv
<1>1. Init => IInv
  <2> SUFFICES ASSUME Init PROVE IInv
    OBVIOUS
  <2>1. TypeOK
    BY TypeInit
  <2>2. \A u \in Users, d \in Dirs : Accounted(u, d)
    BY ZeroTypes DEF Init, Accounted, Grounded
  <2> QED BY <2>1, <2>2 DEF IInv
<1> QED BY <1>1, AccountStep, PTL DEF Spec

\* Type correctness of the accumulator.
THEOREM TrackerTypes == Spec => []TypeOK
<1>1. IInv => TypeOK
  BY DEF IInv
<1> QED BY <1>1, AccountsKept, PTL

\* A total exceeds the user's real traffic by at most the counters whose
\* baseline restarts of the API process dropped.
THEOREM Overcount == Spec => []OvercountIsBounded
<1>1. IInv => OvercountIsBounded
  <2> SUFFICES ASSUME IInv, NEW u \in Users, NEW d \in Dirs
      PROVE  totals[u][d] <= carried[u][d] + live[u][d] + recounted[u][d]
    BY DEF OvercountIsBounded
  <2>1. TypeOK /\ Accounted(u, d)
    BY DEF IInv
  <2> QED BY <2>1, Numbers DEF Accounted, Grounded
<1> QED BY <1>1, AccountsKept, PTL

\* What a later poll subtracts from the counters is part of the totals.
THEOREM Baseline == Spec => []BaselineIsCounted
<1>1. IInv => BaselineIsCounted
  BY DEF IInv, Accounted, BaselineIsCounted
<1> QED BY <1>1, AccountsKept, PTL
=============================================================================
