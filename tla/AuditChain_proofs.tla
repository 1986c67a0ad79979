-------------------------- MODULE AuditChain_proofs --------------------------
(***************************************************************************)
(* Proofs about AuditChain for any events, workers and epoch size.  What   *)
(* the chain promises is promised for a benign environment: one worker     *)
(* serves at a time, and nothing worse happens than failing inserts and    *)
(* crashes.  The violation runs show what a cancellation and a second      *)
(* worker break.                                                           *)
(***************************************************************************)
EXTENDS AuditReaders, FiniteSetTheorems, SequenceTheorems, WellFoundedInduction, TLAPS

\* Every variable keeps its type, whatever faults occur.
LEMMA TypeInit == Init => TypeOK
  BY ConstantsAssumption DEF Init, TypeOK, PCs, Boots, Hashes, MaxRetries

LEMMA TypeStep == TypeOK /\ [Next]_vars => TypeOK'
<1> SUFFICES ASSUME TypeOK, [Next]_vars PROVE TypeOK'
  OBVIOUS
<1> USE ConstantsAssumption DEF TypeOK
<1>0. CASE UNCHANGED vars
  BY <1>0 DEF vars
<1>1. ASSUME NEW w \in Workers, Boot(w) PROVE TypeOK'
  <2> USE DEF Boots
  <2>1. CASE Start(w) BY <2>1 DEF Start
  <2>2. CASE FindLargest(w) BY <2>2 DEF FindLargest, IsLast
  <2>3. CASE SyncCounter(w) BY <2>3 DEF SyncCounter
  <2>4. CASE NoGenesis(w) BY <2>4 DEF NoGenesis
  <2>5. CASE ResetToZero(w) BY <2>5 DEF ResetToZero
  <2>6. CASE UpsertGenesis(w)
    <3>1. Genesis(w) \in Entry
      BY DEF Genesis, Entry, Hashes
    <3> QED BY <2>6, <3>1 DEF UpsertGenesis, Put
  <2>7. CASE ResetToOne(w) BY <2>7 DEF ResetToOne
  <2> QED BY <1>1, <2>1, <2>2, <2>3, <2>4, <2>5, <2>6, <2>7 DEF Boot
<1>2. ASSUME NEW e \in Events, Audit(e) PROVE TypeOK'
  <2> USE DEF PCs, Section
  <2>0. NewEntry(e) \in Entry
    <3>1. seq[e] \div EpochSize \in Nat
      OBVIOUS
    <3>2. StartsEpoch(seq[e]) \in BOOLEAN
      BY DEF StartsEpoch
    <3> QED BY <3>1, <3>2 DEF NewEntry, Entry, Hashes
  <2>1. CASE Check(e) BY <2>1 DEF Check
  <2>2. CASE Acquire(e) BY <2>2 DEF Acquire
  <2>3. CASE GiveUp(e) BY <2>3 DEF GiveUp
  <2>4. CASE Allocate(e) BY <2>4 DEF Allocate, Hashes
  <2>5. CASE CloseEpoch(e)
    <3>1. CASE UNCHANGED <<log, prevEpoch>>
      BY <2>5, <3>1 DEF CloseEpoch
    <3>2. ASSUME NEW s \in DOMAIN log,
                 log' = [log EXCEPT ![s].is_epoch_end = TRUE],
                 prevEpoch' = [prevEpoch EXCEPT ![e] = log[s].hash]
          PROVE TypeOK'
      <4>1. DOMAIN log' = DOMAIN log
        BY <3>2
      <4>2. \A t \in DOMAIN log : log'[t] \in Entry
        <5>1. \A t \in DOMAIN log : log[t] \in Entry
          OBVIOUS
        <5> HIDE DEF TypeOK
        <5> QED BY <3>2, <5>1 DEF Entry
      <4>3. log[s].hash \in Hashes
        BY DEF Entry
      <4>4. /\ pc' \in [Events -> PCs] /\ prevEpoch' \in [Events -> Hashes]
            /\ \A d \in Events : pc'[d] = "queued" => pc[d] = "queued"
        BY <2>5, <3>2, <4>3 DEF CloseEpoch
      <4>5. UNCHANGED <<plain, counter, lock, seq, prev, tries, boot, found, faults>>
        BY <2>5 DEF CloseEpoch
      <4> QED BY <4>1, <4>2, <4>4, <4>5
    <3> QED BY <2>5, <3>1, <3>2 DEF CloseEpoch, InEpoch
  <2>6. CASE Link(e)
    <3>1. PreviousHash(seq[e]) \in Hashes
      BY DEF PreviousHash, Entry, Hashes
    <3> QED BY <2>6, <3>1 DEF Link
  <2>7. CASE Insert(e) BY <2>0, <2>7 DEF Insert, Put
  <2>8. CASE InsertFails(e) BY <2>8 DEF InsertFails
  <2>9. CASE InsertAmbiguous(e) BY <2>0, <2>9 DEF InsertAmbiguous, Put
  <2>10. CASE Rollback(e) BY <2>10 DEF Rollback
  <2>11. CASE Unlock(e) BY <2>11 DEF Unlock
  <2>12. CASE WritePlain(e) BY <2>12 DEF WritePlain
  <2>13. CASE QueuePlain(e) BY <2>13 DEF QueuePlain, MaxRetries
  <2>14. CASE RetryFails(e) BY <2>14 DEF RetryFails, MaxRetries
  <2> QED BY <1>2, <2>1, <2>2, <2>3, <2>4, <2>5, <2>6, <2>7, <2>8, <2>9,
             <2>10, <2>11, <2>12, <2>13, <2>14 DEF Audit
<1>3. ASSUME NEW w \in Workers, Crash(w) PROVE TypeOK'
  BY <1>3 DEF Crash, PCs, Boots
<1>4. ASSUME NEW e \in Events, SectionRaises(e) \/ UnlockRaises(e) \/ Cancel(e)
      PROVE  TypeOK'
  BY <1>4 DEF SectionRaises, UnlockRaises, Cancel, PCs, Section
<1>5. CASE ExpireLock
  BY <1>5 DEF ExpireLock
<1>6. CASE ExpireOldest
  BY <1>6 DEF ExpireOldest
<1>7. ASSUME NEW w \in Workers, BootRaises(w) PROVE TypeOK'
  BY <1>7 DEF BootRaises, Boots
<1> QED BY <1>0, <1>1, <1>2, <1>3, <1>4, <1>5, <1>6, <1>7 DEF Next

THEOREM TypeCorrect == Spec => []TypeOK
  BY TypeInit, TypeStep, PTL DEF Spec

-----------------------------------------------------------------------------
(* The chain, in a benign environment *)

\* The steps between get_next_sequence and the outcome of the insert.
Allocated(e) == pc[e] \in {"close", "link", "insert", "retry", "rollback"}

\* The log holds the sequences below n.  With a serving worker the counter is
\* n, or n + 1 while the holder of the lock has sequence n in hand.  An
\* initialize_chain, which no call of audit() overlaps, is about to set it so.
ChainOf(n) ==
  /\ DOMAIN log = 0 .. n - 1
  /\ \A e \in Events :
       /\ pc[e] \in Section => lock = e /\ boot[WorkerOf[e]] = "ready" /\ n > 0
       /\ pc[e] \in {"lock", "plain"} => boot[WorkerOf[e]] = "ready"
       /\ Allocated(e) => seq[e] = n /\ counter = n + 1
       /\ pc[e] \in {"insert", "retry"} => prev[e] = log[n - 1].hash
  /\ \A w \in Workers :
       /\ boot[w] = "sync" => n > 0 /\ found[w] = n - 1
       /\ boot[w] \in {"alloc", "genesis"} => n = 0
       /\ boot[w] = "first" => n = 1
       /\ boot[w] = "ready" =>
            n > 0 /\ ((\A e \in Events : ~Allocated(e)) => counter = n)

OneRuns == \A v, w \in Workers : boot[v] # "down" /\ boot[w] # "down" => v = w

ChainInv == TypeOK /\ Linked /\ OneRuns /\ \E n \in Nat : ChainOf(n)

IInv == TypeOK /\ (Benign => ChainInv)

LEMMA FaultsStay == [Next]_vars => faults' = faults
  BY DEF Next, vars, Boot, Start, FindLargest, SyncCounter, NoGenesis, ResetToZero,
         UpsertGenesis, ResetToOne, BootRaises, Crash, Audit, Check, Acquire, GiveUp,
         Allocate, CloseEpoch, Link, Insert, InsertFails, InsertAmbiguous, Rollback,
         Unlock, WritePlain, QueuePlain, RetryFails, SectionRaises, UnlockRaises,
         Cancel, ExpireLock, ExpireOldest

LEMMA IInvInit == Init => IInv
<1> SUFFICES ASSUME Init PROVE IInv
  OBVIOUS
<1>1. TypeOK
  BY TypeInit
<1>2. ChainOf(0)
  BY DEF Init, ChainOf, Allocated, Section
<1>3. Linked /\ OneRuns
  BY DEF Init, Linked, OneRuns
<1> QED BY <1>1, <1>2, <1>3 DEF IInv, ChainInv

\* A step that leaves the stored hashes alone leaves the links alone.
LEMMA LinkedKept ==
  ASSUME Linked, faults' = faults, DOMAIN log' = DOMAIN log,
         \A s \in DOMAIN log : /\ log'[s].hash = log[s].hash
                               /\ log'[s].previous_hash = log[s].previous_hash,
         DOMAIN log \subseteq Nat
  PROVE  Linked'
  BY DEF Linked, Benign

LEMMA BootStep ==
  ASSUME Benign, ChainInv, TypeOK', NEW w \in Workers, Boot(w) PROVE ChainInv'
<1> USE ConstantsAssumption
<1> PICK n \in Nat : ChainOf(n)
  BY DEF ChainInv
<1>0. ASSUME NEW e \in Events, boot[w] \notin {"down", "ready"}
      PROVE  pc[e] \notin Section \cup {"lock", "plain"}
  <2>1. WorkerOf[e] \in Workers /\ WorkerOf[e] # w => boot[WorkerOf[e]] = "down"
    BY <1>0 DEF ChainInv, OneRuns
  <2> QED BY <1>0, <2>1 DEF ChainOf
<1>a. ASSUME NEW v \in Workers, v # w, boot[w] # "down" PROVE boot[v] = "down"
  BY <1>a DEF ChainInv, OneRuns
<1>b. OneRuns'
  BY DEF ChainInv, OneRuns, TypeOK, Benign, Boot, Start, FindLargest, SyncCounter,
         NoGenesis, ResetToZero, UpsertGenesis, ResetToOne
<1> USE <1>b DEF ChainInv, ChainOf, TypeOK, Allocated, Section, HasGenesis
<1>1. CASE Start(w)
  <2>1. ChainOf(n)'
    BY <1>1 DEF Start, Benign, OneRuns
  <2> QED BY <1>1, <2>1, LinkedKept DEF Start
<1>2. CASE FindLargest(w)
  <2>0. PICK s \in DOMAIN log : IsLast(s, DOMAIN log) /\ found' = [found EXCEPT ![w] = s]
    BY <1>2 DEF FindLargest
  <2>1. n > 0 /\ s = n - 1
    <3>1. n > 0
      BY <1>2 DEF FindLargest
    <3>2. n - 1 \in DOMAIN log
      BY <3>1
    <3>3. n - 1 =< s
      BY <2>0, <3>2 DEF IsLast
    <3>4. s \in 0 .. n - 1
      BY <2>0
    <3> HIDE DEF ChainInv, ChainOf, TypeOK, Benign
    <3> QED BY <3>1, <3>3, <3>4
  <2> QED BY <1>2, <2>0, <2>1, LinkedKept DEF FindLargest
<1>3. CASE SyncCounter(w)
  <2>1. ChainOf(n)'
    BY <1>3, <1>0, <1>a DEF SyncCounter
  <2> QED BY <1>3, <2>1, LinkedKept DEF SyncCounter
<1>4. CASE NoGenesis(w)
  <2>1. n = 0
    BY <1>4 DEF NoGenesis
  <2>2. ChainOf(0)'
    BY <1>4, <1>0, <1>a, <2>1 DEF NoGenesis
  <2> QED BY <1>4, <2>2, LinkedKept DEF NoGenesis
<1>5. CASE ResetToZero(w)
  <2>1. ChainOf(n)'
    BY <1>5, <1>0, <1>a DEF ResetToZero
  <2> QED BY <1>5, <2>1, LinkedKept DEF ResetToZero
<1>6. CASE UpsertGenesis(w)
  <2>1. n = 0
    BY <1>6 DEF UpsertGenesis
  <2>2. DOMAIN log' = 0 .. 0 /\ log'[0] = Genesis(w)
    BY <1>6, <2>1 DEF UpsertGenesis, Put
  <2>3. Linked'
    BY <2>2 DEF Linked, Genesis
  <2>4. ChainOf(1)'
    BY <1>6, <1>0, <1>a, <2>1, <2>2 DEF UpsertGenesis
  <2> QED BY <2>3, <2>4
<1>7. CASE ResetToOne(w)
  <2>1. ChainOf(n)'
    BY <1>7, <1>0, <1>a DEF ResetToOne
  <2> QED BY <1>7, <2>1, LinkedKept DEF ResetToOne
<1> QED BY <1>1, <1>2, <1>3, <1>4, <1>5, <1>6, <1>7 DEF Boot

LEMMA AuditStep ==
  ASSUME Benign, ChainInv, TypeOK', NEW e \in Events, Audit(e) PROVE ChainInv'
<1> USE ConstantsAssumption
<1> PICK n \in Nat : ChainOf(n)
  BY DEF ChainInv
\* Whoever is in the section holds the lock, so nobody else is.
<1>0. ASSUME pc[e] \in Section, NEW d \in Events, d # e PROVE pc[d] \notin Section
  BY <1>0 DEF ChainOf
<1>b. OneRuns'
  BY DEF ChainInv, OneRuns, TypeOK, Audit, Check, Acquire, GiveUp,
         Allocate, CloseEpoch, Link, Insert, InsertFails, InsertAmbiguous, Rollback,
         Unlock, WritePlain, QueuePlain, RetryFails
<1> USE <1>b DEF ChainInv, ChainOf, TypeOK, Allocated, Section, HasGenesis
<1>1. CASE Check(e)
  <2>1. /\ pc[e] = "start" /\ boot[WorkerOf[e]] = "ready" /\ pc'[e] \in {"lock", "plain"}
        /\ \A d \in Events : d # e => pc'[d] = pc[d]
    BY <1>1 DEF Check
  <2>2. UNCHANGED <<log, counter, lock, seq, prev, boot, found>>
    BY <1>1 DEF Check
  <2>3. ChainOf(n)'
    <3> HIDE DEF TypeOK, ChainInv
    <3> QED BY <2>1, <2>2
  <2> QED BY <1>1, <2>3, LinkedKept DEF Check
<1>2. CASE Acquire(e)
  <2>1. /\ pc[e] = "lock" /\ pc'[e] = "allocate" /\ lock' = e
        /\ \A d \in Events : d # e => pc'[d] = pc[d]
        /\ \A d \in Events : pc[d] \notin Section
    BY <1>2 DEF Acquire
  <2>2. n > 0 /\ boot[WorkerOf[e]] = "ready"
    BY <1>2 DEF Acquire
  <2>3. UNCHANGED <<log, counter, seq, prev, boot, found>>
    BY <1>2 DEF Acquire
  <2>4. ChainOf(n)'
    <3> HIDE DEF TypeOK, ChainInv
    <3> QED BY <2>1, <2>2, <2>3
  <2> QED BY <1>2, <2>4, LinkedKept DEF Acquire
<1>3. CASE GiveUp(e)
  <2>1. /\ pc[e] = "lock" /\ boot[WorkerOf[e]] = "ready" /\ pc'[e] = "plain"
        /\ \A d \in Events : d # e => pc'[d] = pc[d]
    BY <1>3 DEF GiveUp
  <2>2. UNCHANGED <<log, counter, lock, seq, prev, boot, found>>
    BY <1>3 DEF GiveUp
  <2>3. ChainOf(n)'
    <3> HIDE DEF TypeOK, ChainInv
    <3> QED BY <2>1, <2>2
  <2> QED BY <1>3, <2>3, LinkedKept DEF GiveUp
<1>4. CASE Allocate(e)
  <2>1. counter = n
    <3>1. pc[e] = "allocate" /\ boot[WorkerOf[e]] = "ready" /\ WorkerOf[e] \in Workers
      BY <1>4 DEF Allocate
    <3>2. \A d \in Events : ~Allocated(d)
      BY <1>0, <3>1
    <3> QED BY <3>1, <3>2
  <2>2. /\ pc[e] = "allocate" /\ pc'[e] \in {"close", "link"}
        /\ seq'[e] = n /\ counter' = n + 1
        /\ \A d \in Events : d # e => pc'[d] = pc[d] /\ seq'[d] = seq[d]
    BY <1>4, <2>1 DEF Allocate
  <2>3. \A d \in Events : d # e => pc[d] \notin Section
    BY <1>0, <2>2
  <2>4. UNCHANGED <<log, lock, prev, boot, found>>
    BY <1>4 DEF Allocate
  <2>5. ChainOf(n)'
    <3> HIDE DEF TypeOK, ChainInv
    <3> QED BY <2>2, <2>3, <2>4
  <2> QED BY <1>4, <2>5, LinkedKept DEF Allocate
<1>5. CASE CloseEpoch(e)
  <2>1. /\ DOMAIN log' = DOMAIN log
        /\ \A s \in DOMAIN log : /\ log'[s].hash = log[s].hash
                                 /\ log'[s].previous_hash = log[s].previous_hash
    <3>1. CASE UNCHANGED log
      BY <3>1
    <3>2. ASSUME NEW s \in DOMAIN log,
                 log' = [log EXCEPT ![s].is_epoch_end = TRUE]
          PROVE  /\ DOMAIN log' = DOMAIN log
                 /\ \A t \in DOMAIN log : /\ log'[t].hash = log[t].hash
                                          /\ log'[t].previous_hash = log[t].previous_hash
      <4>1. log[s] \in Entry
        OBVIOUS
      <4> QED BY <3>2, <4>1 DEF Entry
    <3> QED BY <1>5, <3>1, <3>2 DEF CloseEpoch, InEpoch
  <2>2. ChainOf(n)'
    BY <1>5, <1>0, <2>1 DEF CloseEpoch
  <2> QED BY <1>5, <2>1, <2>2, LinkedKept DEF CloseEpoch
<1>6. CASE Link(e)
  <2>1. prev'[e] = log[n - 1].hash
    BY <1>6 DEF Link, PreviousHash
  <2>2. ChainOf(n)'
    BY <1>6, <1>0, <2>1 DEF Link
  <2> QED BY <1>6, <2>2, LinkedKept DEF Link
<1>7. CASE Insert(e)
  <2>1. /\ n > 0
        /\ DOMAIN log' = 0 .. n
        /\ log'[n] = NewEntry(e)
        /\ \A s \in 0 .. n - 1 : log'[s] = log[s]
    BY <1>7 DEF Insert, Put
  <2>2. prev[e] = log[n - 1].hash /\ log'[n].previous_hash = prev[e]
    BY <1>7, <2>1 DEF Insert, NewEntry
  <2>3. \A s \in 0 .. n - 1 :
          log[s].previous_hash = IF s = 0 THEN NoHash
                                 ELSE IF s - 1 \in DOMAIN log THEN log[s - 1].hash
                                 ELSE "missing"
    BY DEF Linked
  <2>4. DOMAIN log = 0 .. n - 1
    OBVIOUS
  <2>5. Linked'
    <3> HIDE <1>b DEF ChainOf, TypeOK, ChainInv
    <3> SUFFICES ASSUME NEW s \in 0 .. n
                 PROVE log'[s].previous_hash = IF s = 0 THEN NoHash
                                               ELSE log'[s - 1].hash
      BY <2>1 DEF Linked
    <3>1. CASE s = n
      BY <2>1, <2>2, <3>1
    <3>2. CASE s < n
      <4>1. s \in 0 .. n - 1 /\ log'[s] = log[s]
        BY <2>1, <3>2
      <4>2. s > 0 => s - 1 \in 0 .. n - 1 /\ log'[s - 1] = log[s - 1]
        BY <2>1, <3>2
      <4> QED BY <2>3, <2>4, <4>1, <4>2
    <3> QED BY <3>1, <3>2
  <2>6. ChainOf(n + 1)'
    <3>1. \A d \in Events : d # e => pc[d] \notin Section
      BY <1>7, <1>0 DEF Insert
    <3>2. \A w \in Workers : boot[w] \in {"ready", "down"}
      <4>1. WorkerOf[e] \in Workers /\ boot[WorkerOf[e]] = "ready"
        BY <1>7 DEF Insert
      <4>2. OneRuns /\ boot \in [Workers -> Boots]
        OBVIOUS
      <4> HIDE DEF TypeOK, ChainInv, ChainOf
      <4> QED BY <4>1, <4>2 DEF OneRuns
    <3>3. /\ pc[e] \in {"insert", "retry"} /\ pc'[e] = "unlock"
          /\ \A d \in Events : d # e => pc'[d] = pc[d]
      BY <1>7 DEF Insert
    <3>4. counter = n + 1 /\ lock = e /\ boot[WorkerOf[e]] = "ready" /\ n > 0
      BY <3>3
    <3>5. UNCHANGED <<counter, lock, seq, prev, boot, found>>
      BY <1>7 DEF Insert
    <3>6. DOMAIN log' = 0 .. n
      BY <2>1
    <3> HIDE DEF TypeOK, ChainInv
    <3> QED BY <3>1, <3>2, <3>3, <3>4, <3>5, <3>6
  <2> QED
    <3> HIDE DEF ChainOf, TypeOK
    <3> QED BY <2>5, <2>6
<1>8. CASE InsertFails(e)
  <2>1. ChainOf(n)'
    BY <1>8, <1>0 DEF InsertFails
  <2> QED BY <1>8, <2>1, LinkedKept DEF InsertFails
<1>9. CASE InsertAmbiguous(e) BY <1>9 DEF InsertAmbiguous, Benign
<1>10. CASE Rollback(e)
  <2>1. ChainOf(n)'
    BY <1>10, <1>0 DEF Rollback
  <2> QED BY <1>10, <2>1, LinkedKept DEF Rollback
<1>11. CASE Unlock(e)
  <2>1. /\ pc[e] \in {"unlock", "unlock_failed", "unlock_cancelled"}
        /\ pc'[e] \in {"chained", "plain", "cancelled"}
        /\ \A d \in Events : d # e => pc'[d] = pc[d]
    BY <1>11 DEF Unlock
  <2>2. \A d \in Events : d # e => pc[d] \notin Section
    BY <1>0, <2>1
  <2>3. UNCHANGED <<log, counter, seq, prev, boot, found>>
    BY <1>11 DEF Unlock
  <2>4. ChainOf(n)'
    <3> HIDE DEF TypeOK, ChainInv
    <3> QED BY <2>1, <2>2, <2>3
  <2> QED BY <1>11, <2>4, LinkedKept DEF Unlock
<1>12. CASE WritePlain(e)
  <2>1. ChainOf(n)'
    BY <1>12 DEF WritePlain
  <2> QED BY <1>12, <2>1, LinkedKept DEF WritePlain
<1>13. CASE QueuePlain(e) \/ RetryFails(e)
  <2>0. /\ pc[e] \in {"plain", "queued"} /\ pc'[e] \in {"queued", "lost"}
        /\ \A d \in Events : d # e => pc'[d] = pc[d]
    BY <1>13 DEF QueuePlain, RetryFails
  <2>1. UNCHANGED <<log, counter, lock, seq, prev, boot, found>>
    BY <1>13 DEF QueuePlain, RetryFails
  <2>2. ChainOf(n)'
    <3> HIDE DEF TypeOK, ChainInv
    <3> QED BY <2>0, <2>1
  <2> QED BY <1>13, <2>2, LinkedKept DEF QueuePlain, RetryFails
<1> QED BY <1>1, <1>2, <1>3, <1>4, <1>5, <1>6, <1>7, <1>8, <1>9,
           <1>10, <1>11, <1>12, <1>13 DEF Audit

LEMMA ChainInvStep == ASSUME Benign, ChainInv, [Next]_vars PROVE ChainInv'
<1>0. TypeOK'
  BY TypeStep DEF ChainInv
<1> USE ConstantsAssumption DEF ChainInv
<1>1. CASE UNCHANGED vars
  <2> PICK n \in Nat : ChainOf(n)
    OBVIOUS
  <2>1. ChainOf(n)'
    BY <1>1 DEF vars, ChainOf, Allocated
  <2>2. Linked' /\ OneRuns'
    BY <1>1 DEF vars, Linked, OneRuns, Benign
  <2> QED BY <1>0, <2>1, <2>2
<1>2. ASSUME NEW w \in Workers, Boot(w) PROVE ChainInv'
  BY <1>0, <1>2, BootStep
<1>3. ASSUME NEW e \in Events, Audit(e) PROVE ChainInv'
  BY <1>0, <1>3, AuditStep
<1>4. ASSUME NEW w \in Workers, Crash(w) PROVE ChainInv'
  <2> PICK n \in Nat : ChainOf(n)
    OBVIOUS
  <2>1. ChainOf(n)'
    BY <1>4 DEF Crash, ChainOf, Allocated, Section, TypeOK, OneRuns
  <2>2. OneRuns'
    BY <1>4 DEF Crash, OneRuns, TypeOK
  <2> QED BY <1>0, <1>4, <2>1, <2>2, LinkedKept DEF Crash, TypeOK
<1>5. ASSUME NEW e \in Events, SectionRaises(e) \/ UnlockRaises(e) \/ Cancel(e)
      PROVE  ChainInv'
  BY <1>5 DEF SectionRaises, UnlockRaises, Cancel, Benign
<1>6. CASE ExpireLock
  <2> PICK n \in Nat : ChainOf(n)
    OBVIOUS
  <2>1. ChainOf(n)'
    BY <1>6 DEF ExpireLock, ChainOf, Allocated, Section, Benign, TypeOK
  <2>2. OneRuns'
    BY <1>6 DEF ExpireLock, OneRuns
  <2> QED BY <1>0, <1>6, <2>1, <2>2, LinkedKept DEF ExpireLock, TypeOK
<1>7. CASE ExpireOldest
  BY <1>7 DEF ExpireOldest, Benign
<1>8. ASSUME NEW w \in Workers, BootRaises(w) PROVE ChainInv'
  BY <1>8 DEF BootRaises, Benign
<1> QED BY <1>1, <1>2, <1>3, <1>4, <1>5, <1>6, <1>7, <1>8 DEF Next

LEMMA IInvStep == ASSUME IInv, [Next]_vars PROVE IInv'
<1>1. TypeOK' /\ faults' = faults
  BY TypeStep, FaultsStay DEF IInv
<1>2. CASE Benign
  <2>1. ChainInv'
    BY <1>2, ChainInvStep DEF IInv
  <2> QED BY <1>1, <2>1 DEF IInv
<1>3. CASE ~Benign
  <2>1. ~Benign'
    BY <1>1, <1>3 DEF Benign
  <2> QED BY <1>1, <2>1 DEF IInv
<1> QED BY <1>2, <1>3

LEMMA IInvCorrect == Spec => []IInv
<1>1. IInv /\ [Next]_vars => IInv'
  BY IInvStep
<1> QED BY <1>1, IInvInit, PTL DEF Spec

\* The sequences of the chain have no gap: neither failing inserts nor crashes
\* at any point of an append or of a start leave one.
THEOREM GaplessHolds == Spec => []GaplessIfBenign
<1>1. IInv => GaplessIfBenign
  BY DEF IInv, ChainInv, ChainOf, Gapless, GaplessIfBenign
<1> QED BY <1>1, IInvCorrect, PTL

\* Every entry carries the hash of the one before it.
THEOREM LinkedHolds == Spec => []Linked
<1>1. IInv => Linked
  BY DEF IInv, ChainInv, Linked
<1> QED BY <1>1, IInvCorrect, PTL

-----------------------------------------------------------------------------
\* Under every fault but a section longer than the lease, whoever is in the
\* section holds the lock.
LockInv ==
  /\ TypeOK
  /\ "slow" \notin faults => \A e \in Events : pc[e] \in Section => lock = e

LEMMA LockInvStep == ASSUME LockInv, TypeOK', [Next]_vars PROVE LockInv'
<1> USE ConstantsAssumption DEF LockInv, TypeOK, Section
<1>0. CASE UNCHANGED vars
  BY <1>0 DEF vars
<1>1. ASSUME NEW w \in Workers, Boot(w) \/ BootRaises(w) PROVE LockInv'
  BY <1>1 DEF Boot, BootRaises, Start, FindLargest, SyncCounter, NoGenesis,
              ResetToZero, UpsertGenesis, ResetToOne
<1>2. ASSUME NEW e \in Events, Audit(e) PROVE LockInv'
  <2>1. CASE Check(e) \/ Acquire(e) \/ GiveUp(e)
    BY <2>1 DEF Check, Acquire, GiveUp
  <2>2. CASE Allocate(e) \/ CloseEpoch(e) \/ Link(e)
    BY <2>2 DEF Allocate, CloseEpoch, Link
  <2>3. CASE Insert(e) \/ InsertFails(e) \/ InsertAmbiguous(e) \/ Rollback(e)
    BY <2>3 DEF Insert, InsertFails, InsertAmbiguous, Rollback
  <2>4. CASE Unlock(e)
    <3>1. pc'[e] \notin Section
      BY <2>4 DEF Unlock
    <3> QED BY <2>4, <3>1 DEF Unlock
  <2>5. CASE WritePlain(e) \/ QueuePlain(e) \/ RetryFails(e)
    BY <2>5 DEF WritePlain, QueuePlain, RetryFails
  <2> QED BY <1>2, <2>1, <2>2, <2>3, <2>4, <2>5 DEF Audit
<1>3. ASSUME NEW w \in Workers, Crash(w) PROVE LockInv'
  BY <1>3 DEF Crash
<1>4. ASSUME NEW e \in Events, SectionRaises(e) \/ UnlockRaises(e) \/ Cancel(e)
      PROVE  LockInv'
  BY <1>4 DEF SectionRaises, UnlockRaises, Cancel
<1>5. CASE ExpireLock \/ ExpireOldest
  BY <1>5 DEF ExpireLock, ExpireOldest
<1> QED BY <1>0, <1>1, <1>2, <1>3, <1>4, <1>5 DEF Next

\* Two calls are never between the lock and its release together, also with
\* several workers, crashes, cancellations and failing calls.
THEOREM SerializedHolds == Spec => []Serialized
<1>1. Init => LockInv
  BY TypeInit DEF Init, LockInv, Section
<1>2. LockInv /\ [Next]_vars => LockInv'
  BY LockInvStep, TypeStep DEF LockInv
<1>3. LockInv => Serialized
  BY DEF LockInv, Serialized
<1> QED BY <1>1, <1>2, <1>3, PTL DEF Spec

-----------------------------------------------------------------------------
(* Epochs, in a benign environment *)

\* The last sequence of an epoch.
LEMMA LastOfEpoch ==
  ASSUME NEW n \in Nat, StartsEpoch(n)
  PROVE  (n - 1) \div EpochSize = n \div EpochSize - 1
<1>1. n \in Int /\ n > 0 /\ n % EpochSize = 0 /\ EpochSize \in Int /\ EpochSize > 0
  BY ConstantsAssumption DEF StartsEpoch
<1> QED BY <1>1

EntryOf(s) ==
  /\ log[s].epoch = s \div EpochSize
  /\ log[s].is_epoch_end => StartsEpoch(s + 1)
  /\ s > 0 => log[s].is_epoch_start = StartsEpoch(s)
  /\ StartsEpoch(s) =>
       /\ s - 1 \in DOMAIN log
       /\ log[s - 1].is_epoch_end
       /\ log[s].previous_epoch_hash = log[s - 1].hash

\* A call that is to insert the first entry of an epoch has closed the epoch
\* before it.
CallOf(e) ==
  /\ pc[e] = "close" => StartsEpoch(seq[e])
  /\ pc[e] \in {"link", "insert", "retry"} /\ StartsEpoch(seq[e]) =>
       log[seq[e] - 1].is_epoch_end /\ prevEpoch[e] = log[seq[e] - 1].hash

EpochInv == (\A s \in DOMAIN log : EntryOf(s)) /\ (\A e \in Events : CallOf(e))

LEMMA EpochStep ==
  ASSUME Benign, ChainInv, ChainInv', EpochInv, [Next]_vars
  PROVE  EpochInv'
<1> PICK n \in Nat : ChainOf(n)
  BY DEF ChainInv
<1>t. /\ TypeOK /\ DOMAIN log = 0 .. n - 1
      /\ \A e \in Events : Allocated(e) => seq[e] = n /\ n > 0 /\ lock = e
  BY DEF ChainInv, ChainOf, Allocated, Section
<1>k. ASSUME UNCHANGED log, \A e \in Events : CallOf(e)' PROVE EpochInv'
  BY <1>k DEF EpochInv, EntryOf
<1>c. ASSUME UNCHANGED <<log, seq, prevEpoch>>, NEW e \in Events,
             \/ pc'[e] = pc[e]
             \/ pc'[e] \notin {"close", "link", "insert", "retry"}
             \/ pc'[e] \in {"insert", "retry"} /\ pc[e] \in {"link", "insert", "retry"}
      PROVE  CallOf(e)'
  BY <1>c DEF EpochInv, CallOf
<1>0. CASE UNCHANGED vars
  BY <1>0, <1>c, <1>k DEF vars
<1>1. ASSUME NEW w \in Workers, Boot(w), ~UpsertGenesis(w) PROVE EpochInv'
  BY <1>1, <1>c, <1>k DEF Boot, Start, FindLargest, SyncCounter, NoGenesis, ResetToZero, ResetToOne
<1>2. ASSUME NEW w \in Workers, UpsertGenesis(w) PROVE EpochInv'
  <2>1. n = 0
    BY <1>2 DEF UpsertGenesis, ChainOf
  <2>2. DOMAIN log' = {0} /\ log'[0] = Genesis(w)
    BY <1>2, <1>t, <2>1 DEF UpsertGenesis, Put, HasGenesis
  <2>3. EntryOf(0)'
    BY <2>2, ConstantsAssumption DEF EntryOf, Genesis, StartsEpoch
  <2>4. \A e \in Events : pc'[e] = pc[e] /\ pc[e] \notin {"close", "link", "insert", "retry"}
    BY <1>2, <1>t, <2>1 DEF UpsertGenesis, Allocated
  <2> QED BY <2>2, <2>3, <2>4 DEF EpochInv, CallOf
<1>3. ASSUME NEW e \in Events,
             \/ Check(e) \/ Acquire(e) \/ GiveUp(e) \/ Link(e) \/ InsertFails(e) \/ Rollback(e)
             \/ Unlock(e) \/ WritePlain(e) \/ QueuePlain(e) \/ RetryFails(e)
      PROVE  EpochInv'
  <2>1. /\ UNCHANGED <<log, seq, prevEpoch>>
        /\ \A d \in Events \ {e} : pc'[d] = pc[d]
    BY <1>3, <1>t DEF Check, Acquire, GiveUp, Link, InsertFails, Rollback, Unlock, WritePlain,
                QueuePlain, RetryFails, TypeOK
  <2>2. \/ pc'[e] \notin {"close", "link", "insert", "retry"}
        \/ pc'[e] \in {"insert", "retry"} /\ pc[e] \in {"link", "insert", "retry"}
    BY <1>3, <1>t DEF Check, Acquire, GiveUp, Link, InsertFails, Rollback, Unlock, WritePlain,
                QueuePlain, RetryFails, TypeOK
  <2> QED BY <2>1, <2>2, <1>c, <1>k
<1>4. ASSUME NEW e \in Events, Allocate(e) PROVE EpochInv'
  <2>1. UNCHANGED log /\ \A d \in Events \ {e} : /\ pc'[d] = pc[d] /\ seq'[d] = seq[d]
                                                 /\ prevEpoch'[d] = prevEpoch[d]
    BY <1>4, <1>t DEF Allocate, TypeOK
  <2>2. pc'[e] = IF StartsEpoch(seq'[e]) THEN "close" ELSE "link"
    BY <1>4, <1>t DEF Allocate, TypeOK
  <2>3. CallOf(e)'
    BY <2>2 DEF CallOf, StartsEpoch
  <2>4. \A d \in Events \ {e} : CallOf(d)'
    BY <2>1 DEF EpochInv, CallOf
  <2> QED BY <2>1, <2>3, <2>4, <1>k
\* Whoever is in the section is alone there.
<1>a. ASSUME NEW e \in Events, Allocated(e)
      PROVE  \A d \in Events \ {e} : pc[d] \notin {"close", "link", "insert", "retry"}
  BY <1>a, <1>t DEF Allocated
<1>5. ASSUME NEW e \in Events, CloseEpoch(e) PROVE EpochInv'
  <2>1. /\ pc[e] = "close" /\ Allocated(e) /\ seq[e] = n /\ StartsEpoch(n) /\ n > 0
        /\ n - 1 \in DOMAIN log
    BY <1>5, <1>t DEF CloseEpoch, Allocated, EpochInv, CallOf
  <2>2. n - 1 \in InEpoch(n \div EpochSize - 1)
    BY <2>1, LastOfEpoch DEF InEpoch, EpochInv, EntryOf
  <2>3. PICK s \in InEpoch(n \div EpochSize - 1) :
          /\ IsLast(s, InEpoch(n \div EpochSize - 1))
          /\ log' = [log EXCEPT ![s].is_epoch_end = TRUE]
          /\ prevEpoch' = [prevEpoch EXCEPT ![e] = log[s].hash]
    BY <1>5, <2>1, <2>2 DEF CloseEpoch
  <2>4. s = n - 1
    <3>1. s \in 0 .. n - 1 /\ n - 1 =< s
      BY <1>t, <2>2, <2>3 DEF IsLast, InEpoch
    <3> QED BY <3>1
  <2>5. /\ pc'[e] = "link" /\ seq' = seq /\ prevEpoch'[e] = log[n - 1].hash
        /\ \A d \in Events \ {e} : pc'[d] = pc[d]
    BY <1>5, <1>t, <2>3, <2>4 DEF CloseEpoch, TypeOK
  <2>6. DOMAIN log' = DOMAIN log
    BY <2>3
  <2>7. ASSUME NEW t \in DOMAIN log
        PROVE  /\ log'[t].hash = log[t].hash /\ log'[t].epoch = log[t].epoch
               /\ log'[t].is_epoch_start = log[t].is_epoch_start
               /\ log'[t].previous_epoch_hash = log[t].previous_epoch_hash
               /\ log'[t].is_epoch_end <=> t = n - 1 \/ log[t].is_epoch_end
    <3>1. log[t] \in Entry
      BY <1>t DEF TypeOK
    <3> QED BY <2>3, <2>4, <3>1 DEF Entry
  <2>8. ASSUME NEW t \in DOMAIN log PROVE EntryOf(t)'
    <3>1. EntryOf(t)
      BY DEF EpochInv
    <3>2. t \in Nat /\ (t = n - 1 => StartsEpoch(t + 1))
      BY <1>t, <2>1
    <3> QED BY <3>1, <3>2, <2>6, <2>7 DEF EntryOf
  <2>9. CallOf(e)'
    BY <2>1, <2>5, <2>7 DEF CallOf
  <2>10. \A d \in Events \ {e} : CallOf(d)'
    BY <1>a, <2>1, <2>5 DEF CallOf
  <2> QED BY <2>6, <2>8, <2>9, <2>10 DEF EpochInv
<1>6. ASSUME NEW e \in Events, Insert(e) PROVE EpochInv'
  <2>1. /\ Allocated(e) /\ seq[e] = n /\ n > 0 /\ pc[e] \in {"insert", "retry"}
        /\ pc'[e] = "unlock" /\ \A d \in Events \ {e} : pc'[d] = pc[d]
    BY <1>6, <1>t DEF Insert, Allocated, TypeOK
  <2>2. /\ DOMAIN log' = 0 .. n /\ log'[n] = NewEntry(e)
        /\ \A s \in 0 .. n - 1 : log'[s] = log[s]
    BY <1>6, <1>t, <2>1 DEF Insert, Put
  <2>3. ASSUME NEW s \in 0 .. n - 1 PROVE EntryOf(s)'
    BY <1>t, <2>2 DEF EpochInv, EntryOf
  <2>4. EntryOf(n)'
    <3>1. /\ log'[n].epoch = n \div EpochSize /\ ~log'[n].is_epoch_end
          /\ log'[n].is_epoch_start = StartsEpoch(n)
          /\ log'[n].previous_epoch_hash = prevEpoch[e]
      BY <2>1, <2>2 DEF NewEntry
    <3>2. n - 1 \in DOMAIN log' /\ log'[n - 1] = log[n - 1]
      BY <2>1, <2>2
    <3>3. StartsEpoch(n) => log[n - 1].is_epoch_end /\ prevEpoch[e] = log[n - 1].hash
      BY <2>1 DEF EpochInv, CallOf
    <3> QED BY <3>1, <3>2, <3>3 DEF EntryOf
  <2>5. \A s \in DOMAIN log' : s = n \/ s \in 0 .. n - 1
    BY <2>2
  <2>6. \A d \in Events : CallOf(d)'
    BY <1>a, <2>1 DEF CallOf
  <2> QED BY <2>3, <2>4, <2>5, <2>6 DEF EpochInv
<1>7. ASSUME NEW w \in Workers, Crash(w) PROVE EpochInv'
  <2>1. /\ UNCHANGED <<log, seq, prevEpoch>>
        /\ \A d \in Events : pc'[d] = pc[d] \/ pc'[d] = "dead"
    BY <1>7 DEF Crash
  <2> QED BY <2>1, <1>c, <1>k
<1>8. CASE ExpireLock
  BY <1>8, <1>c, <1>k DEF ExpireLock
<1>9. ASSUME NEW e \in Events,
             InsertAmbiguous(e) \/ SectionRaises(e) \/ UnlockRaises(e) \/ Cancel(e)
      PROVE  FALSE
  BY <1>9 DEF InsertAmbiguous, SectionRaises, UnlockRaises, Cancel, Benign
<1>10. ASSUME NEW w \in Workers, BootRaises(w) PROVE FALSE
  BY <1>10 DEF BootRaises, Benign
<1>11. CASE ExpireOldest
  BY <1>11 DEF ExpireOldest, Benign
<1> QED
  BY <1>0, <1>1, <1>2, <1>3, <1>4, <1>5, <1>6, <1>7, <1>8, <1>9, <1>10, <1>11 DEF Next, Audit

LEMMA EpochsCorrect == Spec => [](Benign => EpochInv)
<1>1. Init => EpochInv
  BY DEF Init, EpochInv, CallOf
<1>2. IInv /\ IInv' /\ (Benign => EpochInv) /\ [Next]_vars => (Benign => EpochInv)'
  BY EpochStep, FaultsStay DEF IInv, Benign
<1> QED BY <1>1, <1>2, IInvCorrect, PTL DEF Spec

\* Epochs are consecutive runs of EpochSize entries; each is marked ended on
\* its last entry only, and the next one names the hash of that entry.
THEOREM EpochsClosedHolds == Spec => []EpochsClosed
<1>1. (Benign => EpochInv) => EpochsClosed
  BY DEF EpochInv, EntryOf, EpochsClosed
<1> QED BY <1>1, EpochsCorrect, PTL

-----------------------------------------------------------------------------
(* The entries, under every fault but the TTL index *)

\* What get_previous_hash() gives for a sequence: nothing, or the hash of the
\* entry before it.
NamesPrevious(hash, s) ==
  hash = NoHash \/ (s - 1 \in DOMAIN log /\ hash = log[s - 1].hash)

\* A call before its (first) insert.
Before == {"start", "lock", "allocate", "close", "link", "insert"}

\* The entry of an event has the sequence its call has allocated, and it is
\* inserted once; a genesis has sequence 0.
EntriesInv ==
  /\ \A s \in DOMAIN log :
       /\ log[s].hash \in Workers => s = 0
       /\ \A e \in Events : log[s].hash = e => s = seq[e] /\ pc[e] \notin Before
       /\ log[s].hash # NoHash
       /\ NamesPrevious(log[s].previous_hash, s)
  /\ \A e \in Events : pc[e] \in {"insert", "retry"} => NamesPrevious(prev[e], seq[e])

LEMMA EntriesStep ==
  ASSUME TypeOK, TypeOK', "retention" \notin faults, EntriesInv, [Next]_vars
  PROVE  EntriesInv'
<1> USE ConstantsAssumption
\* Stored hashes stay.
<1>n. ASSUME NEW hash, NEW s, NamesPrevious(hash, s),
             DOMAIN log \subseteq DOMAIN log', \A t \in DOMAIN log : log'[t].hash = log[t].hash
      PROVE  NamesPrevious(hash, s)'
  BY <1>n DEF NamesPrevious
\* Nothing is added.
<1>k. ASSUME DOMAIN log' = DOMAIN log, UNCHANGED seq,
             \A s \in DOMAIN log : /\ log'[s].hash = log[s].hash
                                   /\ log'[s].previous_hash = log[s].previous_hash,
             \A e \in Events : pc'[e] \in Before => pc[e] \in Before,
             \A e \in Events : pc'[e] \in {"insert", "retry"} =>
               \/ prev'[e] = prev[e] /\ pc[e] \in {"insert", "retry"}
               \/ NamesPrevious(prev'[e], seq[e])
      PROVE  EntriesInv'
  <2>1. \A e \in Events : pc'[e] \in {"insert", "retry"} => NamesPrevious(prev[e], seq[e])'
    BY <1>k, <1>n DEF EntriesInv, NamesPrevious
  <2> QED BY <1>k, <1>n, <2>1 DEF EntriesInv, NamesPrevious
<1>0. CASE UNCHANGED vars
  BY <1>0, <1>k DEF vars
<1>1. ASSUME NEW w \in Workers, Boot(w), ~UpsertGenesis(w) PROVE EntriesInv'
  <2>1. UNCHANGED <<log, pc, seq, prev>>
    BY <1>1 DEF Boot, Start, FindLargest, SyncCounter, NoGenesis, ResetToZero, ResetToOne
  <2> QED BY <2>1, <1>k
<1>2. ASSUME NEW w \in Workers, UpsertGenesis(w) PROVE EntriesInv'
  <2>1. UNCHANGED <<pc, seq, prev>>
    BY <1>2 DEF UpsertGenesis
  <2>2. CASE HasGenesis
    BY <1>2, <1>k, <2>1, <2>2 DEF UpsertGenesis
  <2>3. CASE ~HasGenesis
    <3>1. /\ DOMAIN log' = DOMAIN log \cup {0} /\ 0 \notin DOMAIN log
          /\ log'[0] = Genesis(w)
          /\ \A s \in DOMAIN log : log'[s] = log[s]
      BY <1>2, <2>3 DEF UpsertGenesis, Put, HasGenesis
    <3>2. log'[0].hash = w /\ log'[0].previous_hash = NoHash
      BY <3>1 DEF Genesis
    <3>3. w \notin Events /\ w # NoHash
      OBVIOUS
    <3>4. \A s \in DOMAIN log : NamesPrevious(log[s].previous_hash, s)'
      BY <3>1, <1>n DEF EntriesInv, NamesPrevious
    <3>5. \A e \in Events : pc'[e] \in {"insert", "retry"} => NamesPrevious(prev[e], seq[e])'
      BY <3>1, <2>1, <1>n DEF EntriesInv, NamesPrevious
    <3> QED BY <2>1, <3>1, <3>2, <3>3, <3>4, <3>5 DEF EntriesInv, NamesPrevious
  <2> QED BY <2>2, <2>3
<1>3. ASSUME NEW e \in Events,
             \/ Check(e) \/ Acquire(e) \/ GiveUp(e) \/ InsertFails(e) \/ Rollback(e)
             \/ Unlock(e) \/ WritePlain(e) \/ QueuePlain(e) \/ RetryFails(e)
             \/ SectionRaises(e) \/ UnlockRaises(e) \/ Cancel(e)
      PROVE  EntriesInv'
  <2>1. /\ UNCHANGED <<log, seq, prev>>
        /\ \A d \in Events \ {e} : pc'[d] = pc[d]
    BY <1>3 DEF Check, Acquire, GiveUp, InsertFails, Rollback, Unlock, WritePlain, QueuePlain,
                RetryFails, SectionRaises, UnlockRaises, Cancel, TypeOK
  <2>2. /\ pc'[e] \in Before => pc[e] \in Before
        /\ pc'[e] \in {"insert", "retry"} => pc[e] \in {"insert", "retry"}
    BY <1>3 DEF Check, Acquire, GiveUp, InsertFails, Rollback, Unlock, WritePlain, QueuePlain,
                RetryFails, SectionRaises, UnlockRaises, Cancel, TypeOK, Before
  <2> QED BY <2>1, <2>2, <1>k
<1>4. ASSUME NEW e \in Events, Allocate(e) PROVE EntriesInv'
  <2>1. /\ UNCHANGED <<log, prev>> /\ pc[e] \in Before /\ pc'[e] \in {"close", "link"}
        /\ \A d \in Events \ {e} : pc'[d] = pc[d] /\ seq'[d] = seq[d]
    BY <1>4 DEF Allocate, TypeOK, Before
  <2>2. \A s \in DOMAIN log : log[s].hash # e
    BY <2>1 DEF EntriesInv
  <2> QED BY <2>1, <2>2 DEF EntriesInv, NamesPrevious, Before
<1>5. ASSUME NEW e \in Events, CloseEpoch(e) PROVE EntriesInv'
  <2>1. /\ DOMAIN log' = DOMAIN log
        /\ \A t \in DOMAIN log : /\ log'[t].hash = log[t].hash
                                 /\ log'[t].previous_hash = log[t].previous_hash
    <3>1. CASE UNCHANGED log
      BY <3>1
    <3>2. ASSUME NEW s \in DOMAIN log, log' = [log EXCEPT ![s].is_epoch_end = TRUE]
          PROVE  /\ DOMAIN log' = DOMAIN log
                 /\ \A t \in DOMAIN log : /\ log'[t].hash = log[t].hash
                                          /\ log'[t].previous_hash = log[t].previous_hash
      <4>1. \A t \in DOMAIN log : log[t] \in Entry
        BY DEF TypeOK
      <4> QED BY <3>2, <4>1 DEF Entry
    <3> QED BY <1>5, <3>1, <3>2 DEF CloseEpoch, InEpoch
  <2>2. /\ UNCHANGED <<seq, prev>> /\ pc[e] \in Before
        /\ pc'[e] = "link" /\ \A d \in Events \ {e} : pc'[d] = pc[d]
    BY <1>5 DEF CloseEpoch, TypeOK, Before
  <2> QED BY <2>1, <2>2, <1>k
<1>6. ASSUME NEW e \in Events, Link(e) PROVE EntriesInv'
  <2>1. /\ UNCHANGED <<log, seq>> /\ pc[e] \in Before /\ prev'[e] = PreviousHash(seq[e])
        /\ \A d \in Events \ {e} : pc'[d] = pc[d] /\ prev'[d] = prev[d]
    BY <1>6 DEF Link, TypeOK, Before
  <2>2. NamesPrevious(prev'[e], seq[e])
    BY <2>1 DEF PreviousHash, NamesPrevious
  <2> QED BY <2>1, <2>2, <1>k
<1>7. ASSUME NEW e \in Events, Insert(e) \/ InsertAmbiguous(e) PROVE EntriesInv'
  <2>1. /\ pc[e] \in {"insert", "retry"} /\ seq[e] \notin DOMAIN log
        /\ log' = Put(log, seq[e], NewEntry(e)) /\ UNCHANGED <<seq, prev>>
    BY <1>7 DEF Insert, InsertAmbiguous
  <2>2. /\ pc'[e] \in {"unlock", "retry", "rollback"}
        /\ pc'[e] = "retry" => pc[e] = "insert"
        /\ \A d \in Events \ {e} : pc'[d] = pc[d]
    BY <1>7 DEF Insert, InsertAmbiguous, TypeOK
  <2>3. /\ DOMAIN log' = DOMAIN log \cup {seq[e]} /\ log'[seq[e]] = NewEntry(e)
        /\ \A s \in DOMAIN log : log'[s] = log[s]
    BY <2>1 DEF Put
  <2>4. log'[seq[e]].hash = e /\ log'[seq[e]].previous_hash = prev[e]
    BY <2>3 DEF NewEntry
  <2>5. ASSUME NEW hash, NEW s, NamesPrevious(hash, s) PROVE NamesPrevious(hash, s)'
    BY <2>3, <2>5, <1>n
  <2>6. NamesPrevious(prev[e], seq[e])
    BY <2>1 DEF EntriesInv
  <2>7. \A s \in DOMAIN log' : NamesPrevious(log[s].previous_hash, s)'
    BY <2>3, <2>4, <2>5, <2>6 DEF EntriesInv, NamesPrevious
  <2>8. \A d \in Events : pc'[d] \in {"insert", "retry"} => NamesPrevious(prev[d], seq[d])'
    BY <2>1, <2>2, <2>5 DEF EntriesInv, NamesPrevious
  <2>9. \A s \in DOMAIN log' :
          /\ log'[s].hash \in Workers => s = 0
          /\ \A d \in Events : log'[s].hash = d => s = seq'[d] /\ pc'[d] \notin Before
          /\ log'[s].hash # NoHash
    <3>1. e \notin Workers /\ e # NoHash
      OBVIOUS
    <3>2. pc'[e] \notin Before
      BY <2>2 DEF Before
    <3> QED BY <2>1, <2>2, <2>3, <2>4, <3>1, <3>2 DEF EntriesInv
  <2> QED BY <2>7, <2>8, <2>9 DEF EntriesInv
<1>8. ASSUME NEW w \in Workers, BootRaises(w) \/ Crash(w) PROVE EntriesInv'
  <2>1. UNCHANGED <<log, seq, prev>> /\ \A d \in Events : pc'[d] = pc[d] \/ pc'[d] = "dead"
    BY <1>8 DEF BootRaises, Crash
  <2> QED BY <2>1, <1>k DEF Before
<1>9. CASE ExpireLock
  BY <1>9, <1>k DEF ExpireLock
<1>10. CASE ExpireOldest
  BY <1>10 DEF ExpireOldest
<1> QED BY <1>0, <1>1, <1>2, <1>3, <1>4, <1>5, <1>6, <1>7, <1>8, <1>9, <1>10 DEF Next, Audit

LEMMA EntriesCorrect == Spec => [](TypeOK /\ ("retention" \notin faults => EntriesInv))
<1>1. Init => TypeOK /\ EntriesInv
  BY TypeInit DEF Init, EntriesInv
<1>2. TypeOK /\ ("retention" \notin faults => EntriesInv) /\ [Next]_vars
        => (TypeOK /\ ("retention" \notin faults => EntriesInv))'
  BY TypeStep, EntriesStep, FaultsStay
<1> QED BY <1>1, <1>2, PTL DEF Spec

\* No entry names another hash than that of the entry before it, whatever
\* fails, dies, is cancelled or runs beside an append.
THEOREM BrokenLinksAreMissingHolds == Spec => []BrokenLinksAreMissing
<1>1. ("retention" \notin faults => EntriesInv) => BrokenLinksAreMissing
  BY DEF EntriesInv, NamesPrevious, BrokenLinksAreMissing
<1> QED BY <1>1, EntriesCorrect, PTL

-----------------------------------------------------------------------------
(* AuditChain implements AuditLog *)

LEMMA ChainIs ==
  ASSUME TypeOK, Benign, NEW n \in Nat, ChainOf(n)
  PROVE  Chain = [i \in 1 .. n |-> log[i - 1].hash]
<1>1. DOMAIN log = 0 .. n - 1
  BY DEF ChainOf
<1>2. Cardinality(0 .. n - 1) = n
  BY FS_Interval
<1>3. \A i \in 1 .. n : i - 1 \in DOMAIN log
  BY <1>1
<1> QED BY <1>1, <1>2, <1>3 DEF Chain

\* An entry put after the last one appends its hash to the chain.
LEMMA PutAppends ==
  ASSUME TypeOK, TypeOK', Benign, Benign', NEW n \in Nat, ChainOf(n), ChainOf(n + 1)',
         NEW entry, log' = Put(log, n, entry), entry.hash \in Events \cup Workers,
         \A s \in DOMAIN log : log[s].hash # entry.hash
  PROVE  [Abstract!Next]_Chain
<1> DEFINE before == [i \in 1 .. n |-> log[i - 1].hash]
           after == [i \in 1 .. n + 1 |-> log'[i - 1].hash]
<1>1. Chain = before
  BY ChainIs
<1>2. Chain' = after
  <2>1. ASSUME NEW m \in Nat, ChainOf(m)' PROVE Chain' = [i \in 1 .. m |-> log'[i - 1].hash]
    <3>1. DOMAIN log' = 0 .. m - 1
      BY <2>1 DEF ChainOf
    <3>2. Cardinality(0 .. m - 1) = m
      BY FS_Interval
    <3>3. \A i \in 1 .. m : i - 1 \in DOMAIN log'
      BY <3>1
    <3> QED BY <3>1, <3>2, <3>3 DEF Chain
  <2> QED BY <2>1
<1>3. DOMAIN log = 0 .. n - 1 /\ \A s \in 0 .. n - 1 : log[s] \in Entry
  BY DEF ChainOf, TypeOK
<1>4. \A s \in 0 .. n - 1 : log'[s] = log[s]
  BY <1>3 DEF Put
<1>5. log'[n] = entry
  BY DEF Put
<1>6. before \in Seq(Hashes) /\ Len(before) = n
  BY <1>3 DEF Entry
<1>7. \A i \in 1 .. n : after[i] = before[i]
  BY <1>4
<1>8. after[n + 1] = entry.hash
  BY <1>5
<1>9. after = Append(before, entry.hash)
  <2>1. entry.hash \in Hashes
    BY DEF Hashes
  <2>2. /\ Append(before, entry.hash) \in Seq(Hashes)
        /\ Len(Append(before, entry.hash)) = n + 1
        /\ \A i \in 1 .. n : Append(before, entry.hash)[i] = before[i]
        /\ Append(before, entry.hash)[n + 1] = entry.hash
    BY <1>6, <2>1, AppendProperties
  <2>3. DOMAIN Append(before, entry.hash) = 1 .. n + 1
    BY <2>2
  <2>4. Append(before, entry.hash) = [i \in 1 .. n + 1 |-> Append(before, entry.hash)[i]]
    BY <2>2, <2>3
  <2>5. \A i \in 1 .. n + 1 : Append(before, entry.hash)[i] = after[i]
    BY <1>7, <1>8, <2>2
  <2> QED BY <2>4, <2>5
<1>10. \A i \in DOMAIN before : before[i] # entry.hash
  BY <1>3
<1> QED BY <1>1, <1>2, <1>9, <1>10 DEF Abstract!Next, Abstract!AppendEntry

LEMMA AbstractStep ==
  ASSUME IInv, IInv', "retention" \notin faults => EntriesInv, [Next]_vars
  PROVE  [Abstract!Next]_Chain
<1> USE ConstantsAssumption
<1>1. CASE ~Benign
  <2>1. ~Benign'
    BY <1>1, FaultsStay DEF Benign
  <2> QED BY <1>1, <2>1 DEF Chain
<1>2. CASE Benign
  <2>1. Benign' /\ ChainInv /\ ChainInv' /\ TypeOK /\ TypeOK' /\ EntriesInv
    BY <1>2, FaultsStay DEF Benign, IInv
  <2>2. PICK n \in Nat : ChainOf(n)
    BY <2>1 DEF ChainInv
  <2>3. PICK m \in Nat : ChainOf(m)'
    BY <2>1 DEF ChainInv
  <2>4. DOMAIN log = 0 .. n - 1 /\ DOMAIN log' = 0 .. m - 1
    BY <2>2, <2>3 DEF ChainOf
  <2>k. ASSUME DOMAIN log' = DOMAIN log, \A s \in DOMAIN log : log'[s].hash = log[s].hash
        PROVE  Chain' = Chain
    <3>1. Chain = [i \in 1 .. n |-> log[i - 1].hash]
      BY <1>2, <2>1, <2>2, ChainIs
    <3>2. DOMAIN log' = 0 .. n - 1
      BY <2>k, <2>4
    <3>3. Cardinality(0 .. n - 1) = n
      BY FS_Interval
    <3>4. \A i \in 1 .. n : i - 1 \in DOMAIN log' /\ log'[i - 1].hash = log[i - 1].hash
      BY <2>k, <3>2
    <3>5. Chain' = [i \in 1 .. n |-> log'[i - 1].hash]
      BY <2>1, <3>2, <3>3, <3>4 DEF Chain
    <3> QED BY <3>1, <3>4, <3>5
  <2>5. CASE UNCHANGED log
    BY <2>5, <2>k
  <2>6. ASSUME NEW w \in Workers, UpsertGenesis(w), ~UNCHANGED log
        PROVE  [Abstract!Next]_Chain
    <3>1. log' = Put(log, 0, Genesis(w)) /\ n = 0
      BY <2>2, <2>6 DEF UpsertGenesis, ChainOf
    <3>2. DOMAIN log = {} /\ DOMAIN log' = {0}
      BY <2>4, <3>1 DEF Put
    <3>3. m = 1
      <4>1. 0 \in 0 .. m - 1
        BY <2>4, <3>2
      <4>2. 1 \notin 0 .. m - 1
        <5>1. 1 \notin {0}
          OBVIOUS
        <5> QED BY <2>4, <3>2, <5>1, Zenon
      <4>3. 0 =< m - 1 /\ ~(1 =< m - 1)
        BY <4>1, <4>2
      <4> QED BY <4>3
    <3> QED BY <1>2, <2>1, <2>2, <2>3, <3>1, <3>2, <3>3, PutAppends DEF Genesis
  <2>7. ASSUME NEW e \in Events, CloseEpoch(e) PROVE Chain' = Chain
    <3>1. CASE UNCHANGED log
      BY <3>1, <2>k
    <3>2. ASSUME NEW s \in DOMAIN log, log' = [log EXCEPT ![s].is_epoch_end = TRUE]
          PROVE  Chain' = Chain
      <4>1. \A t \in DOMAIN log : log[t] \in Entry
        BY <2>1 DEF TypeOK
      <4> QED BY <3>2, <4>1, <2>k DEF Entry
    <3> QED BY <2>7, <3>1, <3>2 DEF CloseEpoch, InEpoch
  <2>8. ASSUME NEW e \in Events, Insert(e) PROVE [Abstract!Next]_Chain
    <3>1. /\ pc[e] \in {"insert", "retry"} /\ seq[e] \notin DOMAIN log
          /\ log' = Put(log, seq[e], NewEntry(e))
      BY <2>8 DEF Insert
    <3>2. seq[e] = n
      BY <2>2, <3>1 DEF ChainOf, Allocated
    <3>3. DOMAIN log' = 0 .. n
      BY <2>4, <3>1, <3>2 DEF Put
    <3>4. m = n + 1
      <4>1. n \in 0 .. m - 1 /\ m \notin 0 .. m - 1
        BY <2>4, <3>3
      <4>2. n + 1 \notin 0 .. m - 1
        <5>1. n + 1 \notin 0 .. n
          OBVIOUS
        <5> QED BY <2>4, <3>3, <5>1
      <4>3. n =< m - 1 /\ ~(n + 1 =< m - 1)
        BY <4>1, <4>2
      <4> QED BY <4>3
    <3>5. NewEntry(e).hash = e
      BY DEF NewEntry
    <3>6. \A s \in DOMAIN log : log[s].hash # e
      BY <2>1, <3>1 DEF EntriesInv
    <3> QED BY <1>2, <2>1, <2>2, <2>3, <3>1, <3>2, <3>4, <3>5, <3>6, PutAppends
  <2>9. UNCHANGED log \/ (\E w \in Workers : UpsertGenesis(w)) \/ \E e \in Events : CloseEpoch(e) \/ Insert(e)
    BY <1>2 DEF Next, vars, Benign, Boot, Start, FindLargest, SyncCounter, NoGenesis,
         ResetToZero, ResetToOne, BootRaises, Crash, Audit, Check, Acquire, GiveUp,
         Allocate, Link, InsertFails, InsertAmbiguous, Rollback,
         Unlock, WritePlain, QueuePlain, RetryFails, SectionRaises, UnlockRaises,
         Cancel, ExpireLock, ExpireOldest
  <2> QED BY <2>5, <2>6, <2>7, <2>8, <2>9
<1> QED BY <1>1, <1>2

\* The chain that one worker writes is an append-only log in which each event
\* stands once.
THEOREM ImplementsAuditLogHolds == Spec => ImplementsAuditLog
<1>1. Init => Abstract!Init
  <2> SUFFICES ASSUME Init PROVE Chain = <<>>
    BY DEF Abstract!Init
  <2>1. DOMAIN log = 0 .. -1 /\ Cardinality(0 .. -1) = 0
    BY FS_Interval DEF Init
  <2>2. Cardinality(DOMAIN log) = 0
    BY <2>1
  <2> QED BY <2>2 DEF Chain
<1>2. IInv /\ IInv' /\ ("retention" \notin faults => EntriesInv) /\ [Next]_vars
        => [Abstract!Next]_Chain
  BY AbstractStep
<1> QED BY <1>1, <1>2, IInvCorrect, EntriesCorrect, PTL
        DEF Spec, ImplementsAuditLog, Abstract!Spec

-----------------------------------------------------------------------------
(* What the readers compute from a batch *)

LEMMA SmallestExists ==
  ASSUME NEW S \in SUBSET Nat, S # {}
  PROVE  \E m \in S : \A s \in S : m =< s
<1>1. PICK m \in S : \A s \in S : ~(<<s, m>> \in OpToRel(<, Nat))
  BY NatLessThanWellFounded, WFMin, Zenon
<1>2. \A s \in S : ~(s < m)
  BY <1>1 DEF OpToRel
<1> QED BY <1>2

LEMMA LargestExists ==
  ASSUME NEW S \in SUBSET Nat, S # {}, NEW b \in Nat, \A s \in S : s =< b
  PROVE  \E m \in S : \A s \in S : s =< m
<1> DEFINE below == {b - s : s \in S}
<1>1. below \in SUBSET Nat /\ below # {}
  <2>1. \A s \in S : b - s \in Nat
    OBVIOUS
  <2> QED BY <2>1
<1>2. PICK d \in below : \A c \in below : d =< c
  BY <1>1, SmallestExists
<1>3. PICK m \in S : d = b - m
  BY <1>2
<1>4. \A s \in S : b - m =< b - s
  BY <1>2, <1>3
<1> QED BY <1>4

LEMMA MinIs ==
  ASSUME NEW S \in SUBSET Int, NEW m \in S, \A s \in S : m =< s
  PROVE  Min(S) = m
<1>1. Min(S) \in S /\ \A s \in S : Min(S) =< s
  BY DEF Min
<1>2. Min(S) =< m /\ m =< Min(S) /\ Min(S) \in Int /\ m \in Int
  BY <1>1
<1> QED BY <1>2

LEMMA MaxIs ==
  ASSUME NEW S \in SUBSET Int, NEW m \in S, \A s \in S : s =< m
  PROVE  Max(S) = m
<1>1. \A s \in S : m >= s
  OBVIOUS
<1>2. Max(S) \in S /\ \A s \in S : Max(S) >= s
  BY <1>1 DEF Max
<1>3. Max(S) =< m /\ m =< Max(S) /\ Max(S) \in Int /\ m \in Int
  BY <1>2
<1> QED BY <1>3

\* A batch found valid has no gap, and each of its entries names the hash of
\* the one before it.
LEMMA ValidBatch ==
  ASSUME NEW entries, NEW start \in Nat, NEW hash, NEW trusted \in BOOLEAN,
         \A t \in DOMAIN entries : t \in Nat /\ start =< t,
         BatchStatus(entries, start, hash, trusted) = "valid",
         NEW s \in DOMAIN entries
  PROVE  /\ start .. s \subseteq DOMAIN entries
         /\ s > start => entries[s].previous_hash = entries[s - 1].hash
<1> DEFINE S == DOMAIN entries
           Earlier == {t \in S : t < s}
<1>1. /\ s = start + Cardinality(Earlier)
      /\ ~trusted \/ s # Min(S) =>
           entries[s].previous_hash = IF s = Min(S) THEN hash ELSE entries[Max(Earlier)].hash
  BY DEF BatchStatus
<1>2. s \in Nat /\ start =< s /\ Earlier \subseteq start .. s - 1
  OBVIOUS
<1>3. IsFiniteSet(start .. s - 1) /\ Cardinality(start .. s - 1) = s - start
  <2>1. start \in Int /\ s - 1 \in Int
    BY <1>2
  <2>2. /\ IsFiniteSet(start .. s - 1)
        /\ Cardinality(start .. s - 1) = IF start > s - 1 THEN 0 ELSE s - 1 - start + 1
    BY <2>1, FS_Interval
  <2> QED BY <1>2, <2>2
<1>4. Cardinality(Earlier) = s - start
  <2>1. IsFiniteSet(Earlier)
    BY <1>2, <1>3, FS_Subset
  <2>2. Cardinality(Earlier) \in Nat
    BY <2>1, FS_CardinalityType
  <2> HIDE DEF Earlier
  <2> QED BY <1>1, <1>2, <2>2
<1>5. Earlier = start .. s - 1
  BY <1>2, <1>3, <1>4, FS_Subset
<1>6. \A t \in start .. s : t \in Earlier \/ t = s
  BY <1>2, <1>5
<1>7. start .. s \subseteq S
  BY <1>6
<1>8. Min(S) = start
  <2>1. start \in S /\ S \in SUBSET Int /\ \A t \in S : start =< t
    BY <1>2, <1>7
  <2> QED BY <2>1, MinIs
<1>9. s > start => Max(Earlier) = s - 1
  <2>1. s > start => s - 1 \in start .. s - 1
    BY <1>2
  <2>2. start .. s - 1 \in SUBSET Int /\ \A t \in start .. s - 1 : t =< s - 1
    BY <1>2
  <2> QED BY <1>5, <2>1, <2>2, MaxIs
<1> HIDE DEF S, Earlier
<1> QED BY <1>1, <1>2, <1>7, <1>8, <1>9 DEF S

\* The first link of a batch is compared with the hash of the batch before it.
LEMMA ValidFirst ==
  ASSUME NEW entries, NEW start \in DOMAIN entries, NEW hash,
         \A t \in DOMAIN entries : t \in Nat /\ start =< t,
         BatchStatus(entries, start, hash, FALSE) = "valid"
  PROVE  entries[start].previous_hash = hash
<1>1. Min(DOMAIN entries) = start
  BY MinIs
<1> QED BY <1>1 DEF BatchStatus

\* The converse.
LEMMA WholeBatch ==
  ASSUME NEW entries, NEW start \in Nat, NEW hash, NEW trusted \in BOOLEAN,
         NEW b \in Nat, start =< b, DOMAIN entries = start .. b,
         \A s \in start + 1 .. b : entries[s].previous_hash = entries[s - 1].hash,
         trusted \/ entries[start].previous_hash = hash
  PROVE  BatchStatus(entries, start, hash, trusted) = "valid"
<1> DEFINE S == DOMAIN entries
<1>1. Min(S) = start
  <2>1. start \in S /\ S \in SUBSET Int /\ \A s \in S : start =< s
    OBVIOUS
  <2> QED BY <2>1, MinIs
<1>2. ASSUME NEW s \in S
      PROVE  /\ s = start + Cardinality({t \in S : t < s})
             /\ ~trusted \/ s # Min(S) =>
                  entries[s].previous_hash =
                    IF s = Min(S) THEN hash ELSE entries[Max({t \in S : t < s})].hash
  <2>1. {t \in S : t < s} = start .. s - 1
    OBVIOUS
  <2>2. Cardinality(start .. s - 1) = s - start
    BY FS_Interval
  <2>3. s > start => Max(start .. s - 1) = s - 1
    <3>1. start .. s - 1 \in SUBSET Int /\ \A t \in start .. s - 1 : t =< s - 1
      OBVIOUS
    <3>2. s > start => s - 1 \in start .. s - 1
      OBVIOUS
    <3> QED BY <3>1, <3>2, MaxIs
  <2>4. s \in Nat /\ start =< s /\ s =< b
    OBVIOUS
  <2>5. s > start => entries[s].previous_hash = entries[s - 1].hash
    BY <2>4
  <2>6. s = start + Cardinality({t \in S : t < s})
    <3>1. s = start + (s - start)
      BY <2>4
    <3> QED BY <2>1, <2>2, <3>1
  <2>7. s = start /\ ~trusted => entries[s].previous_hash = hash
    OBVIOUS
  <2>8. s = start \/ s > start
    BY <2>4
  <2> HIDE DEF S
  <2> QED BY <1>1, <2>1, <2>3, <2>5, <2>6, <2>7, <2>8
<1> QED BY <1>2 DEF BatchStatus

-----------------------------------------------------------------------------
(* Where a write that raises has not taken effect, nor a release after it *)

Truthful == faults \cap {"ambiguous", "call_error"} = {}

\* An event has an entry, at the sequence its call allocated, only if its call
\* has inserted it, and a plain entry only if it has fallen back.
RecordInv ==
  \A e \in Events :
    /\ \A s \in DOMAIN log :
         log[s].hash = e => s = seq[e] /\ pc[e] \in {"unlock", "chained", "dead"}
    /\ e \in plain => pc[e] = "unchained"

LEMMA RecordStep ==
  ASSUME TypeOK, Truthful, RecordInv, [Next]_vars PROVE RecordInv'
<1> USE ConstantsAssumption
<1> DEFINE Written == {"unlock", "chained", "dead"}
<1>k. ASSUME DOMAIN log' \subseteq DOMAIN log, UNCHANGED plain,
             \A s \in DOMAIN log' : log'[s].hash = log[s].hash,
             \A e \in Events : pc[e] \in Written => pc'[e] \in Written /\ seq'[e] = seq[e],
             \A e \in Events : pc[e] = "unchained" => pc'[e] = "unchained"
      PROVE  RecordInv'
  BY <1>k DEF RecordInv
<1>0. CASE UNCHANGED vars
  BY <1>0, <1>k DEF vars
<1>1. ASSUME NEW w \in Workers, Boot(w), ~UpsertGenesis(w) PROVE RecordInv'
  <2>1. UNCHANGED <<log, plain, pc, seq>>
    BY <1>1 DEF Boot, Start, FindLargest, SyncCounter, NoGenesis, ResetToZero, ResetToOne
  <2> QED BY <2>1, <1>k
<1>2. ASSUME NEW w \in Workers, UpsertGenesis(w) PROVE RecordInv'
  <2>1. UNCHANGED <<plain, pc, seq>>
    BY <1>2 DEF UpsertGenesis
  <2>2. \A s \in DOMAIN log' : log'[s].hash = w \/ (s \in DOMAIN log /\ log'[s] = log[s])
    BY <1>2 DEF UpsertGenesis, Put, Genesis
  <2> QED BY <2>1, <2>2 DEF RecordInv
<1>3. ASSUME NEW e \in Events,
             \/ Check(e) \/ Acquire(e) \/ GiveUp(e) \/ Allocate(e) \/ Link(e) \/ InsertFails(e)
             \/ Rollback(e) \/ Unlock(e) \/ QueuePlain(e) \/ RetryFails(e) \/ Cancel(e)
      PROVE  RecordInv'
  <2>1. /\ UNCHANGED <<log, plain>>
        /\ \A d \in Events \ {e} : pc'[d] = pc[d] /\ seq'[d] = seq[d]
    BY <1>3 DEF Check, Acquire, GiveUp, Allocate, Link, InsertFails, Rollback, Unlock,
                QueuePlain, RetryFails, Cancel, TypeOK
  <2>2. /\ pc[e] \in Written => pc'[e] \in Written /\ seq'[e] = seq[e]
        /\ pc[e] # "unchained"
    BY <1>3 DEF Check, Acquire, GiveUp, Allocate, Link, InsertFails, Rollback, Unlock,
                QueuePlain, RetryFails, Cancel, TypeOK
  <2> QED BY <2>1, <2>2, <1>k
<1>4. ASSUME NEW e \in Events, CloseEpoch(e) PROVE RecordInv'
  <2>1. /\ UNCHANGED <<plain, seq>> /\ pc[e] = "close" /\ pc'[e] = "link"
        /\ \A d \in Events \ {e} : pc'[d] = pc[d]
    BY <1>4 DEF CloseEpoch, TypeOK
  <2>2. /\ DOMAIN log' = DOMAIN log
        /\ \A t \in DOMAIN log : log'[t].hash = log[t].hash
    <3>1. CASE UNCHANGED log
      BY <3>1
    <3>2. ASSUME NEW s \in DOMAIN log, log' = [log EXCEPT ![s].is_epoch_end = TRUE]
          PROVE  DOMAIN log' = DOMAIN log /\ \A t \in DOMAIN log : log'[t].hash = log[t].hash
      <4>1. \A t \in DOMAIN log : log[t] \in Entry
        BY DEF TypeOK
      <4> QED BY <3>2, <4>1 DEF Entry
    <3> QED BY <1>4, <3>1, <3>2 DEF CloseEpoch, InEpoch
  <2> QED BY <2>1, <2>2, <1>k
<1>5. ASSUME NEW e \in Events, Insert(e) PROVE RecordInv'
  <2>1. /\ UNCHANGED <<plain, seq>> /\ pc[e] \in {"insert", "retry"} /\ pc'[e] = "unlock"
        /\ \A d \in Events \ {e} : pc'[d] = pc[d]
    BY <1>5 DEF Insert, TypeOK
  <2>2. \A s \in DOMAIN log' :
          \/ s = seq[e] /\ log'[s].hash = e
          \/ s \in DOMAIN log /\ log'[s] = log[s]
    BY <1>5 DEF Insert, Put, NewEntry
  <2> QED BY <2>1, <2>2 DEF RecordInv
<1>6. ASSUME NEW e \in Events, WritePlain(e) PROVE RecordInv'
  <2>1. /\ UNCHANGED <<log, seq>> /\ plain' = plain \cup {e}
        /\ pc[e] \in {"plain", "queued"} /\ pc'[e] = "unchained"
        /\ \A d \in Events \ {e} : pc'[d] = pc[d]
    BY <1>6 DEF WritePlain, TypeOK
  <2> QED BY <2>1 DEF RecordInv
<1>7. ASSUME NEW w \in Workers, Crash(w) PROVE RecordInv'
  <2>1. UNCHANGED <<log, plain, seq>>
    BY <1>7 DEF Crash
  <2>2. \A e \in Events : pc'[e] = pc[e] \/ (pc'[e] = "dead" /\ pc[e] # "unchained")
    BY <1>7 DEF Crash, Section
  <2> QED BY <2>1, <2>2, <1>k
<1>8. ASSUME NEW e \in Events, InsertAmbiguous(e) \/ SectionRaises(e) \/ UnlockRaises(e)
      PROVE  FALSE
  BY <1>8 DEF InsertAmbiguous, SectionRaises, UnlockRaises, Truthful
<1>9. ASSUME NEW w \in Workers, BootRaises(w) PROVE FALSE
  BY <1>9 DEF BootRaises, Truthful
<1>10. CASE ExpireLock \/ ExpireOldest
  BY <1>10, <1>k DEF ExpireLock, ExpireOldest
<1> QED BY <1>0, <1>1, <1>2, <1>3, <1>4, <1>5, <1>6, <1>7, <1>8, <1>9, <1>10 DEF Next, Audit

\* No event is recorded twice, as two entries or as an entry and a plain one,
\* unless a call raises although it took effect.
THEOREM RecordedOnceHolds == Spec => []RecordedOnce
<1>1. Init => RecordInv
  BY DEF Init, RecordInv
<1>2. TypeOK /\ (Truthful => RecordInv) /\ [Next]_vars => (Truthful => RecordInv)'
  BY RecordStep, FaultsStay DEF Truthful
<1>3. (Truthful => RecordInv) => RecordedOnce
  BY DEF Truthful, RecordInv, RecordedOnce
<1> QED BY <1>1, <1>2, <1>3, TypeCorrect, PTL DEF Spec

-----------------------------------------------------------------------------
(* The counter, with one worker whose calls may also be cancelled *)

OneWorker == faults \subseteq {"write_error", "crash", "cancel"}

\* With a serving worker every stored sequence is below the counter, and below
\* the one in hand.  Gaps may be left: no sequence is said to be stored.
CounterAhead ==
  /\ OneRuns
  /\ DOMAIN log # {} => HasGenesis
  /\ \A e \in Events :
       /\ pc[e] \in Section => lock = e
       /\ pc[e] \in Section \cup {"lock"} => HasGenesis /\ boot[WorkerOf[e]] = "ready"
       /\ Allocated(e) => seq[e] < counter /\ \A s \in DOMAIN log : s < seq[e]
  /\ \A w \in Workers :
       /\ boot[w] = "sync" => \A s \in DOMAIN log : s =< found[w]
       /\ boot[w] \in {"alloc", "genesis"} => DOMAIN log = {}
       /\ boot[w] = "first" => DOMAIN log \subseteq {0}
       /\ boot[w] = "ready" => \A s \in DOMAIN log : s < counter

LEMMA CounterStep ==
  ASSUME TypeOK, TypeOK', OneWorker, CounterAhead, [Next]_vars PROVE CounterAhead'
<1> USE ConstantsAssumption DEF TypeOK, CounterAhead, Section, Allocated
<1>0. CASE UNCHANGED vars
  BY <1>0 DEF vars, OneRuns, HasGenesis
<1>1. ASSUME NEW w \in Workers, Boot(w) PROVE CounterAhead'
  <2>1. ASSUME NEW e \in Events, boot[w] \notin {"down", "ready"}
        PROVE  pc[e] \notin Section \cup {"lock"}
    <3>1. WorkerOf[e] \in Workers /\ WorkerOf[e] # w => boot[WorkerOf[e]] = "down"
      BY <2>1 DEF OneRuns
    <3> QED BY <2>1, <3>1
  <2>2. OneRuns'
    BY <1>1, SMTT(20) DEF OneRuns, OneWorker, Boot, Start, FindLargest, SyncCounter,
           NoGenesis, ResetToZero, UpsertGenesis, ResetToOne
  <2>3. ASSUME NEW v \in Workers, v # w, boot[w] # "down" PROVE boot[v] = "down"
    BY <2>3 DEF OneRuns
  <2>4. CASE Start(w)
    BY <2>2, <2>4 DEF Start, HasGenesis
  <2>5. CASE FindLargest(w)
    BY <2>2, <2>5 DEF FindLargest, HasGenesis, IsLast
  <2>6. CASE SyncCounter(w)
    BY <2>1, <2>2, <2>3, <2>6 DEF SyncCounter, HasGenesis
  <2>7. CASE NoGenesis(w)
    BY <2>1, <2>2, <2>3, <2>7 DEF NoGenesis, HasGenesis
  <2>8. CASE ResetToZero(w)
    BY <2>1, <2>2, <2>3, <2>8 DEF ResetToZero, HasGenesis
  <2>9. CASE UpsertGenesis(w)
    <3>1. DOMAIN log' = {0}
      BY <2>9 DEF UpsertGenesis, HasGenesis, Put
    <3> QED BY <2>1, <2>2, <2>3, <2>9, <3>1 DEF UpsertGenesis, HasGenesis
  <2>10. CASE ResetToOne(w)
    BY <2>1, <2>2, <2>3, <2>10 DEF ResetToOne, HasGenesis
  <2> QED BY <1>1, <2>4, <2>5, <2>6, <2>7, <2>8, <2>9, <2>10 DEF Boot
<1>a. ASSUME NEW e \in Events, pc[e] \in Section, NEW d \in Events, d # e PROVE pc[d] \notin Section
  BY <1>a
<1>2. ASSUME NEW e \in Events, Check(e) \/ Acquire(e) \/ GiveUp(e) PROVE CounterAhead'
  <2>1. /\ UNCHANGED <<log, counter, seq, boot, found>>
        /\ \A d \in Events \ {e} : pc'[d] = pc[d]
    BY <1>2 DEF Check, Acquire, GiveUp
  <2>2. \/ pc'[e] = "plain" /\ lock' = lock
        \/ /\ pc'[e] = "lock" /\ lock' = lock
           /\ HasGenesis /\ boot[WorkerOf[e]] = "ready"
        \/ pc[e] = "lock" /\ pc'[e] = "allocate" /\ lock = Free /\ lock' = e
    BY <1>2 DEF Check, Acquire, GiveUp
  <2>3. OneRuns' /\ (HasGenesis' <=> HasGenesis)
    BY <2>1 DEF OneRuns, HasGenesis
  <2>4. \A d \in Events : lock = Free => pc[d] \notin Section
    OBVIOUS
  <2> HIDE DEF TypeOK
  <2> QED BY <2>1, <2>2, <2>3, <2>4
<1>3. ASSUME NEW e \in Events, Allocate(e) PROVE CounterAhead'
  <2>1. boot[WorkerOf[e]] = "ready" /\ WorkerOf[e] \in Workers /\ lock = e
    BY <1>3 DEF Allocate
  <2>2. \A s \in DOMAIN log : s < counter
    BY <2>1
  <2> QED BY <1>3, <1>a, <2>1, <2>2 DEF Allocate, OneRuns, HasGenesis
<1>4. ASSUME NEW e \in Events, CloseEpoch(e) PROVE CounterAhead'
  <2>1. DOMAIN log' = DOMAIN log
    BY <1>4 DEF CloseEpoch, InEpoch
  <2> QED BY <1>4, <2>1 DEF CloseEpoch, OneRuns, HasGenesis
<1>5. ASSUME NEW e \in Events, Link(e) \/ InsertFails(e) PROVE CounterAhead'
  BY <1>5 DEF Link, InsertFails, OneRuns, HasGenesis
<1>6. ASSUME NEW e \in Events, Insert(e) PROVE CounterAhead'
  <2>1. /\ DOMAIN log' = DOMAIN log \cup {seq[e]}
        /\ pc[e] \in {"insert", "retry"} /\ pc'[e] = "unlock"
        /\ \A d \in Events \ {e} : pc'[d] = pc[d]
        /\ UNCHANGED <<counter, lock, seq, boot, found>>
    BY <1>6 DEF Insert, Put
  <2>2. seq[e] < counter /\ lock = e /\ boot[WorkerOf[e]] = "ready" /\ WorkerOf[e] \in Workers
    BY <2>1
  <2>3. \A w \in Workers : boot[w] \in {"ready", "down"}
    BY <2>2 DEF OneRuns
  <2>4. \A d \in Events \ {e} : pc[d] \notin Section
    BY <1>a, <2>1
  <2>5. HasGenesis /\ HasGenesis' /\ OneRuns'
    BY <2>1 DEF HasGenesis, OneRuns
  <2> HIDE DEF TypeOK
  <2> QED BY <2>1, <2>2, <2>3, <2>4, <2>5
<1>7. ASSUME NEW e \in Events, Rollback(e) PROVE CounterAhead'
  <2>1. /\ pc[e] = "rollback" /\ pc'[e] = "unlock_failed" /\ counter' = seq[e]
        /\ \A d \in Events \ {e} : pc'[d] = pc[d]
        /\ UNCHANGED <<log, lock, seq, boot, found>>
    BY <1>7 DEF Rollback
  <2>2. /\ \A d \in Events \ {e} : pc[d] \notin Section
        /\ \A s \in DOMAIN log : s < seq[e]
    BY <1>a, <2>1
  <2>3. OneRuns' /\ (HasGenesis' <=> HasGenesis)
    BY <2>1 DEF OneRuns, HasGenesis
  <2> HIDE DEF TypeOK
  <2> QED BY <2>1, <2>2, <2>3
<1>8. ASSUME NEW e \in Events, Unlock(e) PROVE CounterAhead'
  <2>1. /\ pc[e] \in Section /\ pc'[e] \in {"chained", "plain", "cancelled"}
        /\ \A d \in Events \ {e} : pc'[d] = pc[d]
        /\ UNCHANGED <<log, counter, seq, boot, found>>
    BY <1>8 DEF Unlock
  <2>2. \A d \in Events \ {e} : pc[d] \notin Section
    BY <1>a, <2>1
  <2>3. OneRuns' /\ (HasGenesis' <=> HasGenesis)
    BY <2>1 DEF OneRuns, HasGenesis
  <2> HIDE DEF TypeOK
  <2> QED BY <2>1, <2>2, <2>3
<1>9. ASSUME NEW e \in Events, WritePlain(e) \/ QueuePlain(e) \/ RetryFails(e) \/ Cancel(e)
      PROVE  CounterAhead'
  BY <1>9, SMTT(20) DEF WritePlain, QueuePlain, RetryFails, Cancel, OneRuns, HasGenesis
<1>10. ASSUME NEW w \in Workers, Crash(w) PROVE CounterAhead'
  BY <1>10 DEF Crash, OneRuns, HasGenesis
<1>11. CASE ExpireLock
  BY <1>11 DEF ExpireLock, OneWorker, OneRuns, HasGenesis
<1>12. ASSUME NEW e \in Events, InsertAmbiguous(e) \/ SectionRaises(e) \/ UnlockRaises(e)
       PROVE  FALSE
  BY <1>12 DEF InsertAmbiguous, SectionRaises, UnlockRaises, OneWorker
<1>13. ASSUME NEW w \in Workers, BootRaises(w) PROVE FALSE
  BY <1>13 DEF BootRaises, OneWorker
<1>14. CASE ExpireOldest
  BY <1>14 DEF ExpireOldest, OneWorker
<1> QED
  BY <1>0, <1>1, <1>2, <1>3, <1>4, <1>5, <1>6, <1>7, <1>8, <1>9, <1>10, <1>11, <1>12,
     <1>13, <1>14 DEF Next, Audit

\* One worker, even if its calls are cancelled between any two steps, never
\* hands out a sequence that is stored, also after a restart.
THEOREM OneWorkerIsFreshHolds == Spec => OneWorkerIsFresh
<1>1. Init => CounterAhead
  BY DEF Init, CounterAhead, OneRuns, Section, Allocated
<1>2. TypeOK /\ TypeOK' /\ (OneWorker => CounterAhead) /\ [Next]_vars => (OneWorker => CounterAhead)'
  BY CounterStep, FaultsStay DEF OneWorker
<1>3. TypeOK /\ (OneWorker => CounterAhead) /\ [Next]_vars =>
        [ faults \subseteq {"write_error", "crash", "cancel"} =>
            \A e \in Events : Allocate(e) => counter \notin DOMAIN log ]_vars
  <2> SUFFICES ASSUME TypeOK, CounterAhead, NEW e \in Events, Allocate(e), counter \in DOMAIN log
               PROVE  FALSE
    BY DEF OneWorker
  <2>1. boot[WorkerOf[e]] = "ready" /\ WorkerOf[e] \in Workers
    BY ConstantsAssumption DEF Allocate, CounterAhead, Section
  <2>2. counter < counter /\ counter \in Nat
    BY <2>1 DEF CounterAhead, TypeOK
  <2> QED BY <2>2
<1> QED BY <1>1, <1>2, <1>3, TypeCorrect, PTL DEF Spec, OneWorkerIsFresh

-----------------------------------------------------------------------------
(* The log grows, and what is stored stays *)

LEMMA LogStep ==
  ASSUME TypeOK, TypeOK', [Next]_vars
  PROVE  /\ "retention" \notin faults => DOMAIN log \subseteq DOMAIN log'
         /\ \A s \in DOMAIN log \cap DOMAIN log' :
              /\ log[s].is_epoch_end => log'[s].is_epoch_end
              /\ log'[s] = [log[s] EXCEPT !.is_epoch_end = log'[s].is_epoch_end]
<1> DEFINE Grows == "retention" \notin faults => DOMAIN log \subseteq DOMAIN log'
           Stay(s) == /\ log[s].is_epoch_end => log'[s].is_epoch_end
                      /\ log'[s] = [log[s] EXCEPT !.is_epoch_end = log'[s].is_epoch_end]
<1>1. \A s \in DOMAIN log : log[s] \in Entry
  BY DEF TypeOK
<1>2. ASSUME NEW s \in DOMAIN log, log'[s] = log[s] PROVE Stay(s)
  BY <1>1, <1>2 DEF Entry
<1>3. CASE UNCHANGED log
  BY <1>2, <1>3
<1>4. ASSUME NEW s, NEW entry, s \notin DOMAIN log, log' = Put(log, s, entry)
      PROVE  Grows /\ \A t \in DOMAIN log \cap DOMAIN log' : Stay(t)
  <2>1. DOMAIN log \subseteq DOMAIN log' /\ \A t \in DOMAIN log : log'[t] = log[t]
    BY <1>4 DEF Put
  <2> QED BY <2>1, <1>2
<1>5. ASSUME NEW s \in DOMAIN log, log' = [log EXCEPT ![s].is_epoch_end = TRUE]
      PROVE  Grows /\ \A t \in DOMAIN log \cap DOMAIN log' : Stay(t)
  <2>1. DOMAIN log' = DOMAIN log
    BY <1>5
  <2>2. \A t \in DOMAIN log : t # s => log'[t] = log[t]
    BY <1>5
  <2>3. log'[s] = [log[s] EXCEPT !.is_epoch_end = TRUE] /\ log[s] \in Entry
    BY <1>1, <1>5
  <2>4. Stay(s)
    BY <2>3 DEF Entry
  <2> QED BY <2>1, <2>2, <2>4, <1>2
<1>6. CASE ExpireOldest
  BY <1>2, <1>6 DEF ExpireOldest
<1>7. \/ UNCHANGED log \/ ExpireOldest
      \/ \E s, entry : s \notin DOMAIN log /\ log' = Put(log, s, entry)
      \/ \E s \in DOMAIN log : log' = [log EXCEPT ![s].is_epoch_end = TRUE]
  <2>1. ASSUME NEW w \in Workers, UpsertGenesis(w)
        PROVE  UNCHANGED log \/ \E s, entry : s \notin DOMAIN log /\ log' = Put(log, s, entry)
    BY <2>1 DEF UpsertGenesis, HasGenesis
  <2>2. ASSUME NEW e \in Events, Insert(e) \/ InsertAmbiguous(e)
        PROVE  \E s, entry : s \notin DOMAIN log /\ log' = Put(log, s, entry)
    BY <2>2 DEF Insert, InsertAmbiguous
  <2>3. ASSUME NEW e \in Events, CloseEpoch(e)
        PROVE  UNCHANGED log \/ \E s \in DOMAIN log : log' = [log EXCEPT ![s].is_epoch_end = TRUE]
    BY <2>3 DEF CloseEpoch, InEpoch
  <2>4. \/ UNCHANGED log \/ ExpireOldest
        \/ \E w \in Workers : UpsertGenesis(w)
        \/ \E e \in Events : Insert(e) \/ InsertAmbiguous(e) \/ CloseEpoch(e)
    BY DEF Next, vars, Boot, Start, FindLargest, SyncCounter, NoGenesis,
           ResetToZero, ResetToOne, BootRaises, Crash, Audit, Check, Acquire, GiveUp,
           Allocate, Link, InsertFails, Rollback, Unlock, WritePlain, QueuePlain,
           RetryFails, SectionRaises, UnlockRaises, Cancel, ExpireLock
  <2> QED BY <2>1, <2>2, <2>3, <2>4
<1> QED BY <1>3, <1>4, <1>5, <1>6, <1>7

\* A stored entry keeps its content, and an ended epoch stays ended, whatever
\* goes wrong, until the TTL index deletes the entry.
THEOREM StoredEntriesStayHolds == Spec => StoredEntriesStay
<1>1. TypeOK /\ TypeOK' /\ [Next]_vars =>
        [ \A s \in DOMAIN log \cap DOMAIN log' :
            /\ log[s].is_epoch_end => log'[s].is_epoch_end
            /\ log'[s] = [log[s] EXCEPT !.is_epoch_end = log'[s].is_epoch_end] ]_vars
  BY LogStep
<1> QED BY <1>1, TypeCorrect, PTL DEF Spec, StoredEntriesStay

\* The log is finite.
LogBounded == \E b \in Nat : \A s \in DOMAIN log : s =< b

LEMMA LogIsBounded == Spec => [](TypeOK /\ LogBounded)
<1>1. Init => TypeOK /\ LogBounded
  BY TypeInit DEF Init, LogBounded
<1>2. ASSUME TypeOK, TypeOK', LogBounded, [Next]_vars PROVE LogBounded'
  <2> PICK b \in Nat : \A s \in DOMAIN log : s =< b
    BY <1>2 DEF LogBounded
  <2>1. CASE DOMAIN log' \subseteq DOMAIN log
    BY <2>1 DEF LogBounded
  <2>2. ASSUME NEW n \in Nat, DOMAIN log' = DOMAIN log \cup {n} PROVE LogBounded'
    <3>1. \A s \in DOMAIN log' : s =< b + n
      BY <2>2, <1>2 DEF TypeOK
    <3> QED BY <3>1 DEF LogBounded
  <2>3. ASSUME NEW e \in Events, Insert(e) \/ InsertAmbiguous(e) PROVE LogBounded'
    <3>1. seq[e] \in Nat /\ DOMAIN log' = DOMAIN log \cup {seq[e]}
      BY <1>2, <2>3 DEF TypeOK, Insert, InsertAmbiguous, Put
    <3> QED BY <2>2, <3>1
  <2>4. ASSUME NEW w \in Workers, UpsertGenesis(w) PROVE LogBounded'
    <3>1. DOMAIN log' = DOMAIN log \cup {0}
      BY <2>4 DEF UpsertGenesis, Put, HasGenesis
    <3> QED BY <2>2, <3>1
  <2>5. ASSUME NEW e \in Events, CloseEpoch(e) PROVE DOMAIN log' = DOMAIN log
    BY <2>5 DEF CloseEpoch, InEpoch
  <2>6. CASE ExpireOldest
    BY <2>1, <2>6 DEF ExpireOldest
  <2>7. \/ UNCHANGED log \/ ExpireOldest
        \/ \E w \in Workers : UpsertGenesis(w)
        \/ \E e \in Events : Insert(e) \/ InsertAmbiguous(e) \/ CloseEpoch(e)
    BY <1>2 DEF Next, vars, Boot, Start, FindLargest, SyncCounter, NoGenesis,
         ResetToZero, ResetToOne, BootRaises, Crash, Audit, Check, Acquire, GiveUp,
         Allocate, Link, InsertFails, Rollback, Unlock, WritePlain, QueuePlain,
         RetryFails, SectionRaises, UnlockRaises, Cancel, ExpireLock
  <2> QED BY <2>1, <2>3, <2>4, <2>5, <2>6, <2>7
<1> QED BY <1>1, <1>2, TypeCorrect, PTL DEF Spec

-----------------------------------------------------------------------------
(* The readers, of a chain from which nothing expires *)

NothingExpires == \A f \in ReadIn : "retention" \notin f

\* What holds of the log while it is read.
WritersInv ==
  /\ TypeOK /\ LogBounded
  /\ Benign => ChainInv /\ EpochInv
  /\ "retention" \notin faults => EntriesInv

\* The sequences from .. upto are stored, each linked to the one before.
Checked(from, upto) ==
  \A s \in from .. upto :
    /\ s \in DOMAIN log
    /\ s > from => log[s].previous_hash = log[s - 1].hash

\* _verify_full_chain() has checked the sequences up to p, and holds the hash
\* of the last of them.
Walked(p) ==
  /\ p < reader.at /\ p =< reader.upto
  /\ reader.at > 0 => p >= 0
  /\ reader.at > reader.upto => p = reader.upto
  /\ Benign /\ reader.at =< reader.upto => p = reader.at - 1
  /\ Checked(0, p)
  /\ reader.prev = IF p = -1 THEN NoHash ELSE log[p].hash

\* The entries an export has read are those the epoch had up to one of them.
Taken(m) ==
  /\ reader.epoch * EpochSize =< m /\ m < (reader.epoch + 1) * EpochSize
  /\ DOMAIN reader.taken = reader.epoch * EpochSize .. m
  /\ \A s \in DOMAIN reader.taken :
       /\ s \in DOMAIN log
       /\ reader.taken[s].hash = log[s].hash
       /\ reader.taken[s].previous_hash = log[s].previous_hash

ReaderInv ==
  /\ ReaderTypeOK
  /\ reader.step # "idle" => "retention" \notin faults
  /\ reader.step \in {"genesis", "batches"} => HasGenesis
  /\ reader.step = "batches" =>
       /\ reader = [step |-> "batches", upto |-> reader.upto, at |-> reader.at,
                    prev |-> reader.prev]
       /\ reader.upto \in DOMAIN log
       /\ \E p \in Int : p >= -1 /\ Walked(p)
  /\ reader.step = "verified" =>
       /\ reader.from \in Nat /\ reader.upto \in Int
       /\ reader.status = "valid" => Checked(reader.from, reader.upto)
       /\ Benign => reader.status = "valid"
  /\ reader.step \in {"entries", "exported"} =>
       reader.epoch \in Nat /\ (Benign => \E m \in Nat : Taken(m))

LEMMA HashesDiffer ==
  ASSUME TypeOK, EntriesInv, NEW s \in DOMAIN log, NEW t \in DOMAIN log,
         log[s].hash = log[t].hash
  PROVE  s = t
<1>1. log[s].hash \in (Events \cup Workers \cup {NoHash}) \ {NoHash}
  BY DEF TypeOK, Entry, Hashes, EntriesInv
<1>2. CASE log[s].hash \in Workers
  BY <1>2 DEF EntriesInv
<1>3. CASE log[s].hash \in Events
  BY <1>3 DEF EntriesInv
<1> QED BY <1>1, <1>2, <1>3

\* What a reader has found stays right while the log grows.
LEMMA WriterStep ==
  ASSUME TypeOK, TypeOK', ReaderInv, [Next]_vars, UNCHANGED reader
  PROVE  ReaderInv'
<1>1. ReaderTypeOK'
  BY DEF ReaderInv, ReaderTypeOK
<1>2. CASE reader.step = "idle" \/ "retention" \in faults
  BY <1>1, <1>2 DEF ReaderInv
<1>3. CASE reader.step # "idle" /\ "retention" \notin faults
  <2>1. faults' = faults /\ (Benign' <=> Benign)
    BY FaultsStay DEF Benign
  <2>2. /\ DOMAIN log \subseteq DOMAIN log'
        /\ \A s \in DOMAIN log : log'[s] = [log[s] EXCEPT !.is_epoch_end = log'[s].is_epoch_end]
    BY <1>3, LogStep
  <2>3. \A s \in DOMAIN log : /\ log'[s].hash = log[s].hash
                              /\ log'[s].previous_hash = log[s].previous_hash
    BY <2>2 DEF TypeOK, Entry
  <2>4. ASSUME NEW from \in Int, NEW upto \in Int, Checked(from, upto) PROVE Checked(from, upto)'
    <3> SUFFICES ASSUME NEW s \in from .. upto
                 PROVE  s \in DOMAIN log' /\ (s > from => log'[s].previous_hash = log'[s - 1].hash)
      BY DEF Checked
    <3>1. s \in DOMAIN log /\ (s > from => log[s].previous_hash = log[s - 1].hash)
      BY <2>4 DEF Checked
    <3>2. s > from => s - 1 \in DOMAIN log
      BY <2>4 DEF Checked
    <3> QED BY <2>2, <2>3, <3>1, <3>2
  <2>5. reader.step \in {"genesis", "batches"} => HasGenesis'
    BY <2>2 DEF ReaderInv, HasGenesis
  <2>6. ASSUME reader.step = "batches", NEW p \in Int, p >= -1, Walked(p) PROVE Walked(p)'
    <3>1. Checked(0, p)'
      BY <2>4, <2>6 DEF Walked
    <3>2. p # -1 => p \in DOMAIN log
      BY <2>6 DEF Walked, Checked
    <3> QED BY <2>1, <2>3, <2>6, <3>1, <3>2 DEF Walked
  <2>7. reader.step = "verified" => (reader.status = "valid" => Checked(reader.from, reader.upto)')
    BY <2>4 DEF ReaderInv
  <2>8. ASSUME NEW m \in Nat, Taken(m) PROVE Taken(m)'
    BY <2>2, <2>3, <2>8 DEF Taken
  <2>9. reader.step = "verified" =>
          (reader.status = "valid" => Checked(reader.from, reader.upto))'
    BY <2>7 DEF Checked
  <2> QED BY <1>1, <1>3, <2>1, <2>2, <2>5, <2>6, <2>8, <2>9 DEF ReaderInv
<1> QED BY <1>2, <1>3

LEMMA StatusType ==
  ASSUME NEW entries, NEW start, NEW hash, NEW trusted
  PROVE  BatchStatus(entries, start, hash, trusted) \in {"valid", "broken", "gap_detected"}
  BY DEF BatchStatus

\* The stored entries of an epoch, and in a benign environment that they are
\* consecutive and linked.
LEMMA EpochEntries ==
  ASSUME WritersInv, NEW k \in Nat, InEpoch(k) # {}
  PROVE  \E lo \in Nat, hi \in Nat :
           /\ lo =< hi /\ lo \in InEpoch(k) /\ hi \in InEpoch(k)
           /\ InEpoch(k) \subseteq lo .. hi
           /\ Min(InEpoch(k)) = lo /\ Max(InEpoch(k)) = hi
           /\ Benign =>
                /\ lo = k * EpochSize /\ hi < (k + 1) * EpochSize
                /\ InEpoch(k) = lo .. hi
                /\ \A s \in lo + 1 .. hi : log[s].previous_hash = log[s - 1].hash
<1> USE ConstantsAssumption
<1>1. InEpoch(k) \in SUBSET Nat
  BY DEF InEpoch, WritersInv, TypeOK
<1>2. PICK b \in Nat : \A s \in InEpoch(k) : s =< b
  BY DEF WritersInv, LogBounded, InEpoch
<1>3. PICK lo \in InEpoch(k) : \A s \in InEpoch(k) : lo =< s
  BY <1>1, SmallestExists
<1>4. PICK hi \in InEpoch(k) : \A s \in InEpoch(k) : s =< hi
  BY <1>1, <1>2, LargestExists
<1>5. lo \in Nat /\ hi \in Nat /\ lo =< hi /\ InEpoch(k) \subseteq lo .. hi
  BY <1>1, <1>3, <1>4
<1>6. Min(InEpoch(k)) = lo /\ Max(InEpoch(k)) = hi
  BY <1>1, <1>3, <1>4, MinIs, MaxIs
<1>7. ASSUME Benign
      PROVE  /\ lo = k * EpochSize /\ hi < (k + 1) * EpochSize
             /\ InEpoch(k) = lo .. hi
             /\ \A s \in lo + 1 .. hi : log[s].previous_hash = log[s - 1].hash
  <2>1. ChainInv /\ EpochInv
    BY <1>7 DEF WritersInv
  <2>2. PICK n \in Nat : DOMAIN log = 0 .. n - 1
    BY <2>1 DEF ChainInv, ChainOf
  <2>3. \A s \in 0 .. n - 1 : s \in InEpoch(k) <=> s \div EpochSize = k
    BY <2>1, <2>2 DEF EpochInv, EntryOf, InEpoch
  <2>4. EpochSize \in Int /\ EpochSize > 0 /\ k \in Int
    OBVIOUS
  <2>5. lo \in 0 .. n - 1 /\ hi \in 0 .. n - 1
    BY <2>2 DEF InEpoch
  <2>6. ASSUME NEW s \in Int, s \div EpochSize = k
        PROVE  k * EpochSize =< s /\ s < k * EpochSize + EpochSize
    BY <2>4, <2>6
  <2>7. (k * EpochSize) \div EpochSize = k
    BY <2>4
  <2>8. k * EpochSize \in Nat /\ (k + 1) * EpochSize = k * EpochSize + EpochSize
    BY <2>4
  <2>9. /\ k * EpochSize =< lo
        /\ k * EpochSize =< hi /\ hi < k * EpochSize + EpochSize
    BY <1>5, <2>3, <2>5, <2>6
  <2>10. lo = k * EpochSize
    <3>1. k * EpochSize \in 0 .. n - 1
      BY <2>5, <2>8, <2>9
    <3>2. k * EpochSize \in InEpoch(k)
      BY <2>3, <2>7, <3>1
    <3> QED BY <1>3, <1>5, <2>8, <2>9, <3>2
  <2>11. ASSUME NEW t \in lo .. hi PROVE t \in InEpoch(k)
    <3>1. t \in Int /\ lo =< t /\ t =< hi /\ t \in 0 .. n - 1
      BY <1>5, <2>5
    <3>2. lo \div EpochSize =< t \div EpochSize /\ t \div EpochSize =< hi \div EpochSize
      BY <2>4, <3>1, <1>5
    <3>3. lo \div EpochSize = k /\ hi \div EpochSize = k
      BY <2>3, <2>5
    <3>4. t \div EpochSize \in Int
      BY <2>4, <3>1
    <3>5. t \div EpochSize = k
      BY <2>4, <3>2, <3>3, <3>4
    <3> QED BY <2>3, <3>1, <3>5
  <2>12. \A s \in lo + 1 .. hi : log[s].previous_hash = log[s - 1].hash
    <3> SUFFICES ASSUME NEW s \in lo + 1 .. hi PROVE log[s].previous_hash = log[s - 1].hash
      OBVIOUS
    <3>1. s \in DOMAIN log /\ s - 1 \in DOMAIN log /\ s # 0
      BY <1>5, <2>2, <2>5
    <3> QED BY <1>7, <2>1, <3>1 DEF ChainInv, Linked
  <2> QED BY <1>5, <2>8, <2>9, <2>10, <2>11, <2>12
<1> QED BY <1>3, <1>4, <1>5, <1>6, <1>7

\* The next batch, in which the entries checked so far end right before it or
\* it ends in a gap or a link that fails.
LEMMA VerifyBatchStep ==
  ASSUME WritersInv, ReaderInv, VerifyBatch PROVE ReaderInv'
<1> USE ConstantsAssumption
<1>1. PICK entries, status :
        /\ entries = [s \in Window |-> log[s]]
        /\ status = BatchStatus(entries, reader.at, reader.prev, FALSE)
        /\ reader' = IF status # "valid"
                     THEN [step |-> "verified", from |-> 0, upto |-> reader.upto, status |-> status]
                     ELSE [reader EXCEPT !.at = @ + EpochSize,
                                         !.prev = IF Window = {} THEN @ ELSE log[Max(Window)].hash]
  BY DEF VerifyBatch
<1>2. reader.step = "batches" /\ UNCHANGED vars
  BY DEF VerifyBatch
<1> PICK at, upto, carried :
      /\ reader = [step |-> "batches", upto |-> upto, at |-> at, prev |-> carried]
      /\ at = reader.at /\ upto = reader.upto /\ carried = reader.prev
  BY <1>2 DEF ReaderInv
<1>3. /\ at \in Nat /\ upto \in Nat /\ upto \in DOMAIN log /\ carried \in Hashes /\ at =< upto
      /\ HasGenesis /\ "retention" \notin faults
  BY <1>2 DEF ReaderInv, ReaderTypeOK, VerifyBatch
<1>4. TypeOK /\ EntriesInv /\ DOMAIN log \subseteq Nat
  BY <1>3 DEF WritersInv, TypeOK
<1>u. UNCHANGED <<log, faults>>
  BY <1>2 DEF vars
<1> PICK p \in Int :
      /\ p >= -1 /\ p < at /\ p =< upto
      /\ at > 0 => p >= 0
      /\ Benign => p = at - 1
      /\ Checked(0, p)
      /\ carried = IF p = -1 THEN NoHash ELSE log[p].hash
  BY <1>2, <1>3 DEF ReaderInv, Walked
<1> PICK top \in Nat :
      /\ top = IF at + EpochSize - 1 =< upto THEN at + EpochSize - 1 ELSE upto
      /\ top =< upto /\ top < at + EpochSize /\ at =< top
  BY <1>3
<1>5. Window = at .. top \cap DOMAIN log
  <2>1. {at + EpochSize - 1, upto} \in SUBSET Int /\ top \in {at + EpochSize - 1, upto}
    BY <1>3
  <2>2. \A s \in {at + EpochSize - 1, upto} : top =< s
    BY <1>3
  <2>3. Min({at + EpochSize - 1, upto}) = top
    BY <2>1, <2>2, MinIs
  <2> QED BY <2>3 DEF Window
<1>6. /\ DOMAIN entries = Window /\ Window \subseteq at .. top /\ Window \subseteq DOMAIN log
      /\ Window \in SUBSET Nat /\ \A s \in Window : entries[s] = log[s]
  BY <1>1, <1>4, <1>5
\* A window of a benign chain is whole and linked.
<1>7. ASSUME Benign
      PROVE  status = "valid" /\ Window = at .. top
  <2>1. ChainInv
    BY <1>7 DEF WritersInv
  <2>2. PICK n \in Nat : DOMAIN log = 0 .. n - 1
    BY <2>1 DEF ChainInv, ChainOf
  <2>3. Window = at .. top
    BY <1>3, <1>5, <2>2
  <2>4. ASSUME NEW s \in at .. top PROVE log[s].previous_hash = IF s = 0 THEN NoHash ELSE log[s - 1].hash
    <3>1. s \in DOMAIN log /\ (s # 0 => s - 1 \in DOMAIN log)
      BY <1>3, <2>2
    <3> QED BY <1>7, <2>1, <3>1 DEF ChainInv, Linked
  <2>5. \A s \in at + 1 .. top : entries[s].previous_hash = entries[s - 1].hash
    BY <1>3, <1>6, <2>3, <2>4, SMTT(20)
  <2>6. entries[at].previous_hash = carried
    <3>1. p = at - 1 /\ (p = -1 <=> at = 0) /\ at \in Window
      BY <1>3, <1>7, <2>3
    <3> QED BY <1>3, <1>6, <2>3, <2>4, <3>1
  <2>7. BatchStatus(entries, at, carried, FALSE) = "valid"
    BY <1>3, <1>6, <2>3, <2>5, <2>6, WholeBatch
  <2> QED BY <1>1, <2>3, <2>7
<1>8. CASE status # "valid"
  <2>1. reader' = [step |-> "verified", from |-> 0, upto |-> upto, status |-> status]
    BY <1>1, <1>8
  <2>2. status \in {"valid", "broken", "gap_detected"} /\ ~Benign
    BY <1>1, <1>7, <1>8, StatusType
  <2>3. ~Benign'
    BY <1>u, <2>2 DEF Benign
  <2> QED BY <1>3, <1>8, <1>u, <2>1, <2>2, <2>3 DEF ReaderInv, ReaderTypeOK, Steps
<1>9. CASE status = "valid"
  <2>1. reader' = [step |-> "batches", upto |-> upto, at |-> at + EpochSize,
                   prev |-> IF Window = {} THEN carried ELSE log[Max(Window)].hash]
    BY <1>1, <1>9
  <2>2. upto =< top => upto \in Window
    BY <1>3, <1>5
  <2>3. HasGenesis' /\ (Benign' <=> Benign)
    BY <1>3, <1>u DEF HasGenesis, Benign
  <2>k. ASSUME NEW q \in Int, q >= 0, Checked(0, q), q < at + EpochSize, q =< upto,
               at + EpochSize > upto => q = upto,
               Benign /\ at + EpochSize =< upto => q = at + EpochSize - 1,
               reader'.prev = log[q].hash
        PROVE  ReaderInv'
    <3>0. /\ reader'.at = at + EpochSize /\ reader'.upto = upto /\ Checked(0, q)'
          /\ q # -1 /\ reader'.prev = log'[q].hash
      BY <1>u, <2>1, <2>k DEF Checked
    <3>1. Walked(q)'
      BY <1>3, <2>3, <2>k, <3>0 DEF Walked
    <3>2. q \in DOMAIN log
      BY <2>k DEF Checked
    <3>3. reader'.prev \in Hashes
      BY <1>4, <2>k, <3>2 DEF TypeOK, Entry
    <3> QED BY <1>3, <1>u, <2>1, <2>3, <2>k, <3>1, <3>3 DEF ReaderInv, ReaderTypeOK, Steps
  <2>4. CASE Window = {}
    <3>1. at # 0
      BY <1>3, <1>5, <2>4 DEF HasGenesis
    <3>2. ~Benign
      BY <1>3, <1>7, <2>4
    <3>3. at + EpochSize =< upto
      BY <1>3, <2>2, <2>4
    <3>4. p >= 0 /\ p < at + EpochSize /\ reader'.prev = log[p].hash
      BY <1>3, <2>1, <2>4, <3>1
    <3> QED BY <1>3, <2>k, <3>2, <3>3, <3>4
  <2>5. CASE Window # {}
    <3>1. PICK q \in Window : \A s \in Window : s =< q
      <4>1. \A s \in Window : s =< top
        BY <1>3, <1>6
      <4> QED BY <1>6, <2>5, <4>1, LargestExists
    <3>2. Max(Window) = q /\ q \in Nat /\ at =< q /\ q =< top
      BY <1>6, <3>1, MaxIs
    <3>3. ASSUME NEW s \in Window
          PROVE  /\ at .. s \subseteq Window
                 /\ s > at => entries[s].previous_hash = entries[s - 1].hash
      <4>1. s \in DOMAIN entries /\ \A t \in DOMAIN entries : t \in Nat /\ at =< t
        BY <1>3, <1>6
      <4>2. BatchStatus(entries, at, carried, FALSE) = "valid"
        BY <1>1, <1>9
      <4>3. at \in Nat /\ top \in Nat /\ FALSE \in BOOLEAN
        BY <1>3
      <4>4. /\ at .. s \subseteq DOMAIN entries
            /\ s > at => entries[s].previous_hash = entries[s - 1].hash
        BY <4>1, <4>2, <4>3, ValidBatch
      <4> QED BY <1>6, <4>4
    <3>4. at .. q \subseteq Window
      BY <3>1, <3>3
    <3>5. ASSUME NEW s \in at + 1 .. q PROVE log[s].previous_hash = log[s - 1].hash
      <4>1. s \in Window /\ s - 1 \in Window /\ s > at
        BY <1>3, <3>2, <3>4
      <4> QED BY <1>6, <3>3, <4>1
    <3>6. at \in DOMAIN log /\ log[at].previous_hash = carried
      <4>1. at \in DOMAIN entries /\ \A t \in DOMAIN entries : t \in Nat /\ at =< t
        <5>1. at \in at .. q
          BY <1>3, <3>2
        <5>2. \A t \in Window : t \in Nat /\ at =< t
          BY <1>3, <1>6
        <5> QED BY <1>6, <3>4, <5>1, <5>2
      <4>2. BatchStatus(entries, at, carried, FALSE) = "valid"
        BY <1>1, <1>9
      <4>3. entries[at].previous_hash = carried
        BY <4>1, <4>2, ValidFirst
      <4> QED BY <1>6, <4>1, <4>3
    <3>7. p = at - 1
      <4>1. CASE at = 0
        BY <4>1
      <4>2. CASE at > 0
        <5>1. p \in DOMAIN log /\ carried = log[p].hash /\ carried # NoHash
          BY <1>4, <4>2 DEF Checked, EntriesInv
        <5>2. at - 1 \in DOMAIN log /\ carried = log[at - 1].hash
          BY <1>4, <3>6, <5>1 DEF EntriesInv, NamesPrevious
        <5> QED BY <1>4, <5>1, <5>2, HashesDiffer
      <4> QED BY <1>3, <4>1, <4>2
    <3>8. Checked(0, q)
      <4> SUFFICES ASSUME NEW s \in 0 .. q
                   PROVE  s \in DOMAIN log /\ (s > 0 => log[s].previous_hash = log[s - 1].hash)
        BY DEF Checked
      <4>1. CASE s < at
        BY <1>3, <3>7, <4>1 DEF Checked
      <4>2. CASE s = at
        <5>1. at > 0 => carried = log[at - 1].hash
          BY <3>7
        <5> QED BY <3>6, <4>2, <5>1
      <4>3. CASE s > at
        BY <1>3, <1>6, <3>2, <3>4, <3>5, <4>3
      <4> QED BY <1>3, <4>1, <4>2, <4>3
    <3>9. at + EpochSize > upto => q = upto
      <4>1. at + EpochSize > upto => top = upto
        BY <1>3
      <4> QED BY <1>3, <2>2, <3>1, <3>2, <4>1
    <3>10. Benign /\ at + EpochSize =< upto => q = at + EpochSize - 1
      <4>1. at + EpochSize =< upto => top = at + EpochSize - 1
        BY <1>3
      <4>2. Benign => top \in Window
        BY <1>7
      <4> QED BY <1>3, <3>1, <3>2, <4>1, <4>2
    <3>11. reader'.prev = log[q].hash
      BY <2>1, <2>5, <3>2
    <3> QED BY <1>3, <2>k, <3>2, <3>8, <3>9, <3>10, <3>11
  <2> QED BY <2>4, <2>5
<1> QED BY <1>8, <1>9

LEMMA VerifySingleEpochStep ==
  ASSUME WritersInv, ReaderInv, NEW k \in Nat, VerifySingleEpoch(k) PROVE ReaderInv'
<1>1. PICK entries :
        /\ entries = [s \in InEpoch(k) |-> log[s]]
        /\ IF DOMAIN entries = {}
           THEN reader' = [step |-> "refused"]
           ELSE reader' = [step |-> "verified", from |-> Min(DOMAIN entries), upto |-> Max(DOMAIN entries),
                           status |-> BatchStatus(entries, Min(DOMAIN entries), NoHash, TRUE)]
  BY DEF VerifySingleEpoch
<1>2. DOMAIN entries = InEpoch(k) /\ InEpoch(k) \subseteq DOMAIN log /\ \A s \in InEpoch(k) : entries[s] = log[s]
  BY <1>1 DEF InEpoch
<1>3. UNCHANGED <<log, faults>> /\ "retention" \notin faults
  BY DEF VerifySingleEpoch, vars, ReaderInv
<1>4. CASE InEpoch(k) = {}
  BY <1>1, <1>2, <1>3, <1>4 DEF ReaderInv, ReaderTypeOK, Steps
<1>5. CASE InEpoch(k) # {}
  <2> PICK lo \in Nat, hi \in Nat :
        /\ lo =< hi /\ lo \in InEpoch(k) /\ hi \in InEpoch(k)
        /\ InEpoch(k) \subseteq lo .. hi
        /\ Min(InEpoch(k)) = lo /\ Max(InEpoch(k)) = hi
        /\ Benign =>
             /\ InEpoch(k) = lo .. hi
             /\ \A s \in lo + 1 .. hi : log[s].previous_hash = log[s - 1].hash
    BY <1>5, EpochEntries
  <2> PICK status : status = BatchStatus(entries, lo, NoHash, TRUE)
    OBVIOUS
  <2>1. reader' = [step |-> "verified", from |-> lo, upto |-> hi, status |-> status]
    BY <1>1, <1>2, <1>5
  <2>2. ASSUME status = "valid" PROVE Checked(lo, hi)
    <3>1. ASSUME NEW s \in InEpoch(k)
          PROVE  lo .. s \subseteq InEpoch(k) /\ (s > lo => entries[s].previous_hash = entries[s - 1].hash)
      <4>1. s \in DOMAIN entries /\ \A t \in DOMAIN entries : t \in Nat /\ lo =< t
        BY <1>2
      <4>2. BatchStatus(entries, lo, NoHash, TRUE) = "valid" /\ TRUE \in BOOLEAN
        BY <2>2
      <4>3. /\ lo .. s \subseteq DOMAIN entries
            /\ s > lo => entries[s].previous_hash = entries[s - 1].hash
        BY <4>1, <4>2, ValidBatch
      <4> QED BY <1>2, <4>3
    <3>2. lo .. hi \subseteq InEpoch(k)
      BY <3>1
    <3> SUFFICES ASSUME NEW s \in lo .. hi
                 PROVE  s \in DOMAIN log /\ (s > lo => log[s].previous_hash = log[s - 1].hash)
      BY DEF Checked
    <3>3. s \in InEpoch(k) /\ (s > lo => s - 1 \in InEpoch(k))
      BY <3>2
    <3> QED BY <1>2, <3>1, <3>3
  <2>3. ASSUME Benign PROVE status = "valid"
    <3>1. DOMAIN entries = lo .. hi
      BY <1>2, <2>3
    <3>2. \A s \in lo + 1 .. hi : entries[s].previous_hash = entries[s - 1].hash
      BY <1>2, <2>3
    <3> QED BY <3>1, <3>2, WholeBatch
  <2>4. status \in {"valid", "broken", "gap_detected"}
    BY StatusType
  <2>5. (status = "valid" => Checked(lo, hi)') /\ (Benign' => status = "valid")
    BY <1>3, <2>2, <2>3 DEF Checked, Benign
  <2>6. reader'.status = "valid" => Checked(reader.from, reader.upto)'
    BY <2>1, <2>5 DEF Checked
  <2>7. ReaderTypeOK'
    BY <2>1, <2>4 DEF ReaderTypeOK, Steps
  <2>8. reader'.step = "verified" /\ reader'.from \in Nat /\ reader'.upto \in Int /\ reader'.status = status
    BY <2>1
  <2> QED BY <1>3, <2>5, <2>6, <2>7, <2>8 DEF ReaderInv
<1> QED BY <1>4, <1>5

LEMMA ReadEpochStep ==
  ASSUME NothingExpires, WritersInv, ReaderInv, NEW k \in Nat, ReadEpoch(k) PROVE ReaderInv'
<1>1. PICK taken :
        /\ taken = [s \in InEpoch(k) |-> log[s]]
        /\ reader' = IF DOMAIN taken = {} THEN [step |-> "refused"]
                     ELSE IF taken[Max(DOMAIN taken)].is_epoch_end THEN File(k, taken)
                     ELSE [step |-> "entries", epoch |-> k, taken |-> taken]
  BY DEF ReadEpoch
<1>2. DOMAIN taken = InEpoch(k) /\ InEpoch(k) \subseteq DOMAIN log /\ \A s \in InEpoch(k) : taken[s] = log[s]
  BY <1>1 DEF InEpoch
<1>3. UNCHANGED <<log, faults>> /\ "retention" \notin faults
  BY DEF ReadEpoch, vars, NothingExpires
<1>4. CASE InEpoch(k) = {}
  BY <1>1, <1>2, <1>3, <1>4 DEF ReaderInv, ReaderTypeOK, Steps
<1>5. CASE InEpoch(k) # {}
  <2>1. /\ reader'.step \in {"entries", "exported"}
        /\ reader'.epoch = k /\ reader'.taken = taken
    BY <1>1, <1>2, <1>5 DEF File
  <2>2. ASSUME Benign PROVE \E m \in Nat : Taken(m)'
    <3>1. PICK hi \in Nat :
            /\ k * EpochSize =< hi /\ hi < (k + 1) * EpochSize
            /\ InEpoch(k) = k * EpochSize .. hi
      BY <1>5, <2>2, EpochEntries
    <3>2. Taken(hi)'
      BY <1>2, <1>3, <2>1, <3>1 DEF Taken
    <3> QED BY <3>2
  <2>3. DOMAIN taken \subseteq Nat /\ \A s \in DOMAIN taken : taken[s] \in Entry
    BY <1>2 DEF WritersInv, TypeOK
  <2>4. Benign' => Benign
    BY <1>3 DEF Benign
  <2> QED BY <1>3, <2>1, <2>2, <2>3, <2>4 DEF ReaderInv, ReaderTypeOK, Steps
<1> QED BY <1>4, <1>5

LEMMA ReadStep ==
  ASSUME NothingExpires, WritersInv, ReaderInv, Read PROVE ReaderInv'
<1>u. UNCHANGED <<log, faults>>
  BY DEF Read, BeginVerify, ReadLatest, VerifyBatch, EndVerify, CheckLatest,
         VerifySingleEpoch, ReadEpoch, vars
<1>b. (Benign' <=> Benign) /\ \A from, upto : Checked(from, upto)' <=> Checked(from, upto)
  BY <1>u DEF Benign, Checked
<1>1. CASE BeginVerify
  BY <1>1, <1>u DEF BeginVerify, NothingExpires, ReaderInv, ReaderTypeOK, Steps, HasGenesis
<1>2. CASE ReadLatest
  <2>1. /\ DOMAIN log # {} /\ DOMAIN log \in SUBSET Nat /\ "retention" \notin faults
        /\ HasGenesis
    BY <1>2 DEF ReadLatest, ReaderInv, HasGenesis, WritersInv, TypeOK
  <2>2. PICK b \in Nat : \A s \in DOMAIN log : s =< b
    BY DEF WritersInv, LogBounded
  <2>3. PICK last \in DOMAIN log : \A s \in DOMAIN log : s =< last
    BY <2>1, <2>2, LargestExists
  <2>4. Max(DOMAIN log) = last /\ last \in Nat
    BY <2>1, <2>3, MaxIs
  <2>5. reader' = [step |-> "batches", upto |-> last, at |-> 0, prev |-> NoHash]
    BY <1>2, <2>1, <2>4 DEF ReadLatest
  <2>6. Walked(-1)'
    BY <2>4, <2>5 DEF Walked, Checked
  <2> QED BY <1>u, <2>1, <2>3, <2>4, <2>5, <2>6 DEF ReaderInv, ReaderTypeOK, Steps, Hashes, HasGenesis
<1>3. CASE VerifyBatch
  BY <1>3, VerifyBatchStep
<1>4. CASE EndVerify
  <2>1. /\ reader.step = "batches" /\ reader.at > reader.upto
        /\ reader' = [step |-> "verified", from |-> 0, upto |-> reader.upto, status |-> "valid"]
    BY <1>4 DEF EndVerify
  <2>2. Checked(0, reader.upto) /\ reader.upto \in Nat
    BY <2>1 DEF ReaderInv, ReaderTypeOK, Walked
  <2>3. Checked(0, reader.upto)'
    BY <1>u, <2>1, <2>2 DEF Checked
  <2> QED BY <1>u, <1>b, <2>1, <2>2 DEF ReaderInv, ReaderTypeOK, Steps
<1>5. CASE CheckLatest
  <2>1. /\ reader.step = "entries"
        /\ \/ reader' = [step |-> "refused"]
           \/ reader' = File(reader.epoch, reader.taken)
    BY <1>5 DEF CheckLatest
  <2>2. CASE reader' = [step |-> "refused"]
    BY <1>u, <2>1, <2>2 DEF ReaderInv, ReaderTypeOK, Steps
  <2>3. CASE reader' = File(reader.epoch, reader.taken)
    <3>1. reader'.step = "exported" /\ reader'.epoch = reader.epoch /\ reader'.taken = reader.taken
      BY <2>3 DEF File
    <3>2. ASSUME NEW m \in Nat, Taken(m) PROVE Taken(m)'
      BY <1>u, <3>1, <3>2 DEF Taken
    <3> QED BY <1>u, <1>b, <2>1, <3>1, <3>2 DEF ReaderInv, ReaderTypeOK, Steps
  <2> QED BY <2>1, <2>2, <2>3
<1>6. ASSUME NEW k \in 0 .. counter \div EpochSize, VerifySingleEpoch(k) \/ ReadEpoch(k)
      PROVE  ReaderInv'
  <2>1. k \in Nat
    OBVIOUS
  <2> QED BY <1>6, <2>1, VerifySingleEpochStep, ReadEpochStep
<1> QED BY <1>1, <1>2, <1>3, <1>4, <1>5, <1>6 DEF Read

LEMMA MultipleMod ==
  ASSUME NEW size \in Int, size > 0, NEW j \in Int
  PROVE  (j * size) % size = 0
  OBVIOUS

LEMMA WritersCorrect == Spec => []WritersInv
<1>1. TypeOK /\ LogBounded /\ IInv /\ (Benign => EpochInv) /\ ("retention" \notin faults => EntriesInv)
        => WritersInv
  BY DEF IInv, WritersInv
<1> QED BY <1>1, LogIsBounded, IInvCorrect, EpochsCorrect, EntriesCorrect, PTL

\* Readers do not disturb the writers.
LEMMA ReadersOnlyRead == ReaderSpec => Spec
<1>1. ReaderInit => Init
  BY DEF ReaderInit
<1>2. [ReaderNext]_allVars => [Next]_vars
  BY DEF ReaderNext, allVars, Read, BeginVerify, ReadLatest, VerifyBatch, EndVerify,
         CheckLatest, VerifySingleEpoch, ReadEpoch
<1> QED BY <1>1, <1>2, PTL DEF ReaderSpec, Spec

LEMMA ReaderInvCorrect == ASSUME NothingExpires PROVE ReaderSpec => []ReaderInv
<1>1. ReaderInit => ReaderInv
  BY DEF ReaderInit, ReaderInv, ReaderTypeOK, Steps
<1>2. ASSUME WritersInv, WritersInv', ReaderInv, [ReaderNext]_allVars PROVE ReaderInv'
  <2>1. TypeOK /\ TypeOK'
    BY <1>2 DEF WritersInv
  <2>2. CASE [Next]_vars /\ UNCHANGED reader
    BY <1>2, <2>1, <2>2, WriterStep
  <2>3. CASE Read
    BY <1>2, <2>3, ReadStep
  <2> QED BY <1>2, <2>2, <2>3 DEF ReaderNext, allVars
<1>3. ReaderSpec => []WritersInv
  BY WritersCorrect, ReadersOnlyRead, PTL
<1> QED BY <1>1, <1>2, <1>3, PTL DEF ReaderSpec

\* verify_chain() finds a chain valid only if every entry up to the one that
\* was the latest is stored and linked to the one before, though the chain
\* grows between its batches and whatever the writers suffer; and it finds the
\* chain of failing writes and crashes valid.
THEOREM VerdictIsRightHolds == ASSUME NothingExpires PROVE ReaderSpec => []VerdictIsRight
<1>1. ReaderInv => VerdictIsRight
  BY DEF ReaderInv, Checked, VerdictIsRight
<1> QED BY <1>1, ReaderInvCorrect, PTL

\* Verified with the first entry of the next epoch, an exported file passes
\* exactly if it holds the whole epoch.
THEOREM TruncationIsDetectedHolds ==
  ASSUME NothingExpires PROVE ReaderSpec => []TruncationIsDetected
<1> USE ConstantsAssumption
<1>1. ASSUME WritersInv, ReaderInv PROVE TruncationIsDetected
  <2> SUFFICES ASSUME reader.step = "exported", Benign,
                      NEW s \in DOMAIN log, s = (reader.epoch + 1) * EpochSize
               PROVE  (EntriesVerify(reader) /\ CrossEpochVerifies(log[s], reader.taken))
                        <=> DOMAIN reader.taken = reader.epoch * EpochSize .. s - 1
    BY DEF TruncationIsDetected
  <2> PICK k, taken : k = reader.epoch /\ taken = reader.taken
    OBVIOUS
  <2>1. /\ TypeOK /\ ChainInv /\ EpochInv /\ EntriesInv /\ k \in Nat
        /\ EpochSize \in Int /\ EpochSize > 0
    BY <1>1 DEF ReaderInv, WritersInv
  <2> PICK m \in Nat :
        /\ k * EpochSize =< m /\ m < (k + 1) * EpochSize
        /\ DOMAIN taken = k * EpochSize .. m
        /\ \A t \in DOMAIN taken :
             /\ t \in DOMAIN log
             /\ taken[t].hash = log[t].hash
             /\ taken[t].previous_hash = log[t].previous_hash
    BY <1>1 DEF ReaderInv, Taken
  <2> PICK lo \in Nat : lo = k * EpochSize /\ lo =< m
    BY <2>1
  <2>2. PICK n \in Nat : DOMAIN log = 0 .. n - 1
    BY <2>1 DEF ChainInv, ChainOf
  <2>3. Min(DOMAIN taken) = lo /\ Max(DOMAIN taken) = m
    <3>1. /\ DOMAIN taken \in SUBSET Int /\ lo \in DOMAIN taken /\ m \in DOMAIN taken
          /\ \A t \in DOMAIN taken : lo =< t /\ t =< m
      OBVIOUS
    <3> QED BY <3>1, MinIs, MaxIs
  <2>4. EntriesVerify(reader)
    <3>1. ASSUME NEW t \in lo + 1 .. m PROVE taken[t].previous_hash = taken[t - 1].hash
      <4>1. t \in DOMAIN taken /\ t - 1 \in DOMAIN taken /\ t # 0
        OBVIOUS
      <4>2. log[t].previous_hash = log[t - 1].hash
        BY <2>1, <4>1 DEF ChainInv, Linked
      <4> QED BY <4>1, <4>2
    <3>2. DOMAIN taken = lo .. m
      OBVIOUS
    <3>3. BatchStatus(taken, lo, NoHash, TRUE) = "valid"
      <4>1. lo \in Nat /\ m \in Nat /\ lo =< m /\ TRUE \in BOOLEAN
        OBVIOUS
      <4> QED BY ONLY <3>1, <3>2, <4>1, WholeBatch
    <3> QED BY <2>3, <3>3 DEF EntriesVerify
  <2>5. s \in Nat /\ StartsEpoch(s)
    <3>1. PICK j \in Int : s = j * EpochSize /\ j = k + 1
      BY <2>1
    <3>2. (j * EpochSize) % EpochSize = 0
      BY <2>1, MultipleMod
    <3>3. j * EpochSize \in Int /\ j * EpochSize > 0
      BY <2>1, <3>1
    <3> QED BY <3>1, <3>2, <3>3 DEF StartsEpoch
  <2>6. s - 1 \in DOMAIN log /\ log[s].previous_epoch_hash = log[s - 1].hash
    BY <2>1, <2>5 DEF EpochInv, EntryOf
  <2>7. log[s - 1].hash # NoHash
    BY <2>1, <2>6 DEF EntriesInv
  <2>8. m \in DOMAIN log /\ taken[m].hash = log[m].hash
    OBVIOUS
  <2>9. CrossEpochVerifies(log[s], taken) <=> log[s - 1].hash = log[m].hash
    BY <2>3, <2>6, <2>7, <2>8 DEF CrossEpochVerifies
  <2>10. log[s - 1].hash = log[m].hash <=> m = s - 1
    BY <2>1, <2>6, <2>8, HashesDiffer
  <2>11. m = s - 1 <=> DOMAIN taken = lo .. s - 1
    <3>1. m \in lo .. m /\ m =< s - 1
      BY <2>5
    <3>2. s - 1 \in lo .. s - 1
      BY <2>5, <3>1
    <3>3. ASSUME lo .. m = lo .. s - 1 PROVE m = s - 1
      <4>1. s - 1 \in lo .. m
        BY <3>2, <3>3
      <4> QED BY <2>5, <3>1, <4>1
    <3> QED BY <3>3
  <2> QED BY <2>4, <2>9, <2>10, <2>11
<1>2. ReaderSpec => []WritersInv
  BY WritersCorrect, ReadersOnlyRead, PTL
<1> QED BY <1>1, <1>2, ReaderInvCorrect, PTL
=============================================================================
